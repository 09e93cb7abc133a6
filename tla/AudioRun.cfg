SPECIFICATION AudioFairSpec
CONSTANTS
  s1 = s1
  s2 = s2
  NoSink = NoSink
  Sinks <- MCSinks
  Bluetooth <- MCBluetooth
  Raw <- MCRaw
  Levels <- MCLevels
  Norm = 65536
  Gate = 1
  BatteryPeriod = 2
  MaxChanges = 2
  MaxClicks = 2
INVARIANTS ScrollMoves
PROPERTIES ShowsDefault
