SPECIFICATION BatteryFairSpec
CONSTANTS
  Full = 40
  Energies <- MCEnergies
  Low = 20
  Ok = 25
  Removable = TRUE
INVARIANTS RedIsAlerted
PROPERTIES AlertAfterRecovery CriticalAlerted
