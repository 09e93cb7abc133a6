SPECIFICATION LifeFairSpec
CONSTANTS
  MayFail = {"workspace", "audio", "weather"}
  MaxSpurious = 2
  None = None
CHECK_DEADLOCK FALSE
INVARIANTS BottomAfterTop DestroyedUnused
PROPERTY BottomStarts
