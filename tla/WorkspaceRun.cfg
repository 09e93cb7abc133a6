SPECIFICATION FairSpec
CONSTANTS
  Names <- MCNames
  MaxChanges = 2
  MaxEnds = 1
  MaxClicks = 1
INVARIANTS DrawnFresh
PROPERTIES Converges EmptyForEver LostConnectionEnds
