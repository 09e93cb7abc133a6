SPECIFICATION Spec
CONSTANTS
  MsUnits = 3
  SecMs = 2
  MaxNow = 12
  MaxResumes = 2
  Hidden = Hidden
INVARIANTS TypeOK DriftBounded
PROPERTIES ImplementsChronometer
