SPECIFICATION FairSpec
CONSTANTS
  MsUnits = 2
  SecMs = 2
  Steps <- MCSteps
  MaxTarget = 4
  MaxSlip = 1
  MaxNow = 12
  MaxResumes = 2
  Hidden = Hidden
INVARIANTS OneAlert AlertNotEarly RedIsAlerted
PROPERTIES NeverBack ExpiryAlerts
