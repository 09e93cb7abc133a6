SPECIFICATION FairSpec
CONSTANTS
  Pids = {p1, p2}
  Modes = {"normal", "restart", "nolock", "kill"}
  Serial = FALSE
  Reentrant = TRUE
  NoPid = NoPid
  Absent = Absent
  Empty = Empty
INVARIANTS TypeOK OneInstanceWhenTidy LockNamesRunner
PROPERTY StartSettles
