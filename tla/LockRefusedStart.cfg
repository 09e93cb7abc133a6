SPECIFICATION Spec
CONSTANTS
  Pids = {p1, p2, p3}
  Modes = {"normal"}
  Serial = TRUE
  Reentrant = FALSE
  NoPid = NoPid
  Absent = Absent
  Empty = Empty
SYMMETRY PidSymmetry
INVARIANT OneInstance
