--------------------------- MODULE MCInstanceLock ---------------------------
(* InstanceLock with pids as model values; the pids are interchangeable.   *)
EXTENDS InstanceLock, TLC

PidSymmetry == Permutations(Pids)
=============================================================================
