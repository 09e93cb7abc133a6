---------------------------- MODULE MCStopwatch ----------------------------
(* Stopwatch for TLC: three units per millisecond, two ms per second.      *)
EXTENDS Stopwatch
=============================================================================
