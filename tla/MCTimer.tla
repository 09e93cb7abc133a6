------------------------------ MODULE MCTimer ------------------------------
(* The six scroll steps with an hour and a minute cut to two seconds.       *)
EXTENDS Timer

MCSteps == {SecMs, -SecMs, 2 * SecMs, -2 * SecMs}
=============================================================================
