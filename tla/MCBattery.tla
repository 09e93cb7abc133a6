----------------------------- MODULE MCBattery -----------------------------
(* Battery for TLC: 17.5 to 27.5 percent of 40, with 20 and 25 among them. *)
EXTENDS Battery

MCEnergies == 7 .. 11
=============================================================================
