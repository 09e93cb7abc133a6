----------------------------- MODULE MCBarLoop -----------------------------
(* BarLoop for TLC.  Two modules stand for a bar: the workspace module,    *)
(* which is updated with every pass, and one updated every two seconds.    *)
EXTENDS BarLoop

CONSTANTS ws, slow

MCMods == {ws, slow}
MCPeriod == [m \in Mods |-> IF m = slow THEN 2 ELSE 1]
=============================================================================
