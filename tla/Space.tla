------------------------------- MODULE Space -------------------------------
(***************************************************************************)
(* SpaceModule (modules/space.h): the free space of the partition in two   *)
(* of its three display modes, the share in use in the other; the value,   *)
(* 0 after a statvfs that failed, is left out.                             *)
(***************************************************************************)
EXTENDS Naturals

CONSTANTS Interval   \* secondsPerUpdate

VARIABLES
  now, displayMode, lastUpdate,
  content     \* what is shown: "", "free" or "used"

TypeOK ==
  /\ displayMode \in 0..2 /\ lastUpdate \in Nat
  /\ content \in {"", "free", "used"}

Init == displayMode = 0 /\ lastUpdate = 0 /\ content = ""

update ==
  /\ content' = IF displayMode' = 2 THEN "used" ELSE "free"
  /\ lastUpdate' = now

shouldUpdate == lastUpdate = 0 \/ now - lastUpdate >= Interval

(* the left and the right click, on an element that has been drawn *)
click ==
  /\ content # ""
  /\ displayMode' = (displayMode + 1) % 3
  /\ update
=============================================================================
