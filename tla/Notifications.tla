---------------------------- MODULE Notifications ----------------------------
(***************************************************************************)
(* NotificationsModule (modules/notifications.h) and dunst, which it asks  *)
(* and tells through dunstctl: each question is a process of its own, and  *)
(* dunst, which others use too, may change between them.                   *)
(***************************************************************************)
EXTENDS Naturals

CONSTANTS
  MaxWaiting   \* bound: notifications dunst holds back

VARIABLES
  paused, waiting,   \* dunst's state
  isPaused, waitingCount,
  content            \* what the element says: paused, and how many wait if any

dunst == <<paused, waiting>>
state == <<isPaused, waitingCount>>

Said == {<<FALSE>>} \cup ({TRUE} \X (0..MaxWaiting))

TypeOK ==
  /\ paused \in BOOLEAN /\ isPaused \in BOOLEAN
  /\ waiting \in 0..MaxWaiting /\ waitingCount \in 0..MaxWaiting
  /\ content \in Said

(* What updateVisuals makes of a state *)
says(p, n) == IF p THEN <<TRUE, n>> ELSE <<FALSE>>

Init ==
  /\ paused \in BOOLEAN /\ waiting \in IF paused THEN 0..MaxWaiting ELSE {0}
  /\ isPaused = FALSE /\ waitingCount = 0
  /\ content = <<FALSE>>

-----------------------------------------------------------------------------
(* updateState, its two questions.  If popen fails the old value stays; if *)
(* dunst does not answer, the output is empty.                             *)

Outcomes == {"answered", "notRun", "silent"}

(* Mutant: a question whose answer was yes is not asked again.             *)
askPaused_Kept(how) ==
  /\ isPaused' = (isPaused \/ (how = "answered" /\ paused))
  /\ UNCHANGED <<dunst, waitingCount, content>>

askPaused(how) ==
  /\ isPaused' = CASE how = "answered" -> paused
                   [] how = "notRun"  -> isPaused
                   [] how = "silent"   -> FALSE
  /\ UNCHANGED <<dunst, waitingCount, content>>

askWaiting(how) ==
  /\ waitingCount' = CASE how = "answered" -> waiting
                       [] how = "notRun"  -> waitingCount
                       [] how = "silent"   -> 0
  /\ UNCHANGED <<dunst, isPaused, content>>

updateVisuals ==
  /\ content' = says(isPaused, waitingCount)
  /\ UNCHANGED <<dunst, state>>

(* dunstctl set-paused toggle; dunst shows what waited *)
toggle ==
  /\ paused' = ~paused
  /\ waiting' = 0
  /\ UNCHANGED <<state, content>>

-----------------------------------------------------------------------------

(* Another program toggles, or a notification comes while dunst is paused. *)
DunstChanges ==
  \/ toggle
  \/ /\ paused /\ waiting < MaxWaiting
     /\ waiting' = waiting + 1
     /\ UNCHANGED <<paused, state, content>>
=============================================================================
