----------------------------- MODULE Chronometer -----------------------------
(***************************************************************************)
(* What the stopwatch module promises, without clocks: a reading in        *)
(* milliseconds that starts at 0, grows only while it runs, stands still   *)
(* while it is paused and goes back only to 0, by a reset.  A resume may   *)
(* move the reading by one millisecond.                                    *)
(***************************************************************************)
EXTENDS Naturals

VARIABLES
  state,    \* "stopped", "running" or "paused"
  reading   \* milliseconds

cvars == <<state, reading>>

Init == state = "stopped" /\ reading = 0

Start == state = "stopped" /\ state' = "running" /\ reading' = 0

Pause == state = "running" /\ state' = "paused" /\ reading' = reading

Resume ==
  /\ state = "paused"
  /\ state' = "running"
  /\ reading' \in {reading, reading + 1}

Advance ==
  /\ state = "running"
  /\ reading' = reading + 1
  /\ UNCHANGED state

Reset == state' = "stopped" /\ reading' = 0

Next == Start \/ Pause \/ Resume \/ Advance \/ Reset

Spec == Init /\ [][Next]_cvars
=============================================================================
