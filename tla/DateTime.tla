------------------------------ MODULE DateTime ------------------------------
(***************************************************************************)
(* DateTimeModule (modules/datetime.h): the clock of the top bar, with or  *)
(* without the time of day.  A text is the second it was made in.  The     *)
(* time of day that is left behind the date when it is switched off (the   *)
(* content is overwritten in part and not terminated) is not modelled.     *)
(***************************************************************************)
EXTENDS Integers

CONSTANTS
  Minute,   \* seconds in a minute, the interval without the time of day
  Never     \* no second: -1 in lastSec and the others, no text in content

VARIABLES
  now,               \* time(nullptr)
  showHour, secondsPerUpdate,
  last,              \* lastSec ... lastYear: the second of the last text
  lastUpdate,
  date               \* the content


TypeOK ==
  /\ showHour \in BOOLEAN /\ secondsPerUpdate \in {1, Minute}
  /\ last \in Nat \cup {Never} /\ lastUpdate \in Nat \cup {Never}
  /\ date \in Nat \cup {Never}

Init ==
  /\ showHour = TRUE /\ secondsPerUpdate = 1
  /\ last = Never /\ lastUpdate = Never
  /\ date = Never

-----------------------------------------------------------------------------

(* update(): nothing is done in the second of the last text *)
doUpdate ==
  IF last = now
  THEN UNCHANGED <<last, lastUpdate, date>>
  ELSE /\ last' = now
       /\ date' = now
       /\ lastUpdate' = now

(* lastUpdate is 0, long ago, before the first update *)
shouldUpdate == lastUpdate = Never \/ now - lastUpdate >= secondsPerUpdate

(* the scheduler's turn *)
checkAndUpdate ==
  /\ UNCHANGED <<showHour, secondsPerUpdate>>
  /\ IF shouldUpdate THEN doUpdate ELSE UNCHANGED <<last, lastUpdate, date>>

(* Mutant: the click leaves the text to the scheduler.                     *)
click_NoUpdate ==
  /\ date # Never
  /\ showHour' = ~showHour
  /\ secondsPerUpdate' = IF showHour' THEN 1 ELSE Minute
  /\ UNCHANGED <<last, lastUpdate, date>>

(* the left click, on an element that has been drawn *)
click ==
  /\ date # Never
  /\ showHour' = ~showHour
  /\ secondsPerUpdate' = IF showHour' THEN 1 ELSE Minute
  /\ doUpdate
=============================================================================
