------------------------------ MODULE Stopwatch ------------------------------
(***************************************************************************)
(* StopwatchModule (modules/stopwatch.h).  The steady clock has MsUnits    *)
(* units per millisecond, because every duration is cut to milliseconds:   *)
(* what the casts lose is what the properties are about.  A handler and    *)
(* the update() it ends with read the clock at one instant; later readings *)
(* are those of periodicUpdate.                                            *)
(*                                                                         *)
(* Two variables are not in the code: active, the units the stopwatch has  *)
(* really been running since its start, and resumes, the number of pauses  *)
(* it has come back from.                                                  *)
(***************************************************************************)
EXTENDS Integers

CONSTANTS
  MsUnits,     \* clock units per millisecond
  SecMs,       \* milliseconds per displayed second
  MaxNow,      \* bound: the clock
  MaxResumes,  \* bound: resumes since the start
  Hidden       \* the empty content of timeElement

ASSUME StopwatchAssumption ==
  /\ MsUnits \in Nat \ {0}
  /\ SecMs \in Nat \ {0}
  /\ MaxNow \in Nat
  /\ MaxResumes \in Nat
  /\ Hidden \notin Nat

VARIABLES
  now, startTime, pauseTime, isRunning, isPaused, showDetails,
  accumulatedPauseTime,
  content,     \* timeElement: the seconds shown, or Hidden
  color,       \* the colour of both elements
  active, resumes

vars == <<now, startTime, pauseTime, isRunning, isPaused, showDetails,
          accumulatedPauseTime, content, color, active, resumes>>

(* Type invariant: the elapsed time, a difference of three clock readings, *)
(* is never negative (stopwatch.h).                                        *)
TypeOK ==
  /\ now \in Nat /\ startTime \in Nat /\ pauseTime \in Nat
  /\ isRunning \in BOOLEAN /\ isPaused \in BOOLEAN /\ showDetails \in BOOLEAN
  /\ accumulatedPauseTime \in Nat
  /\ content \in Nat \cup {Hidden}
  /\ color \in {"default", "orange", "green"}
  /\ active \in Nat /\ resumes \in Nat

(* The steady clock is somewhere when the module is constructed; start and *)
(* pause times are those of a zero time_point.                             *)
Init ==
  /\ now = 0 /\ startTime = 0 /\ pauseTime = 0
  /\ isRunning = FALSE /\ isPaused = FALSE /\ showDetails = FALSE
  /\ accumulatedPauseTime = 0
  /\ content = Hidden
  /\ color = "default"
  /\ active = 0 /\ resumes = 0

-----------------------------------------------------------------------------

(* duration_cast<milliseconds>(to - from).count(), never negative here *)
ms(to, from) == (to - from) \div MsUnits

get_elapsed_ms ==
  IF ~isRunning THEN 0
  ELSE IF isPaused THEN ms(pauseTime, startTime) - accumulatedPauseTime
  ELSE ms(now, startTime) - accumulatedPauseTime

applyColors ==
  color' = IF ~isRunning' THEN "default"
           ELSE IF isPaused' THEN "orange" ELSE "green"

(* formatTime and the rest of update(), in the state a handler leaves *)
update ==
  /\ applyColors
  /\ content' = IF showDetails' THEN get_elapsed_ms' \div SecMs ELSE Hidden

(* Mutant: the pause in progress is rounded up.                            *)
playPauseResume_RoundUp ==
  /\ isRunning /\ isPaused /\ resumes < MaxResumes
  /\ accumulatedPauseTime' = accumulatedPauseTime + ms(now, pauseTime) + 1
  /\ isPaused' = FALSE
  /\ resumes' = resumes + 1
  /\ UNCHANGED <<startTime, pauseTime, isRunning, active, now, showDetails>>
  /\ update

(* Mutant: the length of a pause replaces the sum of the earlier ones.     *)
playPauseResume_LastPauseOnly ==
  /\ isRunning /\ isPaused /\ resumes < MaxResumes
  /\ accumulatedPauseTime' = ms(now, pauseTime)
  /\ isPaused' = FALSE
  /\ resumes' = resumes + 1
  /\ UNCHANGED <<startTime, pauseTime, isRunning, active, now, showDetails>>
  /\ update

(* Mutant: the ends of the pause are exchanged.                            *)
playPauseResume_Exchanged ==
  /\ isRunning /\ isPaused /\ resumes < MaxResumes
  /\ accumulatedPauseTime' = accumulatedPauseTime + ms(pauseTime, now)
  /\ isPaused' = FALSE
  /\ resumes' = resumes + 1
  /\ UNCHANGED <<startTime, pauseTime, isRunning, active, now, showDetails>>
  /\ update

(* playPause, one action for each of its three branches *)
playPauseStart ==
  /\ ~isRunning
  /\ startTime' = now
  /\ isRunning' = TRUE
  /\ isPaused' = FALSE
  /\ accumulatedPauseTime' = 0
  /\ active' = 0 /\ resumes' = 0
  /\ UNCHANGED <<pauseTime, now, showDetails>>
  /\ update

playPauseResume ==
  /\ isRunning /\ isPaused /\ resumes < MaxResumes
  /\ accumulatedPauseTime' = accumulatedPauseTime + ms(now, pauseTime)
  /\ isPaused' = FALSE
  /\ resumes' = resumes + 1
  /\ UNCHANGED <<startTime, pauseTime, isRunning, active, now, showDetails>>
  /\ update

playPausePause ==
  /\ isRunning /\ ~isPaused
  /\ pauseTime' = now
  /\ isPaused' = TRUE
  /\ UNCHANGED <<startTime, isRunning, accumulatedPauseTime, active, resumes,
                 now, showDetails>>
  /\ update

reset ==
  /\ isRunning' = FALSE
  /\ isPaused' = FALSE
  /\ accumulatedPauseTime' = 0
  /\ active' = 0 /\ resumes' = 0
  /\ UNCHANGED <<startTime, pauseTime, now, showDetails>>
  /\ update

toggleDetails ==
  /\ showDetails' = ~showDetails
  /\ UNCHANGED <<startTime, pauseTime, isRunning, isPaused,
                 accumulatedPauseTime, active, resumes, now>>
  /\ update

(* the scheduler's update *)
periodicUpdate ==
  /\ UNCHANGED <<startTime, pauseTime, isRunning, isPaused, showDetails,
                 accumulatedPauseTime, active, resumes, now>>
  /\ update

Tick ==
  /\ now < MaxNow
  /\ now' = now + 1
  /\ active' = IF isRunning /\ ~isPaused THEN active + 1 ELSE active
  /\ UNCHANGED <<startTime, pauseTime, isRunning, isPaused, showDetails,
                 accumulatedPauseTime, content, color, resumes>>

Next == \/ playPauseStart \/ playPauseResume \/ playPausePause \/ reset
        \/ toggleDetails \/ periodicUpdate \/ Tick

Spec == Init /\ [][Next]_vars

-----------------------------------------------------------------------------
(* Properties.                                                             *)

(* The elapsed time is never less than the milliseconds really run, and    *)
(* too large by at most one millisecond per resume: each pause is cut to   *)
(* whole milliseconds before it is subtracted (stopwatch.h 35-42, 64).     *)
DriftBounded ==
  isRunning =>
    /\ get_elapsed_ms >= active \div MsUnits
    /\ get_elapsed_ms <= (active \div MsUnits) + resumes

(* The stopwatch implements the abstract chronometer.                      *)
Abstract == INSTANCE Chronometer WITH
  state   <- IF ~isRunning THEN "stopped"
             ELSE IF isPaused THEN "paused" ELSE "running",
  reading <- get_elapsed_ms

ImplementsChronometer == Abstract!Spec
=============================================================================
