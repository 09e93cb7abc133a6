-------------------------------- MODULE Timer --------------------------------
(***************************************************************************)
(* TimerModule (modules/timer.h): the countdown and its one notification.  *)
(* As in Stopwatch the clock has MsUnits units per millisecond.  Unlike    *)
(* there, update() is not instantaneous: it calls getRemainingMs for the   *)
(* colour of each element, twice in checkTimerAlert and once for the text, *)
(* and each call reads the steady clock again.  The instants are chosen in *)
(* order, up to MaxSlip units apart; of the colours only that of the last  *)
(* element is kept: if any element is red, that one is.                    *)
(*                                                                         *)
(* Three variables are not in the code: active, the units the countdown    *)
(* has really run; resumes, the pauses it came back from; alerts, the      *)
(* notifications sent since it last was started, paused or reset.          *)
(***************************************************************************)
EXTENDS Integers

CONSTANTS
  MsUnits,     \* clock units per millisecond
  SecMs,       \* milliseconds per displayed second
  Steps,       \* the amounts the six scroll events add, in milliseconds
  MaxTarget,   \* bound: the target
  MaxSlip,     \* bound: units that pass while update() runs
  MaxNow,      \* bound: the clock
  MaxResumes,  \* bound: resumes since the start
  Hidden       \* the empty content of the time elements

ASSUME TimerAssumption ==
  /\ MsUnits \in Nat \ {0} /\ SecMs \in Nat \ {0}
  /\ Steps \subseteq Int
  /\ MaxTarget \in Nat /\ MaxSlip \in Nat /\ MaxNow \in Nat
  /\ MaxResumes \in Nat
  /\ Hidden \notin Nat

VARIABLES
  now, startTime, pauseTime, isRunning, isPaused, showDetails,
  accumulatedPauseTime, targetDurationMs, notificationSent,
  content,     \* hour, minute and second elements: the seconds they show
  color,       \* the colour of the last element
  active, resumes, alerts

vars == <<now, startTime, pauseTime, isRunning, isPaused, showDetails,
          accumulatedPauseTime, targetDurationMs, notificationSent,
          content, color, active, resumes, alerts>>

(* Type invariant: scrolling never makes the target negative (timer.h      *)
(* 58-66).                                                                 *)
TypeOK ==
  /\ now \in Nat /\ startTime \in Nat /\ pauseTime \in Nat
  /\ isRunning \in BOOLEAN /\ isPaused \in BOOLEAN /\ showDetails \in BOOLEAN
  /\ accumulatedPauseTime \in Nat /\ targetDurationMs \in Nat
  /\ notificationSent \in BOOLEAN
  /\ content \in Nat \cup {Hidden}
  /\ color \in {"default", "orange", "red", "green"}
  /\ active \in Nat /\ resumes \in Nat /\ alerts \in Nat

Init ==
  /\ now = 0 /\ startTime = 0 /\ pauseTime = 0
  /\ isRunning = FALSE /\ isPaused = FALSE /\ showDetails = FALSE
  /\ accumulatedPauseTime = 0 /\ targetDurationMs = 0
  /\ notificationSent = FALSE
  /\ content = Hidden /\ color = "default"
  /\ active = 0 /\ resumes = 0 /\ alerts = 0

-----------------------------------------------------------------------------
(* The clock and what is derived from it.                                  *)

ms(to, from) == (to - from) \div MsUnits

(* getRemainingMs called at instant t *)
getRemainingMs(t) ==
  LET until     == IF isPaused THEN pauseTime ELSE t
      remaining == targetDurationMs
                     - (ms(until, startTime) - accumulatedPauseTime)
  IN  IF ~isRunning THEN targetDurationMs
      ELSE IF remaining > 0 THEN remaining ELSE 0

applyColors(t) ==
  color' = IF ~isRunning' THEN "default"
           ELSE IF isPaused' THEN "orange"
           ELSE IF getRemainingMs(t)' = 0 THEN "red" ELSE "green"

(* The alerts counted before this call: a start, a pause and a reset make  *)
(* a new count.                                                            *)
counted == IF isRunning /\ isRunning' /\ ~isPaused' THEN alerts ELSE 0

(* Mutant: the flag is not remembered.                                     *)
checkTimerAlert_NoFlag(t, u) ==
  LET send == getRemainingMs(t)' = 0 /\ isRunning' /\ ~isPaused'
  IN  /\ notificationSent' = FALSE
      /\ alerts' = IF send THEN counted + 1 ELSE counted

(* The test at instant t and the reset of the flag at instant u.           *)
checkTimerAlert(t, u) ==
  LET send  == /\ getRemainingMs(t)' = 0
               /\ isRunning' /\ ~isPaused'
               /\ ~notificationSent
      rearm == getRemainingMs(u)' > 0 \/ ~isRunning' \/ isPaused'
  IN  /\ notificationSent' = ((notificationSent \/ send) /\ ~rearm)
      /\ alerts' = IF send THEN counted + 1 ELSE counted

(* Mutant: the alert is checked before the colours are computed.           *)
update_AlertFirst ==
  \E a, b, c, s \in now .. (now + MaxSlip) :
    /\ a <= b /\ b <= c /\ c <= s /\ s <= MaxNow
    /\ checkTimerAlert(a, b)
    /\ applyColors(c)
    /\ content' = IF showDetails' THEN getRemainingMs(s)' \div SecMs ELSE Hidden
    /\ now' = s

(* update(), in the state its caller leaves: now advances to the instant   *)
(* of its last reading.                                                    *)
update ==
  \E c, a, b, s \in now .. (now + MaxSlip) :
    /\ c <= a /\ a <= b /\ b <= s /\ s <= MaxNow
    /\ applyColors(c)
    /\ checkTimerAlert(a, b)
    /\ content' = IF showDetails' THEN getRemainingMs(s)' \div SecMs ELSE Hidden
    /\ now' = s

(* The units of an update() during which the countdown runs.               *)
runs(from) == from + (IF isRunning' /\ ~isPaused' THEN now' - now ELSE 0)

-----------------------------------------------------------------------------
(* The handlers.                                                           *)

adjustTime(ms_) ==
  /\ ~isRunning
  /\ targetDurationMs' = IF targetDurationMs + ms_ < 0
                         THEN 0 ELSE targetDurationMs + ms_
  /\ targetDurationMs' <= MaxTarget
  /\ UNCHANGED <<startTime, pauseTime, isRunning, isPaused, showDetails,
                 accumulatedPauseTime, active, resumes>>
  /\ update

(* playPause, one action for each branch; the first does nothing but the   *)
(* update when there is no time to count down.                             *)
playPauseNothing ==
  /\ ~isRunning /\ targetDurationMs = 0
  /\ UNCHANGED <<startTime, pauseTime, isRunning, isPaused, showDetails,
                 accumulatedPauseTime, targetDurationMs, active, resumes>>
  /\ update

playPauseStart ==
  /\ ~isRunning /\ targetDurationMs > 0
  /\ startTime' = now
  /\ isRunning' = TRUE /\ isPaused' = FALSE
  /\ accumulatedPauseTime' = 0
  /\ resumes' = 0
  /\ UNCHANGED <<pauseTime, showDetails, targetDurationMs>>
  /\ update
  /\ active' = runs(0)

(* Mutant: the pauses are counted twice from the second one on.            *)
playPauseResume_FromStart ==
  /\ isRunning /\ isPaused /\ resumes < MaxResumes
  /\ accumulatedPauseTime' = accumulatedPauseTime + ms(now, startTime)
  /\ isPaused' = FALSE
  /\ resumes' = resumes + 1
  /\ UNCHANGED <<startTime, pauseTime, isRunning, showDetails,
                 targetDurationMs>>
  /\ update
  /\ active' = runs(active)

(* Mutant: a resume forgets the pause.                                     *)
playPauseResume_NoAccumulate ==
  /\ isRunning /\ isPaused /\ resumes < MaxResumes
  /\ isPaused' = FALSE
  /\ resumes' = resumes + 1
  /\ UNCHANGED <<startTime, pauseTime, isRunning, showDetails,
                 accumulatedPauseTime, targetDurationMs>>
  /\ update
  /\ active' = runs(active)

playPauseResume ==
  /\ isRunning /\ isPaused /\ resumes < MaxResumes
  /\ accumulatedPauseTime' = accumulatedPauseTime + ms(now, pauseTime)
  /\ isPaused' = FALSE
  /\ resumes' = resumes + 1
  /\ UNCHANGED <<startTime, pauseTime, isRunning, showDetails,
                 targetDurationMs>>
  /\ update
  /\ active' = runs(active)

playPausePause ==
  /\ isRunning /\ ~isPaused
  /\ pauseTime' = now
  /\ isPaused' = TRUE
  /\ UNCHANGED <<startTime, isRunning, showDetails, accumulatedPauseTime,
                 targetDurationMs, active, resumes>>
  /\ update

(* reset returns at once while time is left and runs down *)
reset ==
  /\ ~(isRunning /\ ~isPaused /\ getRemainingMs(now) > 0)
  /\ accumulatedPauseTime' = 0
  /\ targetDurationMs' = 0
  /\ isRunning' = FALSE /\ isPaused' = FALSE
  /\ resumes' = 0 /\ active' = 0
  /\ UNCHANGED <<startTime, pauseTime, showDetails>>
  /\ update

toggleDetails ==
  /\ showDetails' = ~showDetails
  /\ UNCHANGED <<startTime, pauseTime, isRunning, isPaused,
                 accumulatedPauseTime, targetDurationMs, resumes>>
  /\ update
  /\ active' = runs(active)

(* Mutant: a timer whose details are hidden is not updated.                *)
periodicUpdate_OnlyShown ==
  /\ showDetails
  /\ UNCHANGED <<startTime, pauseTime, isRunning, isPaused, showDetails,
                 accumulatedPauseTime, targetDurationMs, resumes>>
  /\ update
  /\ active' = runs(active)

(* the scheduler's update *)
periodicUpdate ==
  /\ UNCHANGED <<startTime, pauseTime, isRunning, isPaused, showDetails,
                 accumulatedPauseTime, targetDurationMs, resumes>>
  /\ update
  /\ active' = runs(active)

Tick ==
  /\ now < MaxNow
  /\ now' = now + 1
  /\ UNCHANGED <<startTime, pauseTime, isRunning, isPaused, showDetails,
                 accumulatedPauseTime, targetDurationMs, notificationSent,
                 content, color, resumes, alerts>>
  /\ active' = runs(active)

Next ==
  \/ \E d \in Steps : adjustTime(d)
  \/ playPauseNothing \/ playPauseStart \/ playPauseResume \/ playPausePause
  \/ reset \/ toggleDetails \/ periodicUpdate \/ Tick

Spec == Init /\ [][Next]_vars

(* The scheduler calls update() every second (BarLoop, DueUpdated).        *)
FairSpec == Spec /\ WF_vars(periodicUpdate)

-----------------------------------------------------------------------------
(* Properties.                                                             *)

(* At most one notification for each run of the countdown, although every  *)
(* update() and every handler calls checkTimerAlert (timer.h 186-201).     *)
OneAlert == alerts <= 1

(* The notification is early by less than a millisecond for each pause.    *)
AlertNotEarly ==
  alerts > 0 =>
    active + resumes * (MsUnits - 1) >= targetDurationMs * MsUnits

(* A timer that has turned red has notified, although the colour is        *)
(* computed first and from another reading of the clock.                   *)
RedIsAlerted == color = "red" => alerts = 1

(* The remaining time never grows while the countdown is on, across its    *)
(* pauses too: a red timer does not turn green again.                      *)
NeverBack ==
  [][isRunning /\ isRunning' => getRemainingMs(now)' <= getRemainingMs(now)]_vars

(* A countdown that has run its time is notified, unless it is paused or   *)
(* reset before an update() sees it.                                       *)
ExpiryAlerts ==
  (isRunning /\ ~isPaused /\ active >= targetDurationMs * MsUnits)
    ~> (alerts = 1 \/ isPaused \/ ~isRunning)
=============================================================================
