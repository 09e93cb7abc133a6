----------------------------- MODULE Timer_proof -----------------------------
(***************************************************************************)
(* Theorems about Timer, for any resolution of the clock, any scroll steps *)
(* and any bounds: one notification for each run of the countdown, which   *)
(* is not early, no red timer without it, and a remaining time that never  *)
(* grows.  The countdown is measured as the stopwatch is: the clock, or    *)
(* the pause in progress, is ahead of the start by the active time, the    *)
(* accumulated pauses in whole milliseconds, and what cutting them lost.   *)
(***************************************************************************)
EXTENDS Timer, TLAPS

until == IF isPaused THEN pauseTime ELSE now

(* clock units of finished pauses that accumulatedPauseTime does not hold *)
lost == until - startTime - active - accumulatedPauseTime * MsUnits

Types ==
  /\ now \in Nat /\ startTime \in Nat /\ pauseTime \in Nat
  /\ isRunning \in BOOLEAN /\ isPaused \in BOOLEAN /\ showDetails \in BOOLEAN
  /\ accumulatedPauseTime \in Nat /\ targetDurationMs \in Nat
  /\ active \in Nat /\ resumes \in Nat

Core ==
  /\ Types
  /\ isPaused => isRunning /\ startTime <= pauseTime /\ pauseTime <= now
  /\ isRunning => lost \in Nat /\ lost <= resumes * MsUnits - resumes

(* The countdown has come to its end at instant t; no division is needed   *)
(* to say so.                                                              *)
expired(t) ==
  (targetDurationMs + accumulatedPauseTime) * MsUnits <= t - startTime

(* The flag and the count say the same, and say it only of a countdown     *)
(* that is on and has come to its end.                                     *)
Alerted ==
  /\ notificationSent \in BOOLEAN
  /\ alerts = IF notificationSent THEN 1 ELSE 0
  /\ notificationSent => isRunning /\ ~isPaused /\ expired(now)
  /\ color \in {"default", "orange", "red", "green"}
  /\ color = "red" => notificationSent

IInv == Core /\ Alerted
-----------------------------------------------------------------------------

(* What a duration cut to milliseconds is: the largest number of them that *)
(* the duration holds.                                                     *)
LEMMA Quotient ==
  ASSUME NEW x \in Int, NEW U \in Nat \ {0}
  PROVE  /\ x \div U \in Int /\ (x \div U) * U <= x /\ x < (x \div U) * U + U
         /\ \A q \in Int : q * U <= x <=> q <= x \div U
         /\ x \in Nat => x \div U \in Nat
<1> DEFINE p == x \div U
<1>1. p \in Int /\ p * U <= x /\ x < p * U + U
  OBVIOUS
<1> HIDE DEF p
<1>2. ASSUME NEW q \in Int PROVE q * U <= x <=> q <= p
  <2>1. CASE q <= p
    <3>1. PICK k \in Nat : p = q + k
      <4>1. p - q \in Nat
        BY <1>1, <2>1
      <4> QED
        BY <1>1, <4>1
    <3>2. p * U = q * U + k * U /\ k * U \in Nat /\ q * U \in Int
      BY <3>1
    <3> QED
      BY <1>1, <2>1, <3>2
  <2>2. CASE ~(q <= p)
    <3>1. PICK k \in Nat : q = p + 1 + k
      <4>1. q - p - 1 \in Nat
        BY <1>1, <2>2
      <4> QED
        BY <1>1, <4>1
    <3>2. q * U = p * U + U + k * U /\ k * U \in Nat /\ p * U \in Int
      BY <1>1, <3>1
    <3> QED
      BY <1>1, <2>2, <3>2
  <2> QED
    BY <2>1, <2>2
<1>3. x \in Nat => p \in Nat
  <2>1. 0 * U <= x <=> 0 <= p
    BY <1>2
  <2> QED
    BY <1>1, <2>1
<1>4. p = x \div U
  BY DEF p
<1> QED
  BY <1>1, <1>2, <1>3, <1>4

(* The remaining time is zero from the millisecond on that ends the target *)
(* and the pauses.                                                         *)
LEMMA RemainingEnds ==
  ASSUME NEW T \in Nat, NEW A \in Nat, NEW e \in Int, NEW U \in Nat \ {0}
  PROVE  /\ T - ((e \div U) - A) \in Int
         /\ T - ((e \div U) - A) > 0 <=> ~((T + A) * U <= e)
<1> DEFINE q == e \div U
<1>1. q \in Int
  BY Quotient
<1>2. (T + A) * U <= e <=> T + A <= q
  BY Quotient
<1> HIDE DEF q
<1>3. T - (q - A) \in Int /\ (T - (q - A) > 0 <=> ~(T + A <= q))
  BY <1>1
<1> QED
  BY <1>2, <1>3 DEF q

(* What update() reads at instant t while the countdown runs.              *)
LEMMA RemainingAt ==
  ASSUME Types', isRunning', ~isPaused', NEW t \in Nat
  PROVE  /\ getRemainingMs(t)' \in Nat
         /\ getRemainingMs(t)' = 0 <=> expired(t)'
         /\ getRemainingMs(t)' > 0 <=> ~expired(t)'
<1> DEFINE T == targetDurationMs'
           A == accumulatedPauseTime'
           e == t - startTime'
           rem == T - ((e \div MsUnits) - A)
<1>1. T \in Nat /\ A \in Nat /\ e \in Int /\ MsUnits \in Nat \ {0}
  BY TimerAssumption DEF Types
<1>2. rem \in Int /\ (rem > 0 <=> ~((T + A) * MsUnits <= e))
  BY <1>1, RemainingEnds
<1>3. getRemainingMs(t)' = IF rem > 0 THEN rem ELSE 0
  BY DEF getRemainingMs, ms
<1>4. expired(t)' <=> (T + A) * MsUnits <= e
  BY DEF expired
<1> HIDE DEF rem, T, A, e
<1> QED
  BY <1>2, <1>3, <1>4

(* update() keeps the flag and the count together.  Of its caller it asks  *)
(* that a countdown that was notified is stopped, paused or left alone.    *)
LEMMA UpdateAlerts ==
  ASSUME Types', Alerted, now \in Nat, update,
         notificationSent /\ isRunning' /\ ~isPaused' =>
           UNCHANGED <<startTime, accumulatedPauseTime, targetDurationMs>>
  PROVE  Alerted'
<1>1. PICK c, a, b, s \in now .. (now + MaxSlip) :
        /\ c <= a /\ a <= b /\ b <= s
        /\ applyColors(c)
        /\ checkTimerAlert(a, b)
        /\ now' = s
  BY DEF update
<1>2. c \in Nat /\ a \in Nat /\ b \in Nat /\ s \in Nat /\ now <= a
  BY <1>1, TimerAssumption
<1>3. CASE ~isRunning' \/ isPaused'
  <2>1. notificationSent' = FALSE
    BY <1>1, <1>3, Zenon DEF checkTimerAlert
  <2>2. alerts' = 0
    BY <1>1, <1>3, Zenon DEF checkTimerAlert, counted
  <2>3. color' \in {"default", "orange"}
    BY <1>1, <1>3 DEF applyColors
  <2> QED
    BY <2>1, <2>2, <2>3 DEF Alerted
<1>4. CASE isRunning' /\ ~isPaused'
  <2> DEFINE x == ((targetDurationMs + accumulatedPauseTime) * MsUnits)'
             z == startTime'
  <2>1. x \in Int /\ z \in Int
    BY TimerAssumption DEF Types
  <2>2. \A t \in Nat : expired(t)' <=> x <= t - z
    BY DEF expired
  <2> HIDE DEF x, z
  <2>3. expired(c)' => expired(a)'
    BY <1>1, <1>2, <2>1, <2>2
  <2>4. expired(a)' => expired(b)'
    BY <1>1, <1>2, <2>1, <2>2
  <2>5. expired(b)' => expired(s)'
    BY <1>1, <1>2, <2>1, <2>2
  <2>6. notificationSent => expired(a)'
    <3>1. notificationSent => expired(now) /\ (expired(now) <=> x <= now - z)
      BY <1>4 DEF Alerted, expired, x, z
    <3> QED
      BY <1>2, <2>1, <2>2, <3>1
  <2>7. /\ getRemainingMs(c)' = 0 <=> expired(c)'
        /\ getRemainingMs(a)' = 0 <=> expired(a)'
        /\ getRemainingMs(b)' > 0 <=> ~expired(b)'
    BY <1>2, <1>4, RemainingAt
  <2>8. notificationSent' <=> (notificationSent \/ expired(a)') /\ expired(b)'
    BY <1>1, <1>4, <2>7 DEF checkTimerAlert
  <2>9. notificationSent' \in BOOLEAN /\ (notificationSent' <=> expired(a)' /\ expired(b)')
    BY <1>1, <2>6, <2>8 DEF checkTimerAlert
  <2>10. alerts' = IF expired(a)' THEN 1 ELSE 0
    <3>1. CASE notificationSent
      BY <1>1, <1>4, <2>6, <3>1 DEF checkTimerAlert, counted, Alerted
    <3>2. CASE ~notificationSent
      BY <1>1, <1>4, <2>7, <3>2 DEF checkTimerAlert, counted, Alerted
    <3> QED
      BY <3>1, <3>2
  <2>11. color' = IF expired(c)' THEN "red" ELSE "green"
    BY <1>1, <1>4, <2>7 DEF applyColors
  <2>12. expired(now)' <=> expired(s)'
    BY <1>1 DEF expired
  <2> HIDE DEF expired
  <2> QED
    BY <1>4, <2>3, <2>4, <2>5, <2>9, <2>10, <2>11, <2>12 DEF Alerted
<1> QED
  BY <1>3, <1>4

(* How far update() has moved the clock.                                   *)
LEMMA UpdateClock ==
  ASSUME update, now \in Nat
  PROVE  \E k \in Nat : now' = now + k
<1>1. PICK s \in now .. (now + MaxSlip) : now' = s
  BY DEF update
<1>2. s - now \in Nat /\ s = now + (s - now)
  BY <1>1, TimerAssumption
<1> QED
  BY <1>1, <1>2

(* A resume adds the remainder of the pause, less than a millisecond.      *)
LEMMA ResumeLoses ==
  ASSUME Core, playPauseResume
  PROVE  /\ accumulatedPauseTime' \in Nat
         /\ lost' \in Nat
         /\ lost' <= lost + MsUnits - 1
<1> DEFINE d == now - pauseTime
           q == d \div MsUnits
<1>1. /\ MsUnits \in Nat \ {0} /\ now \in Nat /\ pauseTime \in Nat
      /\ startTime \in Nat /\ active \in Nat /\ accumulatedPauseTime \in Nat
      /\ pauseTime <= now /\ lost \in Nat /\ d \in Nat
  BY TimerAssumption DEF Core, Types, playPauseResume
<1>2. q \in Nat /\ q * MsUnits <= d /\ d < q * MsUnits + MsUnits
  BY <1>1, Quotient
<1>3. /\ accumulatedPauseTime' = accumulatedPauseTime + q
      /\ active' = active + (now' - now) /\ startTime' = startTime
      /\ isPaused /\ ~isPaused'
  BY DEF playPauseResume, ms, runs
<1>4. PICK k \in Nat : now' = now + k
  BY <1>1, UpdateClock DEF playPauseResume
<1>5. lost = pauseTime - startTime - active - accumulatedPauseTime * MsUnits
  BY <1>3 DEF lost, until
<1>6. lost' = now' - startTime - active' - accumulatedPauseTime' * MsUnits
  BY <1>3 DEF lost, until
<1>7. accumulatedPauseTime' * MsUnits = accumulatedPauseTime * MsUnits + q * MsUnits
  <2> HIDE DEF q
  <2> QED
    BY <1>1, <1>2, <1>3
<1>8. accumulatedPauseTime * MsUnits \in Int /\ q * MsUnits \in Int
  BY <1>1, <1>2
<1>9. lost' = lost + d - q * MsUnits
  <2> DEFINE x == accumulatedPauseTime * MsUnits
             y == q * MsUnits
             z == accumulatedPauseTime' * MsUnits
  <2>1. x \in Int /\ y \in Int /\ z = x + y
    BY <1>7, <1>8
  <2>2. lost = pauseTime - startTime - active - x /\ lost' = now' - startTime - active' - z
    BY <1>5, <1>6
  <2> HIDE DEF x, y, z
  <2> QED
    BY <1>1, <1>3, <1>4, <2>1, <2>2 DEF y
<1> QED
  BY <1>1, <1>2, <1>3, <1>8, <1>9

(* While update() runs, the active time keeps pace with the clock: nothing *)
(* is lost but by a resume.                                                *)
LEMMA SameLoss ==
  ASSUME Core, NEW k \in Nat, now' = now + k,
         active' = IF isRunning /\ ~isPaused THEN active + k ELSE active,
         UNCHANGED <<startTime, pauseTime, isRunning, isPaused, accumulatedPauseTime>>
  PROVE  isRunning => lost' = lost
<1> DEFINE x == accumulatedPauseTime * MsUnits
<1>1. x \in Int /\ accumulatedPauseTime' * MsUnits = x
  BY TimerAssumption DEF Core, Types
<1> HIDE DEF x
<1>2. lost = until - startTime - active - x
  BY DEF lost, x
<1>3. lost' = until' - startTime - active' - x
  BY <1>1 DEF lost
<1>4. CASE isPaused
  BY <1>1, <1>2, <1>3, <1>4 DEF until, Core, Types
<1>5. CASE ~isPaused
  BY <1>1, <1>2, <1>3, <1>5 DEF until, Core, Types
<1> QED
  BY <1>4, <1>5

(* Core is inductive, action by action.                                    *)
LEMMA CoreStep == Core /\ [Next]_vars => Core'
<1> SUFFICES ASSUME Core, [Next]_vars PROVE Core'
  OBVIOUS
<1>0. /\ MsUnits \in Nat \ {0} /\ Steps \subseteq Int /\ now \in Nat
      /\ accumulatedPauseTime * MsUnits \in Nat
  BY TimerAssumption DEF Core, Types
<1>1. CASE \E d \in Steps : adjustTime(d)
  <2>1. PICK d \in Steps : adjustTime(d)
    BY <1>1
  <2>2. targetDurationMs' \in Nat
    BY <1>0, <2>1 DEF adjustTime, Core, Types
  <2>3. PICK k \in Nat : now' = now + k
    BY <1>0, <2>1, UpdateClock DEF adjustTime
  <2> QED
    BY <2>1, <2>2, <2>3 DEF adjustTime, Core, Types
<1>2. CASE playPauseNothing
  <2>1. PICK k \in Nat : now' = now + k
    BY <1>0, <1>2, UpdateClock DEF playPauseNothing
  <2> QED
    BY <1>2, <2>1 DEF playPauseNothing, Core, Types
<1>3. CASE playPauseStart
  <2>1. PICK k \in Nat : now' = now + k
    BY <1>0, <1>3, UpdateClock DEF playPauseStart
  <2>2. active' = k
    <3>1. active' = 0 + (now' - now)
      BY <1>3 DEF playPauseStart, runs
    <3> QED
      BY <1>0, <2>1, <3>1
  <2>3. Types' /\ isRunning' /\ ~isPaused' /\ resumes' = 0
    <3>1. /\ UNCHANGED <<pauseTime, showDetails, targetDurationMs>>
          /\ startTime' = now /\ accumulatedPauseTime' = 0
          /\ isRunning' = TRUE /\ isPaused' = FALSE /\ resumes' = 0
      BY <1>3 DEF playPauseStart
    <3>2. now' \in Nat
      BY <1>0, <2>1
    <3> QED
      BY <2>2, <3>1, <3>2 DEF Core, Types
  <2>4. lost' = 0
    <3>1. startTime' = now /\ ~isPaused' /\ accumulatedPauseTime' = 0
      BY <1>3 DEF playPauseStart
    <3>2. lost' = (now + k) - now - k - 0 * MsUnits
      BY <2>1, <2>2, <3>1 DEF lost, until
    <3> QED
      BY <1>0, <2>1, <3>2
  <2> QED
    BY <1>0, <2>3, <2>4 DEF Core
<1>4. CASE playPauseResume
  <2>1. PICK k \in Nat : now' = now + k
    BY <1>0, <1>4, UpdateClock DEF playPauseResume
  <2>2. /\ lost' \in Nat /\ lost' <= lost + MsUnits - 1
        /\ accumulatedPauseTime' \in Nat
    BY <1>4, ResumeLoses
  <2>3. active' \in Nat
    <3>1. active' = active + (now' - now)
      BY <1>4 DEF playPauseResume, runs
    <3>2. active \in Nat
      BY DEF Core, Types
    <3> QED
      BY <1>0, <2>1, <3>1, <3>2
  <2>4. Types' /\ ~isPaused' /\ resumes' = resumes + 1
    <3>1. /\ UNCHANGED <<startTime, pauseTime, isRunning, showDetails, targetDurationMs>>
          /\ isPaused' = FALSE /\ resumes' = resumes + 1
      BY <1>4 DEF playPauseResume
    <3>2. now' \in Nat
      BY <1>0, <2>1
    <3>3. resumes' \in Nat
      BY <3>1 DEF Core, Types
    <3>4. accumulatedPauseTime' \in Nat
      BY <2>2
    <3> QED
      BY <2>3, <3>1, <3>2, <3>3, <3>4 DEF Core, Types
  <2>5. lost \in Nat /\ lost <= resumes * MsUnits - resumes /\ resumes \in Nat
    BY <1>4 DEF Core, Types, playPauseResume
  <2>6. (resumes + 1) * MsUnits = resumes * MsUnits + MsUnits /\ resumes * MsUnits \in Nat
    BY <1>0, <2>5
  <2>7. lost' <= (resumes + 1) * MsUnits - (resumes + 1)
    BY <1>0, <2>2, <2>5, <2>6
  <2> QED
    BY <2>2, <2>4, <2>7 DEF Core
<1>5. CASE playPausePause
  <2>1. PICK k \in Nat : now' = now + k
    BY <1>0, <1>5, UpdateClock DEF playPausePause
  <2>2. Types' /\ resumes' = resumes
    BY <1>5, <2>1 DEF Core, Types, playPausePause
  <2>3. lost' = lost
    BY <1>5 DEF playPausePause, lost, until
  <2>4. startTime <= now
    <3>1. now = startTime + active + accumulatedPauseTime * MsUnits + lost
      BY <1>0, <1>5 DEF Core, Types, playPausePause, lost, until
    <3>2. lost \in Nat
      BY <1>5 DEF Core, playPausePause
    <3> QED
      BY <1>0, <3>1, <3>2 DEF Core, Types
  <2> QED
    BY <1>5, <2>1, <2>2, <2>3, <2>4 DEF Core, Types, playPausePause
<1>6. CASE reset
  <2>1. PICK k \in Nat : now' = now + k
    BY <1>0, <1>6, UpdateClock DEF reset
  <2> QED
    <3>1. /\ UNCHANGED <<startTime, pauseTime, showDetails>>
          /\ accumulatedPauseTime' = 0 /\ targetDurationMs' = 0
          /\ isRunning' = FALSE /\ isPaused' = FALSE /\ resumes' = 0 /\ active' = 0
      BY <1>6 DEF reset
    <3>2. now' \in Nat
      BY <1>0, <2>1
    <3> QED
      BY <3>1, <3>2 DEF Core, Types
<1>7. CASE toggleDetails \/ periodicUpdate \/ Tick
  <2>1. PICK k \in Nat : now' = now + k
    BY <1>0, <1>7, UpdateClock DEF toggleDetails, periodicUpdate, Tick
  <2>2. UNCHANGED <<startTime, pauseTime, isRunning, isPaused,
                    accumulatedPauseTime, targetDurationMs, resumes>>
    BY <1>7 DEF toggleDetails, periodicUpdate, Tick
  <2>3. active' = IF isRunning /\ ~isPaused THEN active + k ELSE active
    <3>1. active' = active + (IF isRunning /\ ~isPaused THEN now' - now ELSE 0)
      BY <1>7, <2>2 DEF toggleDetails, periodicUpdate, Tick, runs
    <3>2. active \in Nat
      BY DEF Core, Types
    <3> QED
      BY <1>0, <2>1, <3>1, <3>2
  <2>4. showDetails' \in BOOLEAN
    BY <1>7 DEF toggleDetails, periodicUpdate, Tick, Core, Types
  <2>5. isRunning => lost' = lost
    BY <2>1, <2>2, <2>3, SameLoss
  <2> QED
    BY <2>1, <2>2, <2>3, <2>4, <2>5 DEF Core, Types
<1>8. CASE UNCHANGED vars
  BY <1>8 DEF vars, Core, Types, lost, until
<1> QED
  BY <1>1, <1>2, <1>3, <1>4, <1>5, <1>6, <1>7, <1>8 DEF Next

(* The flag and the count stay together.                                   *)
LEMMA AlertedStep == IInv /\ [Next]_vars => Alerted'
<1> SUFFICES ASSUME IInv, [Next]_vars PROVE Alerted'
  OBVIOUS
<1>1. Types' /\ now \in Nat
  BY CoreStep DEF IInv, Core, Types
<1>2. CASE update
  <2>1. notificationSent /\ isRunning' /\ ~isPaused' =>
          UNCHANGED <<startTime, accumulatedPauseTime, targetDurationMs>>
    BY <1>2 DEF IInv, Alerted, Next, adjustTime, playPauseNothing, playPauseStart,
                playPauseResume, playPausePause, reset, toggleDetails,
                periodicUpdate, Tick, vars
  <2> QED
    BY <1>1, <1>2, <2>1, UpdateAlerts DEF IInv
<1>3. CASE Tick
  <2>1. notificationSent => expired(now)'
    BY <1>3, TimerAssumption DEF IInv, Core, Types, Alerted, Tick, expired
  <2> QED
    BY <1>3, <2>1 DEF IInv, Alerted, Tick
<1>4. CASE UNCHANGED vars
  BY <1>4 DEF vars, IInv, Alerted, expired
<1> QED
  BY <1>2, <1>3, <1>4 DEF Next, adjustTime, playPauseNothing, playPauseStart,
                playPauseResume, playPausePause, reset, toggleDetails,
                periodicUpdate

(* The invariant holds at first.                                           *)
LEMMA IInvInit == Init => IInv
<1> SUFFICES ASSUME Init PROVE IInv
  OBVIOUS
<1>1. Types
  BY DEF Init, Types
<1>2. Alerted
  BY DEF Init, Alerted
<1> QED
  BY <1>1, <1>2 DEF Init, IInv, Core

(* The invariant is inductive.                                             *)
LEMMA IInvStep == IInv /\ [Next]_vars => IInv'
BY CoreStep, AlertedStep DEF IInv

(* One notification at most for each run of the countdown: between two     *)
(* readings of the clock in checkTimerAlert the end cannot be taken back,  *)
(* so that the flag is never cleared in the call that sets it, or later    *)
(* while the countdown is on.                                              *)
THEOREM TimerOneAlert == Spec => []OneAlert
<1>1. IInv => OneAlert
  BY DEF IInv, Alerted, OneAlert
<1> QED
  BY IInvInit, IInvStep, <1>1, PTL DEF Spec

(* A red timer has notified: the colour is read no later than the alert.   *)
THEOREM TimerRedIsAlerted == Spec => []RedIsAlerted
<1>1. IInv => RedIsAlerted
  BY DEF IInv, Alerted, RedIsAlerted
<1> QED
  BY IInvInit, IInvStep, <1>1, PTL DEF Spec

(* The notification comes when the countdown has really run for its target *)
(* but for less than a millisecond of each pause.                          *)
THEOREM TimerAlertNotEarly == Spec => []AlertNotEarly
<1>1. IInv => AlertNotEarly
  <2> SUFFICES ASSUME IInv, alerts > 0
               PROVE  active + resumes * (MsUnits - 1) >= targetDurationMs * MsUnits
    BY DEF AlertNotEarly
  <2> DEFINE x == targetDurationMs * MsUnits
             y == accumulatedPauseTime * MsUnits
             r == resumes * MsUnits
  <2>1. isRunning /\ ~isPaused /\ expired(now)
    BY DEF IInv, Alerted
  <2>2. /\ MsUnits \in Nat \ {0} /\ targetDurationMs \in Nat
        /\ accumulatedPauseTime \in Nat /\ resumes \in Nat
    BY TimerAssumption DEF IInv, Core, Types
  <2>3. /\ (targetDurationMs + accumulatedPauseTime) * MsUnits = x + y
        /\ resumes * (MsUnits - 1) = r - resumes
        /\ x \in Int /\ y \in Int /\ r \in Int
    BY <2>2
  <2>4. lost = now - startTime - active - y /\ lost <= r - resumes
    BY <2>1 DEF IInv, Core, lost, until
  <2>5. x + y <= now - startTime
    BY <2>1, <2>3 DEF expired
  <2> HIDE DEF x, y, r
  <2>6. active + (r - resumes) >= x
    <3>1. active \in Int /\ now \in Int /\ startTime \in Int /\ resumes \in Int
      BY DEF IInv, Core, Types
    <3> HIDE DEF lost
    <3> QED
      BY <2>3, <2>4, <2>5, <3>1
  <2> QED
    BY <2>3, <2>6 DEF x
<1> QED
  BY IInvInit, IInvStep, <1>1, PTL DEF Spec

-----------------------------------------------------------------------------
(* The remaining time while the countdown is on.                           *)

(* Later readings, less the pauses in between, leave no more time.         *)
LEMMA RemainingFalls ==
  ASSUME NEW T \in Nat, NEW A \in Nat, NEW q \in Nat, NEW e \in Int,
         NEW f \in Int, NEW U \in Nat \ {0}, e + q * U <= f
  PROVE  (IF T - ((f \div U) - (A + q)) > 0 THEN T - ((f \div U) - (A + q)) ELSE 0)
           <= (IF T - ((e \div U) - A) > 0 THEN T - ((e \div U) - A) ELSE 0)
<1> DEFINE x == e \div U
           y == f \div U
<1>1. x \in Int /\ y \in Int /\ x * U <= e
  BY Quotient
<1>2. (x + q) * U = x * U + q * U /\ x * U \in Int /\ q * U \in Int
  BY <1>1
<1> HIDE DEF x, y
<1>3. x + q \in Int /\ (x + q) * U <= f
  BY <1>1, <1>2
<1>4. x + q <= y
  BY <1>3, Quotient DEF y
<1>5. (IF T - (y - (A + q)) > 0 THEN T - (y - (A + q)) ELSE 0)
        <= (IF T - (x - A) > 0 THEN T - (x - A) ELSE 0)
  BY <1>1, <1>4
<1> QED
  BY <1>5 DEF x, y

(* A step while the countdown is on: the pauses grow by q whole            *)
(* milliseconds, and the clock by no less.                                 *)
LEMMA StepForward ==
  ASSUME IInv, [Next]_vars, isRunning, isRunning'
  PROVE  /\ UNCHANGED <<startTime, targetDurationMs>>
         /\ \E q \in Nat : /\ accumulatedPauseTime' = accumulatedPauseTime + q
                          /\ until + q * MsUnits <= until'
<1>0. /\ MsUnits \in Nat \ {0} /\ now \in Nat /\ pauseTime \in Nat
      /\ accumulatedPauseTime \in Nat /\ (isPaused => pauseTime <= now)
      /\ isPaused \in BOOLEAN /\ until \in Nat
  BY TimerAssumption DEF IInv, Core, Types, until
<1>1. UNCHANGED <<startTime, targetDurationMs>>
  BY DEF Next, adjustTime, playPauseNothing, playPauseStart, playPauseResume,
         playPausePause, reset, toggleDetails, periodicUpdate, Tick, vars
<1>2. CASE playPauseResume
  <2> DEFINE q == (now - pauseTime) \div MsUnits
  <2>1. now - pauseTime \in Nat
    BY <1>0, <1>2 DEF playPauseResume
  <2>2. q \in Nat /\ q * MsUnits <= now - pauseTime
    BY <1>0, <2>1, Quotient
  <2>3. accumulatedPauseTime' = accumulatedPauseTime + q
    BY <1>2 DEF playPauseResume, ms
  <2>4. PICK k \in Nat : now' = now + k
    BY <1>0, <1>2, UpdateClock DEF playPauseResume
  <2>5. until = pauseTime /\ until' = now + k
    BY <1>2, <2>4 DEF playPauseResume, until
  <2>6. until + q * MsUnits <= until'
    <3>1. q * MsUnits \in Int
      BY <1>0, <2>2
    <3> HIDE DEF q, until
    <3> QED
      BY <1>0, <2>2, <2>5, <3>1
  <2> HIDE DEF q
  <2> QED
    BY <1>1, <2>2, <2>3, <2>6
<1>3. CASE ~playPauseResume
  <2>1. accumulatedPauseTime' = accumulatedPauseTime
    BY <1>3 DEF Next, adjustTime, playPauseNothing, playPauseStart,
         playPausePause, reset, toggleDetails, periodicUpdate, Tick, vars
  <2>2. PICK k \in Nat : now' = now + k
    <3>1. CASE update
      BY <1>0, <3>1, UpdateClock
    <3>2. CASE Tick
      BY <3>2 DEF Tick
    <3>3. CASE UNCHANGED vars
      <4>1. now' = now + 0
        BY <1>0, <3>3 DEF vars
      <4> QED
        BY <4>1
    <3> QED
      BY <1>3, <3>1, <3>2, <3>3 DEF Next, adjustTime, playPauseNothing,
         playPauseStart, playPausePause, reset, toggleDetails, periodicUpdate
  <2>3. \/ UNCHANGED <<isPaused, pauseTime>>
        \/ ~isPaused /\ isPaused' /\ pauseTime' = now
    BY <1>3 DEF Next, adjustTime, playPauseNothing, playPauseStart,
         playPausePause, reset, toggleDetails, periodicUpdate, Tick, vars
  <2>4. until \in Nat /\ until <= until'
    BY <1>0, <2>2, <2>3 DEF until
  <2>5. until + 0 * MsUnits <= until' /\ accumulatedPauseTime' = accumulatedPauseTime + 0
    BY <1>0, <2>1, <2>4
  <2> QED
    BY <1>1, <2>5
<1> QED
  BY <1>2, <1>3

(* The remaining time never grows while the countdown is on: a resume      *)
(* gives back no more of the pause than it lasted.                         *)
THEOREM TimerNeverBack == Spec => NeverBack
<1> DEFINE A == isRunning /\ isRunning' => getRemainingMs(now)' <= getRemainingMs(now)
<1>1. IInv /\ [Next]_vars => [A]_vars
  <2> SUFFICES ASSUME IInv, [Next]_vars, isRunning, isRunning'
               PROVE  getRemainingMs(now)' <= getRemainingMs(now)
    OBVIOUS
  <2>1. PICK q \in Nat : /\ accumulatedPauseTime' = accumulatedPauseTime + q
                         /\ until + q * MsUnits <= until'
    BY StepForward
  <2>2. UNCHANGED <<startTime, targetDurationMs>>
    BY StepForward
  <2> DEFINE T == targetDurationMs
             P == accumulatedPauseTime
             e == until - startTime
             f == until' - startTime
             r(x, d) == T - ((x \div MsUnits) - d)
  <2>3. /\ T \in Nat /\ P \in Nat /\ e \in Int /\ f \in Int /\ MsUnits \in Nat \ {0}
        /\ e + q * MsUnits <= f
    <3>1. IInv'
      BY IInvStep
    <3>2. MsUnits \in Nat \ {0} /\ startTime \in Int /\ until \in Int
      BY TimerAssumption DEF IInv, Core, Types, until
    <3>3. until' \in Int
      BY <3>1 DEF IInv, Core, Types, until
    <3>4. q * MsUnits \in Int
      BY <3>2
    <3>5. e \in Int /\ f \in Int /\ e + q * MsUnits <= f
      <4> DEFINE n == until
                 m == until'
                 p == q * MsUnits
      <4>1. n \in Int /\ m \in Int /\ p \in Int /\ n + p <= m
        BY <2>1, <3>2, <3>3, <3>4
      <4> HIDE DEF n, m, p
      <4>2. n - startTime \in Int /\ m - startTime \in Int
            /\ (n - startTime) + p <= m - startTime
        BY <3>2, <4>1
      <4> QED
        BY <4>2 DEF n, m, p
    <3> QED
      BY <3>2, <3>5 DEF IInv, Core, Types
  <2>4. getRemainingMs(now) = IF r(e, P) > 0 THEN r(e, P) ELSE 0
    BY DEF getRemainingMs, ms, until
  <2>5. getRemainingMs(now)' = IF r(f, P + q) > 0 THEN r(f, P + q) ELSE 0
    BY <2>1, <2>2 DEF getRemainingMs, ms, until
  <2> HIDE DEF T, P, e, f
  <2> QED
    BY <2>3, <2>4, <2>5, RemainingFalls
<1> QED
  BY IInvInit, IInvStep, <1>1, PTL DEF Spec, NeverBack
=============================================================================
