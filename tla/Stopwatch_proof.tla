--------------------------- MODULE Stopwatch_proof ---------------------------
(***************************************************************************)
(* Theorems about Stopwatch, for any resolution of the clock and any bound *)
(* on it: typing, the drift bound, and that the stopwatch implements       *)
(* Chronometer.  The argument is one equation: the time up to now, or up   *)
(* to the pause, is the active time, plus the accumulated pauses in whole  *)
(* milliseconds, plus what cutting them has lost, which is less than one   *)
(* millisecond per resume.                                                 *)
(***************************************************************************)
EXTENDS Stopwatch, TLAPS

until == IF isPaused THEN pauseTime ELSE now

(* clock units of finished pauses that accumulatedPauseTime does not hold *)
lost == until - startTime - active - accumulatedPauseTime * MsUnits

Types ==
  /\ now \in Nat /\ startTime \in Nat /\ pauseTime \in Nat
  /\ isRunning \in BOOLEAN /\ isPaused \in BOOLEAN /\ showDetails \in BOOLEAN
  /\ accumulatedPauseTime \in Nat
  /\ color \in {"default", "orange", "green"}
  /\ active \in Nat /\ resumes \in Nat

Core ==
  /\ Types
  /\ isPaused => isRunning /\ startTime <= pauseTime /\ pauseTime <= now
  /\ isRunning => lost \in Nat /\ lost <= resumes * MsUnits - resumes

IInv == Core /\ content \in Nat \cup {Hidden}
-----------------------------------------------------------------------------
(* Integer division by a positive number.                                  *)

(* The quotient's defining bounds.                                         *)
LEMMA DivBounds ==
  ASSUME NEW x \in Int, NEW U \in Nat \ {0}
  PROVE  /\ x \div U \in Int
         /\ (x \div U) * U <= x
         /\ x < (x \div U) * U + U
OBVIOUS

(* Multiples of U are at least U apart.                                    *)
LEMMA MulGap ==
  ASSUME NEW p \in Int, NEW q \in Int, NEW U \in Nat \ {0}, p < q
  PROVE  p * U + U <= q * U
<1>1. PICK k \in Nat : q = p + 1 + k
  <2>1. q - p - 1 \in Nat
    OBVIOUS
  <2> QED
    BY <2>1
<1>2. q * U = p * U + U + k * U
  BY <1>1
<1>3. k * U >= 0
  OBVIOUS
<1> QED
  BY <1>2, <1>3

(* A number below the multiple after q has a quotient of at most q.        *)
LEMMA DivAtMost ==
  ASSUME NEW x \in Int, NEW U \in Nat \ {0}, NEW q \in Int,
         x < q * U + U
  PROVE  x \div U <= q
<1> DEFINE p == x \div U
<1>1. p \in Int /\ p * U <= x
  BY DivBounds
<1>2. ~(q < p)
  BY <1>1, MulGap
<1> QED
  BY <1>1, <1>2

(* A number from the multiple q on has a quotient of at least q.           *)
LEMMA DivAtLeast ==
  ASSUME NEW x \in Int, NEW U \in Nat \ {0}, NEW q \in Int,
         q * U <= x
  PROVE  q <= x \div U
<1> DEFINE p == x \div U
<1>1. p \in Int /\ x < p * U + U
  BY DivBounds
<1>2. ~(p < q)
  BY <1>1, MulGap
<1> QED
  BY <1>1, <1>2

(* The quotient of a natural number is one.                                *)
LEMMA DivNat ==
  ASSUME NEW x \in Nat, NEW U \in Nat \ {0}
  PROVE  x \div U \in Nat
<1>1. 0 * U <= x
  OBVIOUS
<1>2. 0 <= x \div U
  BY <1>1, DivAtLeast
<1>3. x \div U \in Int
  BY DivBounds
<1> QED
  BY <1>2, <1>3

(* Adding a multiple of U adds to the quotient.                            *)
LEMMA DivShift ==
  ASSUME NEW x \in Int, NEW U \in Nat \ {0}, NEW a \in Int
  PROVE  (x + a * U) \div U = (x \div U) + a
<1> DEFINE p == x \div U
<1>1. p \in Int /\ p * U <= x /\ x < p * U + U
  BY DivBounds
<1>2. (p + a) * U = p * U + a * U
  BY <1>1
<1>3. a * U \in Int
  OBVIOUS
<1> HIDE DEF p
<1>4. (p + a) * U <= x + a * U /\ x + a * U < (p + a) * U + U
  BY <1>1, <1>2, <1>3
<1>5. (x + a * U) \div U \in Int
  BY <1>3, DivBounds
<1>6. (x + a * U) \div U = p + a
  BY <1>1, <1>3, <1>4, <1>5, DivAtMost, DivAtLeast
<1> QED
  BY <1>6 DEF p

(* Adding r adds to the quotient at most k when r is at most k remainders. *)
LEMMA DivGrows ==
  ASSUME NEW x \in Int, NEW U \in Nat \ {0}, NEW r \in Nat, NEW k \in Nat,
         r <= k * U - k
  PROVE  /\ x \div U <= (x + r) \div U
         /\ (x + r) \div U <= (x \div U) + k
<1> DEFINE p == x \div U
<1>1. p \in Int /\ p * U <= x /\ x < p * U + U
  BY DivBounds
<1>2. (p + k) * U = p * U + k * U /\ k * U \in Nat /\ p * U \in Int
  BY <1>1
<1> HIDE DEF p
<1>3. p * U <= x + r /\ x + r < (p + k) * U + U
  BY <1>1, <1>2
<1>4. p <= (x + r) \div U
  BY <1>1, <1>3, DivAtLeast
<1>5. (x + r) \div U <= p + k
  BY <1>1, <1>3, DivAtMost
<1> QED
  BY <1>4, <1>5 DEF p
-----------------------------------------------------------------------------
(* The stopwatch.                                                          *)

(* The elapsed time is what the stopwatch really ran, with what the pauses *)
(* lost, in whole milliseconds.                                            *)
LEMMA ElapsedIsActive ==
  Core /\ isRunning => get_elapsed_ms = (active + lost) \div MsUnits
<1> SUFFICES ASSUME Core, isRunning
             PROVE  get_elapsed_ms = (active + lost) \div MsUnits
  OBVIOUS
<1>1. /\ MsUnits \in Nat \ {0} /\ accumulatedPauseTime \in Int
      /\ active \in Nat /\ lost \in Nat /\ until \in Nat /\ startTime \in Nat
  BY StopwatchAssumption DEF Core, Types, until
<1>2. until - startTime = (active + lost) + accumulatedPauseTime * MsUnits
  BY <1>1 DEF lost
<1>3. (until - startTime) \div MsUnits
        = ((active + lost) \div MsUnits) + accumulatedPauseTime
  <2>1. active + lost \in Int
    BY <1>1
  <2> HIDE DEF until, lost
  <2> QED
    BY <1>1, <1>2, <2>1, DivShift
<1>4. get_elapsed_ms = (until - startTime) \div MsUnits - accumulatedPauseTime
  BY DEF get_elapsed_ms, ms, until
<1>5. (active + lost) \div MsUnits \in Int
  BY <1>1, DivBounds
<1> HIDE DEF get_elapsed_ms
<1> QED
  BY <1>1, <1>3, <1>4, <1>5

(* The elapsed time is never negative.                                     *)
LEMMA ElapsedNat == Core => get_elapsed_ms \in Nat
<1>1. ASSUME Core, isRunning PROVE get_elapsed_ms \in Nat
  <2>1. MsUnits \in Nat \ {0} /\ active \in Nat /\ lost \in Nat
    BY <1>1, StopwatchAssumption DEF Core, Types
  <2>2. (active + lost) \div MsUnits \in Nat
    BY <2>1, DivNat
  <2> QED
    BY <1>1, <2>2, ElapsedIsActive
<1>2. ASSUME Core, ~isRunning PROVE get_elapsed_ms \in Nat
  BY <1>2 DEF get_elapsed_ms
<1> QED
  BY <1>1, <1>2

(* A resume adds the remainder of the pause, less than a millisecond.      *)
LEMMA ResumeLoses ==
  ASSUME Core, playPauseResume
  PROVE  /\ lost' = lost + (now - pauseTime)
                      - ((now - pauseTime) \div MsUnits) * MsUnits
         /\ lost' \in Nat
         /\ lost' <= lost + MsUnits - 1
<1> DEFINE d == now - pauseTime
           q == d \div MsUnits
<1>1. /\ MsUnits \in Nat \ {0} /\ accumulatedPauseTime \in Nat
      /\ active \in Nat /\ now \in Nat /\ startTime \in Nat
      /\ pauseTime \in Nat /\ pauseTime <= now /\ lost \in Nat
  BY StopwatchAssumption DEF Core, Types, playPauseResume
<1>2. d \in Nat /\ q \in Int /\ q * MsUnits <= d /\ d < q * MsUnits + MsUnits
  BY <1>1, DivBounds
<1>3. /\ lost' = now - startTime - active - accumulatedPauseTime' * MsUnits
      /\ accumulatedPauseTime' = accumulatedPauseTime + q
      /\ lost = pauseTime - startTime - active
                  - accumulatedPauseTime * MsUnits
  BY DEF playPauseResume, lost, until, ms
<1> HIDE DEF q
<1>4. (accumulatedPauseTime + q) * MsUnits
        = accumulatedPauseTime * MsUnits + q * MsUnits
  BY <1>1, <1>2
<1>5. q * MsUnits \in Int /\ accumulatedPauseTime * MsUnits \in Int
  BY <1>1, <1>2
<1>6. lost' = lost + d - q * MsUnits
  BY <1>1, <1>2, <1>3, <1>4, <1>5
<1> QED
  BY <1>1, <1>2, <1>5, <1>6 DEF q

(* Core is inductive, action by action.                                    *)
LEMMA CoreStep == IInv /\ [Next]_vars => Core'
<1> SUFFICES ASSUME IInv, [Next]_vars PROVE Core'
  OBVIOUS
<1>0. MsUnits \in Nat \ {0}
  BY StopwatchAssumption
<1> USE DEF IInv
<1>1. CASE playPauseStart
  <2>1. Types' /\ isRunning' /\ ~isPaused' /\ resumes' = 0
    BY <1>1 DEF Core, Types, playPauseStart, update, applyColors
  <2>2. lost' = 0
    BY <1>0, <1>1 DEF Core, Types, playPauseStart, lost, until
  <2> QED
    BY <1>0, <2>1, <2>2 DEF Core
<1>2. CASE playPauseResume
  <2>1. Types' /\ ~isPaused' /\ resumes' = resumes + 1
    <3>1. ms(now, pauseTime) \in Nat
      <4>1. now - pauseTime \in Nat
        BY <1>2 DEF Core, Types, playPauseResume
      <4> QED
        BY <1>0, <4>1, DivNat DEF ms
    <3>2. accumulatedPauseTime' \in Nat /\ resumes' \in Nat
      <4> HIDE DEF ms
      <4> QED
        BY <1>2, <3>1 DEF Core, Types, playPauseResume
    <3>3. color' \in {"default", "orange", "green"}
      BY <1>2 DEF playPauseResume, update, applyColors
    <3> QED
      BY <1>2, <3>2, <3>3 DEF Core, Types, playPauseResume
  <2>2. lost' \in Nat /\ lost' <= lost + MsUnits - 1
    BY <1>2, ResumeLoses
  <2>3. lost \in Nat /\ lost <= resumes * MsUnits - resumes /\ resumes \in Nat
    BY <1>2 DEF Core, Types, playPauseResume
  <2>4. (resumes + 1) * MsUnits = resumes * MsUnits + MsUnits
    BY <1>0, <2>3
  <2>5. resumes * MsUnits \in Nat
    BY <1>0, <2>3
  <2>6. lost' <= (resumes + 1) * MsUnits - (resumes + 1)
    BY <1>0, <2>2, <2>3, <2>4, <2>5
  <2> QED
    BY <2>1, <2>2, <2>6 DEF Core
<1>3. CASE playPausePause
  <2>1. Types' /\ resumes' = resumes
    BY <1>3 DEF Core, Types, playPausePause, update, applyColors
  <2>2. lost' = lost
    BY <1>3 DEF playPausePause, lost, until
  <2>3. startTime <= now
    <3>1. now = startTime + active + accumulatedPauseTime * MsUnits + lost
      BY <1>0, <1>3 DEF Core, Types, playPausePause, lost, until
    <3>2. accumulatedPauseTime * MsUnits \in Nat
      BY <1>0 DEF Core, Types
    <3>3. lost \in Nat
      BY <1>3 DEF Core, playPausePause
    <3> QED
      BY <3>1, <3>2, <3>3 DEF Core, Types
  <2> QED
    BY <1>3, <2>1, <2>2, <2>3 DEF Core, Types, playPausePause
<1>4. CASE reset
  BY <1>4 DEF Core, Types, reset, update, applyColors
<1>5. CASE toggleDetails \/ periodicUpdate
  <2>1. Types' /\ resumes' = resumes
    BY <1>5 DEF Core, Types, toggleDetails, periodicUpdate, update,
                applyColors
  <2>2. lost' = lost
    BY <1>5 DEF toggleDetails, periodicUpdate, lost, until
  <2> QED
    BY <1>5, <2>1, <2>2 DEF Core, toggleDetails, periodicUpdate
<1>6. CASE Tick
  <2>1. Types' /\ resumes' = resumes
    BY <1>6 DEF Core, Types, Tick
  <2>2. isRunning => lost' = lost
    <3>1. accumulatedPauseTime * MsUnits \in Int
      BY <1>0 DEF Core, Types
    <3>2. accumulatedPauseTime' * MsUnits = accumulatedPauseTime * MsUnits
      BY <1>6 DEF Tick
    <3> QED
      BY <1>6, <3>1, <3>2 DEF Core, Types, Tick, lost, until
  <2> QED
    BY <1>6, <2>1, <2>2 DEF Core, Types, Tick
<1>7. CASE UNCHANGED vars
  BY <1>7 DEF vars, Core, Types, lost, until
<1> QED
  BY <1>1, <1>2, <1>3, <1>4, <1>5, <1>6, <1>7 DEF Next

(* With the content the invariant stays inductive.                         *)
LEMMA IInvStep == IInv /\ [Next]_vars => IInv'
<1>1. Core' => (get_elapsed_ms \in Nat)'
  BY ElapsedNat, PTL
<1> SUFFICES ASSUME IInv, [Next]_vars PROVE content' \in Nat \cup {Hidden}
  BY CoreStep DEF IInv
<1>2. get_elapsed_ms' \in Nat
  BY <1>1, CoreStep
<1>3. get_elapsed_ms' \div SecMs \in Nat
  <2>1. SecMs \in Nat \ {0}
    BY StopwatchAssumption
  <2> QED
    BY <1>2, <2>1, DivNat
<1>4. CASE update
  BY <1>3, <1>4 DEF update
<1>5. CASE Tick \/ UNCHANGED vars
  BY <1>5 DEF Tick, vars, IInv
<1> QED
  BY <1>4, <1>5 DEF Next, playPauseStart, playPauseResume, playPausePause,
                    reset, toggleDetails, periodicUpdate

(* The strengthened invariant holds at first.                              *)
LEMMA IInvInit == Init => IInv
<1> SUFFICES ASSUME Init PROVE IInv
  OBVIOUS
<1>1. Types
  BY DEF Init, Types
<1> QED
  BY <1>1 DEF Init, IInv, Core

(* Times, durations and the shown value stay natural numbers: the elapsed  *)
(* time is never negative.                                                 *)
THEOREM StopwatchTypeOK == Spec => []TypeOK
<1>1. IInv => TypeOK
  BY DEF IInv, Core, Types, TypeOK
<1> QED
  BY IInvInit, IInvStep, <1>1, PTL DEF Spec

(* However often it is paused, the stopwatch shows no less than the time   *)
(* it ran and at most one millisecond per resume more.                     *)
THEOREM StopwatchDrift == Spec => []DriftBounded
<1>1. IInv => DriftBounded
  <2> SUFFICES ASSUME IInv, isRunning
               PROVE  /\ get_elapsed_ms >= active \div MsUnits
                      /\ get_elapsed_ms <= (active \div MsUnits) + resumes
    BY DEF DriftBounded
  <2>1. /\ MsUnits \in Nat \ {0} /\ active \in Int /\ lost \in Nat
        /\ resumes \in Nat /\ lost <= resumes * MsUnits - resumes
    BY StopwatchAssumption DEF IInv, Core, Types
  <2>2. get_elapsed_ms = (active + lost) \div MsUnits
    BY ElapsedIsActive DEF IInv
  <2>3. /\ active \div MsUnits <= (active + lost) \div MsUnits
        /\ (active + lost) \div MsUnits <= (active \div MsUnits) + resumes
    BY <2>1, DivGrows
  <2>4. active \div MsUnits \in Int /\ (active + lost) \div MsUnits \in Int
    BY <2>1, DivBounds
  <2> QED
    BY <2>1, <2>2, <2>3, <2>4
<1> QED
  BY IInvInit, IInvStep, <1>1, PTL DEF Spec

-----------------------------------------------------------------------------
(* The stopwatch implements Chronometer.                                   *)

(* One more unit of clock moves the reading by at most one.                *)
LEMMA DivByOne ==
  ASSUME NEW x \in Nat, NEW r \in Nat, NEW U \in Nat \ {0}, r <= U
  PROVE  (x + r) \div U \in {x \div U, (x \div U) + 1}
<1> DEFINE p == x \div U
<1>1. p \in Int /\ p * U <= x /\ x < p * U + U
  BY DivBounds
<1>2. (p + 1) * U = p * U + U /\ p * U \in Int
  BY <1>1
<1> HIDE DEF p
<1>3. p <= (x + r) \div U
  BY <1>1, <1>2, DivAtLeast
<1>4. (x + r) \div U <= p + 1
  BY <1>1, <1>2, DivAtMost
<1>5. (x + r) \div U \in Int
  BY DivBounds
<1> QED
  BY <1>1, <1>3, <1>4, <1>5 DEF p

(* A unit of clock moves the elapsed time by at most a millisecond.        *)
LEMMA TickReading ==
  ASSUME Core, Core', Tick, isRunning, ~isPaused
  PROVE  get_elapsed_ms' \in {get_elapsed_ms, get_elapsed_ms + 1}
<1>1. /\ MsUnits \in Nat \ {0} /\ active \in Nat /\ lost \in Nat
      /\ active' = active + 1
  BY StopwatchAssumption DEF Core, Types, Tick
<1>2. lost' = lost
  <2>1. /\ accumulatedPauseTime * MsUnits \in Int
        /\ accumulatedPauseTime' * MsUnits = accumulatedPauseTime * MsUnits
    BY <1>1 DEF Core, Types, Tick
  <2> QED
    BY <1>1, <2>1 DEF Core, Types, Tick, lost, until
<1>3. get_elapsed_ms = (active + lost) \div MsUnits
  BY ElapsedIsActive
<1>4. get_elapsed_ms' = (active' + lost') \div MsUnits
  <2>1. (Core /\ isRunning)' => (get_elapsed_ms = (active + lost) \div MsUnits)'
    BY ElapsedIsActive, PTL
  <2> QED
    BY <2>1 DEF Tick
<1>5. active' + lost' = (active + lost) + 1
  BY <1>1, <1>2
<1>6. active + lost \in Nat /\ 1 <= MsUnits
  BY <1>1
<1> QED
  BY <1>1, <1>3, <1>4, <1>5, <1>6, DivByOne

(* The loss of one resume as a number of units.                            *)
LEMMA OneLoss ==
  ASSUME NEW a \in Nat, NEW b \in Nat, NEW c \in Nat, NEW m \in Nat \ {0},
         b <= c, c <= b + m - 1
  PROVE  /\ c - b \in Nat /\ c - b <= m /\ a + b \in Nat
         /\ a + c = (a + b) + (c - b)
OBVIOUS

(* A resume moves the elapsed time by at most a millisecond.               *)
LEMMA ResumeReading ==
  ASSUME Core, Core', playPauseResume
  PROVE  get_elapsed_ms' \in {get_elapsed_ms, get_elapsed_ms + 1}
<1>1. /\ MsUnits \in Nat \ {0} /\ active \in Nat /\ lost \in Nat
      /\ active' = active /\ isRunning /\ isRunning'
  BY StopwatchAssumption DEF Core, Types, playPauseResume
<1>2. /\ lost' \in Nat /\ lost' <= lost + MsUnits - 1
  BY ResumeLoses
<1>3. lost <= lost'
  <2> DEFINE d == now - pauseTime
             q == d \div MsUnits
  <2>1. d \in Nat /\ q \in Int /\ q * MsUnits <= d
    BY <1>1, DivBounds DEF Core, Types, playPauseResume
  <2>2. lost' = lost + d - q * MsUnits
    BY ResumeLoses
  <2> HIDE DEF q, d
  <2>3. q * MsUnits \in Int
    BY <1>1, <2>1
  <2> QED
    BY <1>1, <2>1, <2>2, <2>3
<1>4. get_elapsed_ms = (active + lost) \div MsUnits
  BY <1>1, ElapsedIsActive
<1>5. get_elapsed_ms' = (active' + lost') \div MsUnits
  <2>1. (Core /\ isRunning)' => (get_elapsed_ms = (active + lost) \div MsUnits)'
    BY ElapsedIsActive, PTL
  <2> QED
    BY <1>1, <2>1
<1> DEFINE a == active
           b == lost
           c == lost'
           m == MsUnits
<1>6. a \in Nat /\ b \in Nat /\ c \in Nat /\ m \in Nat \ {0}
  BY <1>1, <1>2
<1>7. b <= c /\ c <= b + m - 1
  BY <1>2, <1>3
<1>8. get_elapsed_ms = (a + b) \div m /\ get_elapsed_ms' = (a + c) \div m
  BY <1>1, <1>4, <1>5
<1> HIDE DEF a, b, c, m
<1>9. c - b \in Nat /\ c - b <= m /\ a + b \in Nat /\ a + c = (a + b) + (c - b)
  BY <1>6, <1>7, OneLoss
<1> QED
  BY <1>6, <1>8, <1>9, DivByOne

(* Every step of the stopwatch is a step of Chronometer or a stutter.      *)
LEMMA StepImplements ==
  IInv /\ IInv' /\ [Next]_vars => [Abstract!Next]_(Abstract!cvars)
<1> SUFFICES ASSUME IInv, IInv', [Next]_vars
             PROVE  [Abstract!Next]_(Abstract!cvars)
  OBVIOUS
<1>0. isRunning \in BOOLEAN /\ isPaused \in BOOLEAN /\ (isPaused => isRunning)
  BY DEF IInv, Core, Types
<1> USE DEF Abstract!Next, Abstract!cvars
<1>1. CASE playPauseStart
  <2>1. get_elapsed_ms' = 0
    <3>1. ms(now, now) = 0
      BY StopwatchAssumption DEF ms, IInv, Core, Types
    <3> QED
      BY <1>1, <3>1 DEF playPauseStart, get_elapsed_ms, ms
  <2> HIDE DEF get_elapsed_ms
  <2> QED
    BY <1>0, <1>1, <2>1 DEF playPauseStart, Abstract!Start
<1>2. CASE playPauseResume
  <2>1. get_elapsed_ms' \in {get_elapsed_ms, get_elapsed_ms + 1}
    BY <1>2, ResumeReading DEF IInv
  <2> HIDE DEF get_elapsed_ms
  <2> QED
    BY <1>0, <1>2, <2>1 DEF playPauseResume, Abstract!Resume
<1>3. CASE playPausePause
  <2>1. get_elapsed_ms' = get_elapsed_ms
    BY <1>3 DEF playPausePause, get_elapsed_ms, ms
  <2> HIDE DEF get_elapsed_ms
  <2> QED
    BY <1>0, <1>3, <2>1 DEF playPausePause, Abstract!Pause
<1>4. CASE reset
  <2>1. get_elapsed_ms' = 0
    BY <1>4 DEF reset, get_elapsed_ms
  <2> HIDE DEF get_elapsed_ms
  <2> QED
    BY <1>4, <2>1 DEF reset, Abstract!Reset
<1>5. CASE toggleDetails \/ periodicUpdate \/ UNCHANGED vars
  BY <1>5 DEF toggleDetails, periodicUpdate, vars, get_elapsed_ms, ms
<1>6. CASE Tick
  <2>1. CASE isRunning /\ ~isPaused
    <3>1. get_elapsed_ms' \in {get_elapsed_ms, get_elapsed_ms + 1}
      BY <1>6, <2>1, TickReading DEF IInv
    <3> HIDE DEF get_elapsed_ms
    <3> QED
      BY <1>0, <1>6, <2>1, <3>1 DEF Tick, Abstract!Advance
  <2>2. CASE ~isRunning \/ isPaused
    BY <1>0, <1>6, <2>2 DEF Tick, get_elapsed_ms, ms
  <2> QED
    BY <1>0, <2>1, <2>2
<1> QED
  BY <1>1, <1>2, <1>3, <1>4, <1>5, <1>6 DEF Next

(* Every behaviour of the stopwatch is one of the chronometer: the reading *)
(* stands still in a pause, grows by single milliseconds and returns to 0  *)
(* only by a reset or a new start.                                         *)
THEOREM StopwatchImplementsChronometer == Spec => ImplementsChronometer
<1>1. Init => Abstract!Init
  BY DEF Init, Abstract!Init, get_elapsed_ms
<1> QED
  BY IInvInit, IInvStep, StepImplements, <1>1, PTL
  DEF Spec, ImplementsChronometer, Abstract!Spec
=============================================================================
