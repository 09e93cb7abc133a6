---------------------------- MODULE TopBar_proof ----------------------------
(***************************************************************************)
(* Theorems about the top bar, for any intervals, any length of the calls  *)
(* and of the waits, any difference between the clocks and any number of   *)
(* events: the age of the time on the window, and the forecast that is     *)
(* kept while the service says that nothing is newer.  Then two more modules of this bar, Audio and Battery: the   *)
(* volume after a scroll, and the battery's notification.                  *)
(***************************************************************************)
EXTENDS TopBar, Audio, Battery, SequenceTheorems, TLAPS

-----------------------------------------------------------------------------
(* The clock.                                                              *)

(* What the thread still has to do: of its start, of a pass up to the      *)
(* clock's turn, of a click on the notifications, on the weather.          *)
OfStart ==
  {<<"askPaused", "askWaiting", "visuals", "beginCall", "initCall", "render">>,
   <<"askWaiting", "visuals", "beginCall", "initCall", "render">>,
   <<"visuals", "beginCall", "initCall", "render">>,
   <<"beginCall", "initCall", "render">>, <<"initCall", "render">>}
OfPass ==
  {<<"askPaused", "askWaiting", "visuals", "beginCall", "call", "clock", "render">>,
   <<"askWaiting", "visuals", "beginCall", "call", "clock", "render">>,
   <<"visuals", "beginCall", "call", "clock", "render">>,
   <<"beginCall", "call", "clock", "render">>, <<"call", "clock", "render">>}
OfBell ==
  {<<"toggle", "askPaused", "askWaiting", "visuals", "render">>,
   <<"askPaused", "askWaiting", "visuals", "render">>,
   <<"askWaiting", "visuals", "render">>, <<"visuals", "render">>}
OfClick == <<"call", "render">>
Turn == <<"clock", "render">>
Draw == <<"render">>

(* The lists whose next step ends a call.                                 *)
Waiting == {<<"initCall", "render">>, <<"call", "clock", "render">>, OfClick}

Todos == OfStart \cup OfPass \cup OfBell \cup {OfClick, Turn, Draw, <<>>}

(* The interval of the clock, less the second that has passed when it is   *)
(* due; the time clicks on the weather may have taken, and dunstctl has.   *)
spare == IF showHour THEN 0 ELSE Minute - 1
cost == calls * MaxCall + asked

ClockTypes ==
  /\ now \in Nat \ {0} /\ todo \in Todos
  /\ waited \in 0..MaxWait /\ called \in 0..MaxCall /\ calls \in Nat
  /\ asked \in Nat
  /\ showHour \in BOOLEAN
  /\ date \in Nat \cup {None} /\ last = date /\ clockUpdate = date
  /\ secondsPerUpdate = IF showHour THEN 1 ELSE Minute

(* A call takes time only where it is the next to end.                     *)
Calling ==
  /\ reply = None => called = 0
  /\ reply # None => todo \in Waiting

(* The window has the last text, except between its making and the render. *)
Drawn == todo # Draw => window.clock = date

(* How old the last text may be: after a render, while the thread waits    *)
(* and through the clicks; in the call of a click; in a pass, whose call   *)
(* comes after the wait.                                                   *)
Aged ==
  date # None =>
    /\ todo \notin OfStart
    /\ todo \in OfBell \cup {Draw, <<>>} => now <= date + spare + waited + cost
    /\ todo = OfClick => now + MaxCall <= date + spare + waited + cost + called
    /\ todo \in OfPass => now <= date + spare + MaxWait + cost + called

ClockInv == ClockTypes /\ Calling /\ Drawn /\ Aged

(* The lists are different ones.                                           *)
LEMMA Lists ==
  /\ \A l \in OfStart : l \notin OfPass \cup OfBell \cup {OfClick, Turn, Draw, <<>>}
  /\ \A l \in OfPass : l \notin OfBell \cup {OfClick, Turn, Draw, <<>>}
  /\ \A l \in OfBell : l \notin {OfClick, Turn, Draw, <<>>}
  /\ OfClick # Turn /\ OfClick # Draw /\ OfClick # <<>> /\ Turn # Draw /\ Turn # <<>>
  /\ Draw # <<>>
  /\ \A l \in Waiting : l \in OfStart \cup OfPass \cup {OfClick}
  /\ <<"initCall", "render">> \in Waiting \cap OfStart
  /\ <<"call", "clock", "render">> \in Waiting \cap OfPass
BY DEF OfStart, OfPass, OfBell, OfClick, Turn, Draw, Waiting

(* Where dunstctl is waited for, no call is.                               *)
LEMMA Asking ==
  ASSUME todo \in Todos, asking
  PROVE  todo \notin Waiting /\ todo \in OfStart \cup OfPass \cup OfBell
<1>1. todo # <<>> /\ Head(todo) \in {"toggle", "askPaused", "askWaiting"}
  BY DEF asking
<1>2. /\ todo # <<"initCall", "render">> /\ todo # <<"call", "clock", "render">>
      /\ todo # <<"call", "render">> /\ todo # <<"clock", "render">> /\ todo # <<"render">>
  BY <1>1
<1> QED
  BY <1>1, <1>2 DEF Todos, Waiting, OfClick, Turn, Draw

-----------------------------------------------------------------------------
(* What a step leaves of each list.                                        *)

BellSteps == {"toggle", "askPaused", "askWaiting", "visuals"}

(* Of the start.                                                           *)
LEMMA InStart ==
  ASSUME todo \in OfStart, NEW s, do(s)
  PROVE  \/ s \in BellSteps /\ todo \notin Waiting /\ todo' \in OfStart
         \/ s = "beginCall" /\ todo \notin Waiting /\ todo' = <<"initCall", "render">>
         \/ s = "initCall" /\ todo' = Draw
<1>1. CASE todo = <<"askPaused", "askWaiting", "visuals", "beginCall", "initCall", "render">>
  <2>1. s = "askPaused" /\ todo' = <<"askWaiting", "visuals", "beginCall", "initCall", "render">>
    BY <1>1 DEF do
  <2> QED
    BY <1>1, <2>1, Lists DEF OfStart, BellSteps, Waiting, OfClick, Draw
<1>2. CASE todo = <<"askWaiting", "visuals", "beginCall", "initCall", "render">>
  <2>1. s = "askWaiting" /\ todo' = <<"visuals", "beginCall", "initCall", "render">>
    BY <1>2 DEF do
  <2> QED
    BY <1>2, <2>1, Lists DEF OfStart, BellSteps, Waiting, OfClick, Draw
<1>3. CASE todo = <<"visuals", "beginCall", "initCall", "render">>
  <2>1. s = "visuals" /\ todo' = <<"beginCall", "initCall", "render">>
    BY <1>3 DEF do
  <2> QED
    BY <1>3, <2>1, Lists DEF OfStart, BellSteps, Waiting, OfClick, Draw
<1>4. CASE todo = <<"beginCall", "initCall", "render">>
  <2>1. s = "beginCall" /\ todo' = <<"initCall", "render">>
    BY <1>4 DEF do
  <2> QED
    BY <1>4, <2>1, Lists DEF OfStart, BellSteps, Waiting, OfClick, Draw
<1>5. CASE todo = <<"initCall", "render">>
  <2>1. s = "initCall" /\ todo' = <<"render">>
    BY <1>5 DEF do
  <2> QED
    BY <1>5, <2>1, Lists DEF OfStart, BellSteps, Waiting, OfClick, Draw
<1> QED
  BY <1>1, <1>2, <1>3, <1>4, <1>5 DEF OfStart

(* Of a pass.                                                              *)
LEMMA InPass ==
  ASSUME todo \in OfPass, NEW s, do(s)
  PROVE  \/ s \in BellSteps /\ todo \notin Waiting /\ todo' \in OfPass
         \/ s = "beginCall" /\ todo \notin Waiting /\ todo' = <<"call", "clock", "render">>
         \/ s = "call" /\ todo' = Turn
<1>1. CASE todo = <<"askPaused", "askWaiting", "visuals", "beginCall", "call", "clock", "render">>
  <2>1. /\ s = "askPaused"
        /\ todo' = <<"askWaiting", "visuals", "beginCall", "call", "clock", "render">>
    BY <1>1 DEF do
  <2> QED
    BY <1>1, <2>1, Lists DEF OfPass, BellSteps, Waiting, OfClick, Turn
<1>2. CASE todo = <<"askWaiting", "visuals", "beginCall", "call", "clock", "render">>
  <2>1. s = "askWaiting" /\ todo' = <<"visuals", "beginCall", "call", "clock", "render">>
    BY <1>2 DEF do
  <2> QED
    BY <1>2, <2>1, Lists DEF OfPass, BellSteps, Waiting, OfClick, Turn
<1>3. CASE todo = <<"visuals", "beginCall", "call", "clock", "render">>
  <2>1. s = "visuals" /\ todo' = <<"beginCall", "call", "clock", "render">>
    BY <1>3 DEF do
  <2> QED
    BY <1>3, <2>1, Lists DEF OfPass, BellSteps, Waiting, OfClick, Turn
<1>4. CASE todo = <<"beginCall", "call", "clock", "render">>
  <2>1. s = "beginCall" /\ todo' = <<"call", "clock", "render">>
    BY <1>4 DEF do
  <2> QED
    BY <1>4, <2>1, Lists DEF OfPass, BellSteps, Waiting, OfClick, Turn
<1>5. CASE todo = <<"call", "clock", "render">>
  <2>1. s = "call" /\ todo' = <<"clock", "render">>
    BY <1>5 DEF do
  <2> QED
    BY <1>5, <2>1, Lists DEF OfPass, BellSteps, Waiting, OfClick, Turn
<1> QED
  BY <1>1, <1>2, <1>3, <1>4, <1>5 DEF OfPass

(* Of a click on the notifications.                                        *)
LEMMA InBell ==
  ASSUME todo \in OfBell, NEW s, do(s)
  PROVE  s \in BellSteps /\ todo' \in OfBell \cup {Draw}
<1>1. CASE todo = <<"toggle", "askPaused", "askWaiting", "visuals", "render">>
  <2>1. s = "toggle" /\ todo' = <<"askPaused", "askWaiting", "visuals", "render">>
    BY <1>1 DEF do
  <2> QED
    BY <1>1, <2>1, Lists DEF OfBell, BellSteps, Draw
<1>2. CASE todo = <<"askPaused", "askWaiting", "visuals", "render">>
  <2>1. s = "askPaused" /\ todo' = <<"askWaiting", "visuals", "render">>
    BY <1>2 DEF do
  <2> QED
    BY <1>2, <2>1, Lists DEF OfBell, BellSteps, Draw
<1>3. CASE todo = <<"askWaiting", "visuals", "render">>
  <2>1. s = "askWaiting" /\ todo' = <<"visuals", "render">>
    BY <1>3 DEF do
  <2> QED
    BY <1>3, <2>1, Lists DEF OfBell, BellSteps, Draw
<1>4. CASE todo = <<"visuals", "render">>
  <2>1. s = "visuals" /\ todo' = <<"render">>
    BY <1>4 DEF do
  <2> QED
    BY <1>4, <2>1, Lists DEF OfBell, BellSteps, Draw
<1> QED
  BY <1>1, <1>2, <1>3, <1>4 DEF OfBell

(* Of the others.                                                          *)
LEMMA InRest ==
  ASSUME todo \in {OfClick, Turn, Draw, <<>>}, NEW s, do(s)
  PROVE  \/ s = "call" /\ todo = OfClick /\ todo' = Draw
         \/ s = "clock" /\ todo = Turn /\ todo' = Draw
         \/ s = "render" /\ todo = Draw /\ todo' = <<>>
<1>1. CASE todo = OfClick
  BY <1>1 DEF do, OfClick, Draw
<1>2. CASE todo = Turn
  BY <1>2 DEF do, Turn, Draw
<1>3. CASE todo = Draw
  BY <1>3 DEF do, Draw
<1>4. todo # <<>>
  BY DEF do
<1> QED
  BY <1>1, <1>2, <1>3, <1>4

(* The lists a start, a timeout and a click on the notifications make.     *)
LEMMA Joined ==
  /\ StateSteps \o <<"beginCall", "initCall", "render">>
       = <<"askPaused", "askWaiting", "visuals", "beginCall", "initCall", "render">>
  /\ StateSteps \o <<"beginCall", "call", "clock", "render">>
       = <<"askPaused", "askWaiting", "visuals", "beginCall", "call", "clock", "render">>
  /\ <<"toggle">> \o StateSteps \o <<"render">>
       = <<"toggle", "askPaused", "askWaiting", "visuals", "render">>
<1>1. StateSteps \o <<"beginCall", "initCall", "render">>
        = <<"askPaused", "askWaiting", "visuals", "beginCall", "initCall", "render">>
  <2> DEFINE s == StateSteps \o <<"beginCall", "initCall", "render">>
  <2>1. Len(s) = 6 /\ s \in Seq(Steps)
    BY DEF StateSteps, Steps
  <2>2. /\ s[1] = "askPaused" /\ s[2] = "askWaiting" /\ s[3] = "visuals"
        /\ s[4] = "beginCall" /\ s[5] = "initCall" /\ s[6] = "render"
    BY DEF StateSteps
  <2>3. <<"askPaused", "askWaiting", "visuals", "beginCall", "initCall", "render">> \in Seq(Steps)
    BY DEF Steps
  <2> HIDE DEF s
  <2>4. \A n \in 1..6 :
          s[n] = <<"askPaused", "askWaiting", "visuals", "beginCall", "initCall", "render">>[n]
    BY <2>2
  <2>5. s = <<"askPaused", "askWaiting", "visuals", "beginCall", "initCall", "render">>
    BY <2>1, <2>3, <2>4, SeqEqual
  <2> QED
    BY <2>5 DEF s
<1>2. StateSteps \o <<"beginCall", "call", "clock", "render">>
        = <<"askPaused", "askWaiting", "visuals", "beginCall", "call", "clock", "render">>
  <2> DEFINE s == StateSteps \o <<"beginCall", "call", "clock", "render">>
  <2>1. Len(s) = 7 /\ s \in Seq(Steps)
    BY DEF StateSteps, Steps
  <2>2. /\ s[1] = "askPaused" /\ s[2] = "askWaiting" /\ s[3] = "visuals"
        /\ s[4] = "beginCall" /\ s[5] = "call" /\ s[6] = "clock" /\ s[7] = "render"
    BY DEF StateSteps
  <2>3. <<"askPaused", "askWaiting", "visuals", "beginCall", "call", "clock", "render">> \in Seq(Steps)
    BY DEF Steps
  <2> HIDE DEF s
  <2>4. \A n \in 1..7 :
          s[n] = <<"askPaused", "askWaiting", "visuals", "beginCall", "call", "clock", "render">>[n]
    BY <2>2
  <2>5. s = <<"askPaused", "askWaiting", "visuals", "beginCall", "call", "clock", "render">>
    BY <2>1, <2>3, <2>4, SeqEqual
  <2> QED
    BY <2>5 DEF s
<1>3. <<"toggle">> \o StateSteps \o <<"render">>
        = <<"toggle", "askPaused", "askWaiting", "visuals", "render">>
  <2> DEFINE s == <<"toggle">> \o StateSteps \o <<"render">>
  <2>1. Len(s) = 5 /\ s \in Seq(Steps)
    BY DEF StateSteps, Steps
  <2>2. /\ s[1] = "toggle" /\ s[2] = "askPaused" /\ s[3] = "askWaiting"
        /\ s[4] = "visuals" /\ s[5] = "render"
    BY DEF StateSteps
  <2>3. <<"toggle", "askPaused", "askWaiting", "visuals", "render">> \in Seq(Steps)
    BY DEF Steps
  <2> HIDE DEF s
  <2>4. \A n \in 1..5 : s[n] = <<"toggle", "askPaused", "askWaiting", "visuals", "render">>[n]
    BY <2>2
  <2>5. s = <<"toggle", "askPaused", "askWaiting", "visuals", "render">>
    BY <2>1, <2>3, <2>4, SeqEqual
  <2> QED
    BY <2>5 DEF s
<1> QED
  BY <1>1, <1>2, <1>3

-----------------------------------------------------------------------------

(* Facts about the constants and the sums.                                 *)
LEMMA Costs ==
  ASSUME ClockTypes
  PROVE  /\ MaxCall \in Nat /\ MaxWait \in Nat /\ Minute \in Nat /\ Minute > 1
         /\ cost \in Nat /\ spare \in Nat
         /\ calls' = calls + 1 /\ asked' = asked => cost' = cost + MaxCall
         /\ calls' = calls /\ asked' = asked + 1 => cost' = cost + 1
         /\ calls' = calls /\ asked' = asked => cost' = cost
         /\ counted => cost' \in Nat
         /\ showHour' = showHour => spare' = spare
<1>1. MaxCall \in Nat /\ MaxWait \in Nat /\ Minute \in Nat /\ Minute > 1 /\ None \notin Nat
  BY TopBarAssumption
<1>2. cost \in Nat /\ spare \in Nat
  BY <1>1 DEF ClockTypes, cost, spare
<1>3. (calls + 1) * MaxCall = calls * MaxCall + MaxCall
  BY <1>1 DEF ClockTypes
<1>4. calls * MaxCall \in Nat /\ asked \in Nat
  BY <1>1 DEF ClockTypes
<1>5. counted => cost' \in Nat
  <2>1. CASE UNCHANGED <<calls, asked>>
    BY <1>2, <2>1 DEF cost
  <2>2. CASE calls' = 0 /\ asked' = 0
    BY <1>1, <2>2 DEF cost
  <2> QED
    BY <2>1, <2>2 DEF counted
<1> QED
  BY <1>1, <1>2, <1>3, <1>4, <1>5 DEF cost, spare

(* The start.                                                              *)
LEMMA ClockInit == Init => ClockInv
<1> SUFFICES ASSUME Init PROVE ClockInv
  OBVIOUS
<1>1. /\ now = 1 /\ waited = 0 /\ called = 0 /\ calls = 0 /\ asked = 0 /\ reply = None
      /\ showHour = TRUE /\ secondsPerUpdate = 1 /\ window.clock = None
      /\ last = None /\ clockUpdate = None /\ date = None
  BY DEF Init, W!Init, D!Init
<1>2. todo = <<"askPaused", "askWaiting", "visuals", "beginCall", "initCall", "render">>
  BY Joined DEF Init
<1>3. todo \in OfStart
  BY <1>2 DEF OfStart
<1>4. showHour \in BOOLEAN
  BY <1>1
<1>5. ClockTypes
  BY <1>1, <1>3, <1>4, TopBarAssumption DEF ClockTypes, Todos
<1> QED
  BY <1>1, <1>5 DEF ClockInv, Calling, Drawn, Aged

(* Steps in which no time passes and the clock is left alone: of the       *)
(* lists, they stay in one, or go from the last of them to the render.     *)
LEMMA ClockQuiet ==
  ASSUME ClockInv,
         UNCHANGED <<now, waited, called, calls, asked, window, dvars, reply>>,
         \/ todo' = todo
         \/ /\ todo \notin Waiting \cup {Draw}
            /\ \/ todo \in OfStart /\ todo' \in OfStart
               \/ todo \in OfPass /\ todo' \in OfPass
               \/ todo \in OfBell \cup {<<>>} /\ todo' \in OfBell \cup {Draw}
  PROVE  ClockInv'
<1>1. ClockTypes'
  BY DEF ClockInv, ClockTypes, Todos, dvars
<1>2. cost' = cost /\ spare' = spare
  BY Costs DEF ClockInv, dvars
<1>3. Calling'
  BY DEF ClockInv, Calling
<1>4. Drawn'
  BY Lists DEF ClockInv, Drawn, dvars
<1>5. Aged'
  BY <1>2, Lists DEF ClockInv, Aged, dvars
<1> QED
  BY <1>1, <1>3, <1>4, <1>5 DEF ClockInv

(* A question of dunst, its visuals, the toggle.                           *)
LEMMA BellStep ==
  ASSUME ClockInv, AskDunst \/ Visuals \/ ToggleDunst
  PROVE  ClockInv'
<1>1. PICK s \in BellSteps : do(s)
  BY DEF AskDunst, Visuals, ToggleDunst, BellSteps
<1>2. UNCHANGED <<now, waited, called, calls, asked, window, dvars, reply>>
  BY DEF AskDunst, Visuals, ToggleDunst, wvars
<1>3. s \notin {"beginCall", "initCall", "call", "clock", "render"}
  BY DEF BellSteps
<1>4. todo \in OfStart \cup OfPass \cup OfBell \cup {OfClick, Turn, Draw, <<>>}
  BY DEF ClockInv, ClockTypes, Todos
<1>5. CASE todo \in OfStart
  BY <1>1, <1>2, <1>3, <1>5, InStart, ClockQuiet, Lists
<1>6. CASE todo \in OfPass
  BY <1>1, <1>2, <1>3, <1>6, InPass, ClockQuiet, Lists
<1>7. CASE todo \in OfBell
  BY <1>1, <1>2, <1>3, <1>7, InBell, ClockQuiet, Lists
<1>8. CASE todo \in {OfClick, Turn, Draw, <<>>}
  BY <1>1, <1>3, <1>8, InRest
<1> QED
  BY <1>4, <1>5, <1>6, <1>7, <1>8

(* The weather's turn: a call may begin.                                   *)
LEMMA BeginStep ==
  ASSUME ClockInv, BeginCall
  PROVE  ClockInv'
<1>1. do("beginCall") /\ UNCHANGED <<now, waited, called, calls, asked, window, dvars>>
  BY DEF BeginCall, W!fetchBegins, wvars
<1>2. todo \in OfStart \cup OfPass \cup OfBell \cup {OfClick, Turn, Draw, <<>>}
  BY DEF ClockInv, ClockTypes, Todos
<1>3. /\ todo \notin Waiting \cup {Draw}
      /\ \/ todo \in OfStart /\ todo' = <<"initCall", "render">>
         \/ todo \in OfPass /\ todo' = <<"call", "clock", "render">>
  <2>1. CASE todo \in OfStart
    BY <1>1, <2>1, InStart, Lists DEF BellSteps
  <2>2. CASE todo \in OfPass
    BY <1>1, <2>2, InPass, Lists DEF BellSteps
  <2>3. CASE todo \in OfBell
    BY <1>1, <2>3, InBell DEF BellSteps
  <2>4. CASE todo \in {OfClick, Turn, Draw, <<>>}
    BY <1>1, <2>4, InRest
  <2> QED
    BY <1>2, <2>1, <2>2, <2>3, <2>4
<1>4. reply = None /\ called = 0
  BY <1>3 DEF ClockInv, Calling
<1>5. todo' \in Waiting /\ todo' # Draw
  BY <1>3, Lists
<1>6. ClockTypes'
  BY <1>1, <1>3, Lists DEF ClockInv, ClockTypes, Todos, dvars
<1>7. cost' = cost /\ spare' = spare
  BY <1>1, Costs DEF ClockInv, dvars
<1>8. Calling' /\ Drawn'
  BY <1>1, <1>3, <1>4, <1>5 DEF ClockInv, Calling, Drawn, dvars
<1>9. Aged'
  BY <1>1, <1>3, <1>7, Lists DEF ClockInv, Aged, dvars
<1> QED
  BY <1>6, <1>8, <1>9 DEF ClockInv

(* A call ends; that of a click has taken MaxCall at most, which is part   *)
(* of the cost of the click.                                               *)
LEMMA EndStep ==
  ASSUME ClockInv, InitCall \/ EndCall
  PROVE  ClockInv'
<1>1. /\ UNCHANGED <<now, waited, calls, asked, window, dvars>> /\ called' = 0
      /\ \/ do("initCall") /\ reply' = None
         \/ do("call") /\ reply' = None
  BY DEF InitCall, EndCall, W!initialize, W!doUpdate, W!fetchReturns, wvars,
         ClockInv, Calling
<1>2. todo \in OfStart \cup OfPass \cup OfBell \cup {OfClick, Turn, Draw, <<>>}
  BY DEF ClockInv, ClockTypes, Todos
<1>3. \/ todo \in OfStart /\ todo' = Draw
      \/ todo = OfClick /\ todo' = Draw
      \/ todo \in OfPass /\ todo' = Turn
  <2>1. CASE todo \in OfStart
    BY <1>1, <2>1, InStart DEF BellSteps
  <2>2. CASE todo \in OfPass
    BY <1>1, <2>2, InPass DEF BellSteps
  <2>3. CASE todo \in OfBell
    BY <1>1, <2>3, InBell DEF BellSteps
  <2>4. CASE todo \in {OfClick, Turn, Draw, <<>>}
    BY <1>1, <2>4, InRest
  <2> QED
    BY <1>2, <2>1, <2>2, <2>3, <2>4
<1>4. MaxCall \in Nat /\ called \in 0..MaxCall
  BY TopBarAssumption DEF ClockInv, ClockTypes
<1>5. ClockTypes'
  BY <1>1, <1>3, <1>4 DEF ClockInv, ClockTypes, Todos, dvars
<1>6. cost' = cost /\ spare' = spare /\ cost \in Nat /\ spare \in Nat
  BY <1>1, Costs DEF ClockInv, dvars
<1>7. Calling' /\ Drawn'
  BY <1>1, <1>3, Lists DEF ClockInv, Calling, Drawn, dvars
<1>8. Aged'
  <2> SUFFICES ASSUME date # None PROVE Aged'
    BY <1>1 DEF Aged, dvars
  <2>1. date \in Nat /\ now \in Nat /\ waited \in Nat
    BY TopBarAssumption DEF ClockInv, ClockTypes
  <2>2. CASE todo = OfClick /\ todo' = Draw
    <3>1. now + MaxCall <= date + spare + waited + cost + called
      BY <2>2 DEF ClockInv, Aged
    <3>2. now <= date + spare + waited + cost
      BY <1>4, <1>6, <2>1, <3>1
    <3> QED
      BY <1>1, <1>6, <2>2, <3>2, Lists DEF Aged, dvars
  <2>3. CASE todo \in OfPass /\ todo' = Turn
    BY <1>1, <2>3, Lists DEF Aged, dvars
  <2> QED
    BY <1>3, <2>2, <2>3 DEF ClockInv, Aged
<1> QED
  BY <1>5, <1>7, <1>8 DEF ClockInv

(* doUpdate makes the text of this second, or has made it.                 *)
LEMMA Made ==
  ASSUME ClockTypes, D!doUpdate, now' = now
  PROVE  date' = now /\ last' = date' /\ clockUpdate' = date'
BY TopBarAssumption DEF ClockTypes, D!doUpdate

(* The clock's turn: a text that is not due is younger than its interval.  *)
LEMMA TurnStep ==
  ASSUME ClockInv, Clock
  PROVE  ClockInv'
<1>1. do("clock") /\ counted /\ UNCHANGED <<now, waited, called, window, reply>>
  BY DEF Clock, wvars
<1>2. todo \in OfStart \cup OfPass \cup OfBell \cup {OfClick, Turn, Draw, <<>>}
  BY DEF ClockInv, ClockTypes, Todos
<1>3. todo = Turn /\ todo' = Draw
  BY <1>1, <1>2, InStart, InPass, InBell, InRest DEF BellSteps
<1>4. showHour' = showHour /\ secondsPerUpdate' = secondsPerUpdate
  BY DEF Clock, D!checkAndUpdate
<1>5. /\ last' = date' /\ clockUpdate' = date' /\ date' \in Nat
      /\ now <= date' + spare
  <2>1. CASE D!shouldUpdate
    <3>1. D!doUpdate
      BY <2>1 DEF Clock, D!checkAndUpdate
    <3> QED
      BY <1>1, <3>1, Made, Costs DEF ClockInv, ClockTypes
  <2>2. CASE ~D!shouldUpdate
    <3>1. UNCHANGED <<last, clockUpdate, date>>
      BY <2>2 DEF Clock, D!checkAndUpdate
    <3>2. date \in Nat /\ now \in Nat /\ ~(now - date >= secondsPerUpdate)
      BY <2>2 DEF ClockInv, ClockTypes, D!shouldUpdate
    <3>3. now <= date + spare
      BY <3>2, TopBarAssumption DEF ClockInv, ClockTypes, spare
    <3> QED
      BY <3>1, <3>2, <3>3 DEF ClockInv, ClockTypes
  <2> QED
    BY <2>1, <2>2
<1>6. cost' \in Nat /\ spare' = spare /\ spare \in Nat
  BY <1>1, <1>4, Costs DEF ClockInv
<1>7. ClockTypes'
  BY <1>1, <1>3, <1>4, <1>5 DEF ClockInv, ClockTypes, Todos, counted
<1>8. Calling'
  BY <1>1, <1>3, Lists DEF ClockInv, Calling
<1>9. Drawn'
  BY <1>3 DEF Drawn
<1>10. Aged'
  <2>1. waited \in Nat /\ now \in Nat
    BY TopBarAssumption DEF ClockInv, ClockTypes
  <2>2. PICK d \in Nat : d = date' /\ now <= d + spare
    BY <1>5
  <2>3. PICK c \in Nat : c = cost'
    BY <1>6
  <2>4. now <= d + spare + waited + c
    <3>1. now <= d + spare /\ spare \in Nat
      BY <1>6, <2>2
    <3> QED
      BY <2>1, <3>1
  <2> QED
    BY <1>1, <1>3, <1>6, <2>2, <2>3, <2>4, Lists DEF Aged
<1> QED
  BY <1>7, <1>8, <1>9, <1>10 DEF ClockInv

(* The render.                                                             *)
LEMMA DrawStep ==
  ASSUME ClockInv, renderBar
  PROVE  ClockInv'
<1>1. /\ do("render") /\ UNCHANGED <<now, waited, called, calls, asked, dvars, reply>>
      /\ window'.clock = date
  BY DEF renderBar, wvars
<1>2. todo \in OfStart \cup OfPass \cup OfBell \cup {OfClick, Turn, Draw, <<>>}
  BY DEF ClockInv, ClockTypes, Todos
<1>3. todo = Draw /\ todo' = <<>>
  BY <1>1, <1>2, InStart, InPass, InBell, InRest DEF BellSteps
<1>4. cost' = cost /\ spare' = spare
  BY <1>1, Costs DEF ClockInv, dvars
<1>5. ClockTypes'
  BY <1>1, <1>3 DEF ClockInv, ClockTypes, Todos, dvars
<1>6. Calling' /\ Drawn'
  BY <1>1, <1>3, Lists DEF ClockInv, Calling, Drawn, dvars
<1>7. Aged'
  BY <1>1, <1>3, <1>4, Lists DEF ClockInv, Aged, dvars
<1> QED
  BY <1>5, <1>6, <1>7 DEF ClockInv

(* A timeout: the wait is over, and was MaxWait at most.                   *)
LEMMA TimeoutStep ==
  ASSUME ClockInv, Timeout
  PROVE  ClockInv'
<1>1. /\ todo = <<>> /\ waited' = 0
      /\ UNCHANGED <<now, called, calls, asked, window, dvars, reply>>
  BY DEF Timeout, wvars
<1>2. todo' = <<"askPaused", "askWaiting", "visuals", "beginCall", "call", "clock", "render">>
  BY Joined DEF Timeout
<1>3. todo' \in OfPass
  BY <1>2 DEF OfPass
<1>4. reply = None
  BY <1>1, Lists DEF ClockInv, Calling
<1>5. cost' = cost /\ spare' = spare /\ cost \in Nat /\ spare \in Nat /\ MaxWait \in Nat
  BY <1>1, Costs DEF ClockInv, dvars
<1>6. ClockTypes'
  BY <1>1, <1>3, <1>5 DEF ClockInv, ClockTypes, Todos, dvars
<1>7. Calling' /\ Drawn'
  BY <1>1, <1>3, <1>4, Lists DEF ClockInv, Calling, Drawn, dvars
<1>8. Aged'
  <2> SUFFICES ASSUME date # None PROVE Aged'
    BY <1>1 DEF Aged, dvars
  <2>1. /\ date \in Nat /\ now \in Nat /\ waited \in 0..MaxWait /\ called = 0
        /\ now <= date + spare + waited + cost
    BY <1>1, <1>4, Lists DEF ClockInv, ClockTypes, Aged, Calling
  <2>2. now <= date + spare + MaxWait + cost + called
    BY <1>5, <2>1
  <2> QED
    BY <1>1, <1>3, <1>5, <2>2, Lists DEF Aged, dvars
<1> QED
  BY <1>6, <1>7, <1>8 DEF ClockInv

(* A click on the weather pays for its call.                               *)
LEMMA WeatherStep ==
  ASSUME ClockInv, ClickWeather
  PROVE  ClockInv'
<1>1. /\ todo = <<>> /\ todo' = OfClick /\ calls' = calls + 1
      /\ UNCHANGED <<now, waited, called, asked, window, dvars>>
  BY DEF ClickWeather, OfClick, W!toggleDetails, W!fetchBegins
<1>2. reply = None /\ called = 0
  BY <1>1, Lists DEF ClockInv, Calling
<1>3. /\ cost' = cost + MaxCall /\ spare' = spare
      /\ cost \in Nat /\ spare \in Nat /\ MaxCall \in Nat /\ MaxWait \in Nat
  BY <1>1, Costs DEF ClockInv, dvars
<1>4. ClockTypes'
  BY <1>1 DEF ClockInv, ClockTypes, Todos, dvars
<1>5. Calling' /\ Drawn'
  BY <1>1, <1>2, Lists DEF ClockInv, Calling, Drawn, dvars, Waiting
<1>6. Aged'
  <2> SUFFICES ASSUME date # None PROVE Aged'
    BY <1>1 DEF Aged, dvars
  <2>1. /\ date \in Nat /\ now \in Nat /\ waited \in 0..MaxWait
        /\ now <= date + spare + waited + cost
    BY <1>1, Lists DEF ClockInv, ClockTypes, Aged
  <2>2. now + MaxCall <= date + spare + waited + (cost + MaxCall) + called
    BY <1>2, <1>3, <2>1
  <2> QED
    BY <1>1, <1>3, <2>2, Lists DEF Aged, dvars
<1> QED
  BY <1>4, <1>5, <1>6 DEF ClockInv

(* A click on the clock changes its interval and makes a text.             *)
LEMMA ClickStep ==
  ASSUME ClockInv, ClickClock
  PROVE  ClockInv'
<1>1. /\ todo = <<>> /\ todo' = Draw
      /\ counted /\ UNCHANGED <<now, waited, called, window, reply>>
  BY DEF ClickClock, Draw, wvars
<1>2. /\ showHour' = ~showHour /\ D!doUpdate
      /\ secondsPerUpdate' = IF showHour' THEN 1 ELSE Minute
  BY DEF ClickClock, D!click
<1>3. date' = now /\ last' = date' /\ clockUpdate' = date'
  BY <1>1, <1>2, Made DEF ClockInv
<1>4. showHour' \in BOOLEAN
  BY <1>2
<1>5. ClockTypes'
  BY <1>1, <1>2, <1>3, <1>4 DEF ClockInv, ClockTypes, Todos, counted
<1>6. Calling' /\ Drawn'
  BY <1>1, Lists DEF ClockInv, Calling, Drawn
<1>7. Aged'
  <2>1. cost' \in Nat
    BY <1>1, Costs DEF ClockInv
  <2>2. spare' \in Nat
    BY <1>4, TopBarAssumption DEF spare
  <2>3. waited \in Nat /\ now \in Nat
    BY TopBarAssumption DEF ClockInv, ClockTypes
  <2>4. PICK e \in Nat : e = spare'
    BY <2>2
  <2>5. PICK c \in Nat : c = cost'
    BY <2>1
  <2>6. now <= now + e + waited + c
    BY <2>3
  <2> QED
    BY <1>1, <1>3, <2>4, <2>5, <2>6, Lists DEF Aged
<1> QED
  BY <1>5, <1>6, <1>7 DEF ClockInv

(* A second passes, in select(), in a call or in dunstctl.                 *)
LEMMA TickStep ==
  ASSUME ClockInv, Tick
  PROVE  ClockInv'
<1>1. now' = now + 1 /\ UNCHANGED <<todo, calls, window, dvars, reply>>
  BY DEF Tick
<1>2. /\ spare' = spare /\ (asked' = asked => cost' = cost)
      /\ (asked' = asked + 1 => cost' = cost + 1)
      /\ cost \in Nat /\ spare \in Nat /\ MaxCall \in Nat /\ MaxWait \in Nat
  BY <1>1, Costs DEF ClockInv, dvars
<1>3. /\ now \in Nat /\ waited \in 0..MaxWait /\ called \in 0..MaxCall
      /\ asked \in Nat
  BY DEF ClockInv, ClockTypes
<1>4. CASE /\ todo = <<>> /\ waited < MaxWait
           /\ waited' = waited + 1 /\ UNCHANGED <<called, asked>>
  <2>1. ClockTypes'
    BY <1>1, <1>2, <1>3, <1>4 DEF ClockInv, ClockTypes, dvars
  <2>2. Calling' /\ Drawn'
    BY <1>1, <1>4 DEF ClockInv, Calling, Drawn, dvars
  <2>3. date # None => now + 1 <= date + spare + (waited + 1) + cost
    BY <1>2, <1>3, <1>4 DEF ClockInv, ClockTypes, Aged
  <2>4. Aged'
    BY <1>1, <1>2, <1>4, <2>3, Lists DEF Aged, dvars
  <2> QED
    BY <2>1, <2>2, <2>4 DEF ClockInv
<1>5. CASE /\ reply # None /\ called < MaxCall
           /\ called' = called + 1 /\ UNCHANGED <<waited, asked>>
  <2>1. ClockTypes'
    BY <1>1, <1>2, <1>3, <1>5 DEF ClockInv, ClockTypes, dvars
  <2>2. Calling' /\ Drawn'
    BY <1>1, <1>5 DEF ClockInv, Calling, Drawn, dvars
  <2>3. todo \in Waiting
    BY <1>5 DEF ClockInv, Calling
  <2>4. todo = OfClick /\ date # None =>
          (now + 1) + MaxCall <= date + spare + waited + cost + (called + 1)
    BY <1>2, <1>3 DEF ClockInv, ClockTypes, Aged
  <2>5. todo \in OfPass /\ date # None =>
          now + 1 <= date + spare + MaxWait + cost + (called + 1)
    BY <1>2, <1>3 DEF ClockInv, ClockTypes, Aged
  <2>6. date # None => todo \notin OfStart
    BY DEF ClockInv, Aged
  <2>7. Aged'
    BY <1>1, <1>2, <1>5, <2>3, <2>4, <2>5, <2>6, Lists DEF Aged, dvars
  <2> QED
    BY <2>1, <2>2, <2>7 DEF ClockInv
<1>6. CASE asking /\ asked' = asked + 1 /\ UNCHANGED <<waited, called>>
  <2>1. ClockTypes'
    BY <1>1, <1>2, <1>3, <1>6 DEF ClockInv, ClockTypes, dvars
  <2>2. Calling' /\ Drawn'
    BY <1>1, <1>6 DEF ClockInv, Calling, Drawn, dvars
  <2>3. todo \in OfStart \cup OfPass \cup OfBell
    BY <1>6, Asking DEF ClockInv, ClockTypes
  <2>4. todo \in OfBell /\ date # None => now + 1 <= date + spare + waited + (cost + 1)
    BY <1>2, <1>3 DEF ClockInv, ClockTypes, Aged
  <2>5. todo \in OfPass /\ date # None =>
          now + 1 <= date + spare + MaxWait + (cost + 1) + called
    BY <1>2, <1>3 DEF ClockInv, ClockTypes, Aged
  <2>6. date # None => todo \notin OfStart
    BY DEF ClockInv, Aged
  <2>7. Aged'
    BY <1>1, <1>2, <1>6, <2>3, <2>4, <2>5, <2>6, Lists DEF Aged, dvars
  <2> QED
    BY <2>1, <2>2, <2>7 DEF ClockInv
<1> QED
  BY <1>4, <1>5, <1>6 DEF Tick

(* Every step keeps the invariant.                                         *)
LEMMA ClockStep == ClockInv /\ [Next]_vars => ClockInv'
<1> SUFFICES ASSUME ClockInv, [Next]_vars PROVE ClockInv'
  OBVIOUS
<1>1. CASE ClickNotifications
  <2>1. todo = <<>> /\ UNCHANGED <<now, waited, called, calls, asked, window, dvars, reply>>
    BY <1>1 DEF ClickNotifications, wvars
  <2>2. todo' = <<"toggle", "askPaused", "askWaiting", "visuals", "render">>
    BY <1>1, Joined DEF ClickNotifications
  <2>3. todo' \in OfBell /\ todo \notin Waiting \cup {Draw}
    BY <2>1, <2>2, Lists DEF OfBell
  <2> QED
    BY <2>1, <2>3, ClockQuiet
<1>2. CASE Publish
  BY <1>2, ClockQuiet DEF Publish, W!Publish, thread
<1>3. CASE DunstChanges \/ UNCHANGED vars
  BY <1>3, ClockQuiet DEF DunstChanges, vars, thread, wvars
<1> QED
  BY <1>1, <1>2, <1>3, BellStep, BeginStep, EndStep, TurnStep, DrawStep, TimeoutStep,
     WeatherStep, ClickStep, TickStep DEF Next, Thread

(* The time on the window is never older than the interval, a wait, one    *)
(* call and one more for each click on the weather, and what dunstctl has  *)
(* taken (main.cpp 234-241, datetime.h 35-56, notifications.h 17-35).      *)
THEOREM TopBarClockLag == Spec => []ClockLag
<1>1. ClockInv => ClockLag
  <2> SUFFICES ASSUME ClockInv, todo = <<>> \/ reply # None \/ asking,
                      window.clock # None
               PROVE  now - window.clock
                        <= MaxWait + (1 + calls) * MaxCall + asked + spare
    BY DEF ClockLag, spare
  <2>1. todo \in OfStart \cup OfPass \cup OfBell \cup {OfClick, <<>>}
    <3>1. asking => todo \in OfStart \cup OfPass \cup OfBell
      BY Asking DEF ClockInv, ClockTypes
    <3>2. reply # None => todo \in OfStart \cup OfPass \cup {OfClick}
      BY Lists DEF ClockInv, Calling
    <3> QED
      BY <3>1, <3>2
  <2>2. window.clock = date
    BY <2>1, Lists DEF ClockInv, Drawn
  <2>3. /\ date \in Nat /\ now \in Nat /\ waited \in 0..MaxWait /\ called \in 0..MaxCall
        /\ cost \in Nat /\ spare \in Nat /\ MaxCall \in Nat /\ MaxWait \in Nat
        /\ calls \in Nat /\ asked \in Nat
    BY <2>2, Costs DEF ClockInv, ClockTypes
  <2>4. (1 + calls) * MaxCall = MaxCall + calls * MaxCall
    BY <2>3
  <2>5. (1 + calls) * MaxCall + asked = MaxCall + cost
    BY <2>3, <2>4 DEF cost
  <2>6. now <= date + spare + MaxWait + cost + MaxCall
    BY <2>1, <2>2, <2>3, Lists DEF ClockInv, Aged
  <2>7. MaxWait + (1 + calls) * MaxCall + asked + spare = MaxWait + (MaxCall + cost) + spare
    BY <2>3, <2>5
  <2> QED
    BY <2>2, <2>3, <2>6, <2>7
<1> QED
  BY <1>1, ClockInit, ClockStep, PTL DEF Spec

-----------------------------------------------------------------------------
(* The forecast.                                                           *)

(* The clocks: the service's has Skew seconds more.  A call under way      *)
(* began in a second in which time(nullptr) was 1 or later.                *)
Dates ==
  /\ now \in Nat \ {0} /\ published \in Int /\ lastModified \in Nat
  /\ called \in Nat /\ called < now
  /\ Skew <= published /\ published <= now + Skew /\ lastModified <= now

(* What will yet be published in a second that the date covers is counted  *)
(* as hidden.                                                              *)
Hides ==
  lastModified # 0 =>
    \A p \in Int : now + Skew <= p /\ p <= lastModified => p \in blind

(* What will come is the newest forecast, or that was published since the  *)
(* call began; a call that will bring a body was begun because of a newer  *)
(* forecast, or without a date.                                            *)
Coming ==
  reply # None =>
    /\ reply.kind \in {"fresh", "bad"} => W!modified
    /\ reply.forecast = newest \/ now - called + Skew <= published

Kept == Dates /\ Hides /\ Coming /\ CacheIsCurrent

(* Nothing has been fetched at first.                                      *)
LEMMA KeptInit == Init => Kept
<1> SUFFICES ASSUME Init PROVE Kept
  OBVIOUS
<1>1. reply = None /\ called = 0 /\ lastModified = 0 /\ published = Skew /\ now = 1
  BY DEF Init, W!Init
<1>2. Skew \in Int
  BY TopBarAssumption
<1>3. W!modified
  BY <1>1 DEF W!modified
<1>4. Dates
  BY <1>1, <1>2 DEF Dates
<1> QED
  BY <1>1, <1>3, <1>4 DEF Kept, Hides, Coming, CacheIsCurrent

(* The time goes on, and what else is not the weather's.                   *)
LEMMA KeptOther ==
  ASSUME Kept,
         UNCHANGED <<newest, published, forecast, lastModified, reply, blind>>,
         \/ now' = now /\ called' = called
         \/ now' = now + 1 /\ called' = called /\ reply = None
         \/ now' = now + 1 /\ called' = called + 1 /\ reply # None
  PROVE  Kept'
<1>1. Skew \in Int /\ Dates
  BY TopBarAssumption DEF Kept
<1>2. Dates'
  BY <1>1 DEF Kept, Dates
<1>3. Hides'
  BY <1>1 DEF Kept, Hides, Dates
<1>4. W!modified' <=> W!modified
  BY DEF W!modified
<1>5. Coming'
  BY <1>1, <1>4 DEF Kept, Coming, Dates
<1>6. CacheIsCurrent'
  BY <1>4 DEF Kept, CacheIsCurrent
<1> QED
  BY <1>2, <1>3, <1>5, <1>6 DEF Kept

(* A call begins: what will come is the newest forecast.                   *)
LEMMA KeptBegin ==
  ASSUME Kept, W!fetchBegins, now' = now
  PROVE  Kept'
<1>1. PICK k \in (IF W!modified THEN {"fresh", "bad"} ELSE {"cached"}) \cup {"error"} :
        reply' = [kind |-> k, forecast |-> newest]
  BY DEF W!fetchBegins
<1>2. reply'.kind = k /\ reply'.forecast = newest
  BY <1>1
<1>3. /\ UNCHANGED <<newest, published, forecast, lastModified, called, blind>>
      /\ reply = None
  BY DEF W!fetchBegins
<1>4. W!modified' <=> W!modified
  BY <1>3 DEF W!modified
<1>5. k \in {"fresh", "bad"} => W!modified
  BY <1>1
<1>6. Coming'
  BY <1>2, <1>3, <1>4, <1>5 DEF Kept, Coming
<1> QED
  BY <1>3, <1>4, <1>6 DEF Kept, Dates, Hides, CacheIsCurrent

(* It ends.  A body that comes in the second of the last date was asked    *)
(* for because of a forecast of a later second.  A new date hides no more  *)
(* than the forecasts since the call began, if the answer's has come.      *)
LEMMA KeptEnd ==
  ASSUME Kept, W!fetchReturns, UNCHANGED <<now, newest, published>>
  PROVE  Kept'
<1>1. reply # None /\ reply' = None /\ called' = 0 /\ W!stamped
  BY DEF W!fetchReturns
<1>2. Skew \in Int /\ Dates
  BY TopBarAssumption DEF Kept
<1>3. lastModified' \in {lastModified} \cup ((now - called)..now)
  BY <1>1, <1>2 DEF W!stamped, Dates
<1>4. PICK m \in Nat : m = lastModified' /\ m <= now
  BY <1>2, <1>3 DEF Dates
<1>5. Dates'
  BY <1>1, <1>2, <1>4 DEF Dates
<1>6. Coming'
  BY <1>1 DEF Coming
<1>7. CASE m = lastModified
  <2>1. blind' = blind
    BY <1>4, <1>7 DEF W!fetchReturns
  <2>2. Hides'
    BY <1>4, <1>7, <2>1 DEF Kept, Hides
  <2>3. W!modified' <=> W!modified
    BY <1>4, <1>7 DEF W!modified
  <2>4. ~W!modified => forecast' = forecast
    BY <1>1 DEF Kept, Coming, W!fetchReturns
  <2>5. CacheIsCurrent'
    BY <2>1, <2>3, <2>4 DEF Kept, CacheIsCurrent
  <2> QED
    BY <1>5, <1>6, <2>2, <2>5 DEF Kept
<1>8. CASE m # lastModified
  <2>1. blind' = W!hidden
    BY <1>4, <1>8 DEF W!fetchReturns
  <2>2. \A p \in Int : now - called + Skew <= p /\ p <= now => p \in W!hidden
    BY <1>2 DEF W!hidden, Dates
  <2>3. Hides'
    BY <1>2, <1>4, <2>1, <2>2 DEF Hides, Dates
  <2>4. ASSUME published <= m, forecast' # newest PROVE published \in W!hidden
    <3>1. CASE forecast' = reply.forecast
      BY <1>1, <1>2, <1>4, <2>2, <2>4, <3>1 DEF Kept, Coming, Dates
    <3>2. CASE forecast' # reply.forecast
      BY <1>2, <1>4, <2>4, <3>2 DEF W!hidden, Dates
    <3> QED
      BY <3>1, <3>2
  <2>5. CacheIsCurrent'
    BY <1>2, <1>4, <2>1, <2>4 DEF CacheIsCurrent, W!modified, Dates
  <2> QED
    BY <1>5, <1>6, <2>3, <2>5 DEF Kept
<1> QED
  BY <1>7, <1>8

(* A forecast is published: its date is after the one that will be sent,   *)
(* or hidden.                                                              *)
LEMMA KeptPublish ==
  ASSUME Kept, W!Publish, now' = now
  PROVE  Kept'
<1>1. /\ published' = now + Skew /\ published < now + Skew
      /\ UNCHANGED <<forecast, lastModified, reply, called, blind>>
  BY DEF W!Publish
<1>2. Skew \in Int /\ Dates
  BY TopBarAssumption DEF Kept
<1>3. Dates'
  BY <1>1, <1>2 DEF Dates
<1>4. Hides'
  BY <1>1 DEF Kept, Hides
<1>5. W!modified => W!modified'
  BY <1>1, <1>2 DEF W!modified, Dates
<1>6. now - called + Skew <= now + Skew
  BY <1>2 DEF Dates
<1>7. Coming'
  BY <1>1, <1>5, <1>6 DEF Kept, Coming
<1>8. W!modified' \/ now + Skew \in blind
  BY <1>1, <1>2 DEF Kept, Hides, W!modified, Dates
<1>9. CacheIsCurrent'
  BY <1>1, <1>8 DEF CacheIsCurrent
<1> QED
  BY <1>3, <1>4, <1>7, <1>9 DEF Kept

(* Every step keeps it.                                                    *)
LEMMA KeptStep == Kept /\ ClockInv /\ [Next]_vars => Kept'
<1> SUFFICES ASSUME Kept, ClockInv, [Next]_vars PROVE Kept'
  OBVIOUS
<1>1. CASE BeginCall
  BY <1>1, KeptBegin, KeptOther DEF BeginCall, wvars
<1>2. CASE InitCall
  BY <1>2, KeptEnd DEF InitCall, W!initialize
<1>3. CASE EndCall
  BY <1>3, KeptEnd, KeptOther DEF EndCall, W!doUpdate, wvars
<1>4. CASE ClickWeather
  BY <1>4, KeptBegin DEF ClickWeather, W!toggleDetails
<1>5. CASE Publish
  BY <1>5, KeptPublish DEF Publish
<1>6. CASE AskDunst \/ Visuals \/ ToggleDunst \/ Clock \/ renderBar \/ Timeout
           \/ ClickNotifications \/ ClickClock \/ DunstChanges \/ UNCHANGED vars
  BY <1>6, KeptOther DEF AskDunst, Visuals, ToggleDunst, Clock, renderBar, Timeout,
                         ClickNotifications, ClickClock, DunstChanges, vars, wvars
<1>7. CASE Tick
  <2>1. todo = <<>> => reply = None
    BY Lists DEF ClockInv, Calling
  <2>2. asking => reply = None
    BY Asking DEF ClockInv, ClockTypes, Calling
  <2> QED
    BY <1>7, <2>1, <2>2, KeptOther DEF Tick
<1> QED
  BY <1>1, <1>2, <1>3, <1>4, <1>5, <1>6, <1>7 DEF Next, Thread

(* As long as the service answers that nothing is newer, the forecast kept *)
(* is its newest, or that one was published in a second the date sent      *)
(* hides: whatever the clocks differ by (weather.h 57-63, 197-205).        *)
THEOREM TopBarCacheIsCurrent == Spec => []CacheIsCurrent
<1>1. Kept => CacheIsCurrent
  BY DEF Kept
<1> QED
  BY <1>1, KeptInit, KeptStep, ClockInit, ClockStep, PTL DEF Spec

-----------------------------------------------------------------------------
(* Audio: the volume that is shown after a scroll.                         *)

(* A step of the wheel moves what the server's volume is in percent.       *)
moved(d, v, new) == IF d > 0 THEN new > v ELSE new < v \/ new = 0

(* From a scroll to the next change by somebody else the default sink has  *)
(* the volume that was set, and what has been asked for of a refresh is    *)
(* about that sink.                                                        *)
Scrolled ==
  /\ default \in plugged /\ plugged \subseteq SinkSet
  /\ vol \in [SinkSet -> Nat \X Nat]
  /\ currentSink # NoSink => currentSink.volume \in Nat
  /\ scrolled # NoSink =>
       /\ moved(scrolled[1], scrolled[2], toPercent(average(vol[default])))
       /\ request = "list" => defaultSinkName = default
       /\ request = "idle" => currentSink.volume = toPercent(average(vol[default]))

(* What a quotient is.                                                     *)
LEMMA Quotients ==
  ASSUME NEW x \in Nat, NEW n \in Nat \ {0}
  PROVE  x \div n \in Nat /\ (x \div n) * n <= x /\ x < (x \div n) * n + n
OBVIOUS

(* The two casts take at most one percent: from a percentage to the        *)
(* server's scale and back.                                                *)
LEMMA ThereAndBack ==
  ASSUME NEW p \in Nat
  PROVE  /\ toRaw(p) \in Nat /\ toPercent(toRaw(p)) \in Nat
         /\ toPercent(toRaw(p)) <= p /\ p <= toPercent(toRaw(p)) + 1
<1> DEFINE r == (Norm * p) \div 100
           q == (r * 100) \div Norm
<1>1. Norm \in Nat /\ Norm >= 100
  BY AudioAssumption
<1>2. Norm * p \in Nat
  BY <1>1
<1>3. r \in Nat /\ r * 100 <= Norm * p /\ Norm * p < r * 100 + 100
  BY <1>2, Quotients
<1>4. q \in Nat /\ q * Norm <= r * 100 /\ r * 100 < q * Norm + Norm
  BY <1>1, <1>3, Quotients
<1> HIDE DEF r, q
<1>5. q * Norm <= p * Norm
  BY <1>1, <1>2, <1>3, <1>4
<1>6. p * Norm < q * Norm + Norm + Norm
  BY <1>1, <1>2, <1>3, <1>4
<1>7. q <= p
  <2>1. SUFFICES ASSUME q > p PROVE FALSE
    BY <1>4
  <2>2. PICK k \in Nat \ {0} : q = p + k
    <3>1. q - p \in Nat \ {0} /\ q = p + (q - p)
      BY <1>4, <2>1
    <3> QED
      BY <3>1
  <2>3. (p + k) * Norm = p * Norm + k * Norm
    BY <1>1, <2>2
  <2>4. p * Norm \in Nat /\ k * Norm \in Nat /\ k * Norm > 0
    BY <1>1, <2>2
  <2>5. p * Norm + k * Norm <= p * Norm
    BY <1>5, <2>2, <2>3
  <2> QED
    BY <2>4, <2>5
<1>8. p <= q + 1
  <2>1. SUFFICES ASSUME p > q + 1 PROVE FALSE
    BY <1>4
  <2>2. PICK k \in Nat : p = q + 2 + k
    <3>1. p - q - 2 \in Nat /\ p = q + 2 + (p - q - 2)
      BY <1>4, <2>1
    <3> QED
      BY <3>1
  <2>3. /\ (q + 2 + k) * Norm = q * Norm + Norm + Norm + k * Norm
        /\ k * Norm \in Nat /\ q * Norm \in Nat
    BY <1>1, <1>4, <2>2
  <2> QED
    BY <1>1, <1>6, <2>2, <2>3
<1> QED
  BY <1>3, <1>4, <1>7, <1>8 DEF toRaw, toPercent, r, q

(* A share of n is at most n, and the whole of it is n.                    *)
LEMMA Shares ==
  ASSUME NEW v \in Nat, NEW n \in Nat, NEW m \in Nat \ {0}, v <= m
  PROVE  /\ (v * n) \div m \in Nat /\ (v * n) \div m <= n
         /\ v = m => (v * n) \div m = n
<1> DEFINE q == (v * n) \div m
<1>1. v * n \in Nat
  OBVIOUS
<1>2. q \in Nat /\ q * m <= v * n /\ v * n < q * m + m
  BY <1>1, Quotients
<1> HIDE DEF q
<1>3. PICK w \in Nat : m = v + w
  <2>1. m - v \in Nat /\ m = v + (m - v)
    OBVIOUS
  <2> QED
    BY <2>1
<1>4. (v + w) * n = v * n + w * n /\ w * n \in Nat
  BY <1>3
<1>5. q * m <= m * n
  BY <1>1, <1>2, <1>3, <1>4
<1>6. q <= n
  <2>1. SUFFICES ASSUME q > n PROVE FALSE
    BY <1>2
  <2>2. PICK k \in Nat \ {0} : q = n + k
    <3>1. q - n \in Nat \ {0} /\ q = n + (q - n)
      BY <1>2, <2>1
    <3> QED
      BY <3>1
  <2>3. (n + k) * m = m * n + k * m /\ k * m \in Nat /\ k * m > 0 /\ m * n \in Nat
    BY <2>2
  <2> QED
    BY <1>5, <2>2, <2>3
<1>7. v = m => q = n
  <2> SUFFICES ASSUME v = m PROVE ~(q < n)
    BY <1>2, <1>6
  <2>1. SUFFICES ASSUME q < n PROVE FALSE
    OBVIOUS
  <2>2. PICK k \in Nat : n = q + 1 + k
    <3>1. n - q - 1 \in Nat /\ n = q + 1 + (n - q - 1)
      BY <1>2, <2>1
    <3> QED
      BY <3>1
  <2>3. m * (q + 1 + k) = q * m + m + m * k /\ m * k \in Nat /\ q * m \in Nat
    BY <1>2, <2>2
  <2>4. m * n < q * m + m
    BY <1>2
  <2> QED
    BY <2>2, <2>3, <2>4
<1> QED
  BY <1>2, <1>6, <1>7 DEF q

(* Setting a sink to n makes its mean at most n, and n on a sink whose     *)
(* channels are equally loud.                                              *)
LEMMA ScaledMean ==
  ASSUME NEW v \in Nat \X Nat, NEW n \in Nat
  PROVE  /\ scaled(v, n) \in Nat \X Nat /\ average(scaled(v, n)) \in Nat
         /\ average(scaled(v, n)) <= n
         /\ v[1] = v[2] => average(scaled(v, n)) = n
<1> DEFINE loudest == IF v[1] < v[2] THEN v[2] ELSE v[1]
<1>1. v[1] \in Nat /\ v[2] \in Nat /\ loudest \in Nat
      /\ v[1] <= loudest /\ v[2] <= loudest /\ (v[1] = v[2] => loudest = v[1])
  OBVIOUS
<1>2. ASSUME NEW x \in Nat, NEW y \in Nat, x <= n, y <= n
      PROVE  /\ average(<<x, y>>) \in Nat /\ average(<<x, y>>) <= n
             /\ x = n /\ y = n => average(<<x, y>>) = n
  <2>1. average(<<x, y>>) = (x + y) \div 2
    BY DEF average
  <2> QED
    BY <1>2, <2>1
<1>3. CASE loudest = 0
  <2>1. scaled(v, n) = <<n, n>>
    BY <1>3 DEF scaled
  <2> QED
    BY <1>2, <2>1
<1>4. CASE loudest # 0
  <2>1. scaled(v, n) = <<(v[1] * n) \div loudest, (v[2] * n) \div loudest>>
    BY <1>4 DEF scaled
  <2> HIDE DEF loudest
  <2>2. loudest \in Nat \ {0}
    BY <1>1, <1>4
  <2>3. ASSUME NEW x \in Nat, x <= loudest
        PROVE  /\ (x * n) \div loudest \in Nat /\ (x * n) \div loudest <= n
               /\ x = loudest => (x * n) \div loudest = n
    BY <2>2, <2>3, Shares
  <2>4. PICK x \in Nat : x = (v[1] * n) \div loudest /\ x <= n /\ (v[1] = loudest => x = n)
    BY <1>1, <2>3
  <2>5. PICK y \in Nat : y = (v[2] * n) \div loudest /\ y <= n /\ (v[2] = loudest => y = n)
    BY <1>1, <2>3
  <2>6. scaled(v, n) = <<x, y>>
    BY <2>1, <2>4, <2>5
  <2>7. v[1] = v[2] => x = n /\ y = n
    BY <1>1, <2>4, <2>5
  <2> QED
    BY <1>2, <2>4, <2>5, <2>6, <2>7
<1> QED
  BY <1>3, <1>4

(* The percentage of a volume: none is larger than that of a louder one.   *)
LEMMA Percents ==
  ASSUME NEW raw \in Nat, NEW louder \in Nat, raw <= louder
  PROVE  toPercent(raw) \in Nat /\ toPercent(raw) <= toPercent(louder)
<1> DEFINE p == (raw * 100) \div Norm
           q == (louder * 100) \div Norm
<1>1. raw * 100 \in Nat /\ louder * 100 \in Nat /\ Norm \in Nat \ {0}
  BY AudioAssumption
<1>2. /\ p \in Nat /\ p * Norm <= raw * 100
      /\ q \in Nat /\ louder * 100 < q * Norm + Norm
  BY <1>1, Quotients
<1> HIDE DEF p, q
<1>3. p <= q
  <2>1. SUFFICES ASSUME p > q PROVE FALSE
    BY <1>2
  <2>2. PICK k \in Nat : p = q + 1 + k
    <3>1. p - q - 1 \in Nat /\ p = q + 1 + (p - q - 1)
      BY <1>2, <2>1
    <3> QED
      BY <3>1
  <2>3. /\ (q + 1 + k) * Norm = q * Norm + Norm + k * Norm
        /\ k * Norm \in Nat /\ q * Norm \in Nat
    BY <1>1, <1>2, <2>2
  <2> QED
    BY <1>1, <1>2, <2>2, <2>3
<1> QED
  BY <1>2, <1>3 DEF p, q, toPercent

(* Two steps of the wheel up are one at least on equally loud channels,    *)
(* down likewise on any, or 0.                                             *)
LEMMA WheelMoves ==
  ASSUME NEW v \in Nat, NEW d \in {2, -2}, NEW c \in Nat \X Nat
  PROVE  LET new == IF v + d > 0 THEN v + d ELSE 0
         IN  /\ scaled(c, toRaw(new)) \in Nat \X Nat
             /\ d < 0 \/ c[1] = c[2] =>
                  moved(d, v, toPercent(average(scaled(c, toRaw(new)))))
<1> DEFINE new == IF v + d > 0 THEN v + d ELSE 0
           mean == average(scaled(c, toRaw(new)))
           shown == toPercent(mean)
<1>1. new \in Nat
  OBVIOUS
<1>2. /\ toRaw(new) \in Nat /\ toPercent(toRaw(new)) \in Nat
      /\ toPercent(toRaw(new)) <= new /\ new <= toPercent(toRaw(new)) + 1
  BY <1>1, ThereAndBack
<1>3. d = 2 => new = v + 2
  OBVIOUS
<1>4. d = -2 => new = 0 \/ new = v - 2
  OBVIOUS
<1> HIDE DEF new
<1>5. /\ scaled(c, toRaw(new)) \in Nat \X Nat /\ mean \in Nat /\ mean <= toRaw(new)
      /\ c[1] = c[2] => mean = toRaw(new)
  BY <1>2, ScaledMean
<1> HIDE DEF mean
<1>6. shown \in Nat /\ shown <= toPercent(toRaw(new))
  BY <1>2, <1>5, Percents
<1>7. c[1] = c[2] => shown = toPercent(toRaw(new))
  BY <1>5
<1> HIDE DEF shown
<1>8. d = 2 /\ c[1] = c[2] => shown > v
  BY <1>1, <1>2, <1>3, <1>7
<1>9. d = -2 => shown < v \/ shown = 0
  BY <1>1, <1>2, <1>4, <1>6
<1>10. d < 0 \/ c[1] = c[2] => moved(d, v, shown)
  BY <1>8, <1>9 DEF moved
<1> QED
  BY <1>5, <1>10 DEF new, mean, shown

(* The percentage a sink is shown with.                                    *)
LEMMA Shown ==
  ASSUME NEW v \in Nat \X Nat
  PROVE  toPercent(average(v)) \in Nat
<1>1. v[1] \in Nat /\ v[2] \in Nat
  OBVIOUS
<1>2. (v[1] + v[2]) \div 2 \in Nat
  BY <1>1
<1>3. average(v) \in Nat
  BY <1>2 DEF average
<1> QED
  BY <1>3, Percents

(* Nobody has scrolled at first.                                           *)
LEMMA ScrolledInit == AudioInit => Scrolled
BY AudioAssumption DEF AudioInit, Scrolled

(* A scroll.                                                               *)
LEMMA ScrollStep ==
  ASSUME Scrolled, NEW d \in {2, -2}, adjustVolume(d)
  PROVE  Scrolled'
<1> DEFINE new == IF currentSink.volume + d > 0 THEN currentSink.volume + d ELSE 0
<1>1. /\ vol' = [s \in SinkSet |-> IF s \in addressed THEN scaled(vol[s], toRaw(new))
                                   ELSE vol[s]]
      /\ scrolled' = IF current /\ (d < 0 \/ balanced)
                     THEN <<d, currentSink.volume>> ELSE NoSink
      /\ UNCHANGED <<plugged, default, currentSink>> /\ request' = "server"
      /\ currentSink # NoSink
  BY DEF adjustVolume, beginRefresh, click
<1>2. currentSink.volume \in Nat
  BY <1>1 DEF Scrolled
<1>3. ASSUME NEW s \in SinkSet
      PROVE  /\ scaled(vol[s], toRaw(new)) \in Nat \X Nat
             /\ d < 0 \/ vol[s][1] = vol[s][2] =>
                  moved(d, currentSink.volume, toPercent(average(scaled(vol[s], toRaw(new)))))
  <2>1. vol[s] \in Nat \X Nat
    BY DEF Scrolled
  <2> QED
    BY <1>2, <2>1, WheelMoves
<1> HIDE DEF new
<1>4. vol' \in [SinkSet -> Nat \X Nat]
  BY <1>1, <1>3 DEF Scrolled
<1>5. CASE current /\ (d < 0 \/ balanced)
  <2>1. currentSink.index = idx[default] /\ default \in addressed /\ default \in SinkSet
    BY <1>5 DEF current, info, addressed, Scrolled
  <2>2. vol'[default] = scaled(vol[default], toRaw(new))
    BY <1>1, <2>1
  <2>3. moved(d, currentSink.volume, toPercent(average(vol'[default])))
    BY <1>3, <1>5, <2>1, <2>2 DEF balanced
  <2>4. scrolled'[1] = d /\ scrolled'[2] = currentSink.volume
    BY <1>1, <1>5
  <2> QED
    BY <1>1, <1>2, <1>4, <2>3, <2>4 DEF Scrolled, SinkSet
<1>6. CASE ~(current /\ (d < 0 \/ balanced))
  BY <1>1, <1>2, <1>4, <1>6 DEF Scrolled, SinkSet
<1> QED
  BY <1>5, <1>6

(* The list comes: the sink it is about has the volume the server gives.   *)
LEMMA ListStep ==
  ASSUME Scrolled, sink_info_callback
  PROVE  Scrolled'
<1>1. /\ UNCHANGED <<plugged, default, vol, defaultSinkName, scrolled>>
      /\ request = "list" /\ request' = "idle"
      /\ currentSink' = IF defaultSinkName \in plugged
                        THEN info(defaultSinkName) ELSE currentSink
  BY DEF sink_info_callback, server
<1>2. ASSUME NEW s \in SinkSet
      PROVE  /\ info(s).volume = toPercent(average(vol[s]))
             /\ toPercent(average(vol[s])) \in Nat
  <2>1. vol[s] \in Nat \X Nat
    BY DEF Scrolled
  <2> QED
    BY <2>1, Shown DEF info
<1>3. currentSink' # NoSink => currentSink'.volume \in Nat
  <2>1. CASE defaultSinkName \in plugged
    BY <1>1, <1>2, <2>1 DEF Scrolled
  <2>2. CASE defaultSinkName \notin plugged
    BY <1>1, <2>2 DEF Scrolled
  <2> QED
    BY <2>1, <2>2
<1>4. scrolled # NoSink => currentSink'.volume = toPercent(average(vol[default]))
  BY <1>1, <1>2 DEF Scrolled
<1> QED
  BY <1>1, <1>3, <1>4 DEF Scrolled, SinkSet

(* Every step keeps Scrolled.                                              *)
LEMMA ScrolledStep == Scrolled /\ [AudioNext]_audioVars => Scrolled'
<1> SUFFICES ASSUME Scrolled, [AudioNext]_audioVars
             PROVE  Scrolled'
  OBVIOUS
<1>1. CASE toggleMute
  <2>1. UNCHANGED <<plugged, default, vol, currentSink>> /\ scrolled' = NoSink
    BY <1>1 DEF toggleMute, beginRefresh
  <2> QED
    BY <2>1 DEF Scrolled, SinkSet
<1>2. CASE cycleSinks
  <2>1. UNCHANGED <<plugged, vol, currentSink>> /\ scrolled' = NoSink
    BY <1>2 DEF cycleSinks, beginRefresh
  <2>2. default' \in plugged
    BY <1>2 DEF cycleSinks, Scrolled
  <2> QED
    BY <2>1, <2>2 DEF Scrolled, SinkSet
<1>3. ASSUME NEW d \in {2, -2}, adjustVolume(d) PROVE Scrolled'
  BY <1>3, ScrollStep
<1>4. CASE update
  <2>1. UNCHANGED <<plugged, default, vol, currentSink, scrolled>> /\ request' = "server"
    BY <1>4 DEF update, server
  <2> QED
    BY <2>1 DEF Scrolled, SinkSet
<1>5. CASE server_info_callback
  <2>1. /\ UNCHANGED <<plugged, default, vol, currentSink, scrolled>>
        /\ request' = "list" /\ defaultSinkName' = default
    BY <1>5 DEF server_info_callback, server
  <2> QED
    BY <2>1 DEF Scrolled, SinkSet
<1>6. CASE sink_info_callback
  BY <1>6, ListStep
<1>7. CASE Change
  <2>1. UNCHANGED currentSink /\ scrolled' = NoSink
    BY <1>7 DEF Change
  <2>2. default' \in plugged' /\ plugged' \subseteq SinkSet /\ vol' \in [SinkSet -> Nat \X Nat]
    <3>1. Raw \subseteq Nat \X Nat
      BY AudioAssumption
    <3>2. CASE \E s \in plugged, v \in Raw : vol' = [vol EXCEPT ![s] = v] /\ UNCHANGED <<plugged, default>>
      BY <3>1, <3>2 DEF Scrolled
    <3>3. CASE UNCHANGED <<plugged, default, vol>>
      BY <3>3 DEF Scrolled
    <3>4. CASE \E s \in plugged : default' = s /\ UNCHANGED <<plugged, vol>>
      BY <3>4 DEF Scrolled
    <3>5. CASE /\ \E s \in plugged : plugged' = plugged \ {s}
               /\ IF default \in plugged' THEN default' = default ELSE default' \in plugged'
               /\ UNCHANGED vol
      BY <3>5 DEF Scrolled
    <3>6. CASE \E s \in SinkSet : plugged' = plugged \cup {s} /\ UNCHANGED <<default, vol>>
      BY <3>6 DEF Scrolled
    <3> QED
      BY <1>7, <3>2, <3>3, <3>4, <3>5, <3>6 DEF Change
  <2> QED
    BY <2>1, <2>2 DEF Scrolled, SinkSet
<1>8. CASE AudioTick
  <2>1. UNCHANGED <<plugged, default, vol, currentSink, scrolled, request, defaultSinkName>>
    BY <1>8 DEF AudioTick, server
  <2> QED
    BY <2>1 DEF Scrolled, SinkSet
<1>9. CASE UNCHANGED audioVars
  <2>1. UNCHANGED <<plugged, default, vol, currentSink, scrolled, request, defaultSinkName>>
    BY <1>9 DEF audioVars, server
  <2> QED
    BY <2>1 DEF Scrolled, SinkSet
<1> QED
  BY <1>1, <1>2, <1>3, <1>4, <1>5, <1>6, <1>7, <1>8, <1>9 DEF AudioNext, refreshCache

(* A scroll moves the percentage that is shown, for every scale of the     *)
(* server with a unit for each percent, every list of sinks, every volume  *)
(* of their channels and every change by another program: down always, up  *)
(* on channels that are equally loud.  The two truncating conversions of   *)
(* audio.h lose less than one percent, a step of the wheel is two, and the *)
(* mean of scaled channels is no more than what was set.                   *)
THEOREM AudioScrollMoves == AudioSpec => []ScrollMoves
<1>1. Scrolled => ScrollMoves
  BY DEF Scrolled, ScrollMoves, moved
<1> QED
  BY <1>1, ScrolledInit, ScrolledStep, PTL DEF AudioSpec

-----------------------------------------------------------------------------
(* Battery: one notification, for every capacity, every pair of limits and *)
(* every interleaving of the reads with the battery.                       *)

(* The type invariant is inductive as it stands.                           *)
LEMMA BatteryTypeStep == BatteryTypeOK /\ [BatteryNext]_batteryVars => BatteryTypeOK'
<1> SUFFICES ASSUME BatteryTypeOK, [BatteryNext]_batteryVars PROVE BatteryTypeOK'
  OBVIOUS
<1> USE BatteryAssumption DEF BatteryTypeOK, Plugs, hardware
<1>1. CASE readEnergyNow
  BY <1>1 DEF readEnergyNow, readLong
<1>2. CASE readEnergyFull
  BY <1>2 DEF readEnergyFull, readLong
<1>3. CASE readStatus
  BY <1>3 DEF readStatus
<1>4. CASE apply
  BY <1>4 DEF apply, updateVisuals, checkBatteryAlert, reallyOk, isCharging
<1>5. CASE Charge
  BY <1>5 DEF Charge, seen
<1>6. CASE Plug
  BY <1>6 DEF Plug, seen
<1>7. CASE Remove
  BY <1>7 DEF Remove, seen
<1>8. CASE UNCHANGED batteryVars
  BY <1>8 DEF batteryVars
<1> QED BY <1>1, <1>2, <1>3, <1>4, <1>5, <1>6, <1>7, <1>8 DEF BatteryNext, updateStep

(* Every reachable state is well typed: the values read are those of the   *)
(* battery, or 0 where a file is missing.                                  *)
THEOREM BatteryTyped == BatterySpec => []BatteryTypeOK
<1>1. BatteryInit => BatteryTypeOK
  BY BatteryAssumption DEF BatteryInit, BatteryTypeOK, Plugs
<1> QED BY <1>1, BatteryTypeStep, PTL DEF BatterySpec

-----------------------------------------------------------------------------

(* The two limits leave room for no energy below the one and above the     *)
(* other, so that an alert is never rearmed in the same update().          *)
LEMMA LimitsApart ==
  ASSUME NEW e \in Nat, NEW f \in Nat, below(e, f, Low)
  PROVE  ~above(e, f, Ok)
<1>1. Low * f <= Ok * f
  <2>1. PICK d \in Nat : Ok = Low + d
    <3>1. Ok - Low \in Nat /\ Ok = Low + (Ok - Low)
      BY BatteryAssumption
    <3> QED BY <3>1
  <2>2. (Low + d) * f = Low * f + d * f
    BY <2>1, BatteryAssumption
  <2>3. d * f \in Nat /\ Low * f \in Nat
    BY <2>1, BatteryAssumption
  <2> QED BY <2>1, <2>2, <2>3
<1> DEFINE l == Low * f
           k == Ok * f
<1>2. l \in Nat /\ k \in Nat /\ l <= k
  BY <1>1, BatteryAssumption
<1>3. e * 100 < l
  BY DEF below
<1> HIDE DEF l, k
<1>4. ~(e * 100 > k)
  BY <1>2, <1>3
<1> QED BY <1>4 DEF above, k

(* A red text keeps its notification: the guard on energyFull skips both   *)
(* or neither.                                                             *)
LEMMA RedStep == BatteryTypeOK /\ RedIsAlerted /\ [BatteryNext]_batteryVars => RedIsAlerted'
<1> SUFFICES ASSUME BatteryTypeOK, RedIsAlerted, [BatteryNext]_batteryVars PROVE RedIsAlerted'
  OBVIOUS
<1>1. CASE apply
  <2>1. CASE energyFull > 0
    <3>1. updateVisuals /\ checkBatteryAlert
      BY <1>1, <2>1 DEF apply
    <3>2. CASE below(energyNow, energyFull, Low) /\ ~isCharging
      <4>1. energyNow \in Nat /\ energyFull \in Nat
        BY BatteryAssumption DEF BatteryTypeOK
      <4>2. ~above(energyNow, energyFull, Ok)
        BY <3>2, <4>1, LimitsApart
      <4>3. notificationSent'
        BY <3>1, <3>2, <4>2 DEF checkBatteryAlert, BatteryTypeOK
      <4> QED BY <4>3 DEF RedIsAlerted
    <3>3. CASE ~(below(energyNow, energyFull, Low) /\ ~isCharging)
      BY <3>1, <3>3 DEF updateVisuals, RedIsAlerted
    <3> QED BY <3>2, <3>3
  <2>2. CASE ~(energyFull > 0)
    BY <1>1, <2>2 DEF apply, RedIsAlerted
  <2> QED BY <2>1, <2>2
<1>2. CASE UNCHANGED <<textColor, notificationSent>>
  BY <1>2 DEF RedIsAlerted
<1> QED BY <1>1, <1>2
  DEF BatteryNext, updateStep, batteryVars, readEnergyNow, readEnergyFull, readStatus, Charge,
      Plug, Remove, seen

(* A text that is red has been notified, at every instant.                 *)
THEOREM BatteryRedIsAlerted == BatterySpec => []RedIsAlerted
<1>1. BatteryInit => RedIsAlerted
  BY DEF BatteryInit, RedIsAlerted
<1> QED BY <1>1, RedStep, BatteryTyped, PTL DEF BatterySpec

-----------------------------------------------------------------------------

(* While the battery has not recovered since the last notification,        *)
(* nothing update() holds could rearm it: neither what it read before, nor *)
(* what it would read now.                                                 *)
Quiet ==
  ~recovered =>
    /\ notificationSent
    /\ status # "C"
    /\ ~above(energyNow, Full, Ok)
    /\ ~reallyOk

(* Quiet is inductive: a read by update() or a change of the battery       *)
(* cannot bring a rearming value without setting recovered.                *)
LEMMA QuietStep == BatteryTypeOK /\ Quiet /\ [BatteryNext]_batteryVars => Quiet'
<1> SUFFICES ASSUME BatteryTypeOK, Quiet, [BatteryNext]_batteryVars, ~recovered'
             PROVE  /\ notificationSent'
                    /\ status' # "C"
                    /\ ~above(energyNow', Full, Ok)
                    /\ ~reallyOk'
  BY DEF Quiet, above
<1>0. ~above(0, Full, Ok)
  <2>1. Ok * Full \in Nat
    BY BatteryAssumption
  <2> QED BY <2>1 DEF above
<1>1. CASE readEnergyNow
  BY <1>1, <1>0 DEF readEnergyNow, readLong, Quiet, reallyOk, hardware
<1>2. CASE readEnergyFull
  BY <1>2 DEF readEnergyFull, Quiet, reallyOk, hardware
<1>3. CASE readStatus
  BY <1>3 DEF readStatus, Quiet, reallyOk, hardware
<1>4. CASE apply
  <2>1. UNCHANGED <<hardware, energyNow, energyFull, status>>
    BY <1>4 DEF apply
  <2>2. CASE sent'
    <3>1. ~reallyOk /\ checkBatteryAlert /\ energyFull > 0
      BY <1>4, <2>2 DEF apply
    <3>2. below(energyNow, energyFull, Low) /\ ~isCharging
      BY <2>2, <3>1 DEF checkBatteryAlert
    <3>3. energyNow \in Nat /\ energyFull \in Nat /\ energyFull = Full
      BY <3>1, BatteryAssumption DEF BatteryTypeOK
    <3>4. ~above(energyNow, Full, Ok)
      BY <3>2, <3>3, LimitsApart
    <3>5. notificationSent'
      BY <2>2, <3>1 DEF checkBatteryAlert
    <3> QED BY <2>1, <3>1, <3>2, <3>4, <3>5 DEF isCharging, reallyOk, hardware
  <2>3. CASE ~sent'
    <3>1. ~recovered
      BY <1>4, <2>3 DEF apply
    <3>2. notificationSent'
      <4>1. CASE energyFull > 0
        <5>1. energyFull = Full
          BY <4>1, BatteryAssumption DEF BatteryTypeOK
        <5>2. ~(above(energyNow, energyFull, Ok) \/ isCharging)
          BY <3>1, <5>1 DEF Quiet, isCharging
        <5>3. checkBatteryAlert /\ notificationSent
          BY <1>4, <4>1, <3>1 DEF apply, Quiet
        <5> QED BY <5>2, <5>3 DEF checkBatteryAlert
      <4>2. CASE ~(energyFull > 0)
        BY <1>4, <4>2, <3>1 DEF apply, Quiet
      <4> QED BY <4>1, <4>2
    <3> QED BY <2>1, <3>1, <3>2 DEF Quiet, reallyOk, hardware
  <2> QED BY <2>2, <2>3
<1>5. CASE Charge
  BY <1>5 DEF Charge, seen, Quiet
<1>6. CASE Plug
  BY <1>6 DEF Plug, seen, Quiet
<1>7. CASE Remove
  BY <1>7 DEF Remove, seen, Quiet
<1>8. CASE UNCHANGED batteryVars
  BY <1>8 DEF batteryVars, Quiet, reallyOk, hardware
<1> QED BY <1>1, <1>2, <1>3, <1>4, <1>5, <1>6, <1>7, <1>8 DEF BatteryNext, updateStep

(* Two notifications are separated by a real recovery, whichever files     *)
(* were missing and whatever happened between two reads.                   *)
THEOREM BatteryAlertAfterRecovery == BatterySpec => AlertAfterRecovery
<1>1. BatteryInit => Quiet
  BY DEF BatteryInit, Quiet
<1>2. Quiet /\ [BatteryNext]_batteryVars => [sent' => recovered]_batteryVars
  <2> SUFFICES ASSUME Quiet, [BatteryNext]_batteryVars, sent', ~recovered, ~UNCHANGED batteryVars
               PROVE  FALSE
    OBVIOUS
  <2>1. apply
    BY DEF BatteryNext, updateStep, readEnergyNow, readEnergyFull, readStatus, Charge,
           Plug, Remove, seen
  <2>2. ~notificationSent
    BY <2>1 DEF apply, checkBatteryAlert
  <2> QED BY <2>2 DEF Quiet
<1> QED BY <1>1, <1>2, QuietStep, BatteryTyped, PTL DEF BatterySpec, AlertAfterRecovery
=============================================================================
