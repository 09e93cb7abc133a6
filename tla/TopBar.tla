------------------------------- MODULE TopBar -------------------------------
(***************************************************************************)
(* The thread of the top bar and three of its modules, in the order of     *)
(* main.cpp: notifications, weather, clock.  What BarManager::run does     *)
(* after a timeout, and the handler of a click, is a sequence of steps     *)
(* (todo) that the one thread takes; a call of the weather service and a   *)
(* process of dunstctl, for which the code sets no limit, may take seconds,*)
(* in which the window stays as it is and clicks wait.                     *)
(***************************************************************************)
EXTENDS Integers, Sequences

CONSTANTS
  Period, Minute,  \* intervals of the weather and of the clock without time
  MaxCall,         \* CURLOPT_TIMEOUT
  Skew,            \* between the weather service's clock and this one
  MaxWait,         \* seconds without a timeout of select (BarLoop, LagBounded)
  MaxWaiting,      \* bound: notifications dunst holds back
  MaxNow,          \* bound: the clock, which stops there; timeouts do not
  MaxEvents,       \* bound: clicks, forecasts, changes of dunst and its failures
  None

ASSUME TopBarAssumption ==
  /\ Period \in Nat \ {0} /\ Minute \in Nat \ {0, 1}
  /\ MaxCall \in Nat /\ Skew \in Int /\ MaxWait \in Nat \ {0}
  /\ MaxWaiting \in Nat /\ MaxNow \in Nat \ {0} /\ MaxEvents \in Nat
  /\ None \notin Nat

VARIABLES
  now, todo,
  waited,   \* seconds in select() since the last timeout
  calls,    \* calls clicks have made since the clock's text was made
  asked,    \* seconds in which dunstctl was waited for since then
  events,
  window,   \* what is drawn: of the notifications and of the clock
  newest, published, forecast, lastModified, weatherUpdate,
  showDetails, weatherContent, reply, called, blind,
  showHour, secondsPerUpdate, last, clockUpdate, date,
  paused, waiting, isPaused, waitingCount, bell

W == INSTANCE Weather WITH lastUpdate <- weatherUpdate, content <- weatherContent
D == INSTANCE DateTime WITH lastUpdate <- clockUpdate, Never <- None
N == INSTANCE Notifications WITH content <- bell

wvars == <<newest, published, forecast, lastModified, weatherUpdate,
           showDetails, weatherContent, reply, called, blind>>
dvars == <<showHour, secondsPerUpdate, last, clockUpdate, date>>
nvars == <<paused, waiting, isPaused, waitingCount, bell>>
thread == <<todo, waited, calls, asked, window>>
vars == <<now, events, thread, wvars, dvars, nvars>>

Steps == {"toggle", "askPaused", "askWaiting", "visuals", "beginCall",
          "initCall", "call", "clock", "render"}

(* Type invariant: the modules' types; steps of the thread.                *)
TypeOK ==
  /\ now \in 1..MaxNow /\ todo \in Seq(Steps)
  /\ waited \in 0..MaxWait /\ called \in 0..MaxCall
  /\ calls \in 0..MaxEvents /\ asked \in 0..MaxNow /\ events \in 0..MaxEvents
  /\ window \in [bell : N!Said, clock : Nat \cup {None}]
  /\ W!TypeOK /\ D!TypeOK /\ N!TypeOK

StateSteps == <<"askPaused", "askWaiting", "visuals">>

(* initializeAllModules, then the first renderBar *)
Init ==
  /\ now = 1 /\ todo = StateSteps \o <<"beginCall", "initCall", "render">>
  /\ waited = 0 /\ calls = 0 /\ asked = 0 /\ events = 0
  /\ window = [bell |-> <<FALSE>>, clock |-> None]
  /\ W!Init /\ D!Init /\ N!Init

-----------------------------------------------------------------------------
(* The thread.                                                             *)

event == events < MaxEvents /\ events' = events + 1

do(step) == todo # <<>> /\ Head(todo) = step /\ todo' = Tail(todo)

(* one question of dunstctl; it fails now and then *)
AskDunst ==
  /\ \E how \in N!Outcomes :
       /\ \/ do("askPaused") /\ N!askPaused(how)
          \/ do("askWaiting") /\ N!askWaiting(how)
       /\ IF how = "answered" THEN UNCHANGED events ELSE event
  /\ UNCHANGED <<now, waited, calls, asked, window, wvars, dvars>>

Visuals ==
  /\ do("visuals")
  /\ N!updateVisuals
  /\ UNCHANGED <<now, waited, calls, asked, events, window, wvars, dvars>>

ToggleDunst ==
  /\ do("toggle")
  /\ N!toggle
  /\ UNCHANGED <<now, waited, calls, asked, events, window, wvars, dvars>>

(* the weather's turn: a call if it is due *)
BeginCall ==
  /\ do("beginCall")
  /\ IF W!shouldUpdate
     THEN W!fetchBegins /\ UNCHANGED showDetails
     ELSE UNCHANGED wvars
  /\ UNCHANGED <<now, waited, calls, asked, events, window, dvars, nvars>>

(* A first call that fails ends run's thread: BarLifecycle.                *)
InitCall ==
  /\ do("initCall")
  /\ W!success
  /\ W!initialize
  /\ UNCHANGED <<now, waited, calls, asked, events, window, dvars, nvars>>

EndCall ==
  /\ do("call")
  /\ IF reply = None THEN UNCHANGED wvars ELSE W!doUpdate
  /\ UNCHANGED <<now, waited, calls, asked, events, window, dvars, nvars>>

(* A new text: what has held up the thread is counted from here.           *)
counted == IF date' = date THEN UNCHANGED <<calls, asked>> ELSE calls' = 0 /\ asked' = 0

Clock ==
  /\ do("clock")
  /\ D!checkAndUpdate
  /\ counted
  /\ UNCHANGED <<now, waited, events, window, wvars, nvars>>

renderBar ==
  /\ do("render")
  /\ window' = [bell |-> bell, clock |-> date]
  /\ UNCHANGED <<now, waited, calls, asked, events, wvars, dvars, nvars>>

(* updateModules after a timeout.  The notifications' interval is 0 and    *)
(* their lastUpdate is never set: they are always due.                     *)
Timeout ==
  /\ todo = <<>>
  /\ todo' = StateSteps \o <<"beginCall", "call", "clock", "render">>
  /\ waited' = 0
  /\ UNCHANGED <<now, calls, asked, events, window, wvars, dvars, nvars>>

(* The handlers of the clicks, on elements that have been drawn            *)
ClickNotifications ==
  /\ event
  /\ todo = <<>> /\ todo' = <<"toggle">> \o StateSteps \o <<"render">>
  /\ UNCHANGED <<now, waited, calls, asked, window, wvars, dvars, nvars>>

ClickWeather ==
  /\ event
  /\ todo = <<>> /\ todo' = <<"call", "render">>
  /\ W!toggleDetails
  /\ calls' = calls + 1
  /\ UNCHANGED <<now, waited, asked, window, dvars, nvars>>

ClickClock ==
  /\ event
  /\ todo = <<>> /\ todo' = <<"render">>
  /\ D!click
  /\ counted
  /\ UNCHANGED <<now, waited, window, wvars, nvars>>

Thread == AskDunst \/ Visuals \/ ToggleDunst \/ BeginCall \/ InitCall \/ EndCall
          \/ Clock \/ renderBar \/ Timeout

-----------------------------------------------------------------------------
(* Time, the service and dunst.                                            *)

(* A process of dunstctl is waited for: popen to pclose, or system().      *)
asking == todo # <<>> /\ Head(todo) \in {"toggle", "askPaused", "askWaiting"}

(* select(), a call and dunstctl take time.                                *)
Tick ==
  /\ now < MaxNow /\ now' = now + 1
  /\ \/ /\ todo = <<>> /\ waited < MaxWait
        /\ waited' = waited + 1 /\ UNCHANGED <<called, asked>>
     \/ /\ reply # None /\ called < MaxCall
        /\ called' = called + 1 /\ UNCHANGED <<waited, asked>>
     \/ /\ asking
        /\ asked' = asked + 1 /\ UNCHANGED <<waited, called>>
  /\ UNCHANGED <<todo, calls, events, window, newest, published, forecast,
                 lastModified, weatherUpdate, showDetails, weatherContent, reply,
                 blind, dvars, nvars>>

Publish ==
  /\ event
  /\ W!Publish
  /\ UNCHANGED <<now, thread, dvars, nvars>>

DunstChanges ==
  /\ event
  /\ N!DunstChanges
  /\ UNCHANGED <<now, thread, wvars, dvars>>

Next == Thread \/ ClickNotifications \/ ClickWeather \/ ClickClock \/ Tick
        \/ Publish \/ DunstChanges

(* The thread is scheduled, calls and dunstctl's processes end; clicks     *)
(* need not come.                                                          *)
Spec == Init /\ [][Next]_vars /\ WF_vars(Thread)

-----------------------------------------------------------------------------
(* Properties.                                                             *)

(* "Not Modified - usar cache existente" (weather.h 203): as long as the   *)
(* service answers that, the forecast kept is its newest, unless that one  *)
(* was published while the last answer was on its way or later, up to the  *)
(* second the clock of this machine had when it came, or before it if the  *)
(* answer's body was lost and its date was kept (weather.h 57-63, 197-205).*)
(* The lost seconds are those and no others, whatever the clocks differ by.*)
CacheIsCurrent == ~W!modified => forecast = newest \/ published \in blind

(* The time on the window is as old as its interval, the wait for a        *)
(* timeout and one call of the weather service at most, one call more for  *)
(* each click on the weather since it was made, and the seconds in which   *)
(* dunstctl was waited for: whatever the other clicks, which change the    *)
(* clock's interval and share with the scheduler the second in which its   *)
(* update() does nothing (main.cpp 234-241, datetime.h 35-56).  It is said *)
(* of the states that last, in select(), in a call or in dunstctl: the     *)
(* click that shortens the interval finds an older text, and draws another *)
(* at once.                                                                *)
ClockLag ==
  (todo = <<>> \/ reply # None \/ asking) /\ window.clock # None =>
    now - window.clock <= MaxWait + (1 + calls) * MaxCall + asked
                          + (IF showHour THEN 0 ELSE Minute - 1)

(* Once dunst stays as it is and answers, the window says whether it is    *)
(* paused and how many notifications wait, although the two are asked for  *)
(* one after the other and others change them in between                   *)
(* (notifications.h 16-53); a bar whose first forecast failed does not run.*)
BellConverges == <>[](forecast = 0 \/ window.bell = N!says(paused, waiting))
=============================================================================
