------------------------------ MODULE BarLoop ------------------------------
(***************************************************************************)
(* BarManager::run of one bar (main.cpp 131-261) with what it calls: the   *)
(* select() on the X connection and on the i3 subscription, Bar::feed and  *)
(* Bar::processXEvents (bar.h 955-1026), the scheduler in Module           *)
(* (module.h 39-54) and WorkspaceModule::handleI3Events (workspace.h       *)
(* 179-206).                                                               *)
(*                                                                         *)
(* Time is a phase within the second and, per module, the whole seconds    *)
(* since its last update, so that behaviours need no clock that grows.     *)
(* X events wait on the socket (sock) until xcb reads them; a round trip   *)
(* during a render moves them to xcb's own queue (evq), which select()     *)
(* does not see.  Events of one kind that are pending together count once: *)
(* processXEvents drains all of them.  A select() that fails ends run():   *)
(* that is RunEnds of BarLifecycle.                                        *)
(*                                                                         *)
(* The i3-msg of a subscription writes one event and ends.  Of the client  *)
(* the workspace module asks (I3Ipc) only its connection is kept: with a   *)
(* lost one the next update of that module ends the process.               *)
(***************************************************************************)
EXTENDS Naturals, FiniteSets

CONSTANTS
  Mods,        \* the modules of the bar
  Workspace,   \* the workspace module, or a value outside Mods: no i3 descriptor
  Period,      \* Period[m]: secondsPerUpdate of module m
  AutoUpdate,  \* the modules with autoUpdate
  Stamping,    \* the modules whose update() sets the lastUpdate the scheduler reads
  SecUnits,    \* units of time in a second; one unit is the 10 ms slack
  MaxEvents    \* bound: events of the environment (clicks, exposures, i3)

ASSUME LoopAssumption ==
  /\ IsFiniteSet(Mods)
  /\ Period \in [Mods -> Nat]
  /\ AutoUpdate \subseteq Mods
  /\ Stamping \subseteq Mods
  /\ Workspace \in Mods => Workspace \in AutoUpdate
  /\ SecUnits \in Nat \ {0, 1}
  /\ MaxEvents \in Nat

VARIABLES
  pc,       \* "start", "head", "select", "i3", "x", "update" or "dead"
  timedOut, \* ret == 0
  isX,      \* FD_ISSET(xcb_fd, &fds) after select
  isI3,     \* FD_ISSET(i3Fd, &fds) after select
  changed,  \* workspace_changed
  left,     \* units until the timeout of the current select
  phase,    \* units since the second began
  age,      \* age[m]: seconds since module m was last updated, or since the start
  updated,  \* the modules updated at least once (lastUpdate is not 0)
  dirty,    \* the modules whose new content is not on the window
  sock,     \* X events on the socket
  evq,      \* X events in xcb's queue
  owed,     \* the server will answer a copy_area with NoExpose
  i3,       \* i3Fd: "quiet", "event" or "other" (one event and then the end
            \* of file), "ending" (i3-msg is about to exit), "eof", "none" for -1
  i3up,     \* i3 runs, so that a new subscription stays open
  conn,     \* the client's connection: "ready", "lost", or "never" made
  used,     \* events of the environment so far
  prompt,   \* the bar does its work between two waits within one unit
  starved   \* ghost: since the last updateModules time passed with i3 down,
            \* while one i3-msg after the other was started and ended

vars == <<pc, timedOut, isX, isI3, changed, left, phase, age, updated,
          dirty, sock, evq, owed, i3, i3up, conn, used, prompt, starved>>

local == <<timedOut, isX, isI3, changed>>
i3vars == <<i3, i3up, conn>>
xvars == <<sock, evq, owed>>
sched == <<age, updated>>

Clicks == {<<"click", m>> : m \in Mods}
XEvents == Clicks \cup {<<"expose">>, <<"noexpose">>}

(* Ages above every period, and for a prompt bar every delay LagBounded    *)
(* allows, are not told apart.                                             *)
AgeCap == (CHOOSE k \in {Period[m] : m \in Mods} : \A m \in Mods : Period[m] <= k)
          + (IF prompt THEN MaxEvents + 1 ELSE 0)

(* Type invariant: a timeout is between 10 ms and a second and 10 ms       *)
(* (main.cpp 139-142).                                                     *)
TypeOK ==
  /\ pc \in {"start", "head", "select", "i3", "x", "update", "dead"}
  /\ timedOut \in BOOLEAN /\ isX \in BOOLEAN /\ isI3 \in BOOLEAN
  /\ changed \in BOOLEAN /\ owed \in BOOLEAN /\ i3up \in BOOLEAN
  /\ left \in 0..(SecUnits + 1)
  /\ phase \in 0..(SecUnits - 1)
  /\ age \in [Mods -> 0..AgeCap]
  /\ dirty \subseteq Mods /\ updated \subseteq Mods
  /\ sock \subseteq XEvents /\ evq \subseteq XEvents
  /\ i3 \in {"quiet", "event", "other", "ending", "eof", "none"}
  /\ conn \in {"ready", "lost", "never"}
  /\ used \in 0..MaxEvents
  /\ prompt \in BOOLEAN /\ starved \in BOOLEAN

(* The i3-msg of a new subscription ends at once when i3 is down.          *)
subscribed == IF i3up THEN "quiet" ELSE "ending"

Init ==
  /\ pc = "start"
  /\ timedOut = FALSE /\ isX = FALSE /\ isI3 = FALSE /\ changed = FALSE
  /\ left = 0
  /\ phase = 0
  /\ age = [m \in Mods |-> 0]
  /\ updated = {}
  /\ dirty = {}
  /\ sock = {<<"expose">>} /\ evq = {} /\ owed = FALSE
  /\ i3up \in BOOLEAN
  /\ i3 = IF Workspace \in Mods THEN subscribed ELSE "none"
  /\ conn = IF i3up THEN "ready" ELSE "never"
  /\ used = 0
  /\ prompt \in BOOLEAN
  /\ starved = FALSE

-----------------------------------------------------------------------------
(* Bar and Module.                                                         *)

(* Mutant: a GC without graphics exposures; copy_area is not answered.     *)
copyArea_Silent == owed' = owed

(* xcb_copy_area with a GC that keeps graphics exposures on: the server    *)
(* answers with NoExpose.                                                  *)
copyArea == owed' = TRUE

(* renderBar: feed() draws every module and copies the pixmap.  A colour   *)
(* allocation in it is a round trip, which reads whatever the socket has   *)
(* into xcb's queue.                                                       *)
renderBar ==
  /\ dirty' = {}
  /\ \/ evq' = evq \cup sock /\ sock' = {}
     \/ UNCHANGED <<evq, sock>>
  /\ copyArea

(* Mutant: a module's lastUpdate is compared with > instead of >=.         *)
shouldUpdate_Strict(m) ==
  m \in AutoUpdate \/ m \notin updated \cap Stamping \/ age[m] > Period[m]

(* Module::shouldUpdate.  lastUpdate is 0, long ago, until the first       *)
(* update(), and stays 0 in a module whose update() does not set it.       *)
shouldUpdate(m) ==
  m \in AutoUpdate \/ m \notin updated \cap Stamping \/ age[m] >= Period[m]

(* update() of the modules in M *)
update(M) ==
  /\ age' = [m \in Mods |-> IF m \in M THEN 0 ELSE age[m]]
  /\ updated' = updated \cup M

due == {m \in Mods : shouldUpdate(m)}

-----------------------------------------------------------------------------
(* BarManager::run.                                                        *)

(* the initial renderBar() *)
RunStart ==
  /\ pc = "start"
  /\ renderBar
  /\ pc' = "head"
  /\ UNCHANGED <<local, left, phase, sched, i3vars, used, prompt, starved>>

(* the timeout ends one unit after the next second begins *)
SetTimeout ==
  /\ pc = "head"
  /\ left' = SecUnits - phase + 1
  /\ pc' = "select"
  /\ UNCHANGED <<local, phase, sched, dirty, xvars, i3vars, used, prompt, starved>>

i3Readable == i3 \in {"event", "other", "eof"}

SelectReturns ==
  /\ pc = "select"
  /\ \/ /\ sock # {} \/ i3Readable
        /\ timedOut' = FALSE
        /\ isX' = (sock # {})
        /\ isI3' = i3Readable
     \/ /\ sock = {} /\ ~i3Readable /\ left = 0
        /\ timedOut' = TRUE
        /\ isX' = FALSE
        /\ isI3' = FALSE
  /\ changed' = FALSE
  /\ pc' = "i3"
  /\ UNCHANGED <<left, phase, sched, dirty, xvars, i3vars, used, prompt, starved>>

(* Mutant: the subscription at end of file is not renewed.                 *)
resubscribe_Not == UNCHANGED i3

(* subscribeI3; pipe or fork may fail *)
resubscribe == i3' \in {subscribed, "none"}

(* the workspace module's update: its request on a lost connection ends    *)
(* the process                                                             *)
requestEnds == conn = "lost"

(* handleI3Events: an event that isWorkspaceEvent looks for ends the       *)
(* reading, and the elements are updated; after another the end of file    *)
(* may already be there.                                                   *)
handleI3Events ==
  /\ pc = "i3"
  /\ \/ /\ isI3 /\ i3 = "event"
        /\ i3' = "ending"
        /\ changed' = TRUE
        /\ dirty' = dirty \cup {Workspace}
        /\ pc' = IF requestEnds THEN "dead" ELSE "x"
     \/ /\ isI3 /\ i3 = "other"
        /\ i3' = "ending" \/ resubscribe
        /\ pc' = "x"
        /\ UNCHANGED <<changed, dirty>>
     \/ /\ isI3 /\ i3 = "eof"
        /\ resubscribe
        /\ pc' = "x"
        /\ UNCHANGED <<changed, dirty>>
     \/ /\ ~isI3
        /\ pc' = "x"
        /\ UNCHANGED <<i3, changed, dirty>>
  /\ UNCHANGED <<timedOut, isX, isI3, left, phase, sched, xvars, i3up, conn,
                 used, prompt, starved>>

(* processXEvents: every event of the queue and of the socket is taken.  A *)
(* click's handler updates its module (not the workspace module's) and     *)
(* renders, or returns at once; the last render leaves nothing to draw.    *)
(* An exposure copies the pixmap.                                          *)
processXEvents(acted) ==
  /\ isX
  /\ acted \subseteq {m \in Mods : <<"click", m>> \in evq \cup sock}
  /\ evq' = {} /\ sock' = {}
  /\ dirty' = IF acted = {} THEN dirty ELSE {}
  /\ update(acted \ {Workspace})
  /\ IF acted # {} \/ <<"expose">> \in evq \cup sock
     THEN copyArea ELSE UNCHANGED owed

handleXEvents ==
  /\ pc = "x"
  /\ \/ \E acted \in SUBSET Mods : processXEvents(acted)
     \/ ~isX /\ UNCHANGED <<dirty, sched, xvars>>
  /\ pc' = "update"
  /\ UNCHANGED <<local, left, phase, i3vars, used, prompt, starved>>

(* What select() said is not looked at in the next iteration.              *)
forgotten == timedOut' = FALSE /\ isX' = FALSE /\ isI3' = FALSE /\ changed' = FALSE

(* Mutant: a render only after a timeout.                                  *)
updateModules_RenderOnTimeout ==
  /\ pc = "update"
  /\ IF (changed \/ timedOut) /\ due # {}
     THEN /\ update(due)
          /\ IF timedOut THEN renderBar
             ELSE dirty' = dirty \cup due /\ UNCHANGED xvars
     ELSE UNCHANGED <<dirty, sched, xvars>>
  /\ pc' = "head"
  /\ forgotten
  /\ UNCHANGED <<left, phase, i3vars, used, prompt, starved>>

(* The end of the loop body: after a workspace change or a timeout every   *)
(* module that is due is updated, and if one was, the bar is drawn.        *)
updateModules ==
  /\ pc = "update"
  /\ \/ /\ changed \/ timedOut
        /\ due # {}
        /\ ~(Workspace \in due /\ requestEnds)
        /\ update(due)
        /\ renderBar
        /\ starved' = FALSE
        /\ pc' = "head"
     \/ /\ changed \/ timedOut
        /\ Workspace \in due /\ requestEnds
        /\ pc' = "dead"
        /\ UNCHANGED <<dirty, sched, xvars, starved>>
     \/ /\ ~(changed \/ timedOut) \/ due = {}
        /\ starved' = (starved /\ ~(changed \/ timedOut))
        /\ pc' = "head"
        /\ UNCHANGED <<dirty, sched, xvars>>
  /\ forgotten
  /\ UNCHANGED <<left, phase, i3vars, used, prompt>>

LoopStep == RunStart \/ SetTimeout \/ SelectReturns \/ handleI3Events
            \/ handleXEvents \/ updateModules

-----------------------------------------------------------------------------
(* The environment: time, the X server, the user, i3.                      *)

blocked == pc = "select" /\ sock = {} /\ ~i3Readable

(* The X server answers a copy within one unit.  A prompt bar does its own *)
(* work within one, too, and so does the i3-msg it started while i3 runs.  *)
(* With i3 down each i3-msg ends soon but the next one follows at once, so *)
(* that any time may pass while the loop goes round without a timeout.     *)
Tick ==
  /\ ~owed /\ pc # "dead"
  /\ prompt => blocked /\ left > 0 /\ (i3 = "ending" => ~i3up)
  /\ left' = IF pc = "select" /\ left > 0 THEN left - 1 ELSE left
  /\ phase' = (phase + 1) % SecUnits
  /\ age' = IF phase' = 0
            THEN [m \in Mods |-> IF age[m] < AgeCap THEN age[m] + 1 ELSE age[m]]
            ELSE age
  /\ starved' = (starved \/ (i3 = "ending" /\ ~i3up))
  /\ UNCHANGED <<pc, local, updated, dirty, xvars, i3vars, used, prompt>>

NoExposeArrives ==
  /\ owed
  /\ owed' = FALSE
  /\ sock' = sock \cup {<<"noexpose">>}
  /\ UNCHANGED <<pc, local, left, phase, sched, dirty, evq, i3vars, used, prompt,
                 starved>>

envEvent ==
  /\ pc # "dead" /\ used < MaxEvents
  /\ used' = used + 1
  /\ UNCHANGED <<prompt, starved>>

UserEvent ==
  /\ envEvent
  /\ \E e \in Clicks \cup {<<"expose">>} : sock' = sock \cup {e}
  /\ UNCHANGED <<pc, local, left, phase, sched, dirty, evq, owed, i3vars>>

(* i3-msg writes an event of a kind isWorkspaceEvent looks for, or another *)
I3Writes ==
  /\ envEvent
  /\ i3up /\ i3 = "quiet"
  /\ i3' \in {"event", "other"}
  /\ UNCHANGED <<pc, local, left, phase, sched, dirty, xvars, i3up, conn>>

I3MsgExits ==
  /\ i3 = "ending"
  /\ i3' = "eof"
  /\ UNCHANGED <<pc, local, left, phase, sched, dirty, xvars, i3up, conn, used,
                 prompt, starved>>

I3Ends ==
  /\ envEvent
  /\ i3up
  /\ i3up' = FALSE
  /\ i3' = IF i3 = "quiet" THEN "ending" ELSE i3
  /\ conn' = IF conn = "ready" THEN "lost" ELSE conn
  /\ UNCHANGED <<pc, local, left, phase, sched, dirty, xvars>>

I3Restarts ==
  /\ ~i3up
  /\ envEvent
  /\ i3up' = TRUE
  /\ UNCHANGED <<pc, local, left, phase, sched, dirty, xvars, i3, conn>>

Dead == pc = "dead" /\ UNCHANGED vars

-----------------------------------------------------------------------------

Next == LoopStep \/ Tick \/ NoExposeArrives \/ UserEvent \/ I3Writes
        \/ I3MsgExits \/ I3Ends \/ I3Restarts \/ Dead

(* The thread is scheduled, time passes, the server answers, an i3-msg     *)
(* that has written its event exits.  Clicks, exposures and i3's events    *)
(* need not happen.                                                        *)
Fairness == WF_vars(LoopStep) /\ WF_vars(Tick) /\ WF_vars(NoExposeArrives)
            /\ WF_vars(I3MsgExits)

Spec == Init /\ [][Next]_vars
FairSpec == Spec /\ Fairness

-----------------------------------------------------------------------------
(* Properties.                                                             *)

(* When the loop waits, what the modules last produced is on the window:   *)
(* every path that changes content reaches a render in the same iteration  *)
(* (main.cpp 170-199).                                                     *)
WaitsRendered == pc \in {"head", "select"} => dirty = {}

(* A click is handled, also when a round trip took it off the socket while *)
(* the bar was drawing: select() does not see xcb's queue, and only the    *)
(* NoExpose that answers the copy makes it return (bar.h 955-1026).        *)
ClickHandled ==
  \A e \in Clicks :
    (e \in sock \cup evq) ~> (e \notin sock \cup evq \/ pc = "dead")

(* A module that is due is updated: the timeouts come back after the       *)
(* events and after the renewals of the subscription (main.cpp 139-142,    *)
(* 184-188).  While i3 is down every new subscription ends at once, and    *)
(* the end of the connection may end the process.                          *)
DueUpdated ==
  \A m \in Mods : (age[m] >= Period[m]) ~> (age[m] = 0 \/ ~i3up \/ pc = "dead")

(* In a prompt bar each event of the environment costs a module at most    *)
(* one second: one that falls between the second's begin and the timeout   *)
(* 10 ms later moves the timeout to the next second (main.cpp 140-142).    *)
(* While i3 is down handleI3Events starts one subscription after the other *)
(* and no timeout comes (workspace.h 195-198), for as long as i3 stays     *)
(* away: such a delay has no bound, and the first pass over the modules    *)
(* that follows must make all of it good.                                  *)
LagBounded ==
  prompt /\ ~starved =>
    \A m \in Mods : Period[m] > 0 => age[m] <= Period[m] + used
=============================================================================
