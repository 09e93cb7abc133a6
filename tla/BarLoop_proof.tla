---------------------------- MODULE BarLoop_proof ----------------------------
(***************************************************************************)
(* Theorems about BarLoop, for any modules with any periods, with or       *)
(* without i3: nothing that was updated is left undrawn when the loop      *)
(* waits, and in a prompt bar each event of the environment delays a       *)
(* module by at most a second, but for the time i3 is down.                *)
(***************************************************************************)
EXTENDS BarLoop, TLAPS

(* The types the two arguments need; AgeCap, a bound for TLC, is not one.  *)
Types ==
  /\ pc \in {"start", "head", "select", "i3", "x", "update", "dead"}
  /\ timedOut \in BOOLEAN /\ changed \in BOOLEAN /\ owed \in BOOLEAN
  /\ left \in Nat /\ phase \in 0..(SecUnits - 1)
  /\ age \in [Mods -> Nat]
  /\ used \in Nat
  /\ starved \in BOOLEAN

(* Content that is not drawn is the workspace module's, it is known to     *)
(* have changed, and the module is one of the bar's: autoUpdate makes it   *)
(* due, which leads to a render.                                           *)
Rendered ==
  /\ pc \in {"start", "head", "select", "i3"} => dirty = {}
  /\ pc \in {"x", "update"} /\ dirty # {} => changed
  /\ changed \/ i3 # "none" => Workspace \in Mods

(* In the 10 ms after the second began: nothing but the timeout, or a new  *)
(* event, makes select() return.                                           *)
AboutToTimeOut ==
  /\ pc = "select" /\ left \in {0, 1} /\ phase = 1 - left
  /\ sock = {} /\ ~i3Readable /\ i3 # "ending" /\ ~owed

(* The modules that are due are updated before time passes.                *)
UpdateNext ==
  \/ AboutToTimeOut
  \/ timedOut /\ pc \in {"i3", "x", "update"}
  \/ pc = "dead"

(* A module that has used up its delay is about to be updated; a new       *)
(* event, which may take that update away, allows one second more.         *)
InTime ==
  \A m \in Mods : Period[m] > 0 =>
    /\ age[m] <= Period[m] + used
    /\ UpdateNext \/ age[m] < Period[m] + used

(* The timeout is one unit into the next second, and unless the bar is     *)
(* starved by subscriptions that end at once its modules are in time.      *)
OnTime ==
  prompt =>
    /\ pc = "select" => \/ left = SecUnits - phase + 1
                        \/ left \in {0, 1} /\ phase = 1 - left
    /\ ~starved => InTime

LoopInv == Types /\ Rendered
LagInv == LoopInv /\ OnTime
-----------------------------------------------------------------------------

(* The next unit of a second.                                              *)
LEMMA NextPhase ==
  ASSUME NEW S \in Nat \ {0, 1}, NEW p \in 0..(S - 1)
  PROVE  (p + 1) % S = IF p = S - 1 THEN 0 ELSE p + 1
OBVIOUS

(* The invariant holds at first.                                           *)
LEMMA LagInit == Init => LagInv
<1> SUFFICES ASSUME Init PROVE LagInv
  OBVIOUS
<1> USE LoopAssumption
<1>1. Types
  <2>1. phase \in 0..(SecUnits - 1)
    BY DEF Init
  <2>2. age \in [Mods -> Nat]
    BY DEF Init
  <2> QED
    BY <2>1, <2>2 DEF Init, Types
<1>2. Rendered
  BY DEF Init, Rendered, subscribed
<1>3. OnTime
  BY DEF Init, OnTime, InTime
<1> QED
  BY <1>1, <1>2, <1>3 DEF LagInv, LoopInv

(* The types are kept.                                                     *)
LEMMA TypesStep == Types /\ [Next]_vars => Types'
<1> SUFFICES ASSUME Types, [Next]_vars PROVE Types'
  OBVIOUS
<1> USE LoopAssumption
<1>1. CASE RunStart
  BY <1>1 DEF Types, RunStart, renderBar, copyArea, local, sched
<1>2. CASE SetTimeout
  BY <1>2 DEF Types, SetTimeout, local, sched, xvars
<1>3. CASE SelectReturns
  BY <1>3 DEF Types, SelectReturns, sched, xvars
<1>4. CASE handleI3Events
  BY <1>4 DEF Types, handleI3Events, sched, xvars
<1>5. CASE handleXEvents
  <2>1. age' \in [Mods -> Nat]
    BY <1>5 DEF Types, handleXEvents, processXEvents, update, sched
  <2>2. owed' \in BOOLEAN
    BY <1>5 DEF Types, handleXEvents, processXEvents, copyArea, xvars
  <2> QED
    BY <1>5, <2>1, <2>2 DEF Types, handleXEvents, local
<1>6. CASE updateModules
  <2>1. age' \in [Mods -> Nat]
    BY <1>6 DEF Types, updateModules, update, sched
  <2>2. owed' \in BOOLEAN
    BY <1>6 DEF Types, updateModules, renderBar, copyArea, xvars
  <2> QED
    BY <1>6, <2>1, <2>2 DEF Types, updateModules, forgotten
<1>7. CASE Tick
  <2>1. phase' \in 0..(SecUnits - 1)
    BY <1>7, NextPhase DEF Types, Tick
  <2>2. left' \in Nat
    BY <1>7 DEF Types, Tick
  <2>3. age' \in [Mods -> Nat]
    BY <1>7 DEF Types, Tick
  <2> QED
    BY <1>7, <2>1, <2>2, <2>3 DEF Types, Tick, local, xvars
<1>8. CASE NoExposeArrives \/ UserEvent \/ I3Writes \/ I3MsgExits \/ I3Ends \/ I3Restarts
  <2>1. UNCHANGED <<pc, local, left, phase, sched, starved>>
    BY <1>8 DEF NoExposeArrives, UserEvent, I3Writes, I3MsgExits, I3Ends, I3Restarts,
                envEvent
  <2>2. used' \in Nat
    BY <1>8 DEF Types, NoExposeArrives, UserEvent, I3Writes, I3MsgExits, I3Ends,
                I3Restarts, envEvent
  <2>3. owed' \in BOOLEAN
    BY <1>8 DEF Types, NoExposeArrives, UserEvent, I3Writes, I3MsgExits, I3Ends,
                I3Restarts, xvars
  <2> QED
    BY <2>1, <2>2, <2>3 DEF Types, local, sched
<1>9. CASE UNCHANGED vars
  BY <1>9 DEF Types, vars
<1> QED
  BY <1>1, <1>2, <1>3, <1>4, <1>5, <1>6, <1>7, <1>8, <1>9
     DEF Next, LoopStep, Dead

(* A workspace module of the bar is due whenever the modules are looked at.*)
LEMMA WorkspaceDue == Workspace \in Mods => Workspace \in due
BY LoopAssumption DEF due, shouldUpdate

(* Undrawn content stays accounted for.                                    *)
LEMMA RenderedStep == LoopInv /\ [Next]_vars => Rendered'
<1> SUFFICES ASSUME LoopInv, [Next]_vars PROVE Rendered'
  OBVIOUS
<1> USE LoopAssumption DEF LoopInv
<1>1. CASE RunStart
  BY <1>1 DEF Types, Rendered, RunStart, renderBar, local, i3vars
<1>2. CASE SetTimeout
  BY <1>2 DEF Rendered, SetTimeout, local, i3vars
<1>3. CASE SelectReturns
  BY <1>3 DEF Rendered, SelectReturns, i3vars
<1>4. CASE handleI3Events
  <2>1. pc = "i3" /\ dirty = {} /\ (i3 # "none" => Workspace \in Mods)
    BY <1>4 DEF Rendered, handleI3Events
  <2>2. (changed' \/ i3' # "none") => Workspace \in Mods
    BY <1>4 DEF Rendered, handleI3Events, resubscribe
  <2> QED
    BY <1>4, <2>1, <2>2 DEF Rendered, handleI3Events
<1>5. CASE handleXEvents
  <2>1. dirty' = {} \/ dirty' = dirty
    BY <1>5 DEF handleXEvents, processXEvents
  <2> QED
    BY <1>5, <2>1 DEF Rendered, handleXEvents, local, i3vars
<1>6. CASE updateModules
  <2>1. ~changed' /\ i3' = i3
    BY <1>6 DEF updateModules, forgotten, i3vars
  <2>2. pc' = "head" => dirty' = {}
    BY <1>6, WorkspaceDue DEF Rendered, updateModules, renderBar
  <2>3. pc' \in {"head", "dead"}
    BY <1>6 DEF updateModules
  <2> QED
    BY <2>1, <2>2, <2>3 DEF Rendered
<1>7. CASE Tick \/ NoExposeArrives \/ UserEvent \/ I3Restarts
  BY <1>7 DEF Rendered, Tick, NoExposeArrives, UserEvent, I3Restarts, local, i3vars
<1>8. CASE I3Writes \/ I3MsgExits \/ I3Ends
  BY <1>8 DEF Rendered, I3Writes, I3MsgExits, I3Ends, local
<1>9. CASE UNCHANGED vars
  BY <1>9 DEF Rendered, vars
<1> QED
  BY <1>1, <1>2, <1>3, <1>4, <1>5, <1>6, <1>7, <1>8, <1>9
     DEF Next, LoopStep, Dead

(* When the loop waits everything that was updated is on the window: the   *)
(* paths of BarManager::run that change a content all end in a render      *)
(* (main.cpp 170-199), whatever i3 and the user do in between.             *)
THEOREM LoopWaitsRendered == Spec => []WaitsRendered
<1>1. Init => LoopInv
  BY LagInit DEF LagInv
<1>2. LoopInv /\ [Next]_vars => LoopInv'
  BY TypesStep, RenderedStep DEF LoopInv
<1>3. LoopInv => WaitsRendered
  BY DEF LoopInv, Rendered, WaitsRendered
<1> QED
  BY <1>1, <1>2, <1>3, PTL DEF Spec

-----------------------------------------------------------------------------

(* A step that leaves the modules' ages and the number of events alone     *)
(* keeps a bar on time if the updates that were next still are.            *)
LEMMA SameAges ==
  ASSUME OnTime, UNCHANGED <<age, used, prompt, starved>>, UpdateNext => UpdateNext',
         prompt /\ pc' = "select" =>
           left' = SecUnits - phase' + 1 \/ (left' \in {0, 1} /\ phase' = 1 - left')
  PROVE  OnTime'
BY DEF OnTime, InTime

(* An event of the environment allows a second more.                       *)
LEMMA EventAllows ==
  ASSUME Types, OnTime, UNCHANGED <<pc, left, phase, age, prompt, starved>>,
         used' = used + 1
  PROVE  OnTime'
<1>1. ASSUME NEW m \in Mods, age[m] <= Period[m] + used
      PROVE  age'[m] <= Period[m] + used' /\ age'[m] < Period[m] + used'
  BY <1>1, LoopAssumption DEF Types
<1> QED
  BY <1>1 DEF OnTime, InTime

(* The modules updated at the end of an iteration are all that were due.   *)
LEMMA UpdatedInTime ==
  ASSUME Types, update(due), used' = used, NEW m \in Mods, Period[m] > 0
  PROVE  age'[m] < Period[m] + used'
<1>1. Period[m] \in Nat /\ used \in Nat /\ age[m] \in Nat
  BY LoopAssumption DEF Types
<1>2. CASE m \in due
  BY <1>1, <1>2 DEF update
<1>3. CASE m \notin due
  BY <1>1, <1>3 DEF update, due, shouldUpdate
<1> QED
  BY <1>2, <1>3

(* A click's handler makes no module older.                                *)
LEMMA ClickedInTime ==
  ASSUME Types, OnTime, prompt, ~starved, NEW M, update(M), used' = used,
         NEW m \in Mods, Period[m] > 0
  PROVE  /\ age'[m] <= Period[m] + used'
         /\ age[m] < Period[m] + used => age'[m] < Period[m] + used'
<1>1. Period[m] \in Nat /\ used \in Nat /\ age[m] \in Nat /\ age[m] <= Period[m] + used
  BY LoopAssumption DEF Types, OnTime, InTime
<1>2. age'[m] = 0 \/ age'[m] = age[m]
  BY DEF update
<1> QED
  BY <1>1, <1>2

(* Time passes in a prompt bar only while it waits, so that the second     *)
(* that makes a module older also brings its timeout within one unit.      *)
LEMMA TickInTime ==
  ASSUME Types, OnTime, prompt, Tick
  PROVE  /\ left' = SecUnits - phase' + 1 \/ (left' \in {0, 1} /\ phase' = 1 - left')
         /\ ~starved' /\ (phase' = 0 \/ left' = 0) => AboutToTimeOut'
         /\ phase' = 0 \/ UpdateNext => left \in {0, 1, 2}
         /\ phase' = 0 => ~UpdateNext
<1> USE LoopAssumption
<1>1. /\ pc = "select" /\ sock = {} /\ ~i3Readable /\ left > 0 /\ ~owed
      /\ ~starved' => i3 # "ending"
      /\ left' = left - 1
  BY DEF Tick, blocked
<1>2. /\ left = SecUnits - phase + 1 \/ (left = 1 /\ phase = 0)
      /\ left \in Nat /\ phase \in 0..(SecUnits - 1) /\ SecUnits \in Nat \ {0, 1}
  BY <1>1 DEF OnTime, Types
<1>3. phase' = IF phase = SecUnits - 1 THEN 0 ELSE phase + 1
  BY <1>2, NextPhase DEF Tick
<1>4. left' = SecUnits - phase' + 1 \/ (left' \in {0, 1} /\ phase' = 1 - left')
  BY <1>1, <1>2, <1>3
<1>5. phase' = 0 \/ left' = 0 => left' \in {0, 1} /\ phase' = 1 - left'
  BY <1>1, <1>2, <1>3
<1>6. UNCHANGED <<pc, sock, i3, owed>>
  BY DEF Tick, xvars, i3vars
<1>7. ~starved' /\ (phase' = 0 \/ left' = 0) => AboutToTimeOut'
  BY <1>1, <1>5, <1>6 DEF AboutToTimeOut, i3Readable
<1>8. UpdateNext => left = 1 /\ phase = 0
  BY <1>1, <1>2 DEF UpdateNext, AboutToTimeOut
<1>9. (phase' = 0 \/ UpdateNext => left \in {0, 1, 2}) /\ (phase' = 0 => ~UpdateNext)
  BY <1>2, <1>3, <1>8
<1> QED
  BY <1>4, <1>7, <1>9

(* A bar is prompt or not from the start.                                  *)
LEMMA PromptKept == [Next]_vars => UNCHANGED prompt
BY DEF Next, LoopStep, RunStart, SetTimeout, SelectReturns, handleI3Events,
       handleXEvents, updateModules, Tick, NoExposeArrives, UserEvent,
       I3Writes, I3MsgExits, I3Ends, I3Restarts, envEvent, Dead, vars

(* Every step keeps a prompt bar on time.                                  *)
LEMMA OnTimeStep == LagInv /\ [Next]_vars => OnTime'
<1> SUFFICES ASSUME LagInv, [Next]_vars, prompt PROVE OnTime'
  BY PromptKept DEF OnTime
<1> USE LoopAssumption DEF LagInv, LoopInv
<1>1. CASE RunStart
  BY <1>1, SameAges DEF RunStart, sched, UpdateNext, AboutToTimeOut
<1>2. CASE SetTimeout
  BY <1>2, SameAges DEF SetTimeout, sched, UpdateNext, AboutToTimeOut
<1>3. CASE SelectReturns
  <2>1. UpdateNext => UpdateNext'
    BY <1>3 DEF SelectReturns, UpdateNext, AboutToTimeOut
  <2> QED
    BY <1>3, <2>1, SameAges DEF SelectReturns, sched
<1>4. CASE handleI3Events
  <2>1. UpdateNext => UpdateNext'
    BY <1>4 DEF handleI3Events, UpdateNext, AboutToTimeOut
  <2> QED
    BY <1>4, <2>1, SameAges DEF handleI3Events, sched
<1>5. CASE handleXEvents
  <2>1. UpdateNext => UpdateNext'
    BY <1>5 DEF handleXEvents, UpdateNext, AboutToTimeOut, local
  <2>2. CASE ~isX
    BY <1>5, <2>1, <2>2, SameAges DEF handleXEvents, processXEvents, sched
  <2>3. CASE isX
    <3>1. PICK M : update(M)
      BY <1>5, <2>3 DEF handleXEvents, processXEvents
    <3>2. used' = used /\ pc' = "update"
      BY <1>5 DEF handleXEvents
    <3> QED
      BY <1>5, <2>1, <3>1, <3>2, ClickedInTime DEF OnTime, InTime, handleXEvents
  <2> QED
    BY <2>2, <2>3
<1>6. CASE updateModules
  <2>1. used' = used /\ pc' \in {"head", "dead"}
    BY <1>6 DEF updateModules
  <2>2. CASE update(due)
    <3>1. ASSUME NEW m \in Mods, Period[m] > 0
          PROVE  age'[m] < Period[m] + used' /\ age'[m] <= Period[m] + used'
      <4>1. age'[m] < Period[m] + used'
        BY <2>1, <2>2, <3>1, UpdatedInTime
      <4>2. age'[m] \in Nat /\ used' \in Nat /\ Period[m] \in Nat
        BY TypesStep DEF Types
      <4> QED
        BY <4>1, <4>2
    <3> QED
      BY <2>1, <3>1 DEF OnTime, InTime
  <2>3. CASE ~update(due)
    <3>0. due = {} => ~UNCHANGED sched
      BY <2>3 DEF update, sched, Types
    <3>1. UNCHANGED <<age, used, prompt, starved>> /\ (timedOut => pc' = "dead")
      BY <1>6, <2>3, <3>0 DEF updateModules, sched, Types
    <3>2. UpdateNext => UpdateNext'
      BY <1>6, <3>1 DEF updateModules, UpdateNext, AboutToTimeOut
    <3> QED
      BY <2>1, <3>1, <3>2, SameAges
  <2> QED
    BY <2>2, <2>3
<1>7. CASE Tick
  <2>1. UNCHANGED <<used, prompt, pc, timedOut>> /\ (~starved' => ~starved)
    BY <1>7 DEF Tick, local, Types
  <2>2. left' = SecUnits - phase' + 1 \/ (left' \in {0, 1} /\ phase' = 1 - left')
    BY <1>7, TickInTime
  <2>3. ASSUME ~starved', phase' = 0 PROVE InTime'
    <3>1. ASSUME NEW m \in Mods, Period[m] > 0
          PROVE  age'[m] <= Period[m] + used'
      <4>1. age[m] < Period[m] + used
        BY <1>7, <2>1, <2>3, <3>1, TickInTime DEF OnTime, InTime
      <4>2. age'[m] = age[m] + 1 \/ age'[m] = age[m]
        BY <1>7, <2>3 DEF Tick, Types
      <4> QED
        BY <2>1, <4>1, <4>2 DEF Types
    <3> QED
      BY <1>7, <2>3, <3>1, TickInTime DEF InTime, UpdateNext
  <2>4. ASSUME ~starved', phase' # 0 PROVE InTime'
    <3>1. UNCHANGED age
      BY <1>7, <2>4 DEF Tick
    <3>2. UpdateNext => left' = 0
      BY <1>7 DEF Tick, blocked, UpdateNext, AboutToTimeOut
    <3>3. UpdateNext => UpdateNext'
      BY <1>7, <2>4, <3>2, TickInTime DEF UpdateNext
    <3> QED
      BY <2>1, <2>4, <3>1, <3>3 DEF OnTime, InTime
  <2> QED
    BY <2>1, <2>2, <2>3, <2>4 DEF OnTime
<1>8. CASE NoExposeArrives \/ I3MsgExits
  <2>1. UpdateNext => UpdateNext'
    BY <1>8 DEF NoExposeArrives, I3MsgExits, UpdateNext, AboutToTimeOut, local
  <2>2. UNCHANGED <<pc, left, phase, age, used, prompt, starved>>
    BY <1>8 DEF NoExposeArrives, I3MsgExits, sched
  <2> QED
    BY <2>1, <2>2, SameAges DEF OnTime
<1>9. CASE UserEvent \/ I3Writes \/ I3Ends \/ I3Restarts
  <2>1. UNCHANGED <<pc, left, phase, age, prompt, starved>> /\ used' = used + 1
    BY <1>9 DEF UserEvent, I3Writes, I3Ends, I3Restarts, envEvent, sched
  <2> QED
    BY <2>1, EventAllows
<1>10. CASE UNCHANGED vars
  BY <1>10 DEF vars, OnTime, InTime, UpdateNext, AboutToTimeOut, i3Readable
<1> QED
  BY <1>1, <1>2, <1>3, <1>4, <1>5, <1>6, <1>7, <1>8, <1>9, <1>10
     DEF Next, LoopStep, Dead

(* In a bar that does its work between two waits within 10 ms, a module is *)
(* late by at most one second for each event of the environment: the       *)
(* timeout that an event takes away in the 10 ms after the second's begin  *)
(* (main.cpp 139-142) is the only delay while i3 runs, and no two seconds  *)
(* are lost to the same event, its render and the answer to its copy.  The *)
(* time lost with i3 down, when subscriptions end and are renewed without  *)
(* a timeout (workspace.h 195-198), is over with the first pass after it.  *)
THEOREM LoopLagBounded == Spec => []LagBounded
<1>1. LagInv /\ [Next]_vars => LagInv'
  BY TypesStep, RenderedStep, OnTimeStep DEF LagInv, LoopInv
<1>2. LagInv => LagBounded
  BY DEF LagInv, OnTime, InTime, LagBounded
<1> QED
  BY LagInit, <1>1, <1>2, PTL DEF Spec
=============================================================================
