----------------------------- MODULE Workspaces -----------------------------
(***************************************************************************)
(* WorkspaceModule (modules/workspace.h) between i3 and the bar: the       *)
(* elements it keeps, what the bar last drew of them, and where a click    *)
(* goes.  The lists come through the client of I3Ipc, one request at a     *)
(* time, each with i3's list at the moment of its answer; updateElements   *)
(* may ask twice, and i3 may change, end and start again in between.       *)
(*                                                                         *)
(* One iteration of BarManager::run calls updateElements up to three       *)
(* times: in handleI3Events, in run itself and, the module being           *)
(* autoUpdate, in updateModules; a timeout calls it once.  X events are    *)
(* handled after the first of these calls and before the bar is drawn.     *)
(***************************************************************************)
EXTENDS I3Ipc, FiniteSets, Sequences, SequencesExt

CONSTANTS
  Names,       \* workspace names, numbers: i3 lists workspaces by number
  MaxChanges,  \* bound: commands i3 executes
  MaxClicks    \* bound: clicks

ASSUME WorkspaceAssumption ==
  /\ IsFiniteSet(Names) /\ Names \subseteq Nat /\ Names # {}
  /\ MaxChanges \in Nat /\ MaxEnds \in Nat /\ MaxClicks \in Nat

VARIABLES
  open, focused, busy,  \* i3: its workspaces, the focused one, those with windows
  event,     \* the subscription has an event isWorkspaceEvent looks for
  elems,     \* workspaceElements: records of name, lit and laid
  drawn,     \* the names on the window, by position
  pc,        \* "wait", "update", "reinit", "xevents" or "draw"
  calls,     \* calls of updateElements left in this iteration
  clicked,   \* positions clicked and not yet handled
  changes, clicks,
  since      \* the lists i3 has had since the last iteration with an update began

modvars == <<elems, drawn, pc, calls, clicked>>
counters == <<changes, clicks>>
i3vars == <<open, focused, busy>>
vars == <<ipcvars, i3vars, event, modvars, counters, since>>

Element == [name : Names, lit : BOOLEAN, laid : BOOLEAN]
Label == [name : Names, lit : BOOLEAN]

(* Type invariant: elements and drawn labels name workspaces i3 can have   *)
(* (workspace.h 58-84).                                                    *)
TypeOK ==
  /\ ClientTypeOK /\ msg \in Seq(Label)
  /\ open \subseteq Names /\ focused \in open /\ busy \subseteq open
  /\ event \in BOOLEAN
  /\ elems \in Seq(Element)
  /\ drawn \in Seq(Label)
  /\ pc \in {"wait", "update", "reinit", "xevents", "draw"}
  /\ calls \in 0..3
  /\ clicked \in SUBSET (1..Cardinality(Names))
  /\ changes \in 0..MaxChanges /\ clicks \in 0..MaxClicks
  /\ since \subseteq Seq(Label)

byNumber(S) == SetToSortSeq(S, <)

(* What i3 replies.                                                        *)
list == [i \in 1..Cardinality(open) |->
           [name |-> byNumber(open)[i], lit |-> byNumber(open)[i] = focused]]

(* A new element of initializeElements                                     *)
fresh(w) == [name |-> w.name, lit |-> w.lit, laid |-> FALSE]

shown(es) == [i \in 1..Len(es) |-> [name |-> es[i].name, lit |-> es[i].lit]]

(* The constructor's initializeElements; nothing is drawn yet.             *)
Init ==
  /\ open \in SUBSET Names /\ focused \in open /\ busy = open \ {focused}
  /\ event = FALSE
  /\ elems = <<>> /\ drawn = <<>>
  /\ pc = "reinit" /\ calls = 1 /\ clicked = {}
  /\ changes = 0 /\ clicks = 0
  /\ since = {list}
  /\ ClientInit(<<>>)

-----------------------------------------------------------------------------
(* One iteration of the loop.                                              *)

(* select() returns with an event of the subscription *)
handleI3Events ==
  /\ alive /\ pc = "wait"
  /\ event /\ event' = FALSE
  /\ calls' = 3 /\ pc' = "update"
  /\ since' = {list}
  /\ UNCHANGED <<ipcvars, i3vars, elems, drawn, clicked, counters>>

(* select() returns with X events alone *)
XEventsOnly ==
  /\ alive /\ pc = "wait"
  /\ ~event /\ clicked # {}
  /\ calls' = 0 /\ pc' = "xevents"
  /\ UNCHANGED <<ipcvars, i3vars, event, elems, drawn, clicked, counters, since>>

(* Mutant: the module is not autoUpdate.                                   *)
Timeout_NotAuto ==
  /\ alive /\ pc = "wait"
  /\ ~event /\ clicked = {}
  /\ UNCHANGED vars

(* select() times out: nothing has come *)
Timeout ==
  /\ alive /\ pc = "wait"
  /\ ~event /\ clicked = {}
  /\ calls' = 1 /\ pc' = "update"
  /\ since' = {list}
  /\ UNCHANGED <<ipcvars, i3vars, event, elems, drawn, clicked, counters>>

(* The two functions begin with a request; clearElements comes before it.  *)
Request ==
  /\ alive /\ pc \in {"update", "reinit"}
  /\ message_and_parse
  /\ elems' = IF pc = "reinit" THEN <<>> ELSE elems
  /\ UNCHANGED <<state, sock, wire, msg, alive, up, ends, i3vars, event, drawn,
                 pc, calls, clicked, counters, since>>

(* After a call: the first of three is followed by the X events, the last  *)
(* by the drawing.                                                         *)
returned ==
  /\ calls' = calls - 1
  /\ pc' = CASE calls = 3 -> "xevents" [] calls = 2 -> "update" [] calls = 1 -> "draw"

(* The elements are rewritten in place as far as both lists go.            *)
rewrite(es, ws) ==
  [i \in 1..Len(es) |-> IF i <= Len(ws)
                        THEN [es[i] EXCEPT !.name = ws[i].name, !.lit = ws[i].lit]
                        ELSE es[i]]

(* Mutant: a change of the number of workspaces is not looked at.          *)
updateElements_NoCount ==
  /\ pc = "update" /\ at \in {"null", "list"}
  /\ elems' = IF at = "null" THEN elems ELSE rewrite(elems, msg)
  /\ returned /\ taken(<<>>)
  /\ UNCHANGED <<i3vars, event, drawn, clicked, counters, since>>

updateElements ==
  /\ pc = "update"
  /\ \/ at = "null" /\ returned /\ UNCHANGED elems
     \/ /\ at = "list"
        /\ elems' = rewrite(elems, msg)
        /\ IF Len(msg) = Len(elems)
           THEN returned
           ELSE pc' = "reinit" /\ UNCHANGED calls
  /\ taken(<<>>)
  /\ UNCHANGED <<i3vars, event, drawn, clicked, counters, since>>

(* initializeElements after its request *)
initializeElements ==
  /\ pc = "reinit"
  /\ \/ at = "null" /\ UNCHANGED elems
     \/ at = "list" /\ elems' = [i \in 1..Len(msg) |-> fresh(msg[i])]
  /\ returned /\ taken(<<>>)
  /\ UNCHANGED <<i3vars, event, drawn, clicked, counters, since>>

(* renderBar: the layout and what is on the window *)
renderBar ==
  /\ elems' = [i \in 1..Len(elems) |-> [elems[i] EXCEPT !.laid = TRUE]]
  /\ drawn' = shown(elems)

(* A click at the place of the p-th name drawn finds the p-th element, if  *)
(* the last layout gave it that place, and switchToWorkspace then runs     *)
(* i3-msg, with the name the element was made with, and draws the bar.     *)
(* Otherwise nothing is found.                                             *)
dispatch(p) ==
  IF p <= Len(elems) /\ p <= Len(drawn) /\ elems[p].laid
  THEN renderBar
  ELSE UNCHANGED <<elems, drawn>>

handleXEvents ==
  /\ alive /\ pc = "xevents"
  /\ \/ \E p \in clicked :
          /\ clicked' = clicked \ {p}
          /\ dispatch(p)
          /\ UNCHANGED <<pc, calls>>
     \/ /\ clicked = {}
        /\ pc' = IF calls = 2 THEN "update" ELSE "wait"
        /\ UNCHANGED <<clicked, calls, elems, drawn>>
  /\ UNCHANGED <<ipcvars, i3vars, event, counters, since>>

(* the end of the loop body: an autoUpdate module always has an update *)
Draw ==
  /\ alive /\ pc = "draw"
  /\ renderBar
  /\ pc' = "wait"
  /\ UNCHANGED <<ipcvars, i3vars, event, calls, clicked, counters, since>>

-----------------------------------------------------------------------------
(* i3 and the user.                                                        *)

change == alive /\ up /\ changes < MaxChanges /\ changes' = changes + 1

noted == since' = since \cup {list'}

(* i3 executes "workspace n": it creates n if need be, focuses it, and     *)
(* closes the workspace left behind if that is empty, in one command.  The *)
(* i3-msg of the subscription ends with every event and is started again,  *)
(* so that it may miss this one.                                           *)
I3Switch ==
  /\ change
  /\ \E n \in Names \ {focused} :
       /\ open' = {n} \cup (IF focused \in busy THEN open ELSE open \ {focused})
       /\ focused' = n
       /\ busy' = busy \cap open'
  /\ event' \in {event, TRUE}
  /\ noted
  /\ UNCHANGED <<ipcvars, modvars, clicks>>

(* A rename, an event that isWorkspaceEvent does not look for.             *)
I3Rename ==
  /\ change
  /\ \E n \in open, m \in Names \ open :
       LET new(S) == IF n \in S THEN (S \ {n}) \cup {m} ELSE S
       IN  /\ open' = new(open)
           /\ busy' = new(busy)
           /\ focused' = IF focused = n THEN m ELSE focused
  /\ noted
  /\ UNCHANGED <<ipcvars, event, modvars, clicks>>

I3Client == alive /\ (I3Answers(list) \/ I3Ends \/ I3Starts)
            /\ UNCHANGED <<i3vars, event, modvars, counters, since>>

Click ==
  /\ alive /\ clicks < MaxClicks /\ clicks' = clicks + 1
  /\ \E p \in DOMAIN drawn : clicked' = clicked \cup {p}
  /\ UNCHANGED <<ipcvars, i3vars, event, elems, drawn, pc, calls, changes, since>>

-----------------------------------------------------------------------------

IpcStep == ClientStep /\ UNCHANGED <<i3vars, event, modvars, counters, since>>

LoopStep == handleI3Events \/ XEventsOnly \/ Request \/ IpcStep \/ updateElements
            \/ initializeElements \/ handleXEvents \/ Draw

(* The process has ended: nothing that i3 does can be seen any more.       *)
Ended == ~alive /\ UNCHANGED vars

Next == LoopStep \/ Timeout \/ I3Switch \/ I3Rename \/ I3Client
        \/ Click \/ Ended

Spec == Init /\ [][Next]_vars

(* The thread runs, an i3 that runs answers, and while it runs timeouts    *)
(* come back (BarLoop, DueUpdated).  They may never come with i3 down: the *)
(* renewed subscription is at its end of file again and again, and reading *)
(* it makes no request (workspace.h 195-202).                              *)
FairSpec ==
  /\ Spec
  /\ WF_vars(LoopStep) /\ WF_vars(up /\ Timeout)
  /\ WF_vars(I3Answers(list) /\ UNCHANGED <<i3vars, event, modvars, counters, since>>)

-----------------------------------------------------------------------------
(* Properties.                                                             *)

(* When the loop waits, what is drawn is one list of i3's, one it had at a *)
(* moment not before the last update began: no mixture of two lists and no *)
(* older list reaches the window, although the elements are rewritten in   *)
(* place and replaced after a second request, and i3 changes in between    *)
(* (workspace.h 53-131, i3ipc.h 1389-1397).                                *)
DrawnFresh ==
  pc = "wait" /\ state = "ready" => drawn \in since

(* Once i3 stays as it is, the window shows its list: a rename, whose      *)
(* event is not recognised, an event that the subscription missed, and one *)
(* taken before the change it announces was seen are made good by the      *)
(* update of the next timeout.  It needs the client's first connection to  *)
(* have succeeded and to have lasted.                                      *)
Converges == <>[](drawn = list \/ state = "closed" \/ sock = "broken")

(* A bar that has once been drawn without workspaces never shows any: its  *)
(* first connection to i3 failed, and the client stays in the error state  *)
(* when i3 comes up (i3ipc.h 1111-1140, 2704-2709).                        *)
EmptyForEver == [](pc = "wait" /\ drawn = <<>> => [](drawn = <<>>))

(* A restart of i3 ends the bar, both of its windows: as long as i3 is     *)
(* gone no request need be made, but with i3 back the timeouts are, and    *)
(* the next request finds the connection closed although a new one could   *)
(* be made (i3ipc.h 880-895, 1286-1297, 1343-1346).                        *)
LostConnectionEnds ==
  (sock = "broken" /\ state = "ready" /\ up) ~> (~alive \/ ~up)
=============================================================================
