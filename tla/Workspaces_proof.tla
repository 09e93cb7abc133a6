-------------------------- MODULE Workspaces_proof --------------------------
(***************************************************************************)
(* Theorems about Workspaces, with the client of I3Ipc, for any workspace  *)
(* names and any number of changes, ends of i3 and clicks: what is drawn   *)
(* when the loop waits is one list that i3 had since the last update       *)
(* began, and a bar drawn without workspaces stays without them.           *)
(***************************************************************************)
EXTENDS Workspaces, FiniteSetTheorems, SequenceTheorems, TLAPS

(* A list of i3's: labels, at least one.                                   *)
isList(l) == Len(l) \in Nat \ {0} /\ l = shown(l)

isElems(es) ==
  Len(es) \in Nat /\ \A p \in 1..Len(es) : DOMAIN es[p] = {"name", "lit", "laid"}

(* i3 always has a focused workspace; its list, and with it any list a     *)
(* request can be answered with, is one of since.                          *)
I3Lists ==
  /\ open \subseteq Names /\ focused \in open
  /\ list \in since /\ \A l \in since : isList(l)

(* The client: where a request is without an answer nothing is on the      *)
(* wire, so that no answer of an earlier request can be taken for its own; *)
(* NULL comes from a client in the error state alone.  Its first request   *)
(* is that of the constructor.                                             *)
Client ==
  /\ at \in {"idle", "path", "sock", "sock_events", "send", "header",
             "payload", "parse", "null", "list"}
  /\ state \in {"uninit", "ready", "closed"}
  /\ wire \in {"empty", "request", "reply", "cut"}
  /\ at \notin {"header", "payload"} => wire = "empty"
  /\ wire = "reply" \/ at \in {"parse", "list"} => msg \in since
  /\ at \in {"send", "header", "payload", "parse", "list"} => state = "ready"
  /\ at \in {"path", "sock", "sock_events"} => state = "uninit"
  /\ at = "null" => state = "closed"
  /\ state = "uninit" => pc = "reinit" /\ elems = <<>> /\ drawn = <<>>
  /\ state = "closed" => elems = <<>> /\ drawn = <<>>

(* The loop: the calls left, and no request in progress outside of them.   *)
Loop ==
  /\ pc \in {"wait", "update", "reinit", "xevents", "draw"}
  /\ pc \in {"update", "reinit"} => calls \in {1, 2, 3}
  /\ pc = "xevents" => calls \in {0, 2}
  /\ pc \in {"wait", "xevents", "draw"} => at = "idle"

(* The elements after the last call of an iteration, and what is drawn of  *)
(* them when it is over.                                                   *)
Fresh ==
  /\ isElems(elems)
  /\ state = "ready" =>
       /\ pc \in {"draw", "wait"} \/ (pc = "xevents" /\ calls = 0) =>
            shown(elems) \in since
       /\ pc = "wait" \/ (pc = "xevents" /\ calls = 0) => drawn \in since

WInv == I3Lists /\ Client /\ Loop /\ Fresh

-----------------------------------------------------------------------------
(* The list is a function of i3's workspaces and the focused one.          *)
LEMMA SameList ==
  ASSUME open' = open, focused' = focused
  PROVE  list' = list
BY DEF list

(* A function on 1..n is a sequence of length n.                           *)
LEMMA FunctionIsSeq ==
  ASSUME NEW S, NEW n \in Nat, NEW f \in [1..n -> S]
  PROVE  f \in Seq(S) /\ Len(f) = n
<1>1. f \in Seq(S)
  BY SeqDef
<1>2. DOMAIN f = 1..Len(f) /\ Len(f) \in Nat
  BY <1>1, LenProperties
<1>3. 1..n = 1..Len(f)
  BY <1>2
<1> QED
  BY <1>1, <1>2, <1>3

(* A list of labels for any set of workspaces.                             *)
LEMMA Labels ==
  ASSUME NEW S \in SUBSET Names, NEW f \in S
  PROVE  isList([i \in 1..Cardinality(S) |->
                   [name |-> byNumber(S)[i], lit |-> byNumber(S)[i] = f]])
<1> DEFINE n == Cardinality(S)
           l == [p \in 1..n |-> [name |-> byNumber(S)[p], lit |-> byNumber(S)[p] = f]]
<1>1. IsFiniteSet(S) /\ S # {}
  BY WorkspaceAssumption, FS_Subset
<1>2. n \in Nat \ {0}
  BY <1>1, FS_CardinalityType, FS_EmptySet
<1> HIDE DEF n
<1>3. l \in [1..n -> {l[p] : p \in 1..n}]
  OBVIOUS
<1>4. Len(l) = n
  <2> HIDE DEF l
  <2> QED
    BY <1>2, <1>3, FunctionIsSeq
<1>5. l = shown(l)
  BY <1>4 DEF shown
<1>6. isList(l)
  BY <1>2, <1>4, <1>5 DEF isList
<1> QED
  BY <1>6 DEF n

(* i3's list, now and after a step.                                        *)
LEMMA ListIsList ==
  /\ open \subseteq Names /\ focused \in open => isList(list)
  /\ open' \subseteq Names /\ focused' \in open' => isList(list')
<1>1. ASSUME open \subseteq Names, focused \in open PROVE isList(list)
  BY <1>1, Labels DEF list
<1>2. ASSUME open' \subseteq Names, focused' \in open' PROVE isList(list')
  BY <1>2, Labels DEF list
<1> QED
  BY <1>1, <1>2

(* Elements made from a list show it.                                      *)
LEMMA MadeElements ==
  ASSUME NEW l, isList(l)
  PROVE  LET es == [p \in 1..Len(l) |-> fresh(l[p])]
         IN  isElems(es) /\ shown(es) = l
<1> DEFINE es == [p \in 1..Len(l) |-> fresh(l[p])]
<1>1. Len(l) \in Nat /\ l = [p \in 1..Len(l) |-> [name |-> l[p].name, lit |-> l[p].lit]]
  BY DEF isList, shown
<1>2. es \in [1..Len(l) -> {es[p] : p \in 1..Len(l)}]
  OBVIOUS
<1>3. Len(es) = Len(l)
  <2> HIDE DEF es
  <2> QED
    BY <1>1, <1>2, FunctionIsSeq
<1>4. isElems(es)
  BY <1>1, <1>3 DEF isElems, fresh
<1>5. shown(es) = [p \in 1..Len(l) |-> [name |-> l[p].name, lit |-> l[p].lit]]
  BY <1>3 DEF shown, fresh
<1> QED
  BY <1>1, <1>4, <1>5

(* Elements rewritten keep their number; from a list as long as they are   *)
(* they show that list.                                                    *)
LEMMA RewrittenElements ==
  ASSUME NEW es, isElems(es), NEW l, isList(l)
  PROVE  /\ isElems(rewrite(es, l))
         /\ Len(l) = Len(es) => shown(rewrite(es, l)) = l
<1> DEFINE r == rewrite(es, l)
<1>1. /\ Len(es) \in Nat /\ Len(l) \in Nat
      /\ \A p \in 1..Len(es) : DOMAIN es[p] = {"name", "lit", "laid"}
      /\ l = [p \in 1..Len(l) |-> [name |-> l[p].name, lit |-> l[p].lit]]
  BY DEF isList, isElems, shown
<1>2. ASSUME NEW p \in 1..Len(es)
      PROVE  /\ DOMAIN r[p] = {"name", "lit", "laid"}
             /\ p <= Len(l) => r[p].name = l[p].name /\ r[p].lit = l[p].lit
  BY <1>1 DEF rewrite
<1>3. Len(r) = Len(es)
  <2>1. r \in [1..Len(es) -> {r[p] : p \in 1..Len(es)}]
    BY DEF rewrite
  <2> HIDE DEF r
  <2> QED
    BY <1>1, <2>1, FunctionIsSeq
<1> HIDE DEF r
<1>4. isElems(r)
  BY <1>1, <1>2, <1>3 DEF isElems
<1>5. ASSUME Len(l) = Len(es) PROVE shown(r) = l
  <2>1. shown(r) = [p \in 1..Len(l) |-> [name |-> l[p].name, lit |-> l[p].lit]]
    <3>1. \A p \in 1..Len(l) : r[p].name = l[p].name /\ r[p].lit = l[p].lit
      <4>1. Len(es) \in Nat /\ Len(l) \in Nat
        BY <1>1
      <4> QED
        BY <1>2, <1>5, <4>1
    <3>2. Len(r) = Len(l)
      BY <1>3, <1>5
    <3> QED
      BY <3>1, <3>2 DEF shown
  <2> QED
    BY <1>1, <2>1
<1> QED
  BY <1>4, <1>5 DEF r

(* The drawing changes nothing of what the elements show.                  *)
LEMMA LaidElements ==
  ASSUME NEW es, isElems(es)
  PROVE  LET r == [p \in 1..Len(es) |-> [es[p] EXCEPT !.laid = TRUE]]
         IN  isElems(r) /\ shown(r) = shown(es) /\ (es = <<>> => r = <<>>)
<1> DEFINE r == [p \in 1..Len(es) |-> [es[p] EXCEPT !.laid = TRUE]]
<1>1. Len(es) \in Nat /\ \A p \in 1..Len(es) : DOMAIN es[p] = {"name", "lit", "laid"}
  BY DEF isElems
<1>2. ASSUME NEW p \in 1..Len(es)
      PROVE  /\ DOMAIN r[p] = {"name", "lit", "laid"}
             /\ r[p].name = es[p].name /\ r[p].lit = es[p].lit
  BY <1>1
<1>3. Len(r) = Len(es)
  <2>1. r \in [1..Len(es) -> {r[p] : p \in 1..Len(es)}]
    OBVIOUS
  <2> HIDE DEF r
  <2> QED
    BY <1>1, <2>1, FunctionIsSeq
<1>4. es = <<>> => r = <<>>
  OBVIOUS
<1> HIDE DEF r
<1>5. isElems(r) /\ shown(r) = shown(es)
  BY <1>1, <1>2, <1>3 DEF isElems, shown
<1> QED
  BY <1>4, <1>5 DEF r

(* Without elements nothing is shown.                                      *)
LEMMA NoElements == isElems(<<>>) /\ shown(<<>>) = <<>>
BY DEF isElems, shown

-----------------------------------------------------------------------------
(* The steps.                                                              *)

(* The invariant holds at first.                                           *)
LEMMA WInit == Init => WInv
<1> SUFFICES ASSUME Init PROVE WInv
  OBVIOUS
<1>1. I3Lists
  BY ListIsList DEF Init, I3Lists
<1>2. Client /\ Loop
  BY DEF Init, ClientInit, Client, Loop
<1>3. Fresh
  BY NoElements DEF Init, Fresh
<1> QED
  BY <1>1, <1>2, <1>3 DEF WInv

(* A step of the client or of i3 on the connection.                        *)
LEMMA ConnectionStep == WInv /\ (IpcStep \/ I3Client) => WInv'
<1> SUFFICES ASSUME WInv, IpcStep \/ I3Client PROVE WInv'
  OBVIOUS
<1>1. /\ open' = open /\ focused' = focused /\ since' = since
      /\ elems' = elems /\ drawn' = drawn /\ pc' = pc /\ calls' = calls
  BY DEF IpcStep, I3Client, i3vars, modvars
<1>2. I3Lists' /\ list' = list
  BY <1>1, SameList DEF WInv, I3Lists
<1>3. at = "idle" => at' = "idle" /\ state' = state
  BY DEF IpcStep, I3Client, ClientStep, socketpath_cmd, socket_open, message_send,
         message_receive, parse, I3Answers, I3Ends, I3Starts
<1>4. Loop'
  BY <1>1, <1>3 DEF WInv, Loop
<1>5. Fresh'
  BY <1>1, <1>3 DEF WInv, Loop, Fresh
<1>6. Client'
  <2>1. CASE I3Client
    <3>1. CASE I3Answers(list)
      BY <1>1, <3>1 DEF WInv, I3Lists, Client, I3Answers
    <3>2. CASE I3Ends
      BY <1>1, <3>2 DEF WInv, Client, I3Ends
    <3>3. CASE I3Starts
      BY <1>1, <3>3 DEF WInv, Client, I3Starts
    <3> QED
      BY <2>1, <3>1, <3>2, <3>3 DEF I3Client
  <2>2. CASE IpcStep
    <3>1. CASE socketpath_cmd
      BY <1>1, <3>1 DEF WInv, Client, socketpath_cmd, init_failed
    <3>2. CASE socket_open
      BY <1>1, <3>2 DEF WInv, Client, socket_open, init_failed
    <3>3. CASE message_send
      BY <1>1, <3>3 DEF WInv, Client, message_send, write_all, error_handle
    <3>4. CASE message_receive
      BY <1>1, <3>4 DEF WInv, Client, message_receive, read_all, read_eof, error_handle
    <3>5. CASE parse
      BY <1>1, <3>5 DEF WInv, Client, parse
    <3> QED
      BY <2>2, <3>1, <3>2, <3>3, <3>4, <3>5 DEF IpcStep, ClientStep
  <2> QED
    BY <2>1, <2>2
<1> QED
  BY <1>2, <1>4, <1>5, <1>6 DEF WInv

(* A new iteration that updates: since begins again, with i3's list; no    *)
(* answer is under way.                                                    *)
LEMMA Iteration == WInv /\ (handleI3Events \/ Timeout) => WInv'
<1> SUFFICES ASSUME WInv, handleI3Events \/ Timeout PROVE WInv'
  OBVIOUS
<1>1. /\ pc = "wait" /\ pc' = "update" /\ calls' \in {1, 2, 3} /\ since' = {list}
      /\ open' = open /\ focused' = focused /\ elems' = elems /\ drawn' = drawn
      /\ state' = state /\ wire' = wire /\ msg' = msg /\ at' = at
  BY DEF handleI3Events, Timeout, ipcvars, i3vars
<1>2. at = "idle" /\ wire = "empty" /\ state # "uninit"
  BY <1>1 DEF WInv, Loop, Client
<1>3. I3Lists'
  BY <1>1, SameList DEF WInv, I3Lists
<1>4. Client'
  BY <1>1, <1>2 DEF WInv, Client
<1>5. Loop' /\ Fresh'
  BY <1>1 DEF WInv, Loop, Fresh
<1> QED
  BY <1>3, <1>4, <1>5 DEF WInv

(* X events alone: nothing is updated.                                     *)
LEMMA XEventsOnlyStep == WInv /\ XEventsOnly => WInv'
<1> SUFFICES ASSUME WInv, XEventsOnly PROVE WInv'
  OBVIOUS
<1>1. /\ pc = "wait" /\ pc' = "xevents" /\ calls' = 0 /\ since' = since
      /\ open' = open /\ focused' = focused /\ elems' = elems /\ drawn' = drawn
      /\ state' = state /\ wire' = wire /\ msg' = msg /\ at' = at
  BY DEF XEventsOnly, ipcvars, i3vars
<1>2. I3Lists'
  BY <1>1, SameList DEF WInv, I3Lists
<1>3. Client' /\ Loop' /\ Fresh'
  BY <1>1 DEF WInv, Client, Loop, Fresh
<1> QED
  BY <1>2, <1>3 DEF WInv

(* A request begins; initializeElements has cleared the elements before.   *)
LEMMA RequestStep == WInv /\ Request => WInv'
<1> SUFFICES ASSUME WInv, Request PROVE WInv'
  OBVIOUS
<1>1. /\ pc \in {"update", "reinit"} /\ pc' = pc /\ calls' = calls /\ since' = since
      /\ open' = open /\ focused' = focused /\ drawn' = drawn
      /\ elems' = (IF pc = "reinit" THEN <<>> ELSE elems)
      /\ state' = state /\ wire' = wire /\ msg' = msg /\ at = "idle"
  BY DEF Request, message_and_parse, i3vars
<1>2. /\ state = "closed" => at' = "null"
      /\ state = "ready" => at' = "send"
      /\ state = "uninit" => at' = "path"
  BY DEF Request, message_and_parse
<1>3. I3Lists'
  BY <1>1, SameList DEF WInv, I3Lists
<1>4. Client'
  BY <1>1, <1>2 DEF WInv, Client
<1>5. Loop' /\ Fresh'
  BY <1>1, NoElements DEF WInv, Loop, Fresh
<1> QED
  BY <1>3, <1>4, <1>5 DEF WInv

(* After a call: where the loop goes on.                                   *)
LEMMA Returned ==
  ASSUME Loop, pc \in {"update", "reinit"}, returned
  PROVE  \/ pc' = "xevents" /\ calls' = 2
         \/ pc' = "update" /\ calls' = 1
         \/ pc' = "draw"
<1>1. calls \in {1, 2, 3}
  BY DEF Loop
<1>2. CASE calls = 1
  BY <1>2 DEF returned
<1>3. CASE calls = 2
  BY <1>3 DEF returned
<1>4. CASE calls = 3
  BY <1>4 DEF returned
<1> QED
  BY <1>1, <1>2, <1>3, <1>4

(* The end of a call.  Its list, if it got one, is of since; without one   *)
(* the client is in the error state, and nothing is shown at all.          *)
LEMMA CallEnds == WInv /\ (updateElements \/ initializeElements) => WInv'
<1> SUFFICES ASSUME WInv, updateElements \/ initializeElements PROVE WInv'
  OBVIOUS
<1>1. /\ open' = open /\ focused' = focused /\ drawn' = drawn /\ since' = since
      /\ state' = state /\ wire' = wire /\ at' = "idle" /\ msg' = <<>>
      /\ pc \in {"update", "reinit"} /\ at \in {"null", "list"}
  BY DEF updateElements, initializeElements, taken, i3vars
<1>2. I3Lists'
  BY <1>1, SameList DEF WInv, I3Lists
<1>3. /\ wire = "empty" /\ isElems(elems) /\ state # "uninit"
      /\ at = "list" => msg \in since /\ isList(msg) /\ state = "ready"
      /\ at = "null" => state = "closed"
  BY <1>1 DEF WInv, Client, Fresh, I3Lists
<1>4. CASE at = "null"
  <2>1. elems' = elems /\ returned /\ state = "closed"
    BY <1>3, <1>4 DEF updateElements, initializeElements
  <2>2. \/ pc' = "xevents" /\ calls' = 2
        \/ pc' = "update" /\ calls' = 1
        \/ pc' = "draw"
    BY <1>1, <2>1, Returned DEF WInv
  <2>3. Client' /\ Loop' /\ Fresh'
    BY <1>1, <1>3, <2>1, <2>2 DEF WInv, Client, Loop, Fresh
  <2> QED
    BY <1>2, <2>3 DEF WInv
<1>5. CASE at = "list"
  <2>1. state = "ready" /\ isList(msg) /\ msg \in since
    BY <1>3, <1>5
  <2>2. CASE pc' = "reinit" /\ calls' = calls /\ elems' = rewrite(elems, msg)
    <3>1. isElems(elems')
      BY <1>3, <2>1, <2>2, RewrittenElements
    <3>2. Client' /\ Loop' /\ Fresh'
      BY <1>1, <1>3, <2>1, <2>2, <3>1 DEF WInv, Client, Loop, Fresh
    <3> QED
      BY <1>2, <3>2 DEF WInv
  <2>3. CASE returned /\ isElems(elems') /\ shown(elems') = msg
    <3>1. \/ pc' = "xevents" /\ calls' = 2
          \/ pc' = "update" /\ calls' = 1
          \/ pc' = "draw"
      BY <1>1, <2>3, Returned DEF WInv
    <3>2. Client' /\ Loop' /\ Fresh'
      BY <1>1, <1>3, <2>1, <2>3, <3>1 DEF WInv, Client, Loop, Fresh
    <3> QED
      BY <1>2, <3>2 DEF WInv
  <2>4. CASE updateElements
    <3>1. \/ pc' = "reinit" /\ calls' = calls /\ elems' = rewrite(elems, msg)
          \/ returned /\ elems' = rewrite(elems, msg) /\ Len(msg) = Len(elems)
      BY <1>5, <2>4 DEF updateElements
    <3> QED
      BY <1>3, <2>1, <2>2, <2>3, <3>1, RewrittenElements
  <2>5. CASE initializeElements
    <3>1. returned /\ elems' = [p \in 1..Len(msg) |-> fresh(msg[p])]
      BY <1>5, <2>5 DEF initializeElements
    <3>2. isElems(elems') /\ shown(elems') = msg
      BY <2>1, <3>1, MadeElements
    <3> QED
      BY <2>3, <3>1, <3>2
  <2> QED
    BY <2>4, <2>5
<1> QED
  BY <1>1, <1>4, <1>5

(* A drawing shows the elements.                                           *)
LEMMA Rendered ==
  ASSUME isElems(elems), renderBar
  PROVE  /\ isElems(elems') /\ shown(elems') = shown(elems) /\ drawn' = shown(elems)
         /\ elems = <<>> => elems' = <<>> /\ drawn' = <<>>
<1>1. drawn' = shown(elems)
      /\ elems' = [p \in 1..Len(elems) |-> [elems[p] EXCEPT !.laid = TRUE]]
  BY DEF renderBar
<1>2. /\ isElems(elems') /\ shown(elems') = shown(elems)
      /\ elems = <<>> => elems' = <<>>
  BY <1>1, LaidElements
<1> QED
  BY <1>1, <1>2, NoElements

(* What is drawn at the end of an iteration.                               *)
LEMMA DrawStep == WInv /\ Draw => WInv'
<1> SUFFICES ASSUME WInv, Draw PROVE WInv'
  OBVIOUS
<1>1. /\ pc = "draw" /\ pc' = "wait" /\ calls' = calls /\ since' = since
      /\ open' = open /\ focused' = focused /\ renderBar
      /\ state' = state /\ wire' = wire /\ msg' = msg /\ at' = at
  BY DEF Draw, ipcvars, i3vars
<1>2. /\ isElems(elems') /\ shown(elems') = shown(elems) /\ drawn' = shown(elems)
      /\ elems = <<>> => elems' = <<>> /\ drawn' = <<>>
  BY <1>1, Rendered DEF WInv, Fresh
<1>3. I3Lists'
  BY <1>1, SameList DEF WInv, I3Lists
<1>4. Client' /\ Loop' /\ Fresh'
  BY <1>1, <1>2 DEF WInv, Client, Loop, Fresh
<1> QED
  BY <1>3, <1>4 DEF WInv

(* A click may draw the bar; when it comes alone, what it draws are the    *)
(* elements of the last drawing.                                           *)
LEMMA HandleXEvents == WInv /\ handleXEvents => WInv'
<1> SUFFICES ASSUME WInv, handleXEvents PROVE WInv'
  OBVIOUS
<1>1. /\ pc = "xevents" /\ since' = since /\ calls' = calls
      /\ open' = open /\ focused' = focused
      /\ state' = state /\ wire' = wire /\ msg' = msg /\ at' = at
  BY DEF handleXEvents, ipcvars, i3vars
<1>2. I3Lists'
  BY <1>1, SameList DEF WInv, I3Lists
<1>3. CASE pc' = pc /\ (renderBar \/ UNCHANGED <<elems, drawn>>)
  <2>1. CASE renderBar
    <3>1. /\ isElems(elems') /\ shown(elems') = shown(elems) /\ drawn' = shown(elems)
          /\ elems = <<>> => elems' = <<>> /\ drawn' = <<>>
      BY <2>1, Rendered DEF WInv, Fresh
    <3>2. Client' /\ Loop' /\ Fresh'
      BY <1>1, <1>3, <3>1 DEF WInv, Client, Loop, Fresh
    <3> QED
      BY <1>2, <3>2 DEF WInv
  <2>2. CASE UNCHANGED <<elems, drawn>>
    <3>1. Client' /\ Loop' /\ Fresh'
      BY <1>1, <1>3, <2>2 DEF WInv, Client, Loop, Fresh
    <3> QED
      BY <1>2, <3>1 DEF WInv
  <2> QED
    BY <1>3, <2>1, <2>2
<1>4. CASE /\ pc' = (IF calls = 2 THEN "update" ELSE "wait")
           /\ elems' = elems /\ drawn' = drawn
  <2>1. calls \in {0, 2} /\ state # "uninit"
    BY <1>1 DEF WInv, Loop, Client
  <2>2. Client' /\ Loop' /\ Fresh'
    BY <1>1, <1>4, <2>1 DEF WInv, Client, Loop, Fresh
  <2> QED
    BY <1>2, <2>2 DEF WInv
<1> QED
  BY <1>3, <1>4 DEF handleXEvents, dispatch

(* i3 changes: its new list joins since.                                   *)
LEMMA I3Changes == WInv /\ (I3Switch \/ I3Rename) => WInv'
<1> SUFFICES ASSUME WInv, I3Switch \/ I3Rename PROVE WInv'
  OBVIOUS
<1>1. /\ since' = since \cup {list'}
      /\ elems' = elems /\ drawn' = drawn /\ pc' = pc /\ calls' = calls
      /\ state' = state /\ wire' = wire /\ msg' = msg /\ at' = at
  BY DEF I3Switch, I3Rename, noted, ipcvars, modvars
<1>2. open' \subseteq Names /\ focused' \in open'
  BY DEF I3Switch, I3Rename, WInv, I3Lists
<1>3. isList(list')
  BY <1>2, ListIsList
<1>4. I3Lists'
  BY <1>1, <1>2, <1>3 DEF WInv, I3Lists
<1>5. Client' /\ Loop' /\ Fresh'
  BY <1>1 DEF WInv, Client, Loop, Fresh
<1> QED
  BY <1>4, <1>5 DEF WInv

(* A click waits to be handled, or nothing changes.                        *)
LEMMA OtherSteps == WInv /\ (Click \/ UNCHANGED vars) => WInv'
<1> SUFFICES ASSUME WInv, Click \/ UNCHANGED vars PROVE WInv'
  OBVIOUS
<1>1. /\ since' = since /\ open' = open /\ focused' = focused
      /\ elems' = elems /\ drawn' = drawn /\ pc' = pc /\ calls' = calls
      /\ state' = state /\ wire' = wire /\ msg' = msg /\ at' = at
  BY DEF Click, vars, ipcvars, i3vars, modvars
<1>2. I3Lists'
  BY <1>1, SameList DEF WInv, I3Lists
<1>3. Client' /\ Loop' /\ Fresh'
  BY <1>1 DEF WInv, Client, Loop, Fresh
<1> QED
  BY <1>2, <1>3 DEF WInv

(* Every step keeps the invariant.                                         *)
LEMMA WStep == WInv /\ [Next]_vars => WInv'
<1> SUFFICES ASSUME WInv, [Next]_vars PROVE WInv'
  OBVIOUS
<1>1. CASE handleI3Events \/ Timeout
  BY <1>1, Iteration
<1>2. CASE XEventsOnly
  BY <1>2, XEventsOnlyStep
<1>3. CASE Request
  BY <1>3, RequestStep
<1>4. CASE IpcStep \/ I3Client
  BY <1>4, ConnectionStep
<1>5. CASE updateElements \/ initializeElements
  BY <1>5, CallEnds
<1>6. CASE handleXEvents
  BY <1>6, HandleXEvents
<1>7. CASE Draw
  BY <1>7, DrawStep
<1>8. CASE I3Switch \/ I3Rename
  BY <1>8, I3Changes
<1>9. CASE Click \/ UNCHANGED vars
  BY <1>9, OtherSteps
<1>10. CASE Ended
  BY <1>10, OtherSteps DEF Ended
<1> QED
  BY <1>1, <1>2, <1>3, <1>4, <1>5, <1>6, <1>7, <1>8, <1>9, <1>10 DEF Next, LoopStep

(* The invariant holds for ever.                                           *)
LEMMA WInvHolds == Spec => []WInv
BY WInit, WStep, PTL DEF Spec

-----------------------------------------------------------------------------

(* When the loop waits the window shows one list that i3 had since the     *)
(* last update began, whatever changed between its requests (workspace.h   *)
(* 53-131).                                                                *)
THEOREM WorkspacesDrawnFresh == Spec => []DrawnFresh
<1>1. WInv => DrawnFresh
  BY DEF WInv, Fresh, DrawnFresh
<1> QED
  BY <1>1, WInvHolds, PTL

(* The client is in the error state.                                       *)
closed == state = "closed"

(* The error state is for ever: no step of the client leaves it.           *)
LEMMA ClosedStays == WInv /\ closed /\ [Next]_vars => closed'
<1> SUFFICES ASSUME WInv, state = "closed", [Next]_vars PROVE state' = "closed"
  BY DEF closed
<1>1. at \in {"idle", "null"}
  BY DEF WInv, Client
<1>2. CASE IpcStep
  BY <1>1, <1>2 DEF IpcStep, ClientStep, socketpath_cmd, socket_open, message_send,
                    message_receive, parse
<1>3. CASE I3Client
  BY <1>3 DEF I3Client, I3Answers, I3Ends, I3Starts
<1>4. CASE updateElements \/ initializeElements
  BY <1>4 DEF updateElements, initializeElements, taken
<1>5. CASE Request
  BY <1>5 DEF Request
<1> QED
  BY <1>2, <1>3, <1>4, <1>5 DEF Next, LoopStep, handleI3Events, XEventsOnly, Timeout,
     handleXEvents, Draw, I3Switch, I3Rename, Click, Ended, vars, ipcvars

(* Once in the error state, always in it.                                  *)
LEMMA ClosedForEver == Spec => [](closed => []closed)
BY ClosedStays, WInvHolds, PTL DEF Spec

(* A bar that waits without workspaces on its window has a client in the   *)
(* error state, and never shows any (i3ipc.h 1111-1140, 2704-2709).        *)
THEOREM WorkspacesEmptyForEver == Spec => EmptyForEver
<1>1. WInv => (pc = "wait" /\ drawn = <<>> => closed)
  <2> SUFFICES ASSUME WInv, pc = "wait", drawn = <<>>, state # "closed" PROVE FALSE
    BY DEF closed
  <2>1. state = "ready"
    BY DEF WInv, Client
  <2>2. <<>> \in since
    BY <2>1 DEF WInv, Fresh
  <2> QED
    BY <2>2 DEF WInv, I3Lists, isList
<1>2. WInv => (closed => drawn = <<>>)
  BY DEF WInv, Client, closed
<1> QED
  BY <1>1, <1>2, ClosedForEver, WInvHolds, PTL DEF EmptyForEver
=============================================================================
