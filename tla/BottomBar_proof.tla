-------------------------- MODULE BottomBar_proof --------------------------
(***************************************************************************)
(* Theorems about BottomBar, with Space, Resources and Ping, for every     *)
(* interval, every wait, every time the check of the latency may take and  *)
(* every width of the counters: how old what is drawn may be, the share of *)
(* the processor, and the rate of the network after a wrong difference.    *)
(***************************************************************************)
EXTENDS BottomBar, WellFoundedInduction, TLAPS

-----------------------------------------------------------------------------
(* What the thread has to do.                                              *)

First == <<"space", "resources", "network", "latency", "render">>
Second == <<"resources", "network", "latency", "render">>
Third == <<"network", "latency", "render">>
Answer == <<"latency", "render">>
Draw == <<"render">>

Todos == {First, Second, Third, Answer, Draw, <<>>}

(* The lists are different ones.                                           *)
LEMMA Lists ==
  /\ First # Second /\ First # Third /\ First # Answer /\ First # Draw /\ First # <<>>
  /\ Second # Third /\ Second # Answer /\ Second # Draw /\ Second # <<>>
  /\ Third # Answer /\ Third # Draw /\ Third # <<>>
  /\ Answer # Draw /\ Answer # <<>> /\ Draw # <<>>
BY DEF First, Second, Third, Answer, Draw

(* Each list begins with the step that is next and goes on with the next   *)
(* list.                                                                   *)
LEMMA Parts ==
  /\ Head(First) = "space" /\ Tail(First) = Second
  /\ Head(Second) = "resources" /\ Tail(Second) = Third
  /\ Head(Third) = "network" /\ Tail(Third) = Answer
  /\ Head(Answer) = "latency" /\ Tail(Answer) = Draw
  /\ Head(Draw) = "render" /\ Tail(Draw) = <<>>
<1>1. Head(First) = "space" /\ Tail(First) = Second
  BY DEF First, Second
<1>2. Head(Second) = "resources" /\ Tail(Second) = Third
  BY DEF Second, Third
<1>3. Head(Third) = "network" /\ Tail(Third) = Answer
  BY DEF Third, Answer
<1>4. Head(Answer) = "latency" /\ Tail(Answer) = Draw
  BY DEF Answer, Draw
<1>5. Head(Draw) = "render" /\ Tail(Draw) = <<>>
  BY DEF Draw
<1> QED
  BY <1>1, <1>2, <1>3, <1>4, <1>5

(* So a step of the thread is taken from one list only.                    *)
LEMMA Taken ==
  ASSUME todo \in Todos
  PROVE  /\ do("space") => todo = First /\ todo' = Second
         /\ do("resources") => todo = Second /\ todo' = Third
         /\ do("network") => todo = Third /\ todo' = Answer
         /\ do("latency") => todo = Answer /\ todo' = Draw
         /\ do("render") => todo = Draw /\ todo' = <<>>
BY Parts DEF Todos, do

-----------------------------------------------------------------------------
(* How old the samples are.                                                *)

Modules == {"space", "resources", "ping"}

(* When each module has sampled, how long it may be content with that, and *)
(* in which lists its turn is still to come.                               *)
updates ==
  [m \in Modules |-> IF m = "space" THEN spaceUpdate
                     ELSE IF m = "resources" THEN resourcesUpdate ELSE pingUpdate]
spare ==
  [m \in Modules |-> IF m = "space" THEN Interval - 1
                     ELSE IF m = "resources" THEN 1 ELSE 0]
due ==
  [m \in Modules |-> IF m = "space" THEN {First}
                     ELSE IF m = "resources" THEN {First, Second}
                     ELSE {First, Second, Third}]

(* What the checks of the clicks may have cost.                            *)
cost == checks * MaxPoll

(* Where the thread is: only the check of the latency takes time.          *)
Checked ==
  /\ todo \in Todos /\ now \in Nat \ {0} /\ checks \in Nat
  /\ waited \in 0..MaxWait /\ polled \in 0..MaxPoll
  /\ checking => todo = Answer
  /\ todo # Answer => polled = 0

(* A sample's age grows by a wait and a check between two passes; in a     *)
(* pass, after its module's turn, it is less than the interval.            *)
Sampled ==
  \A m \in Modules :
    /\ updates[m] \in Nat
    /\ updates[m] # 0 =>
        /\ todo \in due[m] => now <= updates[m] + spare[m] + MaxPoll + MaxWait + cost
        /\ todo \in {Second, Third} \ due[m] => now <= updates[m] + spare[m]
        /\ todo = Answer => now <= updates[m] + spare[m] + waited + cost + polled
        /\ todo \in {Draw, <<>>} => now <= updates[m] + spare[m] + MaxPoll + waited + cost

(* What is drawn is as old, and one check older at the end of a pass.      *)
Shown ==
  /\ window \in [Modules -> Nat]
  /\ \A m \in Modules : window[m] # 0 =>
      /\ now <= window[m] + spare[m] + MaxPoll + MaxWait + cost
                  + (IF todo = Draw THEN MaxPoll ELSE polled)
      /\ todo = <<>> => now <= window[m] + spare[m] + MaxPoll + waited + cost

SampleInv == Checked /\ Sampled /\ Shown

(* Constants and what the checks cost are numbers.                         *)
LEMMA Costs ==
  ASSUME checks \in Nat
  PROVE  /\ cost \in Nat /\ MaxPoll \in Nat /\ MaxWait \in Nat /\ MaxWait # 0
         /\ \A m \in Modules : spare[m] \in Nat
         /\ checks' = checks => cost' = cost
         /\ checks' = checks + 1 => cost' = cost + MaxPoll
<1>1. cost \in Nat /\ MaxPoll \in Nat /\ MaxWait \in Nat /\ MaxWait # 0
  BY BottomBarAssumption DEF cost
<1>2. \A m \in Modules : spare[m] \in Nat
  BY BottomBarAssumption DEF spare, Modules
<1>3. checks' = checks => cost' = cost
  BY DEF cost
<1>4. (checks + 1) * MaxPoll = checks * MaxPoll + MaxPoll
  BY <1>1
<1> QED
  BY <1>1, <1>2, <1>3, <1>4 DEF cost

(* What the record drawn holds.                                            *)
LEMMA Drawing == renderBar => window' = updates
<1>1. [space |-> spaceUpdate, resources |-> resourcesUpdate, ping |-> pingUpdate] = updates
  BY DEF updates, Modules
<1> QED
  BY <1>1 DEF renderBar

(* Nothing has been sampled at first.                                      *)
LEMMA SampleInit == Init => SampleInv
<1> SUFFICES ASSUME Init PROVE SampleInv
  OBVIOUS
<1>1. /\ now = 1 /\ todo = Draw /\ waited = 0 /\ polled = 0 /\ checks = 0 /\ ~checking
      /\ spaceUpdate = 0 /\ resourcesUpdate = 0 /\ pingUpdate = 0
      /\ window = [space |-> 0, resources |-> 0, ping |-> 0]
  BY DEF Init, S!Init, R!Init, P!Init, Draw
<1>2. Checked
  BY <1>1, BottomBarAssumption, Lists DEF Checked, Todos
<1>3. Sampled
  BY <1>1 DEF Sampled, updates
<1>4. Shown
  BY <1>1 DEF Shown, Modules
<1> QED
  BY <1>2, <1>3, <1>4 DEF SampleInv

(* Steps that no sample and no time is involved in.                        *)
LEMMA SampleQuiet ==
  ASSUME SampleInv,
         UNCHANGED <<now, todo, waited, polled, checks, window, checking, updates>>
  PROVE  SampleInv'
<1>1. cost' = cost
  BY Costs DEF SampleInv, Checked
<1>2. Checked'
  BY DEF SampleInv, Checked
<1>3. Sampled'
  BY <1>1 DEF SampleInv, Sampled
<1>4. Shown'
  BY <1>1 DEF SampleInv, Shown
<1> QED
  BY <1>2, <1>3, <1>4 DEF SampleInv

(* A module that takes its turn has sampled now, or less than its interval *)
(* ago.                                                                    *)
LEMMA TurnStep ==
  ASSUME SampleInv, NEW m \in Modules, NEW before \in {First, Second, Third},
         NEW after \in {Second, Third, Answer},
         todo = before, todo' = after,
         before \in due[m], after \notin due[m],
         \A k \in Modules \ {m} : before \in due[k] <=> after \in due[k],
         UNCHANGED <<now, waited, polled, checks, window>>,
         checking' => after = Answer,
         \/ updates'[m] = now
         \/ updates'[m] = updates[m] /\ updates[m] # 0 /\ now - updates[m] <= spare[m],
         \A k \in Modules \ {m} : updates'[k] = updates[k]
  PROVE  SampleInv'
<1>1. /\ cost' = cost /\ cost \in Nat /\ MaxPoll \in Nat /\ MaxWait \in Nat
      /\ \A k \in Modules : spare[k] \in Nat
  BY Costs DEF SampleInv, Checked
<1>2. now \in Nat /\ waited \in 0..MaxWait /\ polled = 0
  BY Lists DEF SampleInv, Checked
<1>3. Checked'
  BY <1>2, Lists DEF SampleInv, Checked, Todos
<1>4. ASSUME NEW k \in Modules
      PROVE  /\ updates'[k] \in Nat
             /\ updates'[k] # 0 =>
                 /\ after \in due[k] => now <= updates'[k] + spare[k] + MaxPoll + MaxWait + cost
                 /\ after \notin due[k] => now <= updates'[k] + spare[k]
  <2>1. spare[k] \in Nat /\ updates[k] \in Nat
    BY <1>1 DEF SampleInv, Sampled
  <2>2. CASE k = m
    <3>1. PICK u : u = updates'[m]
      OBVIOUS
    <3>2. u \in Nat /\ now <= u + spare[m]
      BY <1>2, <2>1, <2>2, <3>1
    <3> QED
      BY <2>2, <3>1, <3>2
  <2>3. CASE k # m
    <3>1. updates'[k] = updates[k] /\ (before \in due[k] <=> after \in due[k])
      BY <2>3
    <3>2. before \in due[k] /\ updates[k] # 0 =>
            now <= updates[k] + spare[k] + MaxPoll + MaxWait + cost
      BY DEF SampleInv, Sampled
    <3>3. before \notin due[k] /\ updates[k] # 0 => now <= updates[k] + spare[k]
      <4>1. First \in due[k]
        BY DEF due
      <4> QED
        BY <4>1 DEF SampleInv, Sampled
    <3> QED
      BY <2>1, <3>1, <3>2, <3>3
  <2> QED
    BY <2>2, <2>3
<1>5. Sampled'
  <2> SUFFICES
        ASSUME NEW k \in Modules
        PROVE  /\ updates'[k] \in Nat
               /\ updates'[k] # 0 =>
                   /\ after \in due[k] =>
                        now <= updates'[k] + spare[k] + MaxPoll + MaxWait + cost
                   /\ after \in {Second, Third} \ due[k] => now <= updates'[k] + spare[k]
                   /\ after = Answer =>
                        now <= updates'[k] + spare[k] + waited + cost + polled
                   /\ after \in {Draw, <<>>} =>
                        now <= updates'[k] + spare[k] + MaxPoll + waited + cost
    BY <1>1 DEF Sampled
  <2>1. PICK u : u = updates'[k]
    OBVIOUS
  <2>2. Answer \notin due[k]
    BY Lists DEF due
  <2>3. u \in Nat /\ spare[k] \in Nat
    BY <1>1, <1>4, <2>1
  <2>4. u # 0 /\ after \notin due[k] => now <= u + spare[k]
    BY <1>4, <2>1
  <2>5. u # 0 /\ after = Answer => now <= u + spare[k] + waited + cost + polled
    BY <1>1, <1>2, <2>2, <2>3, <2>4
  <2>6. after \notin {Draw, <<>>}
    BY Lists
  <2> QED
    BY <1>4, <2>1, <2>4, <2>5, <2>6
<1>6. Shown'
  BY <1>1, Lists DEF SampleInv, Shown
<1> QED
  BY <1>3, <1>5, <1>6 DEF SampleInv

(* The three turns of a pass.                                              *)
LEMMA TurnsStep ==
  ASSUME SampleInv, SpaceTurn \/ ResourcesTurn \/ NetworkTurn
  PROVE  SampleInv'
<1>2. updates["space"] = spaceUpdate /\ updates["resources"] = resourcesUpdate
      /\ updates["ping"] = pingUpdate
  BY DEF updates, Modules
<1>3. updates'["space"] = spaceUpdate' /\ updates'["resources"] = resourcesUpdate'
      /\ updates'["ping"] = pingUpdate'
  BY DEF updates, Modules
<1>4. now \in Nat /\ \A k \in Modules : updates[k] \in Nat
  BY DEF SampleInv, Checked, Sampled
<1>5. spare["space"] = Interval - 1 /\ spare["resources"] = 1 /\ spare["ping"] = 0
  BY DEF spare, Modules
<1>6. due["space"] = {First} /\ due["resources"] = {First, Second}
      /\ due["ping"] = {First, Second, Third}
  BY DEF due, Modules
<1>7. todo \in Todos /\ (checking => todo = Answer) /\ Interval \in Nat
  BY BottomBarAssumption DEF SampleInv, Checked
<1>8. CASE SpaceTurn
  <2>1. /\ todo = First /\ todo' = Second
        /\ UNCHANGED <<now, waited, polled, checks, window, rvars, pvars>>
    BY <1>7, <1>8, Taken DEF SpaceTurn
  <2>2. spaceUpdate' = now \/ (spaceUpdate' = spaceUpdate /\ ~S!shouldUpdate)
    BY <1>8 DEF SpaceTurn, S!update, svars
  <2>3. ~S!shouldUpdate => spaceUpdate # 0 /\ now - spaceUpdate <= Interval - 1
    BY <1>2, <1>4, <1>7 DEF S!shouldUpdate, Modules
  <2>4. ~checking'
    BY <1>7, <2>1, Lists DEF pvars
  <2>5. \A k \in Modules \ {"space"} : First \in due[k] <=> Second \in due[k]
    BY <1>6 DEF Modules
  <2>6. \A k \in Modules \ {"space"} : updates'[k] = updates[k]
    BY <1>2, <1>3, <2>1 DEF Modules, rvars, pvars
  <2>7. Second \notin due["space"] /\ First \in due["space"] /\ "space" \in Modules
    BY <1>6, Lists DEF Modules
  <2>8. \/ updates'["space"] = now
        \/ /\ updates'["space"] = updates["space"] /\ updates["space"] # 0
           /\ now - updates["space"] <= spare["space"]
    BY <1>2, <1>3, <1>5, <2>2, <2>3
  <2> QED
    BY <2>1, <2>4, <2>5, <2>6, <2>7, <2>8, TurnStep
<1>9. CASE ResourcesTurn
  <2>1. /\ todo = Second /\ todo' = Third
        /\ UNCHANGED <<now, waited, polled, checks, window, svars, pvars>>
    BY <1>7, <1>9, Taken DEF ResourcesTurn
  <2>2. resourcesUpdate' = now \/ (resourcesUpdate' = resourcesUpdate /\ ~R!shouldUpdate)
    BY <1>9 DEF ResourcesTurn, R!update, rvars
  <2>3. ~R!shouldUpdate => resourcesUpdate # 0 /\ now - resourcesUpdate <= 1
    BY <1>2, <1>4 DEF R!shouldUpdate, Modules
  <2>4. ~checking'
    BY <1>7, <2>1, Lists DEF pvars
  <2>5. \A k \in Modules \ {"resources"} : Second \in due[k] <=> Third \in due[k]
    BY <1>6, Lists DEF Modules
  <2>6. \A k \in Modules \ {"resources"} : updates'[k] = updates[k]
    BY <1>2, <1>3, <2>1 DEF Modules, svars, pvars
  <2>7. Third \notin due["resources"] /\ Second \in due["resources"] /\ "resources" \in Modules
    BY <1>6, Lists DEF Modules
  <2>8. \/ updates'["resources"] = now
        \/ /\ updates'["resources"] = updates["resources"] /\ updates["resources"] # 0
           /\ now - updates["resources"] <= spare["resources"]
    BY <1>2, <1>3, <1>5, <2>2, <2>3
  <2> QED
    BY <2>1, <2>4, <2>5, <2>6, <2>7, <2>8, TurnStep
<1>10. CASE NetworkTurn
  <2>1. /\ todo = Third /\ todo' = Answer
        /\ UNCHANGED <<now, waited, polled, checks, window, svars, rvars>>
    BY <1>7, <1>10, Taken DEF NetworkTurn
  <2>2. pingUpdate' = now \/ (pingUpdate' = pingUpdate /\ ~P!shouldUpdate)
    BY <1>10 DEF NetworkTurn, P!updateBegins, pvars
  <2>3. ~P!shouldUpdate => pingUpdate # 0 /\ now - pingUpdate <= 0
    BY <1>2, <1>4 DEF P!shouldUpdate, Modules
  <2>5. \A k \in Modules \ {"ping"} : Third \in due[k] <=> Answer \in due[k]
    BY <1>6, Lists DEF Modules
  <2>6. \A k \in Modules \ {"ping"} : updates'[k] = updates[k]
    BY <1>2, <1>3, <2>1 DEF Modules, svars, rvars
  <2>7. Answer \notin due["ping"] /\ Third \in due["ping"] /\ "ping" \in Modules
    BY <1>6, Lists DEF Modules
  <2>8. \/ updates'["ping"] = now
        \/ /\ updates'["ping"] = updates["ping"] /\ updates["ping"] # 0
           /\ now - updates["ping"] <= spare["ping"]
    BY <1>2, <1>3, <1>5, <2>2, <2>3
  <2> QED
    BY <2>1, <2>5, <2>6, <2>7, <2>8, TurnStep
<1> QED
  BY <1>8, <1>9, <1>10

(* The check is over: it has taken MaxPoll at most.                        *)
LEMMA LatencyStep ==
  ASSUME SampleInv, Latency
  PROVE  SampleInv'
<1>1. UNCHANGED <<now, waited, checks, window, svars, rvars>> /\ polled' = 0
  BY DEF Latency
<1>2. todo = Answer /\ todo' = Draw
  BY Taken DEF Latency, SampleInv, Checked
<1>3. ~checking' /\ pingUpdate' = pingUpdate
  BY DEF Latency, P!latencyKnown, pvars
<1>4. updates' = updates
  BY <1>1, <1>3 DEF updates, svars, rvars
<1>5. /\ cost' = cost /\ cost \in Nat /\ MaxPoll \in Nat /\ MaxWait \in Nat
      /\ \A k \in Modules : spare[k] \in Nat
  BY <1>1, Costs DEF SampleInv, Checked
<1>6. now \in Nat /\ waited \in 0..MaxWait /\ polled \in 0..MaxPoll
  BY DEF SampleInv, Checked
<1>7. Checked'
  BY <1>1, <1>2, <1>3, <1>5, Lists DEF SampleInv, Checked, Todos
<1>8. ASSUME NEW k \in Modules
      PROVE  /\ updates[k] \in Nat
             /\ updates[k] # 0 => now <= updates[k] + spare[k] + MaxPoll + waited + cost
  <2>1. updates[k] \in Nat /\ spare[k] \in Nat
    BY <1>5 DEF SampleInv, Sampled
  <2>2. updates[k] # 0 => now <= updates[k] + spare[k] + waited + cost + polled
    BY <1>2 DEF SampleInv, Sampled
  <2> QED
    BY <1>5, <1>6, <2>1, <2>2
<1>9. Sampled'
  <2>1. \A k \in Modules : Draw \notin due[k]
    BY Lists DEF due
  <2> QED
    BY <1>1, <1>2, <1>4, <1>5, <1>8, <2>1, Lists DEF Sampled
<1>10. ASSUME NEW k \in Modules, window[k] # 0
       PROVE  now <= window[k] + spare[k] + MaxPoll + MaxWait + cost + MaxPoll
  <2>1. window[k] \in Nat /\ spare[k] \in Nat
    BY <1>5 DEF SampleInv, Shown
  <2>2. now <= window[k] + spare[k] + MaxPoll + MaxWait + cost + polled
    BY <1>2, <1>10, Lists DEF SampleInv, Shown
  <2> QED
    BY <1>5, <1>6, <2>1, <2>2
<1>11. Shown'
  BY <1>1, <1>2, <1>5, <1>10, Lists DEF SampleInv, Shown
<1> QED
  BY <1>7, <1>9, <1>11 DEF SampleInv

(* What is drawn is what has been sampled.                                 *)
LEMMA DrawStep ==
  ASSUME SampleInv, renderBar
  PROVE  SampleInv'
<1>1. UNCHANGED <<now, waited, polled, checks, svars, rvars, pvars>> /\ window' = updates
  BY Drawing DEF renderBar
<1>2. todo = Draw /\ todo' = <<>>
  BY Taken DEF renderBar, SampleInv, Checked
<1>3. updates' = updates /\ checking' = checking
  BY <1>1 DEF updates, svars, rvars, pvars
<1>4. /\ cost' = cost /\ cost \in Nat /\ MaxPoll \in Nat /\ MaxWait \in Nat
      /\ \A k \in Modules : spare[k] \in Nat
  BY <1>1, Costs DEF SampleInv, Checked
<1>5. now \in Nat /\ waited \in 0..MaxWait /\ polled = 0 /\ ~checking
  BY <1>2, Lists DEF SampleInv, Checked
<1>6. Checked'
  BY <1>1, <1>2, <1>3, <1>5, Lists DEF SampleInv, Checked, Todos
<1>7. \A k \in Modules :
        /\ updates[k] \in Nat
        /\ updates[k] # 0 => now <= updates[k] + spare[k] + MaxPoll + waited + cost
  BY <1>2 DEF SampleInv, Sampled
<1>8. Sampled'
  <2>1. \A k \in Modules : <<>> \notin due[k]
    BY Lists DEF due
  <2> QED
    BY <1>1, <1>2, <1>3, <1>4, <1>7, <2>1, Lists DEF Sampled
<1>9. updates \in [Modules -> Nat]
  BY <1>7 DEF updates
<1>10. ASSUME NEW k \in Modules, updates[k] # 0
       PROVE  now <= updates[k] + spare[k] + MaxPoll + MaxWait + cost + polled
  BY <1>4, <1>5, <1>7, <1>10
<1>11. Shown'
  BY <1>1, <1>2, <1>4, <1>7, <1>9, <1>10, Lists DEF Shown
<1> QED
  BY <1>6, <1>8, <1>11 DEF SampleInv

(* A timeout ends a wait of MaxWait at most.                               *)
LEMMA TimeoutStep ==
  ASSUME SampleInv, Timeout
  PROVE  SampleInv'
<1>1. /\ UNCHANGED <<now, polled, checks, window, svars, rvars, pvars>>
      /\ todo = <<>> /\ todo' = First /\ waited' = 0
  BY DEF Timeout, First
<1>2. updates' = updates /\ checking' = checking
  BY <1>1 DEF updates, svars, rvars, pvars
<1>3. /\ cost' = cost /\ cost \in Nat /\ MaxPoll \in Nat /\ MaxWait \in Nat
      /\ \A k \in Modules : spare[k] \in Nat
  BY <1>1, Costs DEF SampleInv, Checked
<1>4. now \in Nat /\ waited \in 0..MaxWait /\ polled = 0 /\ ~checking
  BY <1>1, Lists DEF SampleInv, Checked
<1>5. Checked'
  BY <1>1, <1>2, <1>3, <1>4, Lists DEF SampleInv, Checked, Todos
<1>6. ASSUME NEW k \in Modules
      PROVE  /\ updates[k] \in Nat
             /\ updates[k] # 0 => now <= updates[k] + spare[k] + MaxPoll + MaxWait + cost
  <2>1. updates[k] \in Nat /\ spare[k] \in Nat
    BY <1>3 DEF SampleInv, Sampled
  <2>2. updates[k] # 0 => now <= updates[k] + spare[k] + MaxPoll + waited + cost
    BY <1>1 DEF SampleInv, Sampled
  <2> QED
    BY <1>3, <1>4, <2>1, <2>2
<1>7. Sampled'
  <2>1. \A k \in Modules : First \in due[k]
    BY DEF due
  <2> QED
    BY <1>1, <1>2, <1>3, <1>6, <2>1, Lists DEF Sampled
<1>8. Shown'
  BY <1>1, <1>3, Lists DEF SampleInv, Shown
<1> QED
  BY <1>5, <1>7, <1>8 DEF SampleInv

(* A click samples at once; one on the latency pays for its check.         *)
LEMMA ClickStep ==
  ASSUME SampleInv, ClickSpace \/ ClickPing
  PROVE  SampleInv'
<1>1. now \in Nat \ {0} /\ waited \in 0..MaxWait /\ checks \in Nat
  BY DEF SampleInv, Checked
<1>2. /\ cost \in Nat /\ MaxPoll \in Nat /\ MaxWait \in Nat
      /\ \A k \in Modules : spare[k] \in Nat
      /\ checks' = checks => cost' = cost
      /\ checks' = checks + 1 => cost' = cost + MaxPoll
  BY <1>1, Costs
<1>3. todo = <<>> /\ UNCHANGED <<now, waited, polled, window>>
  BY DEF ClickSpace, ClickPing
<1>4. polled = 0 /\ ~checking
  BY <1>3, Lists DEF SampleInv, Checked
<1>5. \A k \in Modules : updates'[k] = updates[k] \/ updates'[k] = now
  BY DEF ClickSpace, ClickPing, S!click, S!update, P!click, P!updateBegins,
         svars, rvars, pvars, updates
<1>6. ASSUME NEW k \in Modules
      PROVE  /\ updates'[k] \in Nat
             /\ updates'[k] # 0 => now <= updates'[k] + spare[k] + MaxPoll + waited + cost
  <2>1. updates[k] \in Nat /\ spare[k] \in Nat
    BY <1>2 DEF SampleInv, Sampled
  <2>2. updates[k] # 0 => now <= updates[k] + spare[k] + MaxPoll + waited + cost
    BY <1>3 DEF SampleInv, Sampled
  <2>3. PICK u : u = updates'[k]
    OBVIOUS
  <2>4. u = updates[k] \/ u = now
    BY <1>5, <2>3
  <2>5. u \in Nat /\ (u # 0 => now <= u + spare[k] + MaxPoll + waited + cost)
    BY <1>1, <1>2, <2>1, <2>2, <2>4
  <2> QED
    BY <2>3, <2>5
<1>7. ASSUME NEW k \in Modules, window[k] # 0
      PROVE  /\ window[k] \in Nat /\ spare[k] \in Nat
             /\ now <= window[k] + spare[k] + MaxPoll + waited + cost
  BY <1>2, <1>3, <1>7 DEF SampleInv, Shown
<1>8. CASE ClickSpace
  <2>1. todo' = Draw /\ checks' = checks /\ checking' = checking
    BY <1>8 DEF ClickSpace, Draw, pvars
  <2>2. Checked'
    BY <1>1, <1>3, <1>4, <2>1, Lists DEF SampleInv, Checked, Todos
  <2>3. \A k \in Modules : Draw \notin due[k]
    BY Lists DEF due
  <2>4. Sampled'
    BY <1>2, <1>3, <1>6, <2>1, <2>3, Lists DEF Sampled
  <2>5. ASSUME NEW k \in Modules, window[k] # 0
        PROVE  now <= window[k] + spare[k] + MaxPoll + MaxWait + cost + MaxPoll
    BY <1>1, <1>2, <1>7, <2>5
  <2>6. Shown'
    BY <1>2, <1>3, <2>1, <2>5, Lists DEF SampleInv, Shown
  <2> QED
    BY <2>2, <2>4, <2>6 DEF SampleInv
<1>9. CASE ClickPing
  <2>1. todo' = Answer /\ checks' = checks + 1
    BY <1>9 DEF ClickPing, Answer
  <2>2. Checked'
    BY <1>1, <1>3, <1>4, <2>1, Lists DEF SampleInv, Checked, Todos
  <2>3. \A k \in Modules : Answer \notin due[k]
    BY Lists DEF due
  <2>4. ASSUME NEW k \in Modules, updates'[k] # 0
        PROVE  now <= updates'[k] + spare[k] + waited + (cost + MaxPoll) + polled
    <3>1. PICK u : u = updates'[k]
      OBVIOUS
    <3>2. /\ u \in Nat /\ spare[k] \in Nat
          /\ now <= u + spare[k] + MaxPoll + waited + cost
      BY <1>2, <1>6, <2>4, <3>1
    <3>3. now <= u + spare[k] + waited + (cost + MaxPoll) + polled
      BY <1>1, <1>2, <1>4, <3>2
    <3> QED
      BY <3>1, <3>3
  <2>5. Sampled'
    BY <1>2, <1>3, <1>6, <2>1, <2>3, <2>4, Lists DEF Sampled
  <2>6. ASSUME NEW k \in Modules, window[k] # 0
        PROVE  now <= window[k] + spare[k] + MaxPoll + MaxWait + (cost + MaxPoll) + polled
    BY <1>1, <1>2, <1>4, <1>7, <2>6
  <2>7. Shown'
    BY <1>2, <1>3, <2>1, <2>6, Lists DEF SampleInv, Shown
  <2> QED
    BY <2>2, <2>5, <2>7 DEF SampleInv
<1> QED
  BY <1>8, <1>9

(* A second passes, in select() or in poll().                              *)
LEMMA TickStep ==
  ASSUME SampleInv, Tick
  PROVE  SampleInv'
<1>1. /\ now' = now + 1
      /\ UNCHANGED <<todo, checks, window, spaceUpdate, resourcesUpdate, pingUpdate, checking>>
  BY DEF Tick, svars
<1>2. updates' = updates
  BY <1>1 DEF updates
<1>3. /\ cost' = cost /\ cost \in Nat /\ MaxPoll \in Nat /\ MaxWait \in Nat
      /\ \A k \in Modules : spare[k] \in Nat
  BY <1>1, Costs DEF SampleInv, Checked
<1>4. /\ now \in Nat /\ waited \in 0..MaxWait /\ polled \in 0..MaxPoll
      /\ \A k \in Modules : updates[k] \in Nat /\ window[k] \in Nat
  BY DEF SampleInv, Checked, Sampled, Shown
<1>5. CASE todo = <<>> /\ waited < MaxWait /\ waited' = waited + 1 /\ UNCHANGED polled
  <2>1. Checked'
    BY <1>1, <1>3, <1>4, <1>5 DEF SampleInv, Checked
  <2>2. polled = 0
    BY <1>5, Lists DEF SampleInv, Checked
  <2>3. \A k \in Modules : <<>> \notin due[k]
    BY Lists DEF due
  <2>4. ASSUME NEW k \in Modules, updates[k] # 0
        PROVE  now + 1 <= updates[k] + spare[k] + MaxPoll + (waited + 1) + cost
    <3>1. now <= updates[k] + spare[k] + MaxPoll + waited + cost
      BY <1>5, <2>4 DEF SampleInv, Sampled
    <3> QED
      BY <1>3, <1>4, <3>1
  <2>5. Sampled'
    BY <1>1, <1>2, <1>3, <1>4, <1>5, <2>3, <2>4, Lists DEF Sampled
  <2>6. ASSUME NEW k \in Modules, window[k] # 0
        PROVE  /\ now + 1 <= window[k] + spare[k] + MaxPoll + (waited + 1) + cost
               /\ now + 1 <= window[k] + spare[k] + MaxPoll + MaxWait + cost + polled
    <3>1. now <= window[k] + spare[k] + MaxPoll + waited + cost
      BY <1>5, <2>6 DEF SampleInv, Shown
    <3> QED
      BY <1>3, <1>4, <1>5, <2>2, <3>1
  <2>7. Shown'
    BY <1>1, <1>3, <1>5, <2>6, Lists DEF SampleInv, Shown
  <2> QED
    BY <2>1, <2>5, <2>7 DEF SampleInv
<1>6. CASE checking /\ polled < MaxPoll /\ polled' = polled + 1 /\ UNCHANGED waited
  <2>0. todo = Answer
    BY <1>6 DEF SampleInv, Checked
  <2>1. Checked'
    BY <1>1, <1>3, <1>4, <1>6, <2>0 DEF SampleInv, Checked
  <2>3. \A k \in Modules : Answer \notin due[k]
    BY Lists DEF due
  <2>4. ASSUME NEW k \in Modules, updates[k] # 0
        PROVE  now + 1 <= updates[k] + spare[k] + waited + cost + (polled + 1)
    <3>1. now <= updates[k] + spare[k] + waited + cost + polled
      BY <2>0, <2>4 DEF SampleInv, Sampled
    <3> QED
      BY <1>3, <1>4, <3>1
  <2>5. Sampled'
    BY <1>1, <1>2, <1>3, <1>4, <1>6, <2>0, <2>3, <2>4, Lists DEF Sampled
  <2>6. ASSUME NEW k \in Modules, window[k] # 0
        PROVE  now + 1 <= window[k] + spare[k] + MaxPoll + MaxWait + cost + (polled + 1)
    <3>1. now <= window[k] + spare[k] + MaxPoll + MaxWait + cost + polled
      BY <2>0, <2>6, Lists DEF SampleInv, Shown
    <3> QED
      BY <1>3, <1>4, <3>1
  <2>7. Shown'
    BY <1>1, <1>3, <1>6, <2>0, <2>6, Lists DEF SampleInv, Shown
  <2> QED
    BY <2>1, <2>5, <2>7 DEF SampleInv
<1> QED
  BY <1>5, <1>6 DEF Tick

(* Every step keeps the invariant.                                         *)
LEMMA SampleStep == SampleInv /\ [Next]_vars => SampleInv'
<1> SUFFICES ASSUME SampleInv, [Next]_vars PROVE SampleInv'
  OBVIOUS
<1>1. CASE CountersFall \/ UNCHANGED vars
  <2>1. /\ UNCHANGED <<now, todo, waited, polled, checks, window, checking>>
        /\ UNCHANGED <<spaceUpdate, resourcesUpdate, pingUpdate>>
    BY <1>1 DEF CountersFall, vars, thread, svars, rvars, pvars, R!IowaitFalls,
                P!InterfaceGoes
  <2> QED
    BY <2>1, SampleQuiet DEF updates
<1> QED
  BY <1>1, TurnsStep, LatencyStep, DrawStep, TimeoutStep, ClickStep, TickStep
     DEF Next, Thread

(* What is drawn is an interval, a wait and two checks of the latency old  *)
(* at most, and one check more for each click: the checks of the passes do *)
(* not add up (ping.h 187-191, main.cpp 234-241).                          *)
THEOREM BottomBarSampleLag == Spec => []SampleLag
<1>1. SampleInv => SampleLag
  <2> DEFINE interval == [space |-> Interval, resources |-> 2, ping |-> 1]
  <2> SUFFICES ASSUME SampleInv, NEW m \in Modules, window[m] # 0
               PROVE  now - window[m] <= interval[m] - 1 + MaxWait + (2 + checks) * MaxPoll
    BY DEF SampleLag, SampleInv, Shown
  <2>1. interval[m] - 1 = spare[m] /\ spare[m] \in Nat
    BY BottomBarAssumption DEF spare, Modules
  <2>2. /\ cost \in Nat /\ MaxPoll \in Nat /\ MaxWait \in Nat
        /\ now \in Nat /\ window[m] \in Nat /\ polled \in 0..MaxPoll /\ checks \in Nat
    BY Costs DEF SampleInv, Checked, Shown
  <2>3. (2 + checks) * MaxPoll = MaxPoll + MaxPoll + cost
    BY <2>2 DEF cost
  <2>4. now <= window[m] + spare[m] + MaxPoll + MaxWait + cost
                 + (IF todo = Draw THEN MaxPoll ELSE polled)
    BY DEF SampleInv, Shown
  <2>5. now <= window[m] + spare[m] + MaxPoll + MaxWait + cost + MaxPoll
    BY <2>1, <2>2, <2>4
  <2> HIDE DEF interval
  <2>6. now - window[m] <= spare[m] + MaxWait + (MaxPoll + MaxPoll + cost)
    BY <2>1, <2>2, <2>5
  <2> QED
    BY <2>1, <2>3, <2>6
<1> QED
  BY <1>1, SampleInit, SampleStep, PTL DEF Spec

-----------------------------------------------------------------------------
(* The share of the processor.                                             *)

(* A difference that is not negative is not wrapped.                       *)
LEMMA SmallMod ==
  ASSUME NEW x \in Nat, NEW n \in Nat, x < n
  PROVE  x % n = x
OBVIOUS

(* A negative one is.                                                      *)
LEMMA WrappedMod ==
  ASSUME NEW x \in Int, NEW n \in Nat, x < 0, 0 <= x + n
  PROVE  x % n = x + n
OBVIOUS

(* What a quotient is.                                                     *)
LEMMA Quotients ==
  ASSUME NEW x \in Nat, NEW n \in Nat \ {0}
  PROVE  x \div n \in Nat /\ (x \div n) * n <= x /\ x < (x \div n) * n + n
OBVIOUS

(* The part of a whole is between 0 and 100 percent.                       *)
LEMMA Shares ==
  ASSUME NEW part \in Nat, NEW whole \in Nat \ {0}, part <= whole
  PROVE  R!share(part, whole) \in 0..100
<1> DEFINE q == (100 * part) \div whole
<1>1. q \in Nat /\ q * whole <= 100 * part
  BY Quotients
<1> HIDE DEF q
<1>2. q <= 100
  <2>1. SUFFICES ASSUME q > 100 PROVE FALSE
    BY <1>1
  <2>2. PICK k \in Nat : q = 101 + k
    <3>1. q - 101 \in Nat /\ q = 101 + (q - 101)
      BY <1>1, <2>1
    <3> QED
      BY <3>1
  <2>3. (101 + k) * whole = 101 * whole + k * whole /\ k * whole \in Nat
    BY <2>2
  <2> QED
    BY <1>1, <2>2, <2>3
<1>3. 100 - q \in 0..100
  BY <1>1, <1>2
<1> QED
  BY <1>3 DEF q, R!share

(* Since the last sample the idle time has not grown more than the total,  *)
(* and has fallen at least as much, whatever iowait did.                   *)
CpuInv ==
  /\ now \in 1..MaxNow /\ total \in Nat /\ total <= now + 1
  /\ idle \in Nat /\ lastCpuIdle \in Nat /\ lastCpuTotal \in Nat
  /\ idle < total /\ lastCpuIdle <= lastCpuTotal /\ lastCpuTotal <= now + 1
  /\ idle + lastCpuTotal <= total + lastCpuIdle
  /\ CpuInRange

(* The clock's bound is less than the width of the counters.               *)
LEMMA WordIsWide == MaxNow \in Nat /\ Word \in Nat /\ MaxNow + 1 < Word
<1>1. /\ MaxNow \in Nat /\ MaxRate \in Nat \ {0} /\ Word \in Nat
      /\ (MaxNow + 1) * MaxRate < Word
  BY BottomBarAssumption
<1>2. PICK r \in Nat : MaxRate = r + 1
  <2>1. MaxRate - 1 \in Nat /\ MaxRate = (MaxRate - 1) + 1
    BY <1>1
  <2> QED
    BY <2>1
<1>3. (MaxNow + 1) * (r + 1) = (MaxNow + 1) * r + MaxNow + 1 /\ (MaxNow + 1) * r \in Nat
  BY <1>1, <1>2
<1> DEFINE z == (MaxNow + 1) * r
<1>4. z \in Nat /\ z + MaxNow + 1 < Word
  BY <1>1, <1>2, <1>3
<1> HIDE DEF z
<1> QED
  BY <1>1, <1>4

(* The differences of a sample: not wrapped, or both, and then in order;   *)
(* or the total rose although the idle time fell.                          *)
LEMMA Differences ==
  ASSUME CpuInv, (total - lastCpuTotal) % Word # 0,
         ~(idle < lastCpuIdle /\ total > lastCpuTotal)
  PROVE  R!share((idle - lastCpuIdle) % Word, (total - lastCpuTotal) % Word) \in 0..100
<1> DEFINE diffTotal == (total - lastCpuTotal) % Word
           diffIdle == (idle - lastCpuIdle) % Word
<1>1. /\ total \in Nat /\ idle \in Nat /\ lastCpuIdle \in Nat /\ lastCpuTotal \in Nat
      /\ lastCpuIdle <= lastCpuTotal /\ lastCpuTotal < Word
      /\ idle < total /\ total < Word /\ Word \in Nat
      /\ idle + lastCpuTotal <= total + lastCpuIdle
  BY WordIsWide DEF CpuInv
<1>2. diffIdle \in Nat /\ diffTotal \in Nat \ {0} /\ diffIdle <= diffTotal
  <2>1. CASE idle >= lastCpuIdle
    <3>1. total - lastCpuTotal \in Nat /\ total - lastCpuTotal < Word
      BY <1>1, <2>1
    <3>2. idle - lastCpuIdle \in Nat /\ idle - lastCpuIdle < Word
      BY <1>1, <2>1
    <3>3. diffTotal = total - lastCpuTotal
      BY <1>1, <3>1, SmallMod
    <3>4. diffIdle = idle - lastCpuIdle
      BY <1>1, <3>2, SmallMod
    <3>5. diffTotal # 0
      OBVIOUS
    <3> HIDE DEF diffTotal, diffIdle
    <3> QED
      BY <1>1, <3>1, <3>2, <3>3, <3>4, <3>5
  <2>2. CASE idle < lastCpuIdle
    <3>1. total <= lastCpuTotal
      BY <1>1, <2>2
    <3>2. total # lastCpuTotal
      <4>1. total = lastCpuTotal => total - lastCpuTotal = 0
        BY <1>1
      <4>2. 0 % Word = 0
        BY <1>1, SmallMod
      <4> QED
        BY <4>1, <4>2
    <3>3. /\ total - lastCpuTotal \in Int /\ total - lastCpuTotal < 0
          /\ 0 <= (total - lastCpuTotal) + Word
      BY <1>1, <3>1, <3>2
    <3>4. /\ idle - lastCpuIdle \in Int /\ idle - lastCpuIdle < 0
          /\ 0 <= (idle - lastCpuIdle) + Word
      BY <1>1, <2>2
    <3>5. diffTotal = (total - lastCpuTotal) + Word
      BY <1>1, <3>3, WrappedMod
    <3>6. diffIdle = (idle - lastCpuIdle) + Word
      BY <1>1, <3>4, WrappedMod
    <3>7. diffTotal # 0
      OBVIOUS
    <3> HIDE DEF diffTotal, diffIdle
    <3> QED
      BY <1>1, <3>3, <3>4, <3>5, <3>6, <3>7
  <2> QED
    BY <1>1, <2>1, <2>2
<1> HIDE DEF diffTotal, diffIdle
<1>3. R!share(diffIdle, diffTotal) \in 0..100
  BY <1>2, Shares
<1> QED
  BY <1>3 DEF diffTotal, diffIdle

(* The share of a sample.                                                  *)
LEMMA CpuUsage ==
  ASSUME CpuInv, R!getCpuUsage
  PROVE  /\ lastCpuIdle' \in Nat /\ lastCpuTotal' \in Nat
         /\ lastCpuIdle' <= lastCpuTotal' /\ lastCpuTotal' <= now + 1
         /\ idle + lastCpuTotal' <= total + lastCpuIdle'
         /\ ~fell' => cpu' \in 0..100
<1> DEFINE diffTotal == (total - lastCpuTotal) % Word
           diffIdle == (idle - lastCpuIdle) % Word
<1>1. /\ total \in Nat /\ idle \in Nat /\ lastCpuIdle \in Nat /\ lastCpuTotal \in Nat
      /\ lastCpuIdle <= lastCpuTotal /\ lastCpuTotal <= now + 1
      /\ idle < total /\ total <= now + 1
      /\ idle + lastCpuTotal <= total + lastCpuIdle
  BY DEF CpuInv
<1>2. CASE cpu' = 0 /\ UNCHANGED <<lastCpuTotal, lastCpuIdle, fell>>
  BY <1>1, <1>2
<1>3. CASE /\ cpu' = IF lastCpuTotal = 0 \/ diffTotal = 0 THEN 0
                     ELSE R!share(diffIdle, diffTotal)
           /\ fell' = (idle < lastCpuIdle /\ total > lastCpuTotal)
           /\ R!keep
  <2>1. lastCpuTotal' = total /\ lastCpuIdle' = idle
    BY <1>3 DEF R!keep
  <2>2. ~(idle < lastCpuIdle /\ total > lastCpuTotal) /\ diffTotal # 0
          => R!share(diffIdle, diffTotal) \in 0..100
    BY Differences
  <2> HIDE DEF diffTotal, diffIdle
  <2>3. ~fell' => cpu' \in 0..100
    <3>1. ~fell' => ~(idle < lastCpuIdle /\ total > lastCpuTotal)
      BY <1>3
    <3>2. cpu' = 0 \/ (diffTotal # 0 /\ cpu' = R!share(diffIdle, diffTotal))
      BY <1>3
    <3>3. 0 \in 0..100
      OBVIOUS
    <3> QED
      BY <2>2, <3>1, <3>2, <3>3
  <2> QED
    BY <1>1, <2>1, <2>3
<1> QED
  BY <1>2, <1>3 DEF R!getCpuUsage

(* Every step keeps it.                                                    *)
LEMMA CpuStep == CpuInv /\ [Next]_vars => CpuInv'
<1> SUFFICES ASSUME CpuInv, [Next]_vars PROVE CpuInv'
  OBVIOUS
<1>1. CASE UNCHANGED <<now, rvars>>
  BY <1>1 DEF CpuInv, CpuInRange, rvars
<1>2. CASE ResourcesTurn
  <2>1. (R!getCpuUsage /\ UNCHANGED <<now, total, idle>>) \/ UNCHANGED <<now, rvars>>
    BY <1>2 DEF ResourcesTurn, R!update
  <2>2. CASE R!getCpuUsage /\ UNCHANGED <<now, total, idle>>
    BY <2>2, CpuUsage DEF CpuInv, CpuInRange
  <2> QED
    BY <1>1, <2>1, <2>2
<1>3. CASE Tick
  <2>1. /\ now < MaxNow /\ now' = now + 1 /\ total' = total + 1 /\ idle' \in {idle, idle + 1}
        /\ UNCHANGED <<lastCpuTotal, lastCpuIdle, cpu, fell>>
    BY <1>3 DEF Tick, R!Work
  <2>2. /\ now \in Nat /\ MaxNow \in Nat /\ idle \in Nat /\ lastCpuIdle \in Nat
        /\ lastCpuTotal \in Nat /\ total \in Nat /\ total <= now + 1 /\ now >= 1
    BY WordIsWide DEF CpuInv
  <2>3. now + 1 \in 1..MaxNow /\ total + 1 <= (now + 1) + 1
    BY <2>1, <2>2
  <2>4. CASE idle' = idle
    BY <2>1, <2>2, <2>3, <2>4 DEF CpuInv, CpuInRange
  <2>5. CASE idle' = idle + 1
    BY <2>1, <2>2, <2>3, <2>5 DEF CpuInv, CpuInRange
  <2> QED
    BY <2>1, <2>4, <2>5
<1>4. CASE CountersFall
  <2>1. CASE R!IowaitFalls /\ UNCHANGED now
    <3>1. PICK d \in 1..idle : idle' = idle - d /\ total' = total - d
      BY <2>1 DEF R!IowaitFalls
    <3>2. UNCHANGED <<now, lastCpuTotal, lastCpuIdle, cpu, fell>>
      BY <2>1 DEF R!IowaitFalls
    <3>3. /\ idle - d \in Nat /\ total - d \in Nat /\ idle - d < total - d
          /\ total - d <= now + 1
          /\ (idle - d) + lastCpuTotal <= (total - d) + lastCpuIdle
      BY <3>1 DEF CpuInv
    <3> QED
      BY <3>1, <3>2, <3>3 DEF CpuInv, CpuInRange
  <2> QED
    BY <1>1, <1>4, <2>1 DEF CountersFall
<1> QED
  BY <1>1, <1>2, <1>3, <1>4
     DEF Next, Thread, SpaceTurn, NetworkTurn, Latency, renderBar, Timeout, ClickSpace,
         ClickPing, vars

(* The share shown is between 0 and 100 unless between its two samples the *)
(* idle time fell and the total rose (resources.h 110-126).                *)
THEOREM BottomBarCpuInRange == Spec => []CpuInRange
<1>1. Init => CpuInv
  BY BottomBarAssumption DEF Init, R!Init, CpuInv, CpuInRange
<1>2. CpuInv => CpuInRange
  BY DEF CpuInv
<1> QED
  BY <1>1, <1>2, CpuStep, PTL DEF Spec

-----------------------------------------------------------------------------
(* What is left of a wrong rate.  What excess is follows from its          *)
(* recursion by induction, an argument about the least exception.          *)

(* A nonempty set of naturals has a least element.                         *)
LEMMA LeastExists ==
  ASSUME NEW T, T \subseteq Nat, T # {}
  PROVE  \E n \in T : \A m \in T : n <= m
<1>1. PICK n \in T : \A m \in T : ~(<<m, n>> \in OpToRel(<, Nat))
  BY NatLessThanWellFounded, WFMin
<1>2. n \in T /\ \A m \in T : ~(m < n)
  BY <1>1 DEF OpToRel
<1> QED
  BY <1>2

(* g lists what is left after each of n updates.                           *)
fades(n, g) ==
  /\ g \in [0..n -> Nat] /\ g[0] = Word - 1
  /\ \A m \in 1..n : g[m] = (3 * g[m - 1] + 9) \div 10

(* There is such a list.                                                   *)
LEMMA FadingExists == \E g : fades(Fade, g)
<1>0. Fade \in Nat /\ Word - 1 \in Nat
  BY BottomBarAssumption
<1> DEFINE T == {j \in 0..Fade : ~\E g : fades(j, g)}
<1>1. SUFFICES ASSUME T # {} PROVE FALSE
  BY <1>0
<1>2. PICK j \in T : \A m \in T : j <= m
  <2>1. T \subseteq Nat
    OBVIOUS
  <2> HIDE DEF T
  <2> QED
    BY <1>1, <2>1, LeastExists
<1>3. j # 0
  <2>1. fades(0, [m \in 0..0 |-> Word - 1])
    BY <1>0 DEF fades
  <2> QED
    BY <1>2, <2>1
<1>4. j - 1 \in 0..Fade /\ j - 1 \notin T
  BY <1>0, <1>2, <1>3
<1>5. PICK g : fades(j - 1, g)
  BY <1>4
<1> DEFINE h == [m \in 0..j |-> IF m = j THEN (3 * g[j - 1] + 9) \div 10 ELSE g[m]]
<1>6. fades(j, h)
  <2>1. j \in Nat /\ j - 1 \in Nat /\ j >= 1
    BY <1>2, <1>3
  <2>2. /\ g \in [0..(j - 1) -> Nat] /\ g[0] = Word - 1
        /\ \A m \in 1..(j - 1) : g[m] = (3 * g[m - 1] + 9) \div 10
    BY <1>5 DEF fades
  <2>3. (3 * g[j - 1] + 9) \div 10 \in Nat
    <3>1. g[j - 1] \in Nat
      BY <2>1, <2>2
    <3> QED
      BY <3>1
  <2>4. h \in [0..j -> Nat] /\ h[0] = Word - 1
    BY <2>1, <2>2, <2>3
  <2>5. ASSUME NEW m \in 1..j PROVE h[m] = (3 * h[m - 1] + 9) \div 10
    <3>1. h[m - 1] = g[m - 1]
      BY <2>1
    <3>2. CASE m = j
      BY <2>1, <3>1, <3>2
    <3>3. CASE m # j
      <4>1. m \in 1..(j - 1) /\ h[m] = g[m]
        BY <2>1, <3>3
      <4> QED
        BY <2>2, <3>1, <4>1
    <3> QED
      BY <3>2, <3>3
  <2> QED
    BY <2>4, <2>5 DEF fades
<1> QED
  BY <1>2, <1>6

(* What excess is.                                                         *)
LEMMA ExcessIs ==
  /\ excess[0] = Word - 1
  /\ \A n \in 0..Fade : excess[n] \in Nat
  /\ \A n \in 1..Fade : excess[n] = (3 * excess[n - 1] + 9) \div 10
<1>1. PICK g : fades(Fade, g)
  BY FadingExists
<1>2. g = [n \in 0..Fade |-> IF n = 0 THEN Word - 1 ELSE (3 * g[n - 1] + 9) \div 10]
  BY <1>1 DEF fades
<1>3. excess = [n \in 0..Fade |-> IF n = 0 THEN Word - 1 ELSE (3 * excess[n - 1] + 9) \div 10]
  BY <1>2 DEF excess
<1>4. PICK e : e = excess
  OBVIOUS
<1>5. \A n \in 0..Fade : e[n] = IF n = 0 THEN Word - 1 ELSE (3 * e[n - 1] + 9) \div 10
  BY <1>3, <1>4
<1>6. Fade \in Nat /\ Word - 1 \in Nat
  BY BottomBarAssumption
<1>7. \A n \in 0..Fade : e[n] = g[n]
  <2> DEFINE T == {n \in 0..Fade : e[n] # g[n]}
  <2>1. SUFFICES ASSUME T # {} PROVE FALSE
    OBVIOUS
  <2>2. PICK j \in T : \A m \in T : j <= m
    <3>1. T \subseteq Nat
      OBVIOUS
    <3> HIDE DEF T
    <3> QED
      BY <2>1, <3>1, LeastExists
  <2>3. j # 0
    BY <1>1, <1>5, <1>6, <2>2 DEF fades
  <2>4. j - 1 \in 0..Fade /\ j - 1 \notin T /\ j \in 1..Fade
    BY <1>6, <2>2, <2>3
  <2>5. e[j - 1] = g[j - 1] /\ g[j] = (3 * g[j - 1] + 9) \div 10
    BY <1>1, <2>4 DEF fades
  <2>6. e[j] = (3 * e[j - 1] + 9) \div 10
    BY <1>5, <2>3, <2>4
  <2> QED
    BY <2>2, <2>5, <2>6
<1>8. \A n \in 0..Fade : e[n] \in Nat
  BY <1>1, <1>7 DEF fades
<1>9. \A n \in 1..Fade : e[n] = (3 * e[n - 1] + 9) \div 10
  BY <1>5, <1>6
<1> QED
  BY <1>4, <1>5, <1>6, <1>8, <1>9

-----------------------------------------------------------------------------
(* The rate of the network.                                                *)

(* The last read of the counters, and what is sent between two of them.    *)
since == IF pingUpdate = 0 THEN 1 ELSE pingUpdate
gone == now - since
most == MaxRate * (MaxWait + MaxPoll)

(* A pass reads the counters a wait and a check after the last read.       *)
Recent ==
  /\ since \in Nat /\ gone \in Nat
  /\ todo \in {First, Second, Third} => gone <= MaxWait + MaxPoll
  /\ todo = Answer => gone <= polled
  /\ todo \in {Draw, <<>>} => gone <= waited + MaxPoll

(* What was sent since, and what is left of a wrong rate.                  *)
Counted ==
  /\ sent \in 0..(Word - 1) /\ lastSent \in 0..(Word - 1) /\ lastUp \in 0..(Word - 1)
  /\ readable => sent <= lastSent + MaxRate * gone
Faded ==
  /\ calm \in 0..Fade
  /\ lastUp <= most + excess[calm]

RateInv == Recent /\ Counted /\ Faded

(* The constants are numbers.                                              *)
LEMMA RateConstants ==
  /\ Word \in Nat \ {0} /\ MaxRate \in Nat /\ Fade \in Nat \ {0}
  /\ MaxWait \in Nat /\ MaxPoll \in Nat /\ most \in Nat
  /\ MaxRate < Word
<1>1. /\ Word \in Nat \ {0} /\ MaxRate \in Nat /\ Fade \in Nat \ {0}
      /\ MaxWait \in Nat /\ MaxPoll \in Nat /\ MaxNow \in Nat
      /\ (MaxNow + 1) * MaxRate < Word
  BY BottomBarAssumption
<1>2. (MaxNow + 1) * MaxRate = MaxNow * MaxRate + MaxRate /\ MaxNow * MaxRate \in Nat
  BY <1>1
<1> DEFINE z == MaxNow * MaxRate
<1>3. z \in Nat /\ z + MaxRate < Word
  BY <1>1, <1>2
<1> HIDE DEF z
<1>4. MaxRate < Word
  BY <1>1, <1>3
<1> QED
  BY <1>1, <1>4 DEF most

(* More seconds, more bytes.                                               *)
LEMMA MoreBytes ==
  ASSUME NEW a \in Nat, NEW b \in Nat, a <= b
  PROVE  MaxRate * a \in Nat /\ MaxRate * a <= MaxRate * b
<1>1. MaxRate \in Nat
  BY RateConstants
<1>2. PICK k \in Nat : b = a + k
  <2>1. b - a \in Nat /\ b = a + (b - a)
    OBVIOUS
  <2> QED
    BY <2>1
<1>3. MaxRate * (a + k) = MaxRate * a + MaxRate * k /\ MaxRate * a \in Nat /\ MaxRate * k \in Nat
  BY <1>1, <1>2
<1> QED
  BY <1>2, <1>3

(* One update: 0.7 of the difference and 0.3 of the rate before.           *)
LEMMA Smooth ==
  ASSUME NEW up \in Nat, NEW last \in Nat, NEW e \in Nat, NEW M \in Nat,
         up <= M, last <= M + e
  PROVE  /\ (7 * up + 3 * last + 9) \div 10 \in Nat
         /\ (7 * up + 3 * last + 9) \div 10 <= M + (3 * e + 9) \div 10
OBVIOUS

(* No update makes a rate that is wider than the counters.                 *)
LEMMA SmoothWord ==
  ASSUME NEW up \in Nat, NEW last \in Nat, NEW W \in Nat, up <= W, last <= W
  PROVE  (7 * up + 3 * last + 9) \div 10 \in 0..W
OBVIOUS

(* What an update makes of the rate.                                       *)
LEMMA RateMade ==
  ASSUME RateInv, gone <= MaxWait + MaxPoll,
         NEW cur \in 0..(Word - 1), NEW ok \in BOOLEAN, ok => cur = sent,
         P!rate(cur, ok)
  PROVE  /\ lastUp' \in 0..(Word - 1) /\ lastSent' = cur /\ readable' = ok
         /\ Faded'
<1> DEFINE diff == (cur - lastSent) % Word
           W == Word - 1
<1>1. /\ Word \in Nat \ {0} /\ W \in Nat /\ most \in Nat /\ Fade \in Nat \ {0}
      /\ gone \in Nat /\ MaxWait + MaxPoll \in Nat
  BY RateConstants DEF RateInv, Recent
<1>2. /\ cur \in Nat /\ lastSent \in Nat /\ lastUp \in Nat /\ sent \in Nat
      /\ cur <= W /\ lastSent <= W /\ lastUp <= W /\ calm \in 0..Fade
  BY <1>1 DEF RateInv, Counted, Faded
<1>3. lastUp' = (7 * diff + 3 * lastUp + 9) \div 10 /\ lastSent' = cur /\ readable' = ok
  BY DEF P!rate, P!smoothed, P!difference
<1>4. diff \in Nat /\ diff <= W
  BY <1>1, <1>2
<1>5. ok /\ readable /\ cur >= lastSent => diff <= most
  <2> SUFFICES ASSUME ok, readable, cur >= lastSent PROVE diff <= most
    OBVIOUS
  <2>1. cur = sent /\ sent <= lastSent + MaxRate * gone
    BY DEF RateInv, Counted
  <2>2. MaxRate * gone \in Nat /\ MaxRate * gone <= most
    BY <1>1, MoreBytes DEF most
  <2>3. cur - lastSent \in Nat /\ cur - lastSent < Word /\ cur - lastSent <= most
    BY <1>1, <1>2, <2>1, <2>2
  <2>4. diff = cur - lastSent
    BY <1>1, <2>3, SmallMod
  <2> QED
    BY <2>3, <2>4
<1> HIDE DEF diff, W
<1>6. lastUp' \in 0..W
  BY <1>1, <1>2, <1>3, <1>4, SmoothWord
<1>7. Faded'
  <2>1. excess[0] = W /\ \A n \in 0..Fade : excess[n] \in Nat
    BY ExcessIs DEF W
  <2>2. PICK new : new = lastUp' /\ new \in 0..W
    BY <1>6
  <2>3. CASE ok /\ readable /\ cur >= lastSent
    <3>1. new <= most + (3 * excess[calm] + 9) \div 10
      <4>1. excess[calm] \in Nat /\ lastUp <= most + excess[calm]
        BY <1>2, <2>1 DEF RateInv, Faded
      <4> QED
        BY <1>1, <1>2, <1>3, <1>4, <1>5, <2>2, <2>3, <4>1, Smooth
    <3>2. CASE calm < Fade
      <4>1. calm' = calm + 1
        BY <2>3, <3>2 DEF P!rate
      <4>2. calm + 1 \in 1..Fade /\ (calm + 1) - 1 = calm
        BY <1>1, <1>2, <3>2
      <4>3. excess[calm + 1] = (3 * excess[calm] + 9) \div 10
        BY <4>2, ExcessIs
      <4> QED
        BY <2>2, <3>1, <4>1, <4>2, <4>3 DEF Faded, most
    <3>3. CASE ~(calm < Fade)
      <4>1. calm' = calm /\ calm = Fade
        BY <1>1, <1>2, <2>3, <3>3 DEF P!rate
      <4>2. excess[Fade] \in Nat /\ excess[Fade] <= 1
        BY <1>1, <2>1, FadeAssumption
      <4>3. (3 * excess[Fade] + 9) \div 10 = excess[Fade]
        BY <4>2
      <4> QED
        BY <1>2, <2>2, <3>1, <4>1, <4>3 DEF Faded, most
    <3> QED
      BY <3>2, <3>3
  <2>4. CASE ~(ok /\ readable /\ cur >= lastSent)
    <3>1. calm' = 0
      BY <2>4 DEF P!rate
    <3>2. new <= most + W
      BY <1>1, <2>2
    <3> QED
      BY <1>1, <2>1, <2>2, <3>1, <3>2 DEF Faded, most
  <2> QED
    BY <2>3, <2>4
<1> QED
  BY <1>3, <1>6, <1>7 DEF W

(* An update: the read is this second's.                                   *)
LEMMA UpdateStep ==
  ASSUME Checked, RateInv, gone <= MaxWait + MaxPoll, polled' \in Nat, now' = now,
         todo' = Answer,
         \E r \in readings : P!updateBegins(r.value, r.read)
  PROVE  RateInv'
<1>1. PICK r \in readings : P!updateBegins(r.value, r.read)
  OBVIOUS
<1>2. /\ P!rate(r.value, r.read) /\ pingUpdate' = now /\ sent' = sent
  BY <1>1 DEF P!updateBegins
<1>3. /\ r.value \in 0..(Word - 1) /\ r.read \in BOOLEAN
      /\ r.read => r.value = sent
  <2>1. sent \in 0..(Word - 1) /\ Leftover \subseteq 0..(Word - 1)
    BY BottomBarAssumption DEF RateInv, Counted
  <2>2. \/ r = [value |-> sent, read |-> TRUE]
        \/ \E v \in Leftover : r = [value |-> v, read |-> FALSE]
    BY DEF readings
  <2>3. CASE r = [value |-> sent, read |-> TRUE]
    <3>1. r.value = sent /\ r.read = TRUE
      BY <2>3
    <3> QED
      BY <2>1, <3>1
  <2>4. CASE \E v \in Leftover : r = [value |-> v, read |-> FALSE]
    <3>1. r.value \in Leftover /\ r.read = FALSE
      BY <2>4
    <3> QED
      BY <2>1, <3>1
  <2> QED
    BY <2>2, <2>3, <2>4
<1>4. /\ lastUp' \in 0..(Word - 1) /\ lastSent' = r.value /\ readable' = r.read
      /\ Faded'
  BY <1>2, <1>3, RateMade
<1>5. now \in Nat \ {0}
  BY DEF Checked
<1>6. since' = now /\ gone' = 0
  <2>1. since' = now
    BY <1>2, <1>5 DEF since
  <2>2. gone' = now - now
    BY <2>1 DEF gone
  <2> QED
    BY <1>5, <2>1, <2>2
<1>7. Recent'
  BY <1>5, <1>6, Lists DEF Recent
<1>8. Counted'
  <2>1. MaxRate * 0 = 0
    BY RateConstants
  <2>2. r.read => sent <= r.value + MaxRate * 0
    <3>1. sent \in Nat
      BY RateConstants DEF RateInv, Counted
    <3> QED
      BY <1>3, <2>1, <3>1
  <2> QED
    BY <1>2, <1>3, <1>4, <1>6, <2>2 DEF RateInv, Counted
<1> QED
  BY <1>4, <1>7, <1>8 DEF RateInv

(* A step that neither samples nor takes time.                             *)
LEMMA RateQuiet ==
  ASSUME RateInv, Recent', UNCHANGED <<now, pvars>>
  PROVE  RateInv'
<1>1. gone' = gone
  BY DEF gone, since, pvars
<1>2. Counted' /\ Faded'
  BY <1>1 DEF RateInv, Counted, Faded, pvars, most
<1> QED
  BY <1>2 DEF RateInv

(* A second passes.                                                        *)
LEMMA RateTick ==
  ASSUME Checked, RateInv, Tick
  PROVE  RateInv'
<1>1. /\ now' = now + 1 /\ P!Traffic
      /\ UNCHANGED <<todo, lastSent, readable, lastUp, pingUpdate, calm>>
  BY DEF Tick
<1>2. /\ now \in Nat /\ waited \in 0..MaxWait /\ polled \in 0..MaxPoll
      /\ since \in Nat /\ gone \in Nat /\ MaxWait \in Nat /\ MaxPoll \in Nat
  BY RateConstants DEF Checked, RateInv, Recent
<1>3. since' = since /\ gone' = gone + 1
  <2>1. since' = since
    BY <1>1 DEF since
  <2>2. gone' = (now + 1) - since
    BY <1>1, <2>1 DEF gone
  <2>3. (now + 1) - since = (now - since) + 1
    BY <1>2
  <2> QED
    BY <2>1, <2>2, <2>3 DEF gone
<1>4. Recent'
  <2>1. CASE todo = <<>> /\ waited' = waited + 1 /\ UNCHANGED polled
    <3>1. gone + 1 <= (waited + 1) + MaxPoll
      BY <1>2, <2>1 DEF RateInv, Recent
    <3> QED
      BY <1>1, <1>2, <1>3, <2>1, <3>1, Lists DEF Recent
  <2>2. CASE checking /\ polled' = polled + 1 /\ UNCHANGED waited
    <3>1. todo = Answer
      BY <2>2 DEF Checked
    <3>2. gone + 1 <= polled + 1
      BY <1>2, <3>1 DEF RateInv, Recent
    <3> QED
      BY <1>1, <1>2, <1>3, <2>2, <3>1, <3>2, Lists DEF Recent
  <2> QED
    BY <2>1, <2>2 DEF Tick
<1>5. Counted'
  <2>1. PICK n \in {0, MaxRate} : sent + n < Word /\ sent' = sent + n
    BY <1>1 DEF P!Traffic
  <2>2. sent \in Nat /\ lastSent \in Nat /\ Word \in Nat /\ MaxRate \in Nat
    BY RateConstants DEF RateInv, Counted
  <2>3. sent + n \in 0..(Word - 1)
    BY <2>1, <2>2
  <2>4. MaxRate * (gone + 1) = MaxRate * gone + MaxRate /\ MaxRate * gone \in Nat
    BY <1>2, <2>2
  <2>5. readable => sent + n <= lastSent + MaxRate * (gone + 1)
    <3> SUFFICES ASSUME readable PROVE sent + n <= lastSent + MaxRate * (gone + 1)
      OBVIOUS
    <3>1. sent <= lastSent + MaxRate * gone
      BY DEF RateInv, Counted
    <3> QED
      BY <2>1, <2>2, <2>4, <3>1
  <2> QED
    BY <1>1, <1>3, <2>1, <2>3, <2>5 DEF RateInv, Counted
<1>6. Faded'
  BY <1>1 DEF RateInv, Faded, most
<1> QED
  BY <1>4, <1>5, <1>6 DEF RateInv

(* Counters that fall leave less than was sent.                            *)
LEMMA RateFall ==
  ASSUME RateInv, CountersFall
  PROVE  RateInv'
<1>1. UNCHANGED <<now, todo, waited, polled>>
  BY DEF CountersFall, thread
<1>2. CASE UNCHANGED pvars
  <2>1. Recent'
    BY <1>1, <1>2 DEF RateInv, Recent, gone, since, pvars
  <2> QED
    BY <1>1, <1>2, <2>1, RateQuiet
<1>3. CASE P!InterfaceGoes
  <2>1. /\ sent > 0 /\ sent' \in {0, sent - 1}
        /\ UNCHANGED <<lastSent, readable, lastUp, pingUpdate, calm>>
    BY <1>3 DEF P!InterfaceGoes
  <2>2. gone' = gone /\ since' = since
    BY <1>1, <2>1 DEF gone, since
  <2>3. Recent' /\ Faded'
    BY <1>1, <2>1, <2>2 DEF RateInv, Recent, Faded, most
  <2>4. PICK n : n = sent' /\ n \in {0, sent - 1}
    BY <2>1
  <2>5. /\ sent \in Nat /\ Word \in Nat /\ sent <= Word - 1 /\ lastSent \in Nat
        /\ MaxRate * gone \in Nat
    BY RateConstants DEF RateInv, Counted, Recent
  <2>6. n \in 0..(Word - 1) /\ n <= sent
    BY <2>1, <2>4, <2>5
  <2>7. readable => n <= lastSent + MaxRate * gone
    <3> SUFFICES ASSUME readable PROVE n <= lastSent + MaxRate * gone
      OBVIOUS
    <3>1. sent <= lastSent + MaxRate * gone
      BY DEF RateInv, Counted
    <3> QED
      BY <2>5, <2>6, <3>1
  <2>8. Counted'
    BY <2>1, <2>2, <2>4, <2>6, <2>7 DEF RateInv, Counted
  <2> QED
    BY <2>3, <2>8 DEF RateInv
<1> QED
  BY <1>2, <1>3 DEF CountersFall

(* Every step keeps the invariant.                                         *)
LEMMA RateStep == SampleInv /\ RateInv /\ [Next]_vars => RateInv'
<1> SUFFICES ASSUME SampleInv, Checked, RateInv, [Next]_vars PROVE RateInv'
  BY DEF SampleInv
<1>0. /\ MaxWait \in Nat /\ MaxPoll \in Nat /\ gone \in Nat
      /\ waited \in 0..MaxWait /\ polled \in 0..MaxPoll /\ todo \in Todos
  BY RateConstants DEF Checked, RateInv, Recent
<1>q. UNCHANGED <<now, pvars>> => gone' = gone /\ since' = since
  BY DEF gone, since, pvars
<1>1. CASE SpaceTurn \/ ResourcesTurn
  <2>1. /\ todo \in {First, Second} /\ todo' \in {Second, Third}
        /\ UNCHANGED <<now, waited, polled, pvars>>
    BY <1>1, <1>0, Taken DEF SpaceTurn, ResourcesTurn
  <2>2. Recent'
    BY <1>q, <2>1, Lists DEF RateInv, Recent
  <2> QED
    BY <2>1, <2>2, RateQuiet
<1>2. CASE NetworkTurn
  <2>1. todo = Third /\ todo' = Answer /\ UNCHANGED <<now, waited, polled>>
    BY <1>2, <1>0, Taken DEF NetworkTurn
  <2>2. gone <= MaxWait + MaxPoll
    BY <2>1 DEF RateInv, Recent
  <2>3. CASE P!shouldUpdate
    <3>1. \E r \in readings : P!updateBegins(r.value, r.read)
      BY <1>2, <2>3 DEF NetworkTurn
    <3>2. polled' \in Nat
      BY <1>0, <2>1
    <3> QED
      BY <2>1, <2>2, <3>1, <3>2, UpdateStep
  <2>4. CASE ~P!shouldUpdate
    <3>1. UNCHANGED <<now, pvars>>
      BY <1>2, <2>1, <2>4 DEF NetworkTurn
    <3>2. pingUpdate # 0 /\ ~(now - pingUpdate >= 1)
      BY <2>4 DEF P!shouldUpdate
    <3>3. since = pingUpdate /\ gone = now - pingUpdate
      BY <3>2 DEF since, gone
    <3>4. gone = 0
      BY <1>0, <3>2, <3>3
    <3>5. gone <= polled
      BY <1>0, <3>4
    <3>6. Recent'
      BY <1>q, <2>1, <3>1, <3>5, Lists DEF RateInv, Recent
    <3> QED
      BY <3>1, <3>6, RateQuiet
  <2> QED
    BY <2>3, <2>4
<1>3. CASE Latency
  <2>1. todo = Answer /\ todo' = Draw /\ UNCHANGED <<now, waited>>
    BY <1>3, <1>0, Taken DEF Latency
  <2>2. UNCHANGED <<sent, lastSent, readable, lastUp, pingUpdate, calm>>
    BY <1>3 DEF Latency, P!latencyKnown, pvars
  <2>3. gone' = gone /\ since' = since
    BY <2>1, <2>2 DEF gone, since
  <2>4. gone <= waited + MaxPoll
    <3>1. gone <= polled
      BY <2>1 DEF RateInv, Recent
    <3> QED
      BY <1>0, <3>1
  <2>5. Recent'
    BY <2>1, <2>3, <2>4, Lists DEF RateInv, Recent
  <2> QED
    BY <2>2, <2>3, <2>5 DEF RateInv, Counted, Faded, most
<1>4. CASE renderBar
  <2>1. todo = Draw /\ todo' = <<>> /\ UNCHANGED <<now, waited, polled, pvars>>
    BY <1>4, <1>0, Taken DEF renderBar
  <2>2. Recent'
    BY <1>q, <2>1, Lists DEF RateInv, Recent
  <2> QED
    BY <2>1, <2>2, RateQuiet
<1>5. CASE Timeout
  <2>1. todo = <<>> /\ todo' = First /\ UNCHANGED <<now, polled, pvars>>
    BY <1>5 DEF Timeout, First
  <2>2. gone <= MaxWait + MaxPoll
    <3>1. gone <= waited + MaxPoll
      BY <2>1 DEF RateInv, Recent
    <3> QED
      BY <1>0, <3>1
  <2>3. Recent'
    BY <1>q, <2>1, <2>2, Lists DEF RateInv, Recent
  <2> QED
    BY <2>1, <2>3, RateQuiet
<1>6. CASE ClickSpace
  <2>1. todo = <<>> /\ todo' = Draw /\ UNCHANGED <<now, waited, polled, pvars>>
    BY <1>6 DEF ClickSpace, Draw
  <2>2. Recent'
    BY <1>q, <2>1, Lists DEF RateInv, Recent
  <2> QED
    BY <2>1, <2>2, RateQuiet
<1>7. CASE ClickPing
  <2>1. todo = <<>> /\ todo' = Answer /\ UNCHANGED <<now, waited, polled>>
    BY <1>7 DEF ClickPing, Answer
  <2>2. \E r \in readings : P!updateBegins(r.value, r.read)
    BY <1>7 DEF ClickPing, P!click
  <2>3. gone <= MaxWait + MaxPoll
    <3>1. gone <= waited + MaxPoll
      BY <2>1 DEF RateInv, Recent
    <3> QED
      BY <1>0, <3>1
  <2>4. polled' \in Nat
    BY <1>0, <2>1
  <2> QED
    BY <2>1, <2>2, <2>3, <2>4, UpdateStep
<1>8. CASE UNCHANGED vars
  <2>1. UNCHANGED <<now, todo, waited, polled, pvars>>
    BY <1>8 DEF vars, thread
  <2>2. Recent'
    BY <1>q, <2>1 DEF RateInv, Recent
  <2> QED
    BY <2>1, <2>2, RateQuiet
<1> QED
  BY <1>1, <1>2, <1>3, <1>4, <1>5, <1>6, <1>7, <1>8, RateTick, RateFall DEF Next, Thread

(* A wrong rate is gone after Fade right updates, whatever made it wrong   *)
(* and however wide the counters are (ping.h 168-185).                     *)
THEOREM BottomBarRateRecovers == Spec => []RateRecovers
<1>1. Init => RateInv
  <2> SUFFICES ASSUME Init PROVE RateInv
    OBVIOUS
  <2>1. /\ now = 1 /\ todo = Draw /\ waited = 0 /\ pingUpdate = 0
        /\ sent = MaxRate /\ lastUp = 0 /\ calm = 0
        /\ lastSent = sent \/ (lastSent = 0 /\ ~readable)
    BY DEF Init, P!Init, Draw
  <2>2. since = 1 /\ gone = 0
    BY <2>1 DEF since, gone
  <2>3. Recent
    BY <2>1, <2>2, RateConstants, Lists DEF Recent
  <2>4. Counted
    <3>1. MaxRate * 0 = 0
      BY RateConstants
    <3> QED
      BY <2>1, <2>2, <3>1, RateConstants DEF Counted
  <2>5. Faded
    <3>1. excess[0] \in Nat /\ most \in Nat /\ Fade \in Nat
      BY ExcessIs, RateConstants
    <3> QED
      BY <2>1, <3>1 DEF Faded
  <2> QED
    BY <2>3, <2>4, <2>5 DEF RateInv
<1>2. RateInv => RateRecovers
  <2> SUFFICES ASSUME RateInv, calm = Fade PROVE lastUp <= MaxRate * (MaxWait + MaxPoll) + 1
    BY DEF RateRecovers
  <2>1. most \in Nat /\ Fade \in Nat /\ lastUp \in Nat /\ lastUp <= most + excess[Fade]
    BY RateConstants DEF RateInv, Counted, Faded
  <2>2. excess[Fade] \in Nat /\ excess[Fade] <= 1
    BY <2>1, ExcessIs, FadeAssumption
  <2> QED
    BY <2>1, <2>2 DEF most
<1> QED
  BY <1>1, <1>2, RateStep, SampleInit, SampleStep, PTL DEF Spec
=============================================================================
