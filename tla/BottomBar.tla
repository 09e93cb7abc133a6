------------------------------ MODULE BottomBar ------------------------------
(***************************************************************************)
(* The thread of the bottom bar and three of its modules, in the order of  *)
(* main.cpp: space, resources, ping.  As in TopBar, a pass and a click's   *)
(* handler are sequences of steps of the one thread; the check of the      *)
(* latency, the last step of a pass, may take a second.  In one behaviour  *)
(* the input of the processor's share or that of the network's rate varies.*)
(***************************************************************************)
EXTENDS Integers, Sequences

CONSTANTS
  Word, MaxRate, Fade, MaxFds,
  Leftover,   \* what curSent may hold when it has not been read
  Interval,   \* of the space module
  MaxPoll,    \* seconds poll() waits
  MaxWait,    \* seconds without a timeout of select (BarLoop, LagBounded)
  MaxNow,     \* bound: the clock
  MaxEvents   \* bound: clicks, counters that fall

ASSUME BottomBarAssumption ==
  /\ Word \in Nat \ {0} /\ MaxRate \in Nat \ {0} /\ Fade \in Nat \ {0}
  /\ MaxFds \in Nat /\ Leftover \subseteq 0..(Word - 1)
  /\ Interval \in Nat \ {0} /\ MaxPoll \in Nat /\ MaxWait \in Nat \ {0}
  /\ MaxNow \in Nat \ {0} /\ MaxEvents \in Nat
  /\ (MaxNow + 1) * MaxRate < Word

(* What n right updates leave of the largest wrong rate: three tenths      *)
(* each, rounded up.                                                       *)
excess[n \in 0..Fade] ==
  IF n = 0 THEN Word - 1 ELSE (3 * excess[n - 1] + 9) \div 10

ASSUME FadeAssumption == excess[Fade] <= 1

VARIABLES
  now, todo,
  waited,   \* seconds in select() since the last timeout
  polled,   \* seconds the check under way has taken
  checks,   \* checks the clicks have made
  events,
  window,   \* when the samples that are drawn were taken, 0: none
  varied,   \* whose input varies: the modules share the thread's time and no data
  displayMode, spaceUpdate, spaceContent,
  total, idle, lastCpuTotal, lastCpuIdle, tempFdCount, tempInitialized, cpu,
  resourcesUpdate, fell,
  sent, lastSent, readable, lastUp, lastLatencyCheck, checking,
  pingUpdate, showDetails, calm

S == INSTANCE Space WITH lastUpdate <- spaceUpdate, content <- spaceContent
R == INSTANCE Resources WITH lastUpdate <- resourcesUpdate
P == INSTANCE Ping WITH lastUpdate <- pingUpdate

svars == <<displayMode, spaceUpdate, spaceContent>>
rvars == <<total, idle, lastCpuTotal, lastCpuIdle, tempFdCount, tempInitialized,
           cpu, resourcesUpdate, fell>>
pvars == <<sent, lastSent, readable, lastUp, lastLatencyCheck,
           checking, pingUpdate, showDetails, calm>>
thread == <<todo, waited, polled, checks, window>>
vars == <<now, events, varied, thread, svars, rvars, pvars>>

Steps == {"space", "resources", "network", "latency", "render"}

(* Type invariant: the modules' types; steps of the thread.                *)
TypeOK ==
  /\ now \in 1..MaxNow /\ todo \in Seq(Steps)
  /\ waited \in 0..MaxWait /\ polled \in 0..MaxPoll
  /\ checks \in 0..MaxEvents /\ events \in 0..MaxEvents
  /\ window \in [space : Nat, resources : Nat, ping : Nat]
  /\ varied \in {"processor", "network"}
  /\ S!TypeOK /\ R!TypeOK /\ P!TypeOK

Init ==
  /\ now = 1 /\ todo = <<"render">>
  /\ waited = 0 /\ polled = 0 /\ checks = 0 /\ events = 0
  /\ window = [space |-> 0, resources |-> 0, ping |-> 0]
  /\ varied \in {"processor", "network"}
  /\ S!Init /\ R!Init /\ P!Init
  /\ varied # "network" => readable

-----------------------------------------------------------------------------
(* The thread.                                                             *)

event == events < MaxEvents /\ events' = events + 1

do(step) == todo # <<>> /\ Head(todo) = step /\ todo' = Tail(todo)

SpaceTurn ==
  /\ do("space")
  /\ IF S!shouldUpdate THEN UNCHANGED displayMode /\ S!update ELSE UNCHANGED svars
  /\ UNCHANGED <<now, varied, waited, polled, checks, events, window, rvars, pvars>>

ResourcesTurn ==
  /\ do("resources")
  /\ IF R!shouldUpdate THEN R!update ELSE UNCHANGED rvars
  /\ UNCHANGED <<now, varied, waited, polled, checks, events, window, svars, pvars>>

(* What a read of /proc/net/dev leaves in curSent: one that fails leaves   *)
(* what it held, and it has not been given a value.                        *)
readings ==
  {[value |-> sent, read |-> TRUE]}
    \cup (IF varied = "network" THEN {[value |-> v, read |-> FALSE] : v \in Leftover}
          ELSE {})

NetworkTurn ==
  /\ do("network")
  /\ IF P!shouldUpdate
     THEN /\ \E r \in readings : P!updateBegins(r.value, r.read)
          /\ UNCHANGED showDetails
     ELSE UNCHANGED pvars
  /\ UNCHANGED <<now, varied, waited, polled, checks, events, window, svars, rvars>>

Latency ==
  /\ do("latency")
  /\ IF checking THEN P!latencyKnown ELSE UNCHANGED pvars
  /\ polled' = 0
  /\ UNCHANGED <<now, varied, waited, checks, events, window, svars, rvars>>

renderBar ==
  /\ do("render")
  /\ window' = [space |-> spaceUpdate, resources |-> resourcesUpdate, ping |-> pingUpdate]
  /\ UNCHANGED <<now, varied, waited, polled, checks, events, svars, rvars, pvars>>

(* updateModules after a timeout *)
Timeout ==
  /\ todo = <<>>
  /\ todo' = <<"space", "resources", "network", "latency", "render">>
  /\ waited' = 0
  /\ UNCHANGED <<now, varied, polled, checks, events, window, svars, rvars, pvars>>

ClickSpace ==
  /\ event
  /\ todo = <<>> /\ todo' = <<"render">>
  /\ S!click
  /\ UNCHANGED <<now, varied, waited, polled, checks, window, rvars, pvars>>

ClickPing ==
  /\ event
  /\ todo = <<>> /\ window.ping # 0
  /\ todo' = <<"latency", "render">>
  /\ \E r \in readings : P!click(r.value, r.read)
  /\ checks' = checks + 1
  /\ UNCHANGED <<now, varied, waited, polled, window, svars, rvars>>

Thread == SpaceTurn \/ ResourcesTurn \/ NetworkTurn \/ Latency \/ renderBar \/ Timeout

-----------------------------------------------------------------------------
(* Time and the kernel.                                                    *)

Tick ==
  /\ now < MaxNow /\ now' = now + 1
  /\ \/ /\ todo = <<>> /\ waited < MaxWait
        /\ waited' = waited + 1 /\ UNCHANGED polled
     \/ /\ checking /\ polled < MaxPoll
        /\ polled' = polled + 1 /\ UNCHANGED waited
  /\ P!Traffic /\ (varied # "network" => sent' = sent)
  /\ R!Work /\ (varied # "processor" => idle' = idle + 1)
  /\ UNCHANGED <<todo, varied, checks, events, window, svars, lastCpuTotal, lastCpuIdle,
                 tempFdCount, tempInitialized, cpu, resourcesUpdate, fell,
                 lastSent, readable, lastUp, lastLatencyCheck,
                 checking, pingUpdate, showDetails, calm>>

CountersFall ==
  /\ event
  /\ \/ varied = "processor" /\ R!IowaitFalls /\ UNCHANGED pvars
     \/ varied = "network" /\ P!InterfaceGoes /\ UNCHANGED rvars
  /\ UNCHANGED <<now, varied, thread, svars>>

Next == Thread \/ ClickSpace \/ ClickPing \/ Tick \/ CountersFall

Spec == Init /\ [][Next]_vars

-----------------------------------------------------------------------------
(* Properties.                                                             *)

(* The processor's share is between 0 and 100, also when a sample could    *)
(* not be taken and the next spans more than one interval, and when iowait *)
(* fell so far that both differences wrapped, unless between the last two  *)
(* samples the idle time fell and the total rose: the idle difference is   *)
(* then a number near 2^64 and the other is not (resources.h 110-126).     *)
(* The sample after that one is right again.                               *)
CpuInRange == ~fell => cpu \in 0..100

(* A wrong rate (the sum of the counters fell, or could not be read and    *)
(* curSent had no value) goes away: after Fade right updates in a row the  *)
(* rate shown is what was sent between two updates at most                 *)
(* (ping.h 168-185).                                                       *)
RateRecovers == calm = Fade => lastUp <= MaxRate * (MaxWait + MaxPoll) + 1

(* What is drawn was sampled an interval, the wait for a timeout and two   *)
(* checks of the latency ago at most, and one check more for each click on *)
(* it: the check, which holds up the thread for a second when the network  *)
(* is down, does not add up over the passes (ping.h 187-191, main.cpp      *)
(* 234-241).                                                               *)
SampleLag ==
  LET interval == [space |-> Interval, resources |-> 2, ping |-> 1]
  IN  \A m \in DOMAIN window : window[m] # 0 =>
        now - window[m] <= interval[m] - 1 + MaxWait + (2 + checks) * MaxPoll
=============================================================================
