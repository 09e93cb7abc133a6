-------------------------------- MODULE Ping --------------------------------
(***************************************************************************)
(* PingModule (modules/ping.h): the traffic since the last update and the  *)
(* time a TCP connection takes.  The counters of /proc/net/dev are summed  *)
(* over the interfaces, so that the sum falls when one goes away; sent and *)
(* received bytes are treated alike, and one of the two is modelled.  The  *)
(* differences are unsigned: the test for a negative rate never holds.     *)
(* The latency found is left out, the time its check takes is not.         *)
(*                                                                         *)
(* calm is not in the code: the updates in a row, up to Fade, in which     *)
(* both counters the difference is made of had been read and the sum had   *)
(* not fallen.                                                             *)
(***************************************************************************)
EXTENDS Integers

CONSTANTS
  Word,       \* 2^64, the width of the counters
  MaxRate,    \* bound: bytes in a second
  Fade        \* updates after which a wrong difference is smoothed away

VARIABLES
  now,
  sent,                  \* the kernel's sum
  lastSent, readable,    \* the sum read last; whether it had been read
  lastUp,                \* the rate shown
  lastLatencyCheck,
  checking,              \* getLatencyMs is waiting in poll()
  lastUpdate, showDetails, calm

TypeOK ==
  /\ sent \in 0..(Word - 1) /\ lastSent \in 0..(Word - 1) /\ lastUp \in 0..(Word - 1)
  /\ readable \in BOOLEAN /\ checking \in BOOLEAN /\ showDetails \in BOOLEAN
  /\ lastLatencyCheck \in Nat /\ lastUpdate \in Nat
  /\ calm \in 0..Fade

(* the constructor; if /proc/net/dev cannot be read lastSent stays 0 *)
Init ==
  /\ sent = MaxRate
  /\ \/ lastSent = sent /\ readable = TRUE
     \/ lastSent = 0 /\ readable = FALSE
  /\ lastUp = 0 /\ lastLatencyCheck = 0
  /\ checking = FALSE /\ lastUpdate = 0 /\ showDetails = TRUE /\ calm = 0

-----------------------------------------------------------------------------

(* Mutant: the old share has the larger weight.                            *)
smoothed_Slow(up) == (3 * up + 7 * lastUp + 9) \div 10

(* Suavizado; the fraction is rounded up                                   *)
smoothed(up) == (7 * up + 3 * lastUp + 9) \div 10

(* Bytes since the last update                                             *)
difference(cur) == (cur - lastSent) % Word

(* getNetworkIo and the rate.  A read that fails leaves curSent as it is,  *)
(* without a value: some number.                                           *)
rate(curSent, ok) ==
  /\ lastUp' = smoothed(difference(curSent))
  /\ lastSent' = curSent /\ readable' = ok
  /\ calm' = IF ok /\ readable /\ curSent >= lastSent
             THEN (IF calm < Fade THEN calm + 1 ELSE calm) ELSE 0

shouldUpdate == lastUpdate = 0 \/ now - lastUpdate >= 1

(* update() up to the connection: at most one check in a second *)
updateBegins(curSent, ok) ==
  /\ rate(curSent, ok)
  /\ checking' = (now # lastLatencyCheck)
  /\ lastLatencyCheck' = now
  /\ lastUpdate' = now
  /\ UNCHANGED sent

(* getLatencyMs returns: connected, refused, unreachable or timed out, *)
(* which is shown *)
latencyKnown ==
  /\ checking' = FALSE
  /\ UNCHANGED <<sent, lastSent, readable, lastUp, lastLatencyCheck, lastUpdate,
                 showDetails, calm>>

click(curSent, ok) == showDetails' = ~showDetails /\ updateBegins(curSent, ok)

-----------------------------------------------------------------------------
(* The kernel.                                                             *)

Traffic == \E n \in {0, MaxRate} : sent + n < Word /\ sent' = sent + n

InterfaceGoes ==
  /\ sent > 0
  /\ sent' \in {0, sent - 1}
  /\ UNCHANGED <<lastSent, readable, lastUp, lastLatencyCheck,
                 checking, lastUpdate, showDetails, calm>>
=============================================================================
