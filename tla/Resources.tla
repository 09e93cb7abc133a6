------------------------------ MODULE Resources ------------------------------
(***************************************************************************)
(* ResourcesModule (modules/resources.h): the share of processor time      *)
(* since the last sample, and the sensors of which it shows the highest    *)
(* temperature.  The kernel's idle time holds iowait, which may fall       *)
(* (proc(5)), and so does the total, which holds the idle time; the        *)
(* differences are unsigned.  The temperature itself and the share of      *)
(* memory in use, made of one sample each, are left out.                   *)
(*                                                                         *)
(* fell is not in the code: between the last two samples the idle time     *)
(* fell and the total rose.                                                *)
(***************************************************************************)
EXTENDS Integers

CONSTANTS
  Word,       \* 2^64
  MaxFds      \* 32

VARIABLES
  now,
  total, idle,                    \* the kernel's counters, total 1 or more
  lastCpuTotal, lastCpuIdle,
  tempFdCount, tempInitialized,   \* the sensors' files that are open
  cpu,                            \* what the element shows
  lastUpdate, fell

TypeOK ==
  /\ total \in 1..(Word - 1) /\ idle \in 0..(Word - 1)
  /\ lastCpuTotal \in 0..(Word - 1) /\ lastCpuIdle \in 0..(Word - 1)
  /\ tempFdCount \in 0..MaxFds /\ tempInitialized \in BOOLEAN
  /\ cpu \in Int
  /\ lastUpdate \in Nat /\ fell \in BOOLEAN

Init ==
  /\ total = 2 /\ idle = 1
  /\ lastCpuTotal = 0 /\ lastCpuIdle = 0
  /\ tempFdCount = 0 /\ tempInitialized = FALSE
  /\ cpu = 0
  /\ lastUpdate = 0 /\ fell = FALSE

-----------------------------------------------------------------------------

(* Mutant: the idle time of the first sample is kept.                      *)
keep_FirstIdle ==
  /\ lastCpuTotal' = total
  /\ lastCpuIdle' = IF lastCpuTotal = 0 THEN idle ELSE lastCpuIdle

keep == lastCpuTotal' = total /\ lastCpuIdle' = idle

(* 100 (1 - idle / total) of the differences *)
share(dIdle, dTotal) == 100 - (100 * dIdle) \div dTotal

(* getCpuUsage: the file cannot be read, the first sample, or the share    *)
getCpuUsage ==
  LET diffTotal == (total - lastCpuTotal) % Word
      diffIdle == (idle - lastCpuIdle) % Word
  IN  \/ cpu' = 0 /\ UNCHANGED <<lastCpuTotal, lastCpuIdle, fell>>
      \/ /\ cpu' = IF lastCpuTotal = 0 \/ diffTotal = 0 THEN 0
                   ELSE share(diffIdle, diffTotal)
         /\ fell' = (idle < lastCpuIdle /\ total > lastCpuTotal)
         /\ keep

(* getCpuTemp: the files are opened once, as many as there is room for     *)
findSensors ==
  /\ tempInitialized' = TRUE
  /\ tempFdCount' \in IF tempInitialized THEN {tempFdCount} ELSE 0..MaxFds

update ==
  /\ getCpuUsage
  /\ findSensors
  /\ lastUpdate' = now
  /\ UNCHANGED <<total, idle>>

(* Mutant: the interval must have been exceeded.                           *)
shouldUpdate_Strict == lastUpdate = 0 \/ now - lastUpdate > 2

shouldUpdate == lastUpdate = 0 \/ now - lastUpdate >= 2

-----------------------------------------------------------------------------

(* A second of one processor, idle or not                                  *)
Work == total' = total + 1 /\ idle' \in {idle, idle + 1}

IowaitFalls ==
  /\ \E d \in 1..idle : idle' = idle - d /\ total' = total - d
  /\ UNCHANGED <<lastCpuTotal, lastCpuIdle, tempFdCount, tempInitialized,
                 cpu, lastUpdate, fell>>
=============================================================================
