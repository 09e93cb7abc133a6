---------------------------- MODULE InstanceLock ----------------------------
(***************************************************************************)
(* ProcessManager (process_manager.cpp) and the part of main() that uses   *)
(* it (main.cpp 289-327, 461-471): several processes of the same user      *)
(* start, run and stop the bar and share one lock file in /tmp.            *)
(*                                                                         *)
(* One step is one system call that another process can observe: reading,  *)
(* truncating, writing or unlinking the lock file, probing a process with  *)
(* kill(pid, 0), sending a signal, receiving one.  A process dies at any   *)
(* point (crash, SIGKILL) and its pid may be taken by another program or   *)
(* by a later start of the bar.                                            *)
(*                                                                         *)
(* tidy is not in the code: it says how the bar has been used so far.      *)
(***************************************************************************)
EXTENDS Naturals, FiniteSets

CONSTANTS
  Pids,        \* the process ids in play
  Modes,       \* the command lines used: a subset of AllModes
  Serial,      \* TRUE: a start begins only when no other one is under way
  Reentrant,   \* TRUE: a second SIGTERM may run the handler again during exit()
  NoPid,       \* the 0 readLockFile() returns for a file it cannot open
  Absent,      \* there is no lock file
  Empty        \* the lock file exists and has no content yet

AllModes == {"normal", "restart", "nolock", "kill"}

ASSUME LockAssumption ==
  /\ Modes \subseteq AllModes
  /\ Serial \in BOOLEAN
  /\ Reentrant \in BOOLEAN
  /\ NoPid \notin Pids
  /\ Absent \notin Pids
  /\ Empty \notin Pids
  /\ Absent # Empty

VARIABLES
  pc,        \* pc[p]: where the process with pid p is
  mode,      \* mode[p]: its command line
  seen,      \* seen[p]: its local existingPid
  pathSet,   \* the processes whose lockFilePath is not null
  term,      \* the processes with a SIGTERM (or SIGINT) pending
  lock,      \* the lock file: Absent, Empty or the pid it holds
  writers,   \* the processes whose open ofstream is the file linked at the path
  tidy       \* Orderly has held in every state so far

vars == <<pc, mode, seen, pathSet, term, lock, writers, tidy>>

(* Program points of a start, from handleExistingInstances' first line to  *)
(* the installation of the handlers; "leave" is `return 1` in main.        *)
StartPoints == {"read", "probe", "rmstale", "kread", "kprobe", "kwait",
                "krm", "trunc", "write", "setup", "leave"}

(* "dead": no process has the pid; "foreign": another program has it;      *)
(* "exiting": the handler has removed the file and called exit(0).         *)
Points == StartPoints \cup {"dead", "foreign", "running", "exiting"}

(* Type invariant: the processes, and the lock file as absent, empty or    *)
(* the pid it holds; a pid that was read is a pid (process_manager.cpp     *)
(* 29-40).                                                                 *)
TypeOK ==
  /\ pc \in [Pids -> Points]
  /\ mode \in [Pids -> AllModes]
  /\ seen \in [Pids -> Pids \cup {NoPid}]
  /\ pathSet \subseteq Pids
  /\ term \subseteq Pids
  /\ lock \in Pids \cup {Absent, Empty}
  /\ writers \subseteq Pids
  /\ tidy \in BOOLEAN

Init ==
  /\ pc = [p \in Pids |-> "dead"]
  /\ mode = [p \in Pids |-> "normal"]
  /\ seen = [p \in Pids |-> NoPid]
  /\ pathSet = {}
  /\ term = {}
  /\ lock = Absent
  /\ writers = {}
  /\ tidy = TRUE

-----------------------------------------------------------------------------
(* The calls ProcessManager is made of.                                    *)

Starting(p) == pc[p] \in StartPoints

(* kill(pid, 0) == 0 *)
isProcessRunning(p) == pc[p] # "dead"

(* Mutant: no is_open() test; what is not there is read as it stands.      *)
readLockFile_NoOpenTest(p) ==
  IF p \notin pathSet THEN {NoPid}
  ELSE IF lock = Empty THEN Pids \cup {NoPid}
  ELSE {lock}

(* What readLockFile can return.  A null path or a missing file gives 0;   *)
(* an empty file leaves the local pid uninitialised: any value.            *)
readLockFile(p) ==
  IF p \notin pathSet \/ lock = Absent THEN {NoPid}
  ELSE IF lock = Empty THEN Pids \cup {NoPid}
  ELSE {lock}

(* unlink(lockFilePath); with a null path it fails and changes nothing.  A *)
(* writer that still has the file open then writes to an unlinked file.    *)
removeLockFile(p) ==
  IF p \in pathSet
  THEN lock' = Absent /\ writers' = {}
  ELSE UNCHANGED <<lock, writers>>

goto(p, l) == pc' = [pc EXCEPT ![p] = l]

(* Where killExistingInstance returns to: handleExistingInstances goes on  *)
(* to write the file, main's --kill returns.                               *)
afterKill(p) == IF mode[p] = "kill" THEN "leave" ELSE "trunc"

(* The end of process p: its pending signals and open files go with it.    *)
gone(p) ==
  /\ goto(p, "dead")
  /\ term' = term \ {p}
  /\ writers' = writers \ {p}
  /\ pathSet' = pathSet \ {p}

-----------------------------------------------------------------------------
(* A start of the bar.                                                     *)

(* main up to the first call on the process manager: --kill runs           *)
(* killExistingInstance with the path still null, --no-lock skips          *)
(* handleExistingInstances, the other modes set the path.                  *)
Start(p, m) ==
  /\ pc[p] = "dead"
  /\ Serial => \A q \in Pids : ~Starting(q)
  /\ goto(p, CASE m = "kill" -> "kread" [] m = "nolock" -> "setup"
               [] OTHER -> "read")
  /\ mode' = [mode EXCEPT ![p] = m]
  /\ seen' = [seen EXCEPT ![p] = NoPid]
  /\ pathSet' = IF m \in {"normal", "restart"} THEN pathSet \cup {p}
                ELSE pathSet
  /\ UNCHANGED <<term, lock, writers>>

(* handleExistingInstances: existingPid = readLockFile() *)
ReadLock(p) ==
  /\ pc[p] = "read"
  /\ \E v \in readLockFile(p) :
       /\ seen' = [seen EXCEPT ![p] = v]
       /\ goto(p, IF v = NoPid THEN "trunc" ELSE "probe")
  /\ UNCHANGED <<mode, pathSet, term, lock, writers>>

(* handleExistingInstances: the three answers to isProcessRunning *)
Probe(p) ==
  /\ pc[p] = "probe"
  /\ goto(p, IF ~isProcessRunning(seen[p]) THEN "rmstale"
             ELSE IF mode[p] = "restart" THEN "kread" ELSE "leave")
  /\ UNCHANGED <<mode, seen, pathSet, term, lock, writers>>

RemoveStale(p) ==
  /\ pc[p] = "rmstale"
  /\ removeLockFile(p)
  /\ goto(p, "trunc")
  /\ UNCHANGED <<mode, seen, pathSet, term>>

(* writeLockFile: the ofstream opens with truncation, or cannot be opened  *)
(* and handleExistingInstances returns false.                              *)
OpenLock(p) ==
  /\ pc[p] = "trunc"
  /\ \/ /\ lock' = Empty
        /\ writers' = IF lock = Absent THEN {p} ELSE writers \cup {p}
        /\ goto(p, "write")
     \/ /\ goto(p, "leave")
        /\ UNCHANGED <<lock, writers>>
  /\ UNCHANGED <<mode, seen, pathSet, term>>

(* writeLockFile: close() writes the buffered pid *)
WriteLock(p) ==
  /\ pc[p] = "write"
  /\ lock' = IF p \in writers THEN p ELSE lock
  /\ writers' = writers \ {p}
  /\ goto(p, "setup")
  /\ UNCHANGED <<mode, seen, pathSet, term>>

(* setupSignalHandlers; from here on the bars come up *)
setupSignalHandlers(p) ==
  /\ pc[p] = "setup"
  /\ goto(p, "running")
  /\ UNCHANGED <<mode, seen, pathSet, term, lock, writers>>

(* main returns: ~ProcessManager calls cleanup() *)
Leave(p) ==
  /\ pc[p] = "leave"
  /\ lock' = IF p \in pathSet THEN Absent ELSE lock
  /\ goto(p, "dead")
  /\ term' = term \ {p}
  /\ writers' = IF p \in pathSet THEN {} ELSE writers \ {p}
  /\ pathSet' = pathSet \ {p}
  /\ UNCHANGED <<mode, seen>>

-----------------------------------------------------------------------------
(* killExistingInstance, called with --restart and with --kill.            *)

KillRead(p) ==
  /\ pc[p] = "kread"
  /\ \E v \in readLockFile(p) :
       /\ seen' = [seen EXCEPT ![p] = v]
       /\ goto(p, IF v = NoPid THEN afterKill(p) ELSE "kprobe")
  /\ UNCHANGED <<mode, pathSet, term, lock, writers>>

KillProbe(p) ==
  /\ pc[p] = "kprobe"
  /\ IF isProcessRunning(seen[p])
     THEN /\ term' = term \cup {seen[p]}
          /\ goto(p, "kwait")
          /\ UNCHANGED <<lock, writers>>
     ELSE /\ removeLockFile(p)
          /\ goto(p, afterKill(p))
          /\ UNCHANGED term
  /\ UNCHANGED <<mode, seen, pathSet>>

(* Mutant: no SIGKILL; the start waits until the other process is gone.    *)
KillWait_NoSigkill(p) ==
  /\ pc[p] = "kwait"
  /\ seen[p] # p
  /\ ~isProcessRunning(seen[p])
  /\ goto(p, "krm")
  /\ UNCHANGED <<mode, seen, pathSet, term, lock, writers>>

(* Mutant: sleep(2) and on, without looking whether the process is gone.   *)
KillWait_NoCheck(p) ==
  /\ pc[p] = "kwait"
  /\ seen[p] # p
  /\ goto(p, "krm")
  /\ UNCHANGED <<mode, seen, pathSet, term, lock, writers>>

(* After sleep(2): what still runs is sent SIGKILL, and is gone when the   *)
(* following sleep(1) returns.                                             *)
KillWait(p) ==
  /\ pc[p] = "kwait"
  /\ seen[p] # p
  /\ IF isProcessRunning(seen[p])
     THEN /\ pc' = [pc EXCEPT ![p] = "krm", ![seen[p]] = "dead"]
          /\ term' = term \ {seen[p]}
          /\ writers' = writers \ {seen[p]}
          /\ pathSet' = pathSet \ {seen[p]}
     ELSE /\ goto(p, "krm")
          /\ UNCHANGED <<term, writers, pathSet>>
  /\ UNCHANGED <<mode, seen, lock>>

KillRemove(p) ==
  /\ pc[p] = "krm"
  /\ removeLockFile(p)
  /\ goto(p, afterKill(p))
  /\ UNCHANGED <<mode, seen, pathSet, term>>

-----------------------------------------------------------------------------
(* Signals and ends.                                                       *)

(* Mutant: the handler cleans up and returns without exit(0).              *)
signalHandler_NoExit(p) ==
  /\ p \in term
  /\ pc[p] = "running"
  /\ removeLockFile(p)
  /\ term' = term \ {p}
  /\ UNCHANGED <<pc, mode, seen, pathSet>>

(* A SIGTERM arrives.  With the handlers installed cleanup() unlinks the   *)
(* file and exit(0) starts; during a start, and in another program, the    *)
(* default action ends the process.                                        *)
signalHandler(p) ==
  /\ p \in term
  /\ \/ /\ pc[p] = "running" \/ (pc[p] = "exiting" /\ Reentrant)
        /\ removeLockFile(p)
        /\ goto(p, "exiting")
        /\ term' = term \ {p}
        /\ UNCHANGED pathSet
     \/ /\ Starting(p) \/ pc[p] = "foreign"
        /\ gone(p)
        /\ UNCHANGED lock
  /\ UNCHANGED <<mode, seen>>

(* exit(0) ends the process; it may take arbitrarily long *)
Exit(p) ==
  /\ pc[p] = "exiting"
  /\ gone(p)
  /\ UNCHANGED <<mode, seen, lock>>

(* Both threads have ended: main's own cleanup(), before the destructor's *)
MainReturn(p) ==
  /\ pc[p] = "running"
  /\ removeLockFile(p)
  /\ goto(p, "leave")
  /\ UNCHANGED <<mode, seen, pathSet, term>>

(* The user or the session sends SIGTERM or SIGINT *)
SendTerm(p) ==
  /\ pc[p] # "dead"
  /\ pc[p] = "exiting" => Reentrant
  /\ p \notin term
  /\ term' = term \cup {p}
  /\ UNCHANGED <<pc, mode, seen, pathSet, lock, writers>>

(* The process crashes or is sent SIGKILL, at any point *)
Crash(p) ==
  /\ pc[p] # "dead"
  /\ gone(p)
  /\ UNCHANGED <<mode, seen, lock>>

(* The kernel gives the pid to another program *)
ReusePid(p) ==
  /\ pc[p] = "dead"
  /\ goto(p, "foreign")
  /\ UNCHANGED <<mode, seen, pathSet, term, lock, writers>>

-----------------------------------------------------------------------------

Step(p) ==
  \/ ReadLock(p) \/ Probe(p) \/ RemoveStale(p) \/ OpenLock(p) \/ WriteLock(p)
  \/ setupSignalHandlers(p) \/ Leave(p)
  \/ KillRead(p) \/ KillProbe(p) \/ KillWait(p) \/ KillRemove(p)

(* The use the usage text describes for --restart: starts and ends of main *)
(* come one at a time, all with --restart, and no signal waits to run the  *)
(* handler a second time.                                                  *)
Orderly ==
  /\ \A p, q \in Pids : Starting(p) /\ Starting(q) => p = q
  /\ \A p \in Pids : Starting(p) => mode[p] = "restart"
  /\ Reentrant => \A p \in Pids : pc[p] = "exiting" => p \notin term

watch == tidy' = (tidy /\ Orderly')

Next ==
  /\ \E p \in Pids :
       \/ \E m \in Modes : Start(p, m)
       \/ Step(p)
       \/ signalHandler(p) \/ Exit(p) \/ MainReturn(p)
       \/ SendTerm(p) \/ Crash(p) \/ ReusePid(p)
  /\ watch

(* A start that can take its next step takes it: every wait in it is a     *)
(* sleep() that returns.  A signal sent is received.  Nothing is assumed   *)
(* of exit(0), which runs destructors that may block.                      *)
Fairness ==
  \A p \in Pids : WF_vars(Step(p) /\ watch) /\ WF_vars(signalHandler(p) /\ watch)

Spec == Init /\ [][Next]_vars
FairSpec == Spec /\ Fairness

-----------------------------------------------------------------------------
(* Properties.                                                             *)

(* At most one process is past its start and runs the bars.  This is what  *)
(* the lock is for: handleExistingInstances refuses or replaces a running  *)
(* instance (process_manager.cpp 144-161).                                 *)
OneInstance ==
  \A p, q \in Pids : pc[p] = "running" /\ pc[q] = "running" => p = q

(* As long as the bar is used in the orderly way no two instances run,     *)
(* whatever crashes, is signalled or reuses a pid (handleExistingInstances *)
(* and killExistingInstance, process_manager.cpp 61-97, 132-161).          *)
OneInstanceWhenTidy == tidy => OneInstance

(* As long as the bar is used in the orderly way the lock file names the   *)
(* instance that runs, so that the next start sees it.  It takes another   *)
(* process that removes or rewrites the file to break it (removeLockFile,  *)
(* writeLockFile).                                                         *)
LockNamesRunner ==
  tidy => \A p \in Pids : pc[p] = "running" => lock = p

(* A start comes to an end whatever the other processes do: it runs or its *)
(* process is gone.  The instance it replaces may hang in exit(0) for ever *)
(* (killExistingInstance, process_manager.cpp 79-90).                      *)
StartSettles ==
  \A p \in Pids : Starting(p) ~> ~Starting(p)
=============================================================================
