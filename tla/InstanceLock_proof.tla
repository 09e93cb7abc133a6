-------------------------- MODULE InstanceLock_proof --------------------------
(***************************************************************************)
(* Theorems about a process of the bar: the instances and their lock file, *)
(* and the threads of one instance.                                        *)
(*                                                                         *)
(* InstanceLock, for any set of pids:                                      *)
(*   - LockTypeOK: the state is well typed, for every mix of modes and     *)
(*     interleaving of starts;                                             *)
(*   - OrderlyUseOneInstance, OrderlyUseLockNamesRunner: as long as        *)
(*     starts are made with --restart and one at a time, at most one       *)
(*     instance runs and the lock file names it, crashes, signals during a *)
(*     start and reuse of pids included.                                   *)
(* BarLifecycle, for any set of failing modules:                           *)
(*   - LifecycleTypeOK, BottomAlwaysAfterTop, DestroyedAlwaysUnused: the   *)
(*     handshake of the two bars and the end of the process.               *)
(***************************************************************************)
EXTENDS InstanceLock, BarLifecycle, TLAPS

(* A local existingPid that is about to be used was read from the file.    *)
SeenIsPid ==
  \A p \in Pids : pc[p] \in {"probe", "kprobe", "kwait"} => seen[p] \in Pids

TypeInv == TypeOK /\ SeenIsPid

(* A process that calls handleExistingInstances has set the path.          *)
PathIsSet ==
  \A p \in Pids :
    pc[p] \notin {"dead", "foreign"} /\ mode[p] = "restart" => p \in pathSet

(* While an instance runs, a start that has read the file knows it, and no *)
(* start is past the point where it must be gone.                          *)
RunnerIsSeen ==
  \A p, q \in Pids :
    pc[q] = "running" =>
      /\ pc[p] \in {"probe", "kprobe", "kwait"} => seen[p] = q
      /\ pc[p] \notin {"rmstale", "krm", "trunc", "write", "setup", "leave"}

(* Nobody touches the file between its truncation and setupSignalHandlers. *)
OwnFile ==
  \A p \in Pids :
    /\ pc[p] = "write" => lock = Empty /\ p \in writers
    /\ pc[p] = "setup" => lock = p

(* What holds as long as the use is orderly.                               *)
Claims ==
  /\ Orderly
  /\ LockNamesRunner
  /\ RunnerIsSeen
  /\ OwnFile

IInv ==
  /\ TypeInv
  /\ PathIsSet
  /\ tidy => Claims
-----------------------------------------------------------------------------

(* No process runs at first.                                               *)
LEMMA TypeInvInit == Init => TypeInv
BY LockAssumption DEF Init, TypeInv, TypeOK, SeenIsPid, AllModes, Points

(* The type invariant, with SeenIsPid, is inductive.                       *)
LEMMA TypeInvStep == TypeInv /\ [Next]_vars => TypeInv'
<1> SUFFICES ASSUME TypeInv, [Next]_vars PROVE TypeInv'
  OBVIOUS
<1>0. tidy' \in BOOLEAN
  BY Zenon DEF Next, watch, vars, TypeInv, TypeOK
<1> USE LockAssumption, <1>0 DEF TypeInv, TypeOK, SeenIsPid, Points, StartPoints, goto
<1>1. ASSUME NEW p \in Pids, NEW m \in Modes, Start(p, m) PROVE TypeInv'
  BY <1>1 DEF Start, AllModes
<1>2. ASSUME NEW p \in Pids, ReadLock(p) PROVE TypeInv'
  BY <1>2 DEF ReadLock, readLockFile
<1>3. ASSUME NEW p \in Pids, Probe(p) PROVE TypeInv'
  BY <1>3 DEF Probe
<1>4. ASSUME NEW p \in Pids, RemoveStale(p) PROVE TypeInv'
  BY <1>4 DEF RemoveStale, removeLockFile
<1>5. ASSUME NEW p \in Pids, OpenLock(p) PROVE TypeInv'
  BY <1>5 DEF OpenLock
<1>6. ASSUME NEW p \in Pids, WriteLock(p) PROVE TypeInv'
  BY <1>6 DEF WriteLock
<1>7. ASSUME NEW p \in Pids, setupSignalHandlers(p) PROVE TypeInv'
  BY <1>7 DEF setupSignalHandlers
<1>8. ASSUME NEW p \in Pids, Leave(p) PROVE TypeInv'
  BY <1>8 DEF Leave
<1>9. ASSUME NEW p \in Pids, KillRead(p) PROVE TypeInv'
  BY <1>9 DEF KillRead, readLockFile, afterKill
<1>10. ASSUME NEW p \in Pids, KillProbe(p) PROVE TypeInv'
  BY <1>10 DEF KillProbe, removeLockFile, afterKill
<1>11. ASSUME NEW p \in Pids, KillWait(p) PROVE TypeInv'
  BY <1>11 DEF KillWait
<1>12. ASSUME NEW p \in Pids, KillRemove(p) PROVE TypeInv'
  BY <1>12 DEF KillRemove, removeLockFile, afterKill
<1>13. ASSUME NEW p \in Pids, signalHandler(p) PROVE TypeInv'
  BY <1>13 DEF signalHandler, removeLockFile, gone
<1>14. ASSUME NEW p \in Pids, Exit(p) \/ Crash(p) PROVE TypeInv'
  BY <1>14 DEF Exit, Crash, gone
<1>15. ASSUME NEW p \in Pids, MainReturn(p) PROVE TypeInv'
  BY <1>15 DEF MainReturn, removeLockFile
<1>16. ASSUME NEW p \in Pids, SendTerm(p) PROVE TypeInv'
  BY <1>16 DEF SendTerm
<1>17. ASSUME NEW p \in Pids, ReusePid(p) PROVE TypeInv'
  BY <1>17 DEF ReusePid
<1>18. CASE UNCHANGED vars
  BY <1>18 DEF vars
<1> QED
  BY <1>1, <1>2, <1>3, <1>4, <1>5, <1>6, <1>7, <1>8, <1>9, <1>10, <1>11,
     <1>12, <1>13, <1>14, <1>15, <1>16, <1>17, <1>18 DEF Next, Step

(* The processes, the lock file and the pending signals keep their types   *)
(* whatever mix of starts, signals and crashes happens.                    *)
THEOREM LockTypeOK == Spec => []TypeOK
<1>1. TypeInv => TypeOK
  BY DEF TypeInv
<1> QED
  BY TypeInvInit, TypeInvStep, <1>1, PTL DEF Spec

-----------------------------------------------------------------------------

(* The path stays set until the process is gone.                           *)
LEMMA PathIsSetStep ==
  ASSUME TypeInv, PathIsSet, [Next]_vars
  PROVE  PathIsSet'
<1> USE DEF TypeInv, TypeOK, PathIsSet, SeenIsPid, goto, gone
<1>1. ASSUME NEW p \in Pids, NEW m \in Modes, Start(p, m) PROVE PathIsSet'
  BY <1>1 DEF Start
<1>2. ASSUME NEW p \in Pids, Step(p) PROVE PathIsSet'
  BY <1>2 DEF Step, ReadLock, Probe, RemoveStale, OpenLock, WriteLock,
     setupSignalHandlers, Leave, KillRead, KillProbe, KillWait, KillRemove
<1>3. ASSUME NEW p \in Pids, signalHandler(p) \/ Exit(p) \/ MainReturn(p)
      PROVE  PathIsSet'
  BY <1>3 DEF signalHandler, Exit, MainReturn, Starting, StartPoints
<1>4. ASSUME NEW p \in Pids, SendTerm(p) \/ Crash(p) \/ ReusePid(p)
      PROVE  PathIsSet'
  BY <1>4 DEF SendTerm, Crash, ReusePid
<1>5. CASE UNCHANGED vars
  BY <1>5 DEF vars
<1> QED
  BY <1>1, <1>2, <1>3, <1>4, <1>5 DEF Next

(* The claims survive every step after which the use is still orderly.     *)
(* The pivot is RunnerIsSeen: the file names the runner, so a start reads  *)
(* the runner's pid, and it passes kwait only when that process is gone.   *)
LEMMA ClaimsStep ==
  ASSUME TypeInv, TypeInv', PathIsSet, tidy, Claims, Orderly', Next
  PROVE  Claims'
<1> USE LockAssumption
    DEF Claims, TypeInv, TypeOK, SeenIsPid, PathIsSet, Orderly,
        LockNamesRunner, RunnerIsSeen, OwnFile, Starting, StartPoints, goto
<1>1. ASSUME NEW p \in Pids, NEW m \in Modes, Start(p, m) PROVE Claims'
  BY <1>1 DEF Start
<1>2. ASSUME NEW p \in Pids, ReadLock(p) PROVE Claims'
  BY <1>2 DEF ReadLock, readLockFile
<1>3. ASSUME NEW p \in Pids, Probe(p) PROVE Claims'
  BY <1>3 DEF Probe, isProcessRunning
<1>4. ASSUME NEW p \in Pids, RemoveStale(p) PROVE Claims'
  BY <1>4 DEF RemoveStale, removeLockFile
<1>5. ASSUME NEW p \in Pids, OpenLock(p) PROVE Claims'
  BY <1>5 DEF OpenLock
<1>6. ASSUME NEW p \in Pids, WriteLock(p) PROVE Claims'
  BY <1>6 DEF WriteLock
<1>7. ASSUME NEW p \in Pids, setupSignalHandlers(p) PROVE Claims'
  BY <1>7 DEF setupSignalHandlers
<1>8. ASSUME NEW p \in Pids, Leave(p) PROVE Claims'
  BY <1>8 DEF Leave
<1>9. ASSUME NEW p \in Pids, KillRead(p) PROVE Claims'
  BY <1>9 DEF KillRead, readLockFile, afterKill
<1>10. ASSUME NEW p \in Pids, KillProbe(p) PROVE Claims'
  BY <1>10 DEF KillProbe, removeLockFile, afterKill, isProcessRunning
<1>11. ASSUME NEW p \in Pids, KillWait(p) PROVE Claims'
  BY <1>11 DEF KillWait, isProcessRunning
<1>12. ASSUME NEW p \in Pids, KillRemove(p) PROVE Claims'
  BY <1>12 DEF KillRemove, removeLockFile, afterKill
<1>13. ASSUME NEW p \in Pids, signalHandler(p) PROVE Claims'
  BY <1>13 DEF signalHandler, removeLockFile, gone
<1>14. ASSUME NEW p \in Pids, Exit(p) \/ Crash(p) PROVE Claims'
  BY <1>14 DEF Exit, Crash, gone
<1>15. ASSUME NEW p \in Pids, MainReturn(p) PROVE Claims'
  BY <1>15 DEF MainReturn, removeLockFile
<1>16. ASSUME NEW p \in Pids, SendTerm(p) PROVE Claims'
  BY <1>16 DEF SendTerm
<1>17. ASSUME NEW p \in Pids, ReusePid(p) PROVE Claims'
  BY <1>17 DEF ReusePid
<1> QED
  BY <1>1, <1>2, <1>3, <1>4, <1>5, <1>6, <1>7, <1>8, <1>9, <1>10, <1>11,
     <1>12, <1>13, <1>14, <1>15, <1>16, <1>17 DEF Next, Step

(* The strengthened invariant holds at first.                              *)
LEMMA IInvInit == Init => IInv
BY TypeInvInit, LockAssumption
   DEF Init, IInv, PathIsSet, Claims, Orderly, LockNamesRunner, RunnerIsSeen,
       OwnFile, Starting, StartPoints

(* ... and after every step.                                               *)
LEMMA IInvStep == IInv /\ [Next]_vars => IInv'
<1> SUFFICES ASSUME IInv, [Next]_vars PROVE IInv'
  OBVIOUS
<1>1. TypeInv' /\ PathIsSet'
  BY TypeInvStep, PathIsSetStep DEF IInv
<1>2. CASE Next
  <2>1. tidy' => tidy /\ Orderly'
    BY <1>2 DEF Next, watch
  <2>2. tidy' => Claims'
    BY <1>1, <1>2, <2>1, ClaimsStep DEF IInv
  <2> QED
    BY <1>1, <2>2 DEF IInv
<1>3. CASE UNCHANGED vars
  BY <1>1, <1>3 DEF vars, IInv, Claims, Orderly, LockNamesRunner, RunnerIsSeen,
     OwnFile, Starting
<1> QED
  BY <1>2, <1>3

(* As long as the bar is used in the orderly way no two instances run.     *)
THEOREM OrderlyUseOneInstance == Spec => []OneInstanceWhenTidy
<1>1. IInv => OneInstanceWhenTidy
  BY DEF IInv, Claims, LockNamesRunner, OneInstanceWhenTidy, OneInstance
<1> QED
  BY IInvInit, IInvStep, <1>1, PTL DEF Spec

(* ... and the lock file names the one that runs.                          *)
THEOREM OrderlyUseLockNamesRunner == Spec => []LockNamesRunner
<1>1. IInv => LockNamesRunner
  BY DEF IInv, Claims, LockNamesRunner
<1> QED
  BY IInvInit, IInvStep, <1>1, PTL DEF Spec

-----------------------------------------------------------------------------
(* The threads of one instance: BarLifecycle, for any set of failing       *)
(* modules and any bound on spurious wake-ups, with signals, X failures    *)
(* and ending loops.                                                       *)

(* The handshake: before main starts the top thread nothing is ready, the  *)
(* flag is set only behind the last initialize(), and main passes the wait *)
(* only with the flag set.                                                 *)
Handshake ==
  /\ mainPc = "statics" => barPc["top"] = "none" /\ ~gTopReady
  /\ gTopReady => barPc["top"] \in {"notify", "run", "ended"}
  /\ gTopReady \/ barPc["top"] \in {"lockReady", "setReady"}
       => idx["top"] = 6
  /\ mainPc \in {"startBottom", "joinTop", "joinBottom", "done"} => gTopReady
  /\ barPc["bottom"] # "none" => mainPc \in {"joinTop", "joinBottom", "done"}

HandshakeInv == LifeTypeOK /\ Handshake

(* The destructors that main's return runs wait for both joins.             *)
JoinedBeforeExit ==
  /\ \A b \in Bars : touch[b] # None => barPc[b] \in {"init", "run"}
  /\ mainPc = "statics" => \A b \in Bars : barPc[b] = "none"
  /\ mainPc # "statics" /\ ending = "no" => built = 12
  /\ ending = "return" => mainPc = "done"
  /\ mainPc \in {"joinBottom", "done"} => barPc["top"] = "ended"
  /\ mainPc = "done" => barPc["bottom"] = "ended"
  /\ barPc["bottom"] # "none" => mainPc \in {"joinTop", "joinBottom", "done"}

JoinedInv == LifeTypeOK /\ JoinedBeforeExit
-----------------------------------------------------------------------------

(* The lengths of the module lists (main.cpp 335-361, 409-416).            *)
LEMMA Lengths ==
  /\ Len(StaticModules) = 12
  /\ Len(modules("top")) = 6
  /\ \A b \in Bars : Len(modules(b)) \in {5, 6}
BY DEF StaticModules, modules, Bars

(* Each bar uses only modules that main builds as statics.                 *)
LEMMA BarModulesAreStatic ==
  \A b \in Bars : \A i \in 1..Len(modules(b)) : modules(b)[i] \in ModuleNames
BY DEF Bars, modules, ModuleNames, StaticModules

(* The type invariant is inductive, action by action.                      *)
LEMMA ThreadsTypeStep == LifeTypeOK /\ [LifeNext]_lifeVars => LifeTypeOK'
<1> SUFFICES ASSUME LifeTypeOK, [LifeNext]_lifeVars PROVE LifeTypeOK'
  OBVIOUS
<1> USE LifecycleAssumption, Lengths, BarModulesAreStatic
    DEF LifeTypeOK, Bars, MainPoints, BarPoints, main, bar, InRange, Destructors
<1>1. CASE BuildStatic
  BY <1>1 DEF BuildStatic
<1>2. CASE StartTop
  BY <1>2 DEF StartTop
<1>3. CASE MainLock
  BY <1>3 DEF MainLock
<1>4. CASE MainCheck
  BY <1>4 DEF MainCheck
<1>5. CASE MainSleep
  BY <1>5 DEF MainSleep
<1>6. CASE StartBottom
  BY <1>6 DEF StartBottom
<1>7. CASE Join
  BY <1>7 DEF Join
<1>8. CASE MainReturns
  BY <1>8 DEF MainReturns
<1>9. CASE SpuriousWakeup
  BY <1>9 DEF SpuriousWakeup
<1>10. CASE TopLock
  BY <1>10 DEF TopLock
<1>11. CASE TopSetReady
  BY <1>11 DEF TopSetReady
<1>12. CASE TopNotify
  BY <1>12 DEF TopNotify
<1>13. CASE SignalExit
  BY <1>13 DEF SignalExit
<1>14. CASE DestroyStatic
  BY <1>14 DEF DestroyStatic
<1>15. CASE ProcessEnds
  BY <1>15 DEF ProcessEnds
<1>16. ASSUME NEW b \in Bars, ConstructBar(b) PROVE LifeTypeOK'
  BY <1>16 DEF ConstructBar
<1>17. ASSUME NEW b \in Bars, InitModule(b) PROVE LifeTypeOK'
  BY <1>17 DEF InitModule
<1>18. ASSUME NEW b \in Bars, InitModuleReturns(b) PROVE LifeTypeOK'
  BY <1>18 DEF InitModuleReturns
<1>19. ASSUME NEW b \in Bars, InitDone(b) PROVE LifeTypeOK'
  BY <1>19 DEF InitDone
<1>20. ASSUME NEW b \in Bars, RunLeave(b) PROVE LifeTypeOK'
  BY <1>20 DEF RunLeave
<1>21. ASSUME NEW b \in Bars, RunEnds(b) PROVE LifeTypeOK'
  BY <1>21 DEF RunEnds
<1>22. ASSUME NEW b \in Bars, NEW m \in InRange(modules(b)), RunEnter(b, m)
       PROVE LifeTypeOK'
  BY <1>22 DEF RunEnter
<1>23. CASE UNCHANGED lifeVars
  BY <1>23 DEF lifeVars
<1> QED
  BY <1>1, <1>2, <1>3, <1>4, <1>5, <1>6, <1>7, <1>8, <1>9, <1>10, <1>11,
     <1>12, <1>13, <1>14, <1>15, <1>16, <1>17, <1>18, <1>19, <1>20, <1>21,
     <1>22, <1>23
  DEF LifeNext, MainStep, TopReport, BringUp, RunStep, ExitStep

(* The process starts well typed.                                          *)
LEMMA ThreadsTypeInit == LifeInit => LifeTypeOK
<1> SUFFICES ASSUME LifeInit PROVE LifeTypeOK
  OBVIOUS
<1>1. built \in 0..Len(StaticModules) /\ spurious \in 0..MaxSpurious
  BY LifecycleAssumption, Lengths DEF LifeInit
<1>2. touch \in [Bars -> ModuleNames \cup {None}] /\ idx \in [Bars -> Nat]
  BY DEF LifeInit
<1>3. barPc \in [Bars -> BarPoints] /\ mainPc \in MainPoints
  BY DEF LifeInit, BarPoints, MainPoints
<1> QED
  BY <1>1, <1>2, <1>3 DEF LifeInit, LifeTypeOK

(* Every program point, index and holder keeps its type.                   *)
THEOREM LifecycleTypeOK == LifeSpec => []LifeTypeOK
BY ThreadsTypeInit, ThreadsTypeStep, PTL DEF LifeSpec

(* The handshake invariant is inductive: gTopReady is set only by a top    *)
(* bar that has built its modules, under the mutex.                        *)
LEMMA HandshakeStep == HandshakeInv /\ [LifeNext]_lifeVars => HandshakeInv'
<1> SUFFICES ASSUME HandshakeInv, [LifeNext]_lifeVars PROVE HandshakeInv'
  OBVIOUS
<1>0. LifeTypeOK'
  BY ThreadsTypeStep DEF HandshakeInv
<1> USE <1>0, Lengths
    DEF HandshakeInv, LifeTypeOK, Handshake, Bars, MainPoints, BarPoints, main, bar
<1>1. CASE BuildStatic
  BY <1>1 DEF BuildStatic
<1>2. CASE StartTop
  BY <1>2 DEF StartTop
<1>3. CASE MainLock
  BY <1>3 DEF MainLock
<1>4. CASE MainCheck
  BY <1>4 DEF MainCheck
<1>5. CASE MainSleep
  BY <1>5 DEF MainSleep
<1>6. CASE StartBottom
  BY <1>6 DEF StartBottom
<1>7. CASE Join
  BY <1>7 DEF Join
<1>8. CASE MainReturns
  BY <1>8 DEF MainReturns
<1>9. CASE SpuriousWakeup
  BY <1>9 DEF SpuriousWakeup
<1>10. CASE TopLock
  BY <1>10 DEF TopLock
<1>11. CASE TopSetReady
  BY <1>11 DEF TopSetReady
<1>12. CASE TopNotify
  BY <1>12 DEF TopNotify
<1>13. CASE SignalExit
  BY <1>13 DEF SignalExit
<1>14. CASE DestroyStatic
  BY <1>14 DEF DestroyStatic
<1>15. CASE ProcessEnds
  BY <1>15 DEF ProcessEnds
<1>16. ASSUME NEW b \in Bars, ConstructBar(b) PROVE HandshakeInv'
  BY <1>16 DEF ConstructBar
<1>17. ASSUME NEW b \in Bars, InitModule(b) PROVE HandshakeInv'
  BY <1>17 DEF InitModule
<1>18. ASSUME NEW b \in Bars, InitModuleReturns(b) PROVE HandshakeInv'
  BY <1>18 DEF InitModuleReturns
<1>19. ASSUME NEW b \in Bars, InitDone(b) PROVE HandshakeInv'
  BY <1>19 DEF InitDone
<1>20. ASSUME NEW b \in Bars, RunLeave(b) PROVE HandshakeInv'
  BY <1>20 DEF RunLeave
<1>21. ASSUME NEW b \in Bars, RunEnds(b) PROVE HandshakeInv'
  BY <1>21 DEF RunEnds
<1>22. ASSUME NEW b \in Bars, NEW m \in InRange(modules(b)), RunEnter(b, m)
       PROVE HandshakeInv'
  BY <1>22 DEF RunEnter
<1>23. CASE UNCHANGED lifeVars
  BY <1>23 DEF lifeVars
<1> QED
  BY <1>1, <1>2, <1>3, <1>4, <1>5, <1>6, <1>7, <1>8, <1>9, <1>10, <1>11,
     <1>12, <1>13, <1>14, <1>15, <1>16, <1>17, <1>18, <1>19, <1>20, <1>21,
     <1>22, <1>23
  DEF LifeNext, MainStep, TopReport, BringUp, RunStep, ExitStep

(* The bottom bar is constructed only when every module of the top bar is  *)
(* initialised, whatever fails, wakes up or ends.                          *)
THEOREM BottomAlwaysAfterTop == LifeSpec => []BottomAfterTop
<1>1. LifeInit => HandshakeInv
  BY ThreadsTypeInit DEF LifeInit, HandshakeInv, Handshake, Bars
<1>2. HandshakeInv => BottomAfterTop
  BY Lengths DEF HandshakeInv, Handshake, BottomAfterTop
<1> QED
  BY <1>1, <1>2, HandshakeStep, PTL DEF LifeSpec

(* main destroys nothing before both threads are joined.                   *)
LEMMA JoinedStep == JoinedInv /\ [LifeNext]_lifeVars => JoinedInv'
<1> SUFFICES ASSUME JoinedInv, [LifeNext]_lifeVars PROVE JoinedInv'
  OBVIOUS
<1>0. LifeTypeOK'
  BY ThreadsTypeStep DEF JoinedInv
<1> USE <1>0, Lengths, LifecycleAssumption
    DEF JoinedInv, LifeTypeOK, JoinedBeforeExit, Bars, MainPoints,
        BarPoints, main, bar, Destructors
<1>1. CASE BuildStatic
  BY <1>1 DEF BuildStatic
<1>2. CASE StartTop
  BY <1>2 DEF StartTop
<1>3. CASE MainLock
  BY <1>3 DEF MainLock
<1>4. CASE MainCheck
  BY <1>4 DEF MainCheck
<1>5. CASE MainSleep
  BY <1>5 DEF MainSleep
<1>6. CASE StartBottom
  BY <1>6 DEF StartBottom
<1>7. CASE Join
  BY <1>7 DEF Join
<1>8. CASE MainReturns
  BY <1>8 DEF MainReturns
<1>9. CASE SpuriousWakeup
  BY <1>9 DEF SpuriousWakeup
<1>10. CASE TopLock
  BY <1>10 DEF TopLock
<1>11. CASE TopSetReady
  BY <1>11 DEF TopSetReady
<1>12. CASE TopNotify
  BY <1>12 DEF TopNotify
<1>13. CASE SignalExit
  BY <1>13 DEF SignalExit
<1>14. CASE DestroyStatic
  BY <1>14 DEF DestroyStatic
<1>15. CASE ProcessEnds
  BY <1>15 DEF ProcessEnds
<1>16. ASSUME NEW b \in Bars, ConstructBar(b) PROVE JoinedInv'
  BY <1>16 DEF ConstructBar
<1>17. ASSUME NEW b \in Bars, InitModule(b) PROVE JoinedInv'
  BY <1>17 DEF InitModule
<1>18. ASSUME NEW b \in Bars, InitModuleReturns(b) PROVE JoinedInv'
  BY <1>18 DEF InitModuleReturns
<1>19. ASSUME NEW b \in Bars, InitDone(b) PROVE JoinedInv'
  BY <1>19 DEF InitDone
<1>20. ASSUME NEW b \in Bars, RunLeave(b) PROVE JoinedInv'
  BY <1>20 DEF RunLeave
<1>21. ASSUME NEW b \in Bars, RunEnds(b) PROVE JoinedInv'
  BY <1>21 DEF RunEnds
<1>22. ASSUME NEW b \in Bars, NEW m \in InRange(modules(b)), RunEnter(b, m)
       PROVE JoinedInv'
  BY <1>22 DEF RunEnter
<1>23. CASE UNCHANGED lifeVars
  BY <1>23 DEF lifeVars
<1> QED
  BY <1>1, <1>2, <1>3, <1>4, <1>5, <1>6, <1>7, <1>8, <1>9, <1>10, <1>11,
     <1>12, <1>13, <1>14, <1>15, <1>16, <1>17, <1>18, <1>19, <1>20, <1>21,
     <1>22, <1>23
  DEF LifeNext, MainStep, TopReport, BringUp, RunStep, ExitStep

(* As long as only main's return ends the process, no thread is inside a   *)
(* destroyed module: both joins come before the static destructors.        *)
THEOREM DestroyedAlwaysUnused == LifeSpec => []DestroyedUnused
<1>1. LifeInit => JoinedInv
  BY ThreadsTypeInit DEF LifeInit, JoinedInv, JoinedBeforeExit, Bars
<1>2. JoinedInv => DestroyedUnused
  <2> SUFFICES ASSUME JoinedInv, ending \in {"no", "return"},
                      NEW b \in Bars, touch[b] # None
               PROVE  Exists(touch[b])
    BY DEF DestroyedUnused
  <2>1. built = 12
    BY DEF JoinedInv, JoinedBeforeExit, LifeTypeOK, Bars, MainPoints
  <2>2. touch[b] \in ModuleNames
    BY DEF JoinedInv, LifeTypeOK, Bars
  <2> QED
    BY <2>1, <2>2, Lengths DEF ModuleNames, Exists
<1> QED
  BY <1>1, <1>2, JoinedStep, PTL DEF LifeSpec
=============================================================================
