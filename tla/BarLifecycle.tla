---------------------------- MODULE BarLifecycle ----------------------------
(***************************************************************************)
(* The threads of one instance (main.cpp 57-129, 265-472): main builds the *)
(* static modules, starts the top bar's thread, waits on gInitCv until it  *)
(* is initialised, starts the bottom bar's thread and joins both.  exit(), *)
(* called by the signal handler or by Bar when X fails, destroys the       *)
(* static modules in reverse order while the other threads go on.          *)
(*                                                                         *)
(* A bar thread touches one module at a time: touch[b] is the module it is *)
(* inside of.  What a bar does with its modules is in BarLoop.             *)
(***************************************************************************)
EXTENDS Naturals, Sequences

CONSTANTS
  MayFail,      \* the modules whose initialize() may return false
  MaxSpurious,  \* bound: spurious wake-ups of gInitCv.wait
  None          \* no module

Bars == {"top", "bottom"}

(* main's static modules in order of construction *)
StaticModules ==
  <<"workspace", "audio", "battery", "datetime", "weather", "notifications",
    "ping", "timer", "stopwatch", "space", "audio_bottom", "resources">>

(* leftModules then rightModules, as the BarManager constructor stores them *)
modules(b) ==
  IF b = "top"
  THEN <<"workspace", "audio", "battery", "notifications", "weather", "datetime">>
  ELSE <<"timer", "stopwatch", "space", "resources", "ping">>

ModuleNames == {StaticModules[i] : i \in 1..Len(StaticModules)}

ASSUME LifecycleAssumption ==
  /\ MayFail \subseteq ModuleNames
  /\ MaxSpurious \in Nat
  /\ None \notin ModuleNames

VARIABLES
  mainPc,     \* where main is
  barPc,      \* barPc[b]: where the thread of bar b is
  idx,        \* idx[b]: how many modules of b initialize() has returned true for
  touch,      \* touch[b]: the module thread b is inside of, or None
  gTopReady,
  gInitMutex, \* the holder of the mutex: "main", "top" or "free"
  built,      \* StaticModules[1..built] exist
  ending,     \* "no", "return" (of main), "exit" (any other call) or "gone"
  spurious    \* spurious wake-ups so far

lifeVars == <<mainPc, barPc, idx, touch, gTopReady, gInitMutex, built, ending,
              spurious>>

MainPoints == {"statics", "lock", "check", "sleep", "waiting", "relock",
               "startBottom", "joinTop", "joinBottom", "done"}
BarPoints == {"none", "construct", "init", "lockReady", "setReady", "notify",
              "run", "ended"}

(* Type invariant: the three threads, the handshake and the static         *)
(* modules, of which none is destroyed twice.                              *)
LifeTypeOK ==
  /\ mainPc \in MainPoints
  /\ barPc \in [Bars -> BarPoints]
  /\ idx \in [Bars -> Nat]
  /\ touch \in [Bars -> ModuleNames \cup {None}]
  /\ gTopReady \in BOOLEAN
  /\ gInitMutex \in {"free", "main", "top"}
  /\ built \in 0..Len(StaticModules)
  /\ ending \in {"no", "return", "exit", "gone"}
  /\ spurious \in 0..MaxSpurious

LifeInit ==
  /\ mainPc = "statics"
  /\ barPc = [b \in Bars |-> "none"]
  /\ idx = [b \in Bars |-> 0]
  /\ touch = [b \in Bars |-> None]
  /\ gTopReady = FALSE
  /\ gInitMutex = "free"
  /\ built = 0
  /\ ending = "no"
  /\ spurious = 0

Exists(m) == \E i \in 1..built : StaticModules[i] = m

bar(b, from, to) == barPc[b] = from /\ barPc' = [barPc EXCEPT ![b] = to]

-----------------------------------------------------------------------------
(* main.  While exit() runs in the handler main does nothing else.         *)

main(from, to) == ending = "no" /\ mainPc = from /\ mainPc' = to

BuildStatic ==
  /\ ending = "no" /\ mainPc = "statics"
  /\ built < Len(StaticModules)
  /\ built' = built + 1
  /\ UNCHANGED <<mainPc, barPc, idx, touch, gTopReady, gInitMutex, ending,
                 spurious>>

StartTop ==
  /\ built = Len(StaticModules)
  /\ main("statics", "lock")
  /\ barPc' = [barPc EXCEPT !["top"] = "construct"]
  /\ UNCHANGED <<idx, touch, gTopReady, gInitMutex, built, ending, spurious>>

(* unique_lock, and the locking again inside wait() after a wake-up *)
MainLock ==
  /\ main("lock", "check") \/ main("relock", "check")
  /\ gInitMutex = "free"
  /\ gInitMutex' = "main"
  /\ UNCHANGED <<barPc, idx, touch, gTopReady, built, ending, spurious>>

(* Mutant: wait(lock) without the predicate.                               *)
MainCheck_NoPredicate ==
  /\ \/ main("check", "startBottom") /\ gInitMutex' = "free"
     \/ ~gTopReady /\ main("check", "sleep") /\ UNCHANGED gInitMutex
  /\ UNCHANGED <<barPc, idx, touch, gTopReady, built, ending, spurious>>

(* wait()'s predicate; when it holds the block ends and unlocks *)
MainCheck ==
  /\ \/ gTopReady /\ main("check", "startBottom") /\ gInitMutex' = "free"
     \/ ~gTopReady /\ main("check", "sleep") /\ UNCHANGED gInitMutex
  /\ UNCHANGED <<barPc, idx, touch, gTopReady, built, ending, spurious>>

(* wait() unlocks and blocks in one step *)
MainSleep ==
  /\ main("sleep", "waiting")
  /\ gInitMutex' = "free"
  /\ UNCHANGED <<barPc, idx, touch, gTopReady, built, ending, spurious>>

SpuriousWakeup ==
  /\ spurious < MaxSpurious
  /\ main("waiting", "relock")
  /\ spurious' = spurious + 1
  /\ UNCHANGED <<barPc, idx, touch, gTopReady, gInitMutex, built, ending>>

StartBottom ==
  /\ main("startBottom", "joinTop")
  /\ barPc' = [barPc EXCEPT !["bottom"] = "construct"]
  /\ UNCHANGED <<idx, touch, gTopReady, gInitMutex, built, ending, spurious>>

(* Mutant: the bottom thread is detached instead of joined.                *)
Join_OnlyTop ==
  /\ \/ barPc["top"] = "ended" /\ main("joinTop", "joinBottom")
     \/ main("joinBottom", "done")
  /\ UNCHANGED <<barPc, idx, touch, gTopReady, gInitMutex, built, ending,
                 spurious>>

(* top_thread.join(), then bottom_thread.join() and the final cleanup() *)
Join ==
  /\ \/ barPc["top"] = "ended" /\ main("joinTop", "joinBottom")
     \/ barPc["bottom"] = "ended" /\ main("joinBottom", "done")
  /\ UNCHANGED <<barPc, idx, touch, gTopReady, gInitMutex, built, ending,
                 spurious>>

(* `return 0`: the C runtime calls exit() *)
MainReturns ==
  /\ ending = "no" /\ mainPc = "done"
  /\ ending' = "return"
  /\ UNCHANGED <<mainPc, barPc, idx, touch, gTopReady, gInitMutex, built,
                 spurious>>

-----------------------------------------------------------------------------
(* A bar's thread.  It keeps running while another thread is in exit().    *)

(* The BarManager constructor connects to X; Bar exits when it cannot *)
ConstructBar(b) ==
  /\ ending # "gone"
  /\ \/ bar(b, "construct", "init") /\ UNCHANGED ending
     \/ bar(b, "construct", "ended") /\ ending' = "exit"
  /\ UNCHANGED <<mainPc, idx, touch, gTopReady, gInitMutex, built, spurious>>

(* initializeAllModules enters the next module's initialize() *)
InitModule(b) ==
  /\ ending # "gone" /\ barPc[b] = "init" /\ touch[b] = None
  /\ idx[b] < Len(modules(b))
  /\ touch' = [touch EXCEPT ![b] = modules(b)[idx[b] + 1]]
  /\ UNCHANGED <<mainPc, barPc, idx, gTopReady, gInitMutex, built, ending,
                 spurious>>

(* ... which returns true, or false, and then the thread function returns *)
InitModuleReturns(b) ==
  /\ ending # "gone" /\ barPc[b] = "init" /\ touch[b] # None
  /\ \/ /\ idx' = [idx EXCEPT ![b] = @ + 1]
        /\ UNCHANGED barPc
     \/ /\ touch[b] \in MayFail
        /\ bar(b, "init", "ended")
        /\ UNCHANGED idx
  /\ touch' = [touch EXCEPT ![b] = None]
  /\ UNCHANGED <<mainPc, gTopReady, gInitMutex, built, ending, spurious>>

(* initialize() after the modules: only the top bar reports *)
InitDone(b) ==
  /\ ending # "gone" /\ touch[b] = None /\ idx[b] = Len(modules(b))
  /\ bar(b, "init", IF b = "top" THEN "lockReady" ELSE "run")
  /\ UNCHANGED <<mainPc, idx, touch, gTopReady, gInitMutex, built, ending,
                 spurious>>

(* Mutant: gTopReady is set without gInitMutex.                            *)
TopLock_NoMutex ==
  /\ ending # "gone"
  /\ bar("top", "lockReady", "setReady")
  /\ UNCHANGED <<mainPc, idx, touch, gTopReady, gInitMutex, built, ending,
                 spurious>>

TopLock ==
  /\ ending # "gone" /\ gInitMutex = "free"
  /\ bar("top", "lockReady", "setReady")
  /\ gInitMutex' = "top"
  /\ UNCHANGED <<mainPc, idx, touch, gTopReady, built, ending, spurious>>

(* gTopReady = true and the end of the lock_guard's block *)
TopSetReady ==
  /\ ending # "gone"
  /\ bar("top", "setReady", "notify")
  /\ gTopReady' = TRUE
  /\ gInitMutex' = IF gInitMutex = "top" THEN "free" ELSE gInitMutex
  /\ UNCHANGED <<mainPc, idx, touch, built, ending, spurious>>

(* notify_one() wakes main if it is blocked in wait(), else it is lost *)
TopNotify ==
  /\ ending # "gone"
  /\ bar("top", "notify", "run")
  /\ mainPc' = IF mainPc = "waiting" THEN "relock" ELSE mainPc
  /\ UNCHANGED <<idx, touch, gTopReady, gInitMutex, built, ending, spurious>>

(* run(): the thread enters and leaves its modules, or select() fails *)
RunEnter(b, m) ==
  /\ ending # "gone" /\ barPc[b] = "run" /\ touch[b] = None
  /\ touch' = [touch EXCEPT ![b] = m]
  /\ UNCHANGED <<mainPc, barPc, idx, gTopReady, gInitMutex, built, ending,
                 spurious>>

RunLeave(b) ==
  /\ ending # "gone" /\ barPc[b] = "run" /\ touch[b] # None
  /\ touch' = [touch EXCEPT ![b] = None]
  /\ UNCHANGED <<mainPc, barPc, idx, gTopReady, gInitMutex, built, ending,
                 spurious>>

RunEnds(b) ==
  /\ ending # "gone" /\ touch[b] = None
  /\ bar(b, "run", "ended")
  /\ UNCHANGED <<mainPc, idx, touch, gTopReady, gInitMutex, built, ending,
                 spurious>>

-----------------------------------------------------------------------------
(* exit(): signalHandler on main's thread, and the static destructors.     *)

SignalExit ==
  /\ ending = "no"
  /\ ending' = "exit"
  /\ UNCHANGED <<mainPc, barPc, idx, touch, gTopReady, gInitMutex, built,
                 spurious>>

(* exit() is under way *)
Destructors == ending \in {"return", "exit"}

DestroyStatic ==
  /\ Destructors /\ built > 0
  /\ built' = built - 1
  /\ UNCHANGED <<mainPc, barPc, idx, touch, gTopReady, gInitMutex, ending,
                 spurious>>

ProcessEnds ==
  /\ Destructors /\ built = 0
  /\ ending' = "gone"
  /\ UNCHANGED <<mainPc, barPc, idx, touch, gTopReady, gInitMutex, built,
                 spurious>>

-----------------------------------------------------------------------------

MainStep == BuildStatic \/ StartTop \/ MainLock \/ MainCheck \/ MainSleep
            \/ StartBottom \/ Join \/ MainReturns

BringUp(b) == ConstructBar(b) \/ InitModule(b) \/ InitModuleReturns(b)
              \/ InitDone(b)

TopReport == TopLock \/ TopSetReady \/ TopNotify

InRange(s) == {s[i] : i \in 1..Len(s)}

RunStep(b) == (\E m \in InRange(modules(b)) : RunEnter(b, m)) \/ RunLeave(b)

ExitStep == DestroyStatic \/ ProcessEnds

LifeNext ==
  \/ MainStep \/ SpuriousWakeup \/ TopReport
  \/ \E b \in Bars : BringUp(b) \/ RunStep(b) \/ RunEnds(b)
  \/ SignalExit \/ ExitStep

(* Every runnable thread is scheduled.  initialize() of each module is     *)
(* taken to return, and wake-ups are only those notify_one or MaxSpurious  *)
(* allow.                                                                  *)
LifeFairness ==
  /\ WF_lifeVars(MainStep) /\ WF_lifeVars(TopReport) /\ WF_lifeVars(ExitStep)
  /\ \A b \in Bars : WF_lifeVars(BringUp(b)) /\ WF_lifeVars(RunStep(b))

LifeSpec == LifeInit /\ [][LifeNext]_lifeVars
LifeFairSpec == LifeSpec /\ LifeFairness

-----------------------------------------------------------------------------
(* Properties.                                                             *)

(* The bottom bar is not even constructed before every module of the top   *)
(* bar is initialised (the sequential initialisation of main.cpp 63-66 and *)
(* 396-400), spurious wake-ups of the condition variable included.         *)
BottomAfterTop ==
  barPc["bottom"] # "none" =>
    gTopReady /\ idx["top"] = Len(modules("top"))

(* The notification is not lost: once the top bar is initialised main goes *)
(* on to start the bottom bar, unless the process is ending.               *)
BottomStarts ==
  (barPc["top"] = "lockReady") ~> (barPc["bottom"] # "none" \/ ending # "no")

(* As long as exit() is called only by main's return, no thread is inside  *)
(* a static module that is destroyed: the modules are made outside the     *)
(* threads "para evitar problemas de lifetime" (main.cpp 335), and both    *)
(* joins come before the destructors.                                      *)
DestroyedUnused ==
  ending \in {"no", "return"} =>
    \A b \in Bars : touch[b] # None => Exists(touch[b])
=============================================================================
