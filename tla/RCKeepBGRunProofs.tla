-------------------------- MODULE RCKeepBGRunProofs --------------------------
(***************************************************************************)
(* A running loop can be stopped, as long as stopBGRun never came early.   *)
(* The argument: until then the life of one startBGRun has fixed phases.   *)
(* The block builds timers and loop while the app stays in the background  *)
(* (Building), then stopBGRun and the loop's return take it all apart, the *)
(* two in any order (Leaving), and at most the next block waits.           *)
(***************************************************************************)
EXTENDS RCKeepBGRunManager, TLAPS

Both(s) == {<<"log", s>>, <<"ad", s>>}

(* The block served: what exists depends on its place alone.               *)
Building ==
  /\ place # "idle"
  /\ background /\ stopping = "no" /\ waiting = 0 /\ served \in Start
  /\ ~loopStopped
  /\ timerLog = (IF place = "log" THEN 0 ELSE served)
  /\ timerAD = (IF place \in {"log", "ad"} THEN 0 ELSE served)
  /\ place \notin {"log", "ad", "ref"} => runloopRef = served
  /\ inLoop = CASE place \in {"log", "ad", "ref", "addAD"} -> {}
                [] place = "addLog" -> {<<"ad", served>>}
                [] OTHER -> Both(served)

(* No block, or one whose loop was told to stop: what exists depends on     *)
(* the place in stopBGRun alone.                                            *)
Leaving ==
  /\ place \in {"idle", "running"}
  /\ loopStopped <=> place = "running"
  /\ waiting = (IF background THEN 1 ELSE 0)
  /\ background => stopping = "no"
  /\ stopping # "no" => served \in Start
  /\ stopping = "timers" =>
       timerLog = served /\ timerAD = served /\ inLoop = Both(served)
  /\ stopping = "rest" =>
       timerLog = 0 /\ timerAD = served /\ inLoop = {<<"ad", served>>}
  /\ stopping \in {"no", "task"} =>
       timerLog = 0 /\ timerAD = 0 /\ inLoop = {}

Phases == ~hasty => ~crashed /\ (Building \/ Leaving)

(* Every call of startBGRun has a block: waiting, being served or served.   *)
BlocksCounted == served + waiting = starts

IInv == TypeOK /\ BlocksCounted /\ Phases /\ HeldTaskIsLive

----------------------------------------------------------------------------
(* TypeOK in the two parts that want different provers.                     *)
Flags ==
  /\ playing \in BOOLEAN /\ loopStopped \in BOOLEAN
  /\ background \in BOOLEAN /\ crashed \in BOOLEAN /\ hasty \in BOOLEAN

Data ==
  /\ timerLog \in Start \cup {0} /\ timerAD \in Start \cup {0}
  /\ runloopRef \in Start \cup {0} /\ task \in Task \cup {0}
  /\ waiting \in 0..MaxStarts /\ served \in Start \cup {0}
  /\ place \in Place /\ inLoop \in SUBSET Timer
  /\ stopping \in {"no", "timers", "rest", "task"}
  /\ mainQueue \in Seq({"tick", "expiration"})
  /\ begun \in Task \cup {0} /\ live \in SUBSET Task
  /\ expired \in SUBSET Task /\ starts \in Start \cup {0}

LEMMA TypeParts == TypeOK <=> Flags /\ Data
BY DEF TypeOK, Flags, Data

LEMMA InitData == Init => Data
BY BGAssumption DEF Init, Data, Start, Task, Place

LEMMA InitIInv == Init => IInv
<1> SUFFICES ASSUME Init PROVE IInv
  OBVIOUS
<1>1. TypeOK
  BY InitData, TypeParts DEF Init, Flags
<1>2. Leaving
  BY DEF Init, Leaving
<1>3. BlocksCounted /\ HeldTaskIsLive
  BY DEF Init, BlocksCounted, HeldTaskIsLive
<1> QED
  BY <1>1, <1>2, <1>3 DEF Init, IInv, Phases

LEMMA FlagsStep ==
  ASSUME Flags, [Next]_vars
  PROVE  Flags'
<1> USE DEF Flags
<1>1. CASE startBGRun \/ stopBGRun
  BY <1>1 DEF startBGRun, stopBGRun, CFRunLoopStop, managerVars
<1>2. CASE MainThread
  BY <1>2 DEF MainThread, StopLogTimer, StopADTimer, StopTask, TickBlock,
              TickPlays, ExpirationBlock, queueVars
<1>3. CASE QueueThread
  BY <1>3 DEF QueueThread, TakeBlock, MakeLogTimer, MakeADTimer, NoteRunLoop,
              AddADTimer, AddLogTimer, Added, RunLoop, LoopStops,
              BlockUnchanged
<1>4. CASE TimerFires \/ LoopDrains \/ \E t \in Task : Expire(t)
  BY <1>4 DEF TimerFires, LoopDrains, Expire, managerVars, queueVars,
              BlockUnchanged
<1>5. CASE UNCHANGED vars
  BY <1>5 DEF vars, managerVars, queueVars
<1> QED
  BY <1>1, <1>2, <1>3, <1>4, <1>5 DEF Next, App

LEMMA DataStep ==
  ASSUME Data, BlocksCounted, [Next]_vars
  PROVE  Data' /\ BlocksCounted'
<1> USE BGAssumption DEF Start, Task, Place
<1> USE DEF Data, BlocksCounted
<1>1. CASE startBGRun
  BY <1>1 DEF startBGRun, applyforBackgroundTask
<1>2. CASE stopBGRun
  BY <1>2 DEF stopBGRun, CFRunLoopStop, managerVars, systemVars
<1>3. CASE StopLogTimer
  BY <1>3 DEF StopLogTimer, systemVars
<1>4. CASE StopADTimer
  BY <1>4 DEF StopADTimer, systemVars
<1>5. CASE StopTask
  BY <1>5 DEF StopTask, EndTask, queueVars
<1>6. CASE TickBlock
  <2>1. mainQueue' \in Seq({"tick", "expiration"})
    BY <1>6 DEF TickBlock
  <2>2. task' \in Task \cup {0} /\ begun' \in Task \cup {0}
        /\ live' \in SUBSET Task
    <3>1. CASE applyforBackgroundTask
      BY <3>1 DEF applyforBackgroundTask
    <3>2. CASE UNCHANGED <<begun, live, task>>
      BY <3>2
    <3> QED
      BY <1>6, <3>1, <3>2 DEF TickBlock, ExtendsTask
  <2> QED
    BY <1>6, <2>1, <2>2 DEF TickBlock, queueVars
<1>7. CASE ExpirationBlock
  BY <1>7 DEF ExpirationBlock, EndTask, queueVars
<1>8. CASE TakeBlock
  BY <1>8 DEF TakeBlock, BlockUnchanged, systemVars
<1>9. CASE MakeLogTimer \/ MakeADTimer \/ NoteRunLoop
  BY <1>9 DEF MakeLogTimer, MakeADTimer, NoteRunLoop, BlockUnchanged,
              systemVars
<1>10. CASE AddADTimer \/ AddLogTimer
  <2>1. ASSUME NEW k \in {"log", "ad"}, NEW t \in Start \cup {0}, Added(k, t)
        PROVE  inLoop' \in SUBSET Timer
    BY <2>1 DEF Added, Timer
  <2>2. inLoop' \in SUBSET Timer
    BY <1>10, <2>1 DEF AddADTimer, AddLogTimer
  <2>3. place' \in Place
    BY <1>10 DEF AddADTimer, AddLogTimer
  <2> QED
    BY <1>10, <2>2, <2>3
       DEF AddADTimer, AddLogTimer, BlockUnchanged, systemVars
<1>11. CASE RunLoop \/ LoopStops \/ LoopDrains
  BY <1>11 DEF RunLoop, LoopStops, LoopDrains, BlockUnchanged, systemVars
<1>12. CASE TimerFires
  BY <1>12 DEF TimerFires, managerVars, queueVars, systemVars
<1>13. ASSUME NEW t \in Task, Expire(t) PROVE Data' /\ BlocksCounted'
  BY <1>13 DEF Expire, managerVars, queueVars
<1>14. CASE UNCHANGED vars
  BY <1>14 DEF vars, managerVars, queueVars, systemVars
<1> QED
  BY <1>1, <1>2, <1>3, <1>4, <1>5, <1>6, <1>7, <1>8, <1>9, <1>10, <1>11,
     <1>12, <1>13, <1>14
     DEF Next, App, MainThread, QueueThread

LEMMA TaskStep ==
  ASSUME TypeOK, HeldTaskIsLive, [Next]_vars
  PROVE  HeldTaskIsLive'
<1> USE DEF HeldTaskIsLive
<1>1. CASE startBGRun \/ TickBlock
  BY <1>1 DEF startBGRun, TickBlock, ExtendsTask, applyforBackgroundTask
<1>2. CASE StopTask \/ ExpirationBlock
  BY <1>2 DEF StopTask, ExpirationBlock, EndTask
<1>3. CASE stopBGRun \/ TimerFires \/ \E t \in Task : Expire(t)
  BY <1>3 DEF stopBGRun, TimerFires, Expire, managerVars, systemVars
<1>4. CASE StopLogTimer \/ StopADTimer
  BY <1>4 DEF StopLogTimer, StopADTimer, systemVars
<1>5. CASE QueueThread \/ LoopDrains
  BY <1>5 DEF QueueThread, TakeBlock, MakeLogTimer, MakeADTimer, NoteRunLoop,
              AddADTimer, AddLogTimer, RunLoop, LoopStops, LoopDrains,
              BlockUnchanged, systemVars
<1>6. CASE UNCHANGED vars
  BY <1>6 DEF vars, managerVars, systemVars
<1> QED
  BY <1>1, <1>2, <1>3, <1>4, <1>5, <1>6 DEF Next, App, MainThread
----------------------------------------------------------------------------
(* The phases, one action at a time.                                        *)

LEMMA BuildingStep ==
  ASSUME TypeOK, ~hasty, ~crashed, Building, [Next]_vars
  PROVE  ~hasty' => ~crashed' /\ (Building' \/ Leaving')
<1> SUFFICES ASSUME ~hasty' PROVE ~crashed' /\ (Building' \/ Leaving')
  OBVIOUS
<1> USE DEF Building, Both, Start
<1>1. CASE stopBGRun
  <2>1. LoopRuns
    BY <1>1 DEF stopBGRun
  <2>2. /\ place = "running" /\ ~loopStopped /\ runloopRef = served
        /\ served # 0 /\ timerAD = served /\ timerLog = served
        /\ inLoop = Both(served)
    BY <2>1, BGAssumption DEF LoopRuns
  <2>3. loopStopped' /\ stopping' = "timers" /\ crashed' = crashed
    BY <1>1, <2>2 DEF stopBGRun, CFRunLoopStop
  <2>4. UNCHANGED <<place, served, waiting, timerLog, timerAD, inLoop>>
        /\ ~background'
    BY <1>1 DEF stopBGRun, managerVars
  <2> QED
    BY <2>2, <2>3, <2>4 DEF Leaving
<1>2. CASE MakeLogTimer \/ MakeADTimer \/ NoteRunLoop
  <2>1. CASE MakeLogTimer
    BY <1>2, <2>1 DEF MakeLogTimer, BlockUnchanged
  <2>2. CASE MakeADTimer
    BY <1>2, <2>2 DEF MakeADTimer, BlockUnchanged
  <2>3. CASE NoteRunLoop
    BY <1>2, <2>3 DEF NoteRunLoop, BlockUnchanged
  <2> QED
    BY <1>2, <2>1, <2>2, <2>3
<1>3. CASE AddADTimer
  BY <1>3 DEF AddADTimer, Added, BlockUnchanged
<1>4. CASE AddLogTimer
  BY <1>4 DEF AddLogTimer, Added, BlockUnchanged
<1>5. CASE RunLoop
  BY <1>5 DEF RunLoop, BlockUnchanged
<1>6. CASE TickBlock \/ ExpirationBlock \/ TimerFires
           \/ \E t \in Task : Expire(t)
  <2>1. UNCHANGED <<place, background, stopping, waiting, served, timerLog,
                    timerAD, runloopRef, inLoop, loopStopped, crashed>>
    BY <1>6 DEF TickBlock, ExpirationBlock, TimerFires, Expire, managerVars,
                queueVars
  <2> QED
    BY <2>1
<1>7. CASE LoopStops \/ LoopDrains \/ TakeBlock \/ startBGRun
           \/ StopLogTimer \/ StopADTimer \/ StopTask
  BY <1>7 DEF LoopStops, LoopDrains, TakeBlock, startBGRun, StopLogTimer,
              StopADTimer, StopTask
<1>8. CASE UNCHANGED vars
  BY <1>8 DEF vars, managerVars, queueVars
<1> QED
  BY <1>1, <1>2, <1>3, <1>4, <1>5, <1>6, <1>7, <1>8
     DEF Next, App, MainThread, QueueThread

LEMMA LeavingStep ==
  ASSUME TypeOK, BlocksCounted, ~hasty, ~crashed, Leaving, [Next]_vars
  PROVE  ~hasty' => ~crashed' /\ (Building' \/ Leaving')
<1> SUFFICES ASSUME ~hasty' PROVE ~crashed' /\ (Building' \/ Leaving')
  OBVIOUS
<1> USE DEF Leaving, Both, Start
<1>1. CASE startBGRun
  BY <1>1 DEF startBGRun
<1>2. CASE TakeBlock
  <2>1. place = "idle" /\ background /\ waiting = 1 /\ ~loopStopped
    BY <1>2, BGAssumption DEF TakeBlock
  <2>2. timerLog = 0 /\ timerAD = 0 /\ inLoop = {} /\ stopping = "no"
    BY <2>1
  <2>3. served + 1 = starts /\ served + 1 \in Start
    BY <2>1, BGAssumption DEF TypeOK, BlocksCounted
  <2>4. place' = "log" /\ waiting' = 0 /\ served' = served + 1 /\ inLoop' = {}
    BY <1>2, <2>1, <2>2 DEF TakeBlock
  <2>5. UNCHANGED <<timerLog, timerAD, loopStopped, crashed, stopping,
                    background>>
    BY <1>2 DEF TakeBlock, BlockUnchanged
  <2> QED
    BY <2>1, <2>2, <2>3, <2>4, <2>5 DEF Building
<1>3. CASE StopLogTimer
  BY <1>3 DEF StopLogTimer
<1>4. CASE StopADTimer
  BY <1>4 DEF StopADTimer
<1>5. CASE StopTask
  BY <1>5 DEF StopTask, queueVars
<1>6. CASE LoopStops
  BY <1>6 DEF LoopStops, BlockUnchanged
<1>7. CASE TickBlock \/ ExpirationBlock \/ TimerFires
           \/ \E t \in Task : Expire(t)
  BY <1>7 DEF TickBlock, ExpirationBlock, TimerFires, Expire, managerVars,
              queueVars
<1>8. CASE stopBGRun
  BY <1>8 DEF stopBGRun, LoopRuns
<1>9. CASE LoopDrains \/ MakeLogTimer \/ MakeADTimer \/ NoteRunLoop
           \/ AddADTimer \/ AddLogTimer \/ RunLoop
  BY <1>9 DEF LoopDrains, MakeLogTimer, MakeADTimer, NoteRunLoop, AddADTimer,
              AddLogTimer, RunLoop
<1>10. CASE UNCHANGED vars
  BY <1>10 DEF vars, managerVars, queueVars
<1> QED
  BY <1>1, <1>2, <1>3, <1>4, <1>5, <1>6, <1>7, <1>8, <1>9, <1>10
     DEF Next, App, MainThread, QueueThread

LEMMA IInvStep == IInv /\ [Next]_vars => IInv'
<1> SUFFICES ASSUME IInv, [Next]_vars PROVE IInv'
  OBVIOUS
<1>0. Flags /\ Data /\ (TypeOK <=> Flags /\ Data)
        /\ (TypeOK' <=> Flags' /\ Data')
  BY TypeParts DEF IInv, TypeOK, Flags, Data
<1>1. TypeOK' /\ BlocksCounted' /\ HeldTaskIsLive'
  BY <1>0, FlagsStep, DataStep, TaskStep DEF IInv
<1>2. hasty => hasty'
  BY DEF IInv, TypeOK, Next, App, MainThread, QueueThread, startBGRun,
         stopBGRun, StopLogTimer, StopADTimer, StopTask, TickBlock,
         ExpirationBlock, TakeBlock, MakeLogTimer, MakeADTimer, NoteRunLoop,
         AddADTimer, AddLogTimer, RunLoop, LoopStops, LoopDrains, TimerFires,
         Expire, BlockUnchanged, vars
<1>3. Phases'
  BY <1>2, BuildingStep, LeavingStep DEF IInv, Phases
<1> QED
  BY <1>1, <1>3 DEF IInv

----------------------------------------------------------------------------
(* The phases leave stopBGRun nothing it could not stop.                    *)
LEMMA PhasesStoppable == IInv => Stoppable
<1> SUFFICES ASSUME IInv, stopping = "no", ~hasty
             PROVE  /\ LoopRuns => runloopRef = served /\ timerAD = served
                    /\ inLoop \subseteq {<<"log", timerLog>>, <<"ad", timerAD>>}
  BY DEF Stoppable
<1>1. CASE Building
  BY <1>1 DEF Building, LoopRuns, Both, IInv, TypeOK, Place
<1>2. CASE Leaving
  BY <1>2 DEF Leaving, LoopRuns
<1> QED
  BY <1>1, <1>2 DEF IInv, Phases

LEMMA Invariance == Spec => []IInv
<1>1. Init => IInv
  BY InitIInv
<1>2. IInv /\ [Next]_vars => IInv'
  BY IInvStep
<1> QED
  BY <1>1, <1>2, PTL DEF Spec

(* Whatever the number of calls, tasks and queued blocks: unless stopBGRun  *)
(* came before the run loop was running, what runs can be stopped.          *)
THEOREM RunningIsStoppable == Spec => []Stoppable
BY Invariance, PhasesStoppable, PTL

(* stopBGRun crashes nothing unless it came before the run loop was running *)
(* once: it never passes NULL or a loop that is gone to CFRunLoopStop, and  *)
(* no timer is nil when it is added.                                        *)
THEOREM NoCrash == Spec => []CrashesOnlyHasty
<1>1. IInv => CrashesOnlyHasty
  BY DEF IInv, TypeOK, Phases, CrashesOnlyHasty
<1> QED
  BY Invariance, <1>1, PTL

(* The manager never ends a background task twice.                          *)
THEOREM HeldTask == Spec => []HeldTaskIsLive
<1>1. IInv => HeldTaskIsLive
  BY DEF IInv
<1> QED
  BY Invariance, <1>1, PTL

(* The state of the manager, its queue and its tasks keeps its types.       *)
THEOREM TypeCorrect == Spec => []TypeOK
<1>1. IInv => TypeOK
  BY DEF IInv
<1> QED
  BY Invariance, <1>1, PTL

=============================================================================
