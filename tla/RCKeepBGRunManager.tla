------------------------- MODULE RCKeepBGRunManager -------------------------
(***************************************************************************)
(* RCKeepBGRunManager keeps the app running in the background: it plays a  *)
(* sound for a moment, holds a background task, and on a serial queue      *)
(* builds two timers and sits in a run loop that fires them.               *)
(*                                                                         *)
(* Two threads share its properties without a lock: the main thread        *)
(* (startBGRun, stopBGRun, blocks of the main queue) and the thread that   *)
(* serves the serial queue.  The block of startBGRun is therefore taken    *)
(* one assignment at a time, and stopBGRun in the pieces the other thread  *)
(* can tell apart.  Timers are numbered by the block that made them.       *)
(***************************************************************************)
EXTENDS Naturals, Sequences

CONSTANTS
  MaxStarts,   \* bound on calls of startBGRun
  MaxTasks,    \* bound on background tasks begun
  MaxQueued    \* bound on unserved blocks of the main queue

ASSUME BGAssumption ==
  /\ MaxStarts \in Nat \ {0} /\ MaxTasks \in Nat \ {0}
  /\ MaxQueued \in Nat \ {0}

VARIABLES
  (* properties of the manager; 0 is nil, NULL, UIBackgroundTaskInvalid *)
  timerLog, timerAD, runloopRef, task, playing,
  (* the serial queue: blocks waiting, the block being served, its place, *)
  (* the timers in the thread's run loop, was the loop told to stop       *)
  waiting, served, place, inLoop, loopStopped,
  (* the main thread: its place in stopBGRun, and its queue *)
  stopping, mainQueue,
  (* the system: tasks begun, not ended, past their expiration handler *)
  begun, live, expired,
  (* the app: in the background?  calls of startBGRun; has it crashed? *)
  background, starts, crashed,
  (* history: has stopBGRun been called before the run loop was running? *)
  hasty

managerVars == <<timerLog, timerAD, runloopRef, task, playing>>
queueVars == <<waiting, served, place, inLoop, loopStopped>>
systemVars == <<begun, live, expired>>
vars == <<managerVars, queueVars, stopping, mainQueue, systemVars,
          background, starts, crashed, hasty>>

Start == 1..MaxStarts
Task == 1..MaxTasks
Timer == {"log", "ad"} \X Start
Place == {"idle", "log", "ad", "ref", "addAD", "addLog", "run", "running"}

TypeOK ==
  /\ timerLog \in Start \cup {0} /\ timerAD \in Start \cup {0}
  /\ runloopRef \in Start \cup {0} /\ task \in Task \cup {0}
  /\ playing \in BOOLEAN
  /\ waiting \in 0..MaxStarts /\ served \in Start \cup {0}
  /\ place \in Place
  /\ inLoop \in SUBSET Timer
  /\ loopStopped \in BOOLEAN
  /\ stopping \in {"no", "timers", "rest", "task"}
  /\ mainQueue \in Seq({"tick", "expiration"})
  /\ begun \in Task \cup {0} /\ live \in SUBSET Task
  /\ expired \in SUBSET Task
  /\ background \in BOOLEAN /\ starts \in Start \cup {0}
  /\ crashed \in BOOLEAN /\ hasty \in BOOLEAN

Init ==
  /\ timerLog = 0 /\ timerAD = 0 /\ runloopRef = 0 /\ task = 0
  /\ playing = FALSE
  /\ waiting = 0 /\ served = 0 /\ place = "idle" /\ inLoop = {}
  /\ loopStopped = FALSE
  /\ stopping = "no" /\ mainQueue = <<>>
  /\ begun = 0 /\ live = {} /\ expired = {}
  /\ background = FALSE /\ starts = 0 /\ crashed = FALSE
  /\ hasty = FALSE

----------------------------------------------------------------------------
(* Background tasks.                                                        *)

(* applyforBackgroundTask: the task held so far is overwritten, not ended.  *)
applyforBackgroundTask ==
  /\ begun < MaxTasks
  /\ begun' = begun + 1
  /\ live' = live \cup {begun + 1}
  /\ task' = begun + 1

(* Mutant: _task is not reset.                                              *)
EndTaskKeeping == live' = live \ {task} /\ task' = task

(* endBackgroundTask:_task and _task = UIBackgroundTaskInvalid.             *)
EndTask ==
  /\ live' = live \ {task}
  /\ task' = 0

(* The system calls the expiration handler of a task, which queues a block. *)
Expire(t) ==
  /\ ~crashed /\ stopping = "no" /\ t \in live \ expired
  /\ Len(mainQueue) < MaxQueued
  /\ expired' = expired \cup {t}
  /\ mainQueue' = Append(mainQueue, "expiration")
  /\ UNCHANGED <<managerVars, queueVars, stopping, begun, live, background,
                 starts, crashed, hasty>>

(* That block ends whatever task the manager holds by then.                 *)
ExpirationBlock ==
  /\ ~crashed /\ stopping = "no"
  /\ mainQueue # <<>> /\ Head(mainQueue) = "expiration"
  /\ mainQueue' = Tail(mainQueue)
  /\ EndTask
  /\ UNCHANGED <<timerLog, timerAD, runloopRef, playing, queueVars, stopping,
                 begun, expired, background, starts, crashed, hasty>>

----------------------------------------------------------------------------
(* The main thread.                                                         *)

(* startBGRun, called by applicationDidEnterBackground:.                    *)
startBGRun ==
  /\ ~crashed /\ stopping = "no" /\ ~background /\ starts < MaxStarts
  /\ background' = TRUE /\ starts' = starts + 1
  /\ playing' = TRUE
  /\ applyforBackgroundTask
  /\ waiting' = waiting + 1
  /\ UNCHANGED <<timerLog, timerAD, runloopRef, served, place, inLoop,
                 loopStopped, stopping, mainQueue, expired, crashed, hasty>>

LoopRuns == place = "running" /\ ~loopStopped

(* Mutant: the loop is not stopped, only its timers.                        *)
CFRunLoopStopSkipped == UNCHANGED <<loopStopped, crashed>>

(* CFRunLoopStop(_runloopRef).  The stop is lost on a loop that is not      *)
(* running (any more); NULL, or the loop of a thread that is gone, crashes. *)
CFRunLoopStop ==
  \/ /\ runloopRef = served /\ served # 0
     /\ loopStopped' = (loopStopped \/ place = "running")
     /\ UNCHANGED crashed
  \/ /\ runloopRef # served /\ runloopRef # 0
     /\ crashed' \in BOOLEAN
     /\ UNCHANGED loopStopped
  \/ /\ runloopRef = 0
     /\ crashed' = TRUE
     /\ UNCHANGED loopStopped

(* stopBGRun, called by applicationWillEnterForeground:, up to line 141.    *)
stopBGRun ==
  /\ ~crashed /\ stopping = "no" /\ background
  /\ background' = FALSE
  /\ hasty' = (hasty \/ ~LoopRuns)
  /\ \/ timerAD # 0 /\ CFRunLoopStop /\ stopping' = "timers"
     \/ /\ timerAD = 0 /\ stopping' = "task"
        /\ UNCHANGED <<loopStopped, crashed>>
  /\ UNCHANGED <<managerVars, waiting, served, place, inLoop, mainQueue,
                 systemVars, starts>>

(* Mutant: the log timer is forgotten without being invalidated.            *)
StopLogTimerOnlyNil ==
  /\ ~crashed /\ stopping = "timers"
  /\ timerLog' = 0
  /\ stopping' = "rest"
  /\ UNCHANGED <<timerAD, runloopRef, task, playing, inLoop, waiting, served,
                 place, loopStopped, mainQueue, systemVars, background, starts,
                 crashed, hasty>>

(* [self.timerLog invalidate]; self.timerLog = nil.                         *)
StopLogTimer ==
  /\ ~crashed /\ stopping = "timers"
  /\ inLoop' = inLoop \ {<<"log", timerLog>>}
  /\ timerLog' = 0
  /\ stopping' = "rest"
  /\ UNCHANGED <<timerAD, runloopRef, task, playing, waiting, served, place,
                 loopStopped, mainQueue, systemVars, background, starts,
                 crashed, hasty>>

(* [self.timerAD invalidate]; self.timerAD = nil; [self.playerBack stop].   *)
StopADTimer ==
  /\ ~crashed /\ stopping = "rest"
  /\ inLoop' = inLoop \ {<<"ad", timerAD>>}
  /\ timerAD' = 0
  /\ playing' = FALSE
  /\ stopping' = "task"
  /\ UNCHANGED <<timerLog, runloopRef, task, waiting, served, place,
                 loopStopped, mainQueue, systemVars, background, starts,
                 crashed, hasty>>

(* if (_task) ... and stopBGRun returns.                                    *)
StopTask ==
  /\ ~crashed /\ stopping = "task"
  /\ IF task # 0 THEN EndTask ELSE UNCHANGED <<live, task>>
  /\ stopping' = "no"
  /\ UNCHANGED <<timerLog, timerAD, runloopRef, playing, queueVars, mainQueue,
                 begun, expired, background, starts, crashed, hasty>>

(* The block startAudioPlay sends to the main queue: with less than 61      *)
(* seconds left it plays and asks for another task, and always stops the    *)
(* player at the end.  How much time is left is the system's.               *)
ExtendsTask ==
  \/ applyforBackgroundTask
  \/ UNCHANGED <<begun, live, task>>

(* Mutant: the player is not stopped again.                                 *)
TickKeepsPlaying == playing' = (playing \/ begun' # begun)

TickPlays == playing' = FALSE

TickBlock ==
  /\ ~crashed /\ stopping = "no"
  /\ mainQueue # <<>> /\ Head(mainQueue) = "tick"
  /\ mainQueue' = Tail(mainQueue)
  /\ ExtendsTask
  /\ TickPlays
  /\ UNCHANGED <<timerLog, timerAD, runloopRef, queueVars, stopping, expired,
                 background, starts, crashed, hasty>>

----------------------------------------------------------------------------
(* The serial queue.                                                        *)

BlockUnchanged == <<task, playing, stopping, mainQueue, systemVars,
                    background, starts, hasty>>

(* The next block is taken by the same thread, with what is left in its     *)
(* run loop, or by a new one.                                               *)
TakeBlock ==
  /\ ~crashed /\ place = "idle" /\ waiting > 0
  /\ waiting' = waiting - 1
  /\ served' = served + 1
  /\ place' = "log"
  /\ inLoop' \in {inLoop, {}}
  /\ UNCHANGED <<timerLog, timerAD, runloopRef, loopStopped, crashed,
                 BlockUnchanged>>

MakeLogTimer ==
  /\ ~crashed /\ place = "log"
  /\ timerLog' = served /\ place' = "ad"
  /\ UNCHANGED <<timerAD, runloopRef, waiting, served, inLoop, loopStopped,
                 crashed, BlockUnchanged>>

MakeADTimer ==
  /\ ~crashed /\ place = "ad"
  /\ timerAD' = served /\ place' = "ref"
  /\ UNCHANGED <<timerLog, runloopRef, waiting, served, inLoop, loopStopped,
                 crashed, BlockUnchanged>>

(* Mutant: the run loop is kept in a local variable.                        *)
NoteRunLoopLocally ==
  /\ ~crashed /\ place = "ref" /\ place' = "addAD"
  /\ UNCHANGED <<timerLog, timerAD, runloopRef, waiting, served, inLoop,
                 loopStopped, crashed, BlockUnchanged>>

NoteRunLoop ==
  /\ ~crashed /\ place = "ref"
  /\ runloopRef' = served /\ place' = "addAD"
  /\ UNCHANGED <<timerLog, timerAD, waiting, served, inLoop, loopStopped,
                 crashed, BlockUnchanged>>

(* addTimer: of a property that is nil by now is ignored or crashes.        *)
Added(kind, timer) ==
  \/ timer # 0 /\ inLoop' = inLoop \cup {<<kind, timer>>} /\ UNCHANGED crashed
  \/ timer = 0 /\ UNCHANGED inLoop /\ crashed' \in BOOLEAN

AddADTimer ==
  /\ ~crashed /\ place = "addAD"
  /\ Added("ad", timerAD) /\ place' = "addLog"
  /\ UNCHANGED <<timerLog, timerAD, runloopRef, waiting, served, loopStopped,
                 BlockUnchanged>>

AddLogTimer ==
  /\ ~crashed /\ place = "addLog"
  /\ Added("log", timerLog) /\ place' = "run"
  /\ UNCHANGED <<timerLog, timerAD, runloopRef, waiting, served, loopStopped,
                 BlockUnchanged>>

(* CFRunLoopRun: returns at once from a loop without timers.                *)
RunLoop ==
  /\ ~crashed /\ place = "run"
  /\ place' = IF inLoop = {} THEN "idle" ELSE "running"
  /\ UNCHANGED <<timerLog, timerAD, runloopRef, waiting, served, inLoop,
                 loopStopped, crashed, BlockUnchanged>>

(* A timer fires startAudioPlay.                                            *)
TimerFires ==
  /\ ~crashed /\ place = "running" /\ ~loopStopped
  /\ \E s \in Start : <<"ad", s>> \in inLoop
  /\ Len(mainQueue) < MaxQueued
  /\ mainQueue' = Append(mainQueue, "tick")
  /\ UNCHANGED <<managerVars, queueVars, stopping, systemVars, background,
                 starts, crashed, hasty>>

(* CFRunLoopRun returns once it was stopped.                                *)
LoopStops ==
  /\ ~crashed /\ place = "running" /\ loopStopped
  /\ place' = "idle" /\ loopStopped' = FALSE
  /\ UNCHANGED <<timerLog, timerAD, runloopRef, waiting, served, inLoop,
                 crashed, BlockUnchanged>>

(* A loop whose timers were invalidated by another thread returns when      *)
(* something wakes it, which nothing promises.                              *)
LoopDrains ==
  /\ ~crashed /\ place = "running" /\ ~loopStopped /\ inLoop = {}
  /\ place' = "idle"
  /\ UNCHANGED <<timerLog, timerAD, runloopRef, waiting, served, inLoop,
                 loopStopped, crashed, BlockUnchanged>>

----------------------------------------------------------------------------
App == startBGRun \/ stopBGRun

MainThread ==
  StopLogTimer \/ StopADTimer \/ StopTask \/ TickBlock \/ ExpirationBlock

QueueThread ==
  \/ TakeBlock \/ MakeLogTimer \/ MakeADTimer \/ NoteRunLoop
  \/ AddADTimer \/ AddLogTimer \/ RunLoop \/ LoopStops

Next ==
  \/ App \/ MainThread \/ QueueThread \/ TimerFires \/ LoopDrains
  \/ \E t \in Task : Expire(t)

(* Both threads run whenever they can, and a timer in a running loop fires: *)
(* its interval is a minute.  The app owes nothing, and neither does a run  *)
(* loop that nobody wakes.                                                  *)
Fairness == WF_vars(MainThread) /\ WF_vars(QueueThread) /\ WF_vars(TimerFires)

Spec == Init /\ [][Next]_vars /\ Fairness

----------------------------------------------------------------------------
(* As long as stopBGRun was never called too early, a running loop is one   *)
(* that it can stop: outside stopBGRun _runloopRef names that loop, timerAD *)
(* is set, and every timer in the loop is one of the two the manager still  *)
(* refers to.  stopBGRun asks only timerAD and invalidates only what the    *)
(* properties hold (lines 140-146).                                         *)
Stoppable ==
  (stopping = "no" /\ ~hasty) =>
    /\ LoopRuns => runloopRef = served /\ timerAD = served
    /\ inLoop \subseteq {<<"log", timerLog>>, <<"ad", timerAD>>}

(* Nothing crashes while stopBGRun stops only loops that run: the loop it   *)
(* stops is not NULL and not that of a thread that is gone, and no timer is *)
(* nil when the queue's block adds it (lines 90-94, 141).                   *)
CrashesOnlyHasty == crashed => hasty

(* The task the manager holds is one it has not ended yet, whichever of     *)
(* stopBGRun, a late tick and the expiration blocks came in between (lines  *)
(* 102-108, 127, 149-152).                                                  *)
HeldTaskIsLive == task # 0 => task \in live

Quiet == place = "idle" /\ waiting = 0 /\ inLoop = {}

(* After stopBGRun the timers and the loop come to an end, and the serial   *)
(* queue is free again, unless the app starts anew, if no call of it came   *)
(* before the run loop was running (lines 89-96, 139-148).                  *)
StopsWhatRuns ==
  (~background /\ stopping = "no" /\ starts > 0 /\ ~hasty) ~>
    (background \/ Quiet)

(* The same of every call: line 137, "停止后台运行" (stop running in the     *)
(* background), names no condition.                                         *)
StopAlwaysStops ==
  (~background /\ stopping = "no" /\ starts > 0) ~>
    (background \/ crashed \/ Quiet)

(* The music does not stay on: line 131, the player is stopped again, "the  *)
(* music file is not played all the time in the background".  Only a loop   *)
(* that an early stopBGRun left asleep on the serial queue prevents it.     *)
Silenced == (playing /\ ~hasty) ~> (~playing \/ hasty)

=============================================================================
