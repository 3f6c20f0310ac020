---------------------------- MODULE RCAPIManager ----------------------------
(***************************************************************************)
(* RCAPIBaseManager on top of RCApiProxy, RCCacheCenter and a service.     *)
(*                                                                         *)
(* All of this code runs on the main thread.  What is concurrent is the    *)
(* network (a task runs until it finishes, and its completion block is     *)
(* then queued on the main queue), the app (it may call a manager between  *)
(* any two blocks of the main queue), the wall clock and NSCache.  Each    *)
(* call of loadDataWithParams: is numbered; the number also stands for     *)
(* the NSURLSessionDataTask the call creates and for the body the server   *)
(* returns to it.                                                          *)
(***************************************************************************)
EXTENDS RCCacheCenter, Sequences

CONSTANTS
  Managers,          \* instances of subclasses of RCAPIBaseManager
  MaxCalls,          \* bound on the calls of a behaviour
  Sessions,          \* the sessionManagers that services supply
  NoSession,         \* a service without one: a session per request
  SessionOf,         \* [Managers -> Sessions \cup {NoSession}]
  Policy,            \* [Managers -> SUBSET {"memory", "disk"}]
  MemorySeconds,     \* memoryCacheSecond
  DiskSeconds,       \* diskCacheSecond
  ServiceKeepsBody,  \* does resultWithResponseObject: pass the body on?
  ParamVerdicts,     \* what validators say of parameters
  BodyVerdicts,      \* what validators say of a response
  Failures,          \* how tasks fail on their own
  Discipline         \* when the app calls a manager: "any", "notLoading"
                     \* (it checks isLoading first), "serial" (never before
                     \* the previous call was answered)

Calls == 1..MaxCalls

EmptyBody == 0

ErrorType ==
  {"needAccessToken", "needLogin", "default", "loginCanceled", "success",
   "noContent", "paramsError", "timeout", "noNetwork", "canceled", "noError",
   "downGrade"}

ASSUME ManagerAssumption ==
  /\ MaxCalls \in Nat \ {0}
  /\ NoSession \notin Sessions
  /\ SessionOf \in [Managers -> Sessions \cup {NoSession}]
  /\ Policy \in [Managers -> SUBSET {"memory", "disk"}]
  /\ MemorySeconds \in Seconds /\ DiskSeconds \in Seconds
  /\ ServiceKeepsBody \in BOOLEAN
  /\ ParamVerdicts \subseteq ErrorType /\ BodyVerdicts \subseteq ErrorType
  /\ Failures \subseteq {"timeout", "noNetwork", "badStatus"}
  /\ Discipline \in {"any", "notLoading", "serial"}
  /\ Body = 0..MaxCalls

VARIABLES
  (* the managers *)
  requestIdList, loading, errorType, errorMessage, fetchedRawData, response,
  (* the proxy: task identifier -> call, 0 when absent; identifiers handed *)
  (* out per session                                                       *)
  dispatchTable, lastId,
  (* the network *)
  taskState, taskId, taskResult, cancelRequested, reachable,
  (* the main queue *)
  mainQueue,
  (* the calls, as issued: who, for which key, how it ended, and which     *)
  (* responses the validator accepted                                      *)
  issued, owner, keyOf, outcome, accepted

managerVars == <<requestIdList, loading, errorType, errorMessage,
                 fetchedRawData, response>>
networkVars == <<taskState, taskId, taskResult, cancelRequested>>
callVars == <<issued, owner, keyOf, outcome, accepted>>
vars == <<managerVars, dispatchTable, lastId, networkVars, reachable,
          mainQueue, callVars, cacheVars>>

NoManager == "none"
NoKey == "none"
NotFetched == -1

Block == [kind : {"completion", "success", "fail"}, call : Calls]
Outcome == {"none", "told", "handedOver", "withheld", "refused", "lost"}
TaskState == {"none", "running", "finished", "done"}
Response == [from : {"none", "network", "cache"}, body : Body]

NoResponse == [from |-> "none", body |-> EmptyBody]

TypeOK ==
  /\ CacheTypeOK
  /\ requestIdList \in [Managers -> SUBSET Calls]
  /\ loading \in [Managers -> BOOLEAN]
  /\ errorType \in [Managers -> ErrorType]
  /\ errorMessage \in [Managers -> ErrorType \cup {"none"}]
  /\ fetchedRawData \in [Managers -> Body \cup {NotFetched}]
  /\ response \in [Managers -> Response]
  /\ dispatchTable \in [Calls -> Calls \cup {0}]
  /\ lastId \in [Sessions -> 0..MaxCalls]
  /\ taskState \in [Calls -> TaskState]
  /\ taskId \in [Calls -> 0..MaxCalls]
  /\ taskResult \in [Calls -> {"none", "ok", "cancel"} \cup Failures]
  /\ cancelRequested \in SUBSET Calls
  /\ reachable \in BOOLEAN
  /\ mainQueue \in Seq(Block)
  /\ issued \in 0..MaxCalls
  /\ owner \in [Calls -> Managers \cup {NoManager}]
  /\ keyOf \in [Calls -> Key \cup {NoKey}]
  /\ outcome \in [Calls -> Outcome]
  /\ accepted \in SUBSET Calls

Init ==
  /\ CacheInit
  /\ requestIdList = [m \in Managers |-> {}]
  /\ loading = [m \in Managers |-> FALSE]
  /\ errorType = [m \in Managers |-> "default"]
  /\ errorMessage = [m \in Managers |-> "none"]
  /\ fetchedRawData = [m \in Managers |-> NotFetched]
  /\ response = [m \in Managers |-> NoResponse]
  /\ dispatchTable = [i \in Calls |-> 0]
  /\ lastId = [s \in Sessions |-> 0]
  /\ taskState = [c \in Calls |-> "none"]
  /\ taskId = [c \in Calls |-> 0]
  /\ taskResult = [c \in Calls |-> "none"]
  /\ cancelRequested = {}
  /\ reachable \in BOOLEAN
  /\ mainQueue = <<>>
  /\ issued = 0
  /\ owner = [c \in Calls |-> NoManager]
  /\ keyOf = [c \in Calls |-> NoKey]
  /\ outcome = [c \in Calls |-> "none"]
  /\ accepted = {}

----------------------------------------------------------------------------
(* What the code reads.                                                     *)

isLoading(m) == requestIdList[m] # {} /\ loading[m]

(* Is the call still to be settled: no outcome yet.                         *)
Unsettled(m) == \E c \in 1..issued : owner[c] = m /\ outcome[c] = "none"

(* May the app call the manager, under the discipline it follows?           *)
MayCall(m) ==
  CASE Discipline = "any" -> TRUE
    [] Discipline = "notLoading" -> ~isLoading(m)
    [] Discipline = "serial" -> ~Unsettled(m)

MemoryAnswer(m, k, useCache) ==
  IF useCache /\ "memory" \in Policy[m] THEN FetchMemory(k) ELSE NoRecord

(* The second lookup assigns the same local, so it hides the first.         *)
CachedAnswer(m, k, useCache) ==
  IF useCache /\ "disk" \in Policy[m] THEN FetchDisk(k)
  ELSE MemoryAnswer(m, k, useCache)

LookupDone(m, k, useCache) ==
  /\ memory' = IF useCache /\ "memory" \in Policy[m]
               THEN MemoryAfterFetch(k) ELSE memory
  /\ disk' = IF useCache /\ "disk" \in Policy[m]
             THEN DiskAfterFetch(k) ELSE disk
  /\ now' = now

----------------------------------------------------------------------------
(* successedOnCallingAPI: and failedOnCallingAPI:withErrorType:, for call c *)
(* of manager m.  A response has a body, a source and a request id (0 for   *)
(* a cached one and for none); q is the main queue they append to.          *)

Removed(m, id) == [requestIdList EXCEPT ![m] = @ \ {id}]

HandsOver == {"needLogin", "needAccessToken"}

Messaged == {"noNetwork", "timeout", "canceled", "downGrade"}

(* handleCommonErrorWithResponse: consumes a failure only on the error      *)
(* codes of a body.                                                         *)
ServiceContinues(body) == IF body = EmptyBody THEN {TRUE} ELSE BOOLEAN

(* Mutant: the fail block is never dispatched.                              *)
failedSilently(m, c, body, id, e, q) ==
  /\ loading' = [loading EXCEPT ![m] = FALSE]
  /\ errorType' = [errorType EXCEPT ![m] = e]
  /\ requestIdList' = Removed(m, id)
  /\ mainQueue' = q
  /\ UNCHANGED <<errorMessage, outcome>>

failed(m, c, body, id, e, q) ==
  /\ loading' = [loading EXCEPT ![m] = FALSE]
  /\ errorType' = [errorType EXCEPT ![m] = e]
  /\ requestIdList' = Removed(m, id)
  /\ \E goesOn \in ServiceContinues(body) :
       IF e \notin HandsOver /\ goesOn
       THEN /\ errorMessage' = IF e \in Messaged
                               THEN [errorMessage EXCEPT ![m] = e]
                               ELSE errorMessage
            /\ mainQueue' = Append(q, [kind |-> "fail", call |-> c])
            /\ outcome' = outcome
       ELSE /\ mainQueue' = q
            /\ outcome' = [outcome EXCEPT ![c] = "handedOver"]
            /\ errorMessage' = errorMessage

(* Mutant: errorType keeps the error of an earlier call.                    *)
succeededStale(m, c, id, q) ==
  /\ loading' = [loading EXCEPT ![m] = FALSE]
  /\ requestIdList' = Removed(m, id)
  /\ mainQueue' = Append(q, [kind |-> "success", call |-> c])
  /\ UNCHANGED <<errorType, errorMessage, outcome>>

(* beforePerformSuccessWithResponse: sets errorType, then asks the          *)
(* interceptor, which may withhold the answer from the delegate.            *)
succeeded(m, c, id, q) ==
  /\ loading' = [loading EXCEPT ![m] = FALSE]
  /\ errorType' = [errorType EXCEPT ![m] = "success"]
  /\ requestIdList' = Removed(m, id)
  /\ errorMessage' = errorMessage
  /\ \/ /\ mainQueue' = Append(q, [kind |-> "success", call |-> c])
        /\ outcome' = outcome
     \/ /\ mainQueue' = q
        /\ outcome' = [outcome EXCEPT ![c] = "withheld"]

Answered(m, c, body, id, verdict, q) ==
  IF verdict = "noError" THEN succeeded(m, c, id, q)
  ELSE failed(m, c, body, id, verdict, q)

Received(m, from, body) ==
  response' = [response EXCEPT ![m] = [from |-> from, body |-> body]]

----------------------------------------------------------------------------
(* loadDataWithParams:, one action per way it returns.                      *)

NewCall(m, k) ==
  /\ issued < MaxCalls
  /\ MayCall(m)
  /\ issued' = issued + 1
  /\ owner' = [owner EXCEPT ![issued + 1] = m]
  /\ keyOf' = [keyOf EXCEPT ![issued + 1] = k]

(* The interceptor says no: nobody is told.                                 *)
LoadRefused(m, k) ==
  /\ NewCall(m, k)
  /\ outcome' = [outcome EXCEPT ![issued + 1] = "refused"]
  /\ UNCHANGED <<managerVars, dispatchTable, lastId, networkVars, reachable,
                 mainQueue, accepted, cacheVars>>

LoadInvalid(m, k) ==
  /\ NewCall(m, k)
  /\ \E verdict \in ParamVerdicts \ {"noError"} :
       failed(m, issued + 1, EmptyBody, 0, verdict, mainQueue)
  /\ UNCHANGED <<fetchedRawData, response, dispatchTable, lastId, networkVars,
                 reachable, accepted, cacheVars>>

LoadFromCache(m, k) ==
  LET answer == CachedAnswer(m, k, TRUE) IN
  /\ NewCall(m, k)
  /\ "noError" \in ParamVerdicts
  /\ answer # NoRecord
  /\ LookupDone(m, k, TRUE)
  /\ Received(m, "cache", answer.body)
  /\ fetchedRawData' = [fetchedRawData EXCEPT ![m] = answer.body]
  /\ \E verdict \in BodyVerdicts :
       Answered(m, issued + 1, answer.body, 0, verdict, mainQueue)
  /\ UNCHANGED <<dispatchTable, lastId, networkVars, reachable, accepted>>

LoadUnreachable(m, k, useCache) ==
  /\ NewCall(m, k)
  /\ "noError" \in ParamVerdicts
  /\ CachedAnswer(m, k, useCache) = NoRecord
  /\ LookupDone(m, k, useCache)
  /\ ~reachable
  /\ failed(m, issued + 1, EmptyBody, 0, "noNetwork", mainQueue)
  /\ UNCHANGED <<fetchedRawData, response, dispatchTable, lastId, networkVars,
                 reachable, accepted>>

(* Mutant: each request makes its own session, whatever the service has.    *)
NewTaskIdFresh(m) == 1

(* callApiWithRequest:success:fail: takes the identifier the session gives  *)
(* the task: the next one of the service's session, or the first of a new   *)
(* session.                                                                 *)
NewTaskId(m) ==
  IF SessionOf[m] = NoSession THEN 1 ELSE lastId[SessionOf[m]] + 1

LoadFromNetwork(m, k, useCache) ==
  LET c == issued + 1
      id == NewTaskId(m)
  IN
  /\ NewCall(m, k)
  /\ "noError" \in ParamVerdicts
  /\ CachedAnswer(m, k, useCache) = NoRecord
  /\ LookupDone(m, k, useCache)
  /\ reachable
  /\ loading' = [loading EXCEPT ![m] = TRUE]
  /\ lastId' = [s \in Sessions |-> IF s = SessionOf[m] THEN id ELSE lastId[s]]
  /\ dispatchTable' = [dispatchTable EXCEPT ![id] = c]
  /\ requestIdList' = [requestIdList EXCEPT ![m] = @ \cup {id}]
  /\ taskState' = [taskState EXCEPT ![c] = "running"]
  /\ taskId' = [taskId EXCEPT ![c] = id]
  /\ UNCHANGED <<errorType, errorMessage, fetchedRawData, response, taskResult,
                 cancelRequested, reachable, mainQueue, outcome, accepted>>

----------------------------------------------------------------------------
(* The network, outside src/: a running task finishes in some way, by its   *)
(* own or because it was cancelled, and queues its completion block.  A     *)
(* task that is cancelled may already have its answer.                      *)
TaskFinishes(c) ==
  /\ taskState[c] = "running"
  /\ taskState' = [taskState EXCEPT ![c] = "finished"]
  /\ \E result \in {"ok"} \cup Failures
                   \cup (IF c \in cancelRequested THEN {"cancel"} ELSE {}) :
       taskResult' = [taskResult EXCEPT ![c] = result]
  /\ mainQueue' = Append(mainQueue, [kind |-> "completion", call |-> c])
  /\ UNCHANGED <<managerVars, dispatchTable, lastId, taskId, cancelRequested,
                 reachable, callVars, cacheVars>>

ReachabilityChanges ==
  /\ reachable' = ~reachable
  /\ UNCHANGED <<managerVars, dispatchTable, lastId, networkVars, mainQueue,
                 callVars, cacheVars>>

----------------------------------------------------------------------------
(* The main queue.                                                          *)

(* initWithResponseString:... keeps a nil result as an empty dictionary.  A *)
(* response whose status is an error has a body as well.                    *)
ResponseBody(c) ==
  IF taskResult[c] \in {"ok", "badStatus"} /\ ServiceKeepsBody THEN c
  ELSE EmptyBody

(* Mutant: the status itself is kept as the error type.                     *)
ErrorOfRaw(result) == result

(* The error the fail block of loadDataWithParams: makes of a status.       *)
ErrorOf(result) ==
  CASE result = "cancel" -> "canceled"
    [] result = "timeout" -> "timeout"
    [] OTHER -> "noNetwork"

(* Mutant: responses are saved before the validator has seen them.          *)
SavedUnchecked(m, c, verdict) ==
  /\ memory' = Saved(memory, keyOf[c], ResponseBody(c), MemorySeconds)
  /\ disk' = Saved(disk, keyOf[c], ResponseBody(c), DiskSeconds)
  /\ now' = now

(* Mutant: an entry already on disk is not written again.                   *)
SavedOnce(m, c, verdict) ==
  /\ memory' = IF verdict = "noError"
               THEN Saved(memory, keyOf[c], ResponseBody(c), MemorySeconds)
               ELSE memory
  /\ disk' = IF verdict = "noError" /\ disk[keyOf[c]] = NoRecord
             THEN Saved(disk, keyOf[c], ResponseBody(c), DiskSeconds)
             ELSE disk
  /\ now' = now

SavedToCaches(m, c, verdict) ==
  LET saves(layer) == verdict = "noError" /\ layer \in Policy[m] IN
  /\ memory' = IF saves("memory")
               THEN Saved(memory, keyOf[c], ResponseBody(c), MemorySeconds)
               ELSE memory
  /\ disk' = IF saves("disk")
             THEN Saved(disk, keyOf[c], ResponseBody(c), DiskSeconds)
             ELSE disk
  /\ now' = now

NextBlock(kind) == mainQueue # <<>> /\ Head(mainQueue).kind = kind

(* The completion handler of the task up to the callback it takes.          *)
TaskLeaves(c) ==
  /\ NextBlock("completion") /\ Head(mainQueue).call = c
  /\ taskState' = [taskState EXCEPT ![c] = "done"]
  /\ dispatchTable' = [dispatchTable EXCEPT ![taskId[c]] = 0]

(* Mutant: errors of tasks are swallowed.                                   *)
CompleteIgnoringError(c) ==
  /\ TaskLeaves(c)
  /\ taskResult[c] # "ok"
  /\ mainQueue' = Tail(mainQueue)
  /\ UNCHANGED <<managerVars, lastId, taskId, taskResult, cancelRequested,
                 reachable, callVars, cacheVars>>

CompleteWithError(c) ==
  LET m == owner[c] IN
  /\ TaskLeaves(c)
  /\ taskResult[c] # "ok"
  /\ Received(m, "network", ResponseBody(c))
  /\ failed(m, c, ResponseBody(c), taskId[c], ErrorOf(taskResult[c]),
            Tail(mainQueue))
  /\ UNCHANGED <<fetchedRawData, lastId, taskId, taskResult, cancelRequested,
                 reachable, issued, owner, keyOf, accepted, cacheVars>>

CompleteWithBody(c) ==
  LET m == owner[c] IN
  /\ TaskLeaves(c)
  /\ taskResult[c] = "ok"
  /\ Received(m, "network", ResponseBody(c))
  /\ fetchedRawData' = [fetchedRawData EXCEPT ![m] = ResponseBody(c)]
  /\ \E verdict \in BodyVerdicts :
       /\ Answered(m, c, ResponseBody(c), taskId[c], verdict, Tail(mainQueue))
       /\ SavedToCaches(m, c, verdict)
       /\ accepted' = IF verdict = "noError" THEN accepted \cup {c} ELSE accepted
  /\ UNCHANGED <<lastId, taskId, taskResult, cancelRequested, reachable,
                 issued, owner, keyOf>>

(* The two deferred blocks: the delegate and the manager's block are told,  *)
(* and read whatever the manager holds by now.                              *)
(* Mutant: the block stays on the queue.                                    *)
DeliverAgain(kind, end) ==
  /\ NextBlock(kind)
  /\ outcome' = [outcome EXCEPT ![Head(mainQueue).call] = end]
  /\ UNCHANGED <<mainQueue, managerVars, dispatchTable, lastId, networkVars,
                 reachable, issued, owner, keyOf, accepted, cacheVars>>

DeliverAnswer(kind, end) ==
  /\ NextBlock(kind)
  /\ mainQueue' = Tail(mainQueue)
  /\ outcome' = [outcome EXCEPT ![Head(mainQueue).call] = end]
  /\ UNCHANGED <<managerVars, dispatchTable, lastId, networkVars, reachable,
                 issued, owner, keyOf, accepted, cacheVars>>

DeliverSuccess == DeliverAnswer("success", "told")

(* The interceptor is asked again, and may keep the failure from the        *)
(* delegate; without a failBlock nobody is told then.                       *)
DeliverFail == \E end \in {"told", "withheld"} : DeliverAnswer("fail", end)

----------------------------------------------------------------------------
(* Cancelling, cleaning, restarting.                                        *)

(* cancelRequestWithRequestIDList:, the tasks the table holds under ids.    *)
(* Mutant: the entry stays in the dispatch table.                           *)
CancelIdsKeeping(ids) ==
  /\ cancelRequested' = cancelRequested
                          \cup ({dispatchTable[i] : i \in ids} \ {0})
  /\ UNCHANGED dispatchTable

CancelIds(ids) ==
  /\ cancelRequested' = cancelRequested
                          \cup ({dispatchTable[i] : i \in ids} \ {0})
  /\ dispatchTable' = [i \in Calls |-> IF i \in ids THEN 0 ELSE dispatchTable[i]]

cancelAllRequests(m) ==
  /\ CancelIds(requestIdList[m])
  /\ requestIdList' = [requestIdList EXCEPT ![m] = {}]
  /\ UNCHANGED <<loading, errorType, errorMessage, fetchedRawData, response,
                 lastId, taskState, taskId, taskResult, reachable, mainQueue,
                 callVars, cacheVars>>

(* The app cancels by an identifier that loadData returned to it.           *)
cancelRequestWithRequestId(m, id) ==
  /\ \E c \in 1..issued : owner[c] = m /\ taskId[c] = id
  /\ CancelIds({id})
  /\ requestIdList' = Removed(m, id)
  /\ UNCHANGED <<loading, errorType, errorMessage, fetchedRawData, response,
                 lastId, taskState, taskId, taskResult, reachable, mainQueue,
                 callVars, cacheVars>>

cleanData(m) ==
  /\ Discipline = "serial" => ~Unsettled(m)
  /\ fetchedRawData' = [fetchedRawData EXCEPT ![m] = NotFetched]
  /\ errorType' = [errorType EXCEPT ![m] = "default"]
  /\ UNCHANGED <<requestIdList, loading, errorMessage, response, dispatchTable,
                 lastId, networkVars, reachable, mainQueue, callVars, cacheVars>>

(* The app is killed and started again: only NSUserDefaults survives.       *)
Restart ==
  /\ memory' = EmptyCache
  /\ UNCHANGED <<disk, now, reachable, issued, owner, keyOf, accepted>>
  /\ requestIdList' = [m \in Managers |-> {}]
  /\ loading' = [m \in Managers |-> FALSE]
  /\ errorType' = [m \in Managers |-> "default"]
  /\ errorMessage' = [m \in Managers |-> "none"]
  /\ fetchedRawData' = [m \in Managers |-> NotFetched]
  /\ response' = [m \in Managers |-> NoResponse]
  /\ dispatchTable' = [i \in Calls |-> 0]
  /\ lastId' = [s \in Sessions |-> 0]
  /\ taskState' = [c \in Calls |-> "none"]
  /\ taskId' = [c \in Calls |-> 0]
  /\ taskResult' = [c \in Calls |-> "none"]
  /\ cancelRequested' = {}
  /\ mainQueue' = <<>>
  /\ outcome' = [c \in Calls |-> IF c <= issued /\ outcome[c] = "none"
                                 THEN "lost" ELSE outcome[c]]

CacheStep ==
  /\ CacheNext
  /\ UNCHANGED <<managerVars, dispatchTable, lastId, networkVars, reachable,
                 mainQueue, callVars>>

----------------------------------------------------------------------------
Load(m, k) ==
  \/ LoadRefused(m, k)
  \/ LoadInvalid(m, k)
  \/ LoadFromCache(m, k)
  \/ \E useCache \in BOOLEAN : LoadUnreachable(m, k, useCache)
  \/ \E useCache \in BOOLEAN : LoadFromNetwork(m, k, useCache)

AppStep ==
  \/ \E m \in Managers, k \in Key : Load(m, k)
  \/ \E m \in Managers : cancelAllRequests(m)
  \/ \E m \in Managers, id \in Calls : cancelRequestWithRequestId(m, id)
  \/ \E m \in Managers : cleanData(m)
  \/ Restart

MainQueueStep ==
  \/ \E c \in Calls : CompleteWithError(c)
  \/ \E c \in Calls : CompleteWithBody(c)
  \/ DeliverSuccess
  \/ DeliverFail

Next ==
  \/ AppStep
  \/ MainQueueStep
  \/ \E c \in Calls : TaskFinishes(c)
  \/ ReachabilityChanges
  \/ CacheStep

Spec == Init /\ [][Next]_vars

(* A task always finishes (its session has a timeout), and the main thread  *)
(* keeps serving its queue.                                                 *)
Fairness ==
  /\ WF_vars(MainQueueStep)
  /\ \A c \in Calls : WF_vars(TaskFinishes(c))

FairSpec == Spec /\ Fairness

----------------------------------------------------------------------------
(* What must hold.                                                          *)

InFlight(c) == taskState[c] \in {"running", "finished"}

(* An identifier is in a manager's requestIdList exactly while a task of    *)
(* that manager with that identifier is in flight and not cancelled, and    *)
(* the dispatch table then holds that task: the two books of RCApiProxy and *)
(* RCAPIBaseManager agree.                                                  *)
TrackedIffInFlight ==
  /\ \A m \in Managers, i \in Calls :
       i \in requestIdList[m]
         <=> \E c \in Calls : /\ owner[c] = m /\ taskId[c] = i
                              /\ InFlight(c) /\ c \notin cancelRequested
  /\ \A i, c \in Calls :
       dispatchTable[i] = c
         <=> taskId[c] = i /\ InFlight(c) /\ c \notin cancelRequested

(* A manager that says isLoading has a task of its own whose completion     *)
(* block has not run: no spinner is left behind.                            *)
LoadingMeansInFlight ==
  \A m \in Managers :
    isLoading(m) => \E c \in Calls : owner[c] = m /\ InFlight(c)

(* Every call that has no outcome yet is carried by exactly one thing: a    *)
(* running task, a completion block or an answer block; every other call is *)
(* carried by none.  So no call is forgotten and none is answered twice.    *)
Carriers(c) ==
  {<<"task", c>> : x \in {t \in {c} : taskState[t] = "running"}}
    \cup {<<"block", i>> : i \in {j \in DOMAIN mainQueue : mainQueue[j].call = c}}

EveryCallCarried ==
  \A c \in Calls :
    IF c <= issued /\ outcome[c] = "none"
    THEN \E x \in Carriers(c) : Carriers(c) = {x}
    ELSE Carriers(c) = {}

(* What the caches hold under a key is a body the server sent to a call for *)
(* that key and a validator accepted.                                       *)
CacheHoldsAccepted ==
  \A k \in Key, cache \in {memory, disk} :
    cache[k] # NoRecord /\ cache[k].body # EmptyBody
      => cache[k].body \in accepted /\ keyOf[cache[k].body] = k

(* When every manager saves to both layers, the layers never hold different *)
(* bodies under one key, whatever expires, is evicted or survives a restart.*)
LayersAgree ==
  \A k \in Key :
    memory[k] # NoRecord /\ disk[k] # NoRecord => memory[k].body = disk[k].body

(* Cancelling the requests of one manager never cancels another manager's   *)
(* task (cancelRequestWithRequestID: looks tasks up by identifier only).    *)
CancelsOnlyOwn ==
  [][\A m \in Managers : cancelAllRequests(m)
       => \A c \in cancelRequested' \ cancelRequested : owner[c] = m]_vars

(* The manager's data is that of the call a success block answers.          *)
UsableFor(c) ==
  LET m == owner[c] IN
  /\ errorType[m] = "success"
  /\ fetchedRawData[m] = response[m].body
  /\ response[m].from = "network" => fetchedRawData[m] = ResponseBody(c)
  /\ response[m].from = "cache" =>
       fetchedRawData[m] = EmptyBody \/ keyOf[fetchedRawData[m]] = keyOf[c]

(* An app that waits for the answer to a call before it uses the manager    *)
(* again finds, in managerCallAPIDidSuccess:, that call's data and Success. *)
SuccessShowsItsCall ==
  \A i \in DOMAIN mainQueue :
    mainQueue[i].kind = "success" => UsableFor(mainQueue[i].call)

(* RCNetworkingDefines.h: when a manager is told of success its errorType   *)
(* is Success and its data can be used.                                     *)
SuccessMeansUsable ==
  [][DeliverSuccess => UsableFor(Head(mainQueue).call)]_vars

(* Does a success block for c wait on the queue?                            *)
Succeeding(q, c) == \E i \in DOMAIN q : q[i].kind = "success" /\ q[i].call = c

(* The contract of one call, which the code implements.                     *)
Phase(c) ==
  IF c > issued THEN "unused"
  ELSE IF outcome[c] # "none" THEN outcome[c]
  ELSE IF InFlight(c) THEN "pending"
  ELSE IF Succeeding(mainQueue, c) THEN "succeeding"
  ELSE "failing"

Contract == INSTANCE RCCallContract WITH phase <- [c \in Calls |-> Phase(c)]

(* Every call goes through the phases of the contract and is settled, once. *)
ImplementsContract == Contract!FairSpec
=============================================================================
