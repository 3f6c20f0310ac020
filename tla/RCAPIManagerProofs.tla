------------------------- MODULE RCAPIManagerProofs -------------------------
(***************************************************************************)
(* What holds of RCAPIManager for every set of managers, keys and sessions *)
(* and every bound: its types, and what its books of requests say.         *)
(***************************************************************************)
EXTENDS RCAPIManager, TLAPS

(* Task identifiers stay within the bound because a session never hands out *)
(* more of them than there were calls.                                      *)
IdsBounded == \A s \in Sessions : lastId[s] <= issued

TypeInv == TypeOK /\ IdsBounded

CallTypes ==
  /\ loading' \in [Managers -> BOOLEAN]
  /\ errorType' \in [Managers -> ErrorType]
  /\ errorMessage' \in [Managers -> ErrorType \cup {"none"}]
  /\ requestIdList' \in [Managers -> SUBSET Calls]
  /\ mainQueue' \in Seq(Block)
  /\ outcome' \in [Calls -> Outcome]

(* A block appended to a queue of blocks leaves a queue of blocks.          *)
LEMMA BlockQueued ==
  ASSUME NEW q \in Seq(Block), NEW c \in Calls,
         NEW kind \in {"completion", "success", "fail"}
  PROVE  Append(q, [kind |-> kind, call |-> c]) \in Seq(Block)
<1>1. [kind |-> kind, call |-> c] \in Block
  BY DEF Block
<1>2. \A b \in Block : Append(q, b) \in Seq(Block)
  OBVIOUS
<1> QED BY <1>1, <1>2

(* failedOnCallingAPI: keeps the types of what it writes.                   *)
LEMMA FailedTypes ==
  ASSUME TypeOK, NEW m, NEW c \in Calls, NEW body, NEW id,
         NEW e \in ErrorType, NEW q \in Seq(Block), failed(m, c, body, id, e, q)
  PROVE  CallTypes
<1>1. loading' \in [Managers -> BOOLEAN]
  BY DEF failed, TypeOK
<1>2. errorType' \in [Managers -> ErrorType]
  BY DEF failed, TypeOK
<1>3. requestIdList' \in [Managers -> SUBSET Calls]
  BY DEF failed, TypeOK, Removed
<1>4. /\ errorMessage' \in [Managers -> ErrorType \cup {"none"}]
      /\ mainQueue' \in Seq(Block)
      /\ outcome' \in [Calls -> Outcome]
  <2>1. Append(q, [kind |-> "fail", call |-> c]) \in Seq(Block)
    BY BlockQueued
  <2>2. CASE /\ errorMessage' = IF e \in Messaged
                                THEN [errorMessage EXCEPT ![m] = e]
                                ELSE errorMessage
             /\ mainQueue' = Append(q, [kind |-> "fail", call |-> c])
             /\ outcome' = outcome
    BY <2>1, <2>2 DEF TypeOK
  <2>3. CASE /\ mainQueue' = q
             /\ outcome' = [outcome EXCEPT ![c] = "handedOver"]
             /\ errorMessage' = errorMessage
    BY <2>3 DEF TypeOK, Outcome
  <2> QED BY <2>2, <2>3 DEF failed
<1> QED BY <1>1, <1>2, <1>3, <1>4 DEF CallTypes

(* successedOnCallingAPI: keeps the types of what it writes.                *)
LEMMA AnsweredTypes ==
  ASSUME TypeOK, NEW m, NEW c \in Calls, NEW body, NEW id,
         NEW verdict \in ErrorType, NEW q \in Seq(Block),
         Answered(m, c, body, id, verdict, q)
  PROVE  CallTypes
<1>1. CASE verdict # "noError"
  BY <1>1, FailedTypes DEF Answered
<1>2. CASE verdict = "noError"
  <2>1. succeeded(m, c, id, q)
    BY <1>2 DEF Answered
  <2>2. Append(q, [kind |-> "success", call |-> c]) \in Seq(Block)
    BY BlockQueued
  <2>3. mainQueue' \in Seq(Block) /\ outcome' \in [Calls -> Outcome]
    BY <2>1, <2>2 DEF succeeded, TypeOK, Outcome
  <2>4. /\ loading' \in [Managers -> BOOLEAN]
        /\ errorType' \in [Managers -> ErrorType]
        /\ errorMessage' \in [Managers -> ErrorType \cup {"none"}]
    BY <2>1 DEF succeeded, TypeOK, ErrorType
  <2>5. requestIdList' \in [Managers -> SUBSET Calls]
    BY <2>1 DEF succeeded, TypeOK, Removed
  <2> QED BY <2>3, <2>4, <2>5 DEF CallTypes
<1> QED BY <1>1, <1>2

(* Looking a key up keeps the caches well typed, and what it finds is a     *)
(* record.                                                                  *)
LEMMA LookupTypes ==
  ASSUME CacheTypeOK, NEW m, NEW k \in Key, NEW useCache
  PROVE  /\ LookupDone(m, k, useCache) => CacheTypeOK'
         /\ CachedAnswer(m, k, useCache) \in Record \cup {NoRecord}
<1>1. /\ FetchMemory(k) \in Record \cup {NoRecord}
      /\ FetchDisk(k) \in Record \cup {NoRecord}
  BY DEF CacheTypeOK, FetchMemory, FetchDisk
<1>2. /\ MemoryAfterFetch(k) \in [Key -> Record \cup {NoRecord}]
      /\ DiskAfterFetch(k) \in [Key -> Record \cup {NoRecord}]
  BY <1>1 DEF CacheTypeOK, MemoryAfterFetch, DiskAfterFetch
<1> QED BY <1>1, <1>2 DEF LookupDone, CachedAnswer, MemoryAnswer, CacheTypeOK

(* Numbering a call.                                                        *)
LEMMA NewCallTypes ==
  ASSUME TypeOK, NEW m \in Managers, NEW k \in Key, NewCall(m, k)
  PROVE  /\ issued + 1 \in Calls /\ issued' = issued + 1
         /\ issued' \in 0..MaxCalls
         /\ owner' \in [Calls -> Managers \cup {NoManager}]
         /\ keyOf' \in [Calls -> Key \cup {NoKey}]
<1>1. issued \in 0..MaxCalls /\ issued < MaxCalls /\ issued' = issued + 1
  BY DEF NewCall, TypeOK
<1>2. issued + 1 \in Calls /\ issued' \in 0..MaxCalls
  BY <1>1, ManagerAssumption DEF Calls
<1>3. /\ owner' \in [Calls -> Managers \cup {NoManager}]
      /\ keyOf' \in [Calls -> Key \cup {NoKey}]
  BY DEF NewCall, TypeOK
<1> QED BY <1>1, <1>2, <1>3

(* The actions of loadDataWithParams: keep the types.                       *)
LEMMA LoadTypes ==
  ASSUME TypeInv, NEW m \in Managers, NEW k \in Key, Load(m, k)
  PROVE  TypeInv'
<1> USE DEF TypeInv
<1>0. Body = 0..MaxCalls /\ EmptyBody \in Body
  BY ManagerAssumption DEF EmptyBody
<1>1. ASSUME NewCall(m, k), lastId' = lastId, TypeOK'
      PROVE  TypeInv'
  BY <1>1, NewCallTypes DEF IdsBounded, TypeOK
<1>2. CASE LoadRefused(m, k)
  <2>1. NewCall(m, k) /\ lastId' = lastId
    BY <1>2 DEF LoadRefused
  <2>2. outcome' \in [Calls -> Outcome]
    BY <1>2, <2>1, NewCallTypes DEF LoadRefused, TypeOK, Outcome
  <2>3. TypeOK'
    BY <1>2, <2>1, <2>2, NewCallTypes
       DEF LoadRefused, TypeOK, CacheTypeOK, managerVars, networkVars, cacheVars
  <2> QED BY <2>1, <2>3, <1>1
<1>3. CASE LoadInvalid(m, k)
  <2>1. NewCall(m, k) /\ lastId' = lastId
    BY <1>3 DEF LoadInvalid
  <2>2. PICK verdict \in ParamVerdicts :
          failed(m, issued + 1, EmptyBody, 0, verdict, mainQueue)
    BY <1>3 DEF LoadInvalid
  <2>3. verdict \in ErrorType /\ mainQueue \in Seq(Block)
    BY ManagerAssumption DEF TypeOK
  <2>4. CallTypes
    BY <2>1, <2>2, <2>3, NewCallTypes, FailedTypes
  <2>5. TypeOK'
    BY <1>3, <2>1, <2>4, NewCallTypes
       DEF LoadInvalid, TypeOK, CacheTypeOK, CallTypes, networkVars, cacheVars
  <2> QED BY <2>1, <2>5, <1>1
<1>4. CASE LoadFromCache(m, k)
  <2> DEFINE answer == CachedAnswer(m, k, TRUE)
  <2>1. NewCall(m, k) /\ lastId' = lastId
    BY <1>4 DEF LoadFromCache
  <2>2. CacheTypeOK' /\ answer \in Record
    BY <1>4, LookupTypes DEF LoadFromCache, TypeOK
  <2>3. answer.body \in Body
    BY <2>2 DEF Record
  <2>4. PICK verdict \in BodyVerdicts :
          Answered(m, issued + 1, answer.body, 0, verdict, mainQueue)
    BY <1>4 DEF LoadFromCache
  <2>5. verdict \in ErrorType /\ mainQueue \in Seq(Block)
    BY ManagerAssumption DEF TypeOK
  <2>6. CallTypes
    BY <2>1, <2>4, <2>5, NewCallTypes, AnsweredTypes
  <2>7. /\ response' \in [Managers -> Response]
        /\ fetchedRawData' \in [Managers -> Body \cup {NotFetched}]
    BY <1>4, <2>3 DEF LoadFromCache, Received, Response, TypeOK
  <2>8. TypeOK'
    BY <1>4, <2>1, <2>2, <2>6, <2>7, NewCallTypes
       DEF LoadFromCache, TypeOK, CallTypes, networkVars
  <2> QED BY <2>1, <2>8, <1>1
<1>5. ASSUME NEW useCache \in BOOLEAN, LoadUnreachable(m, k, useCache)
      PROVE  TypeInv'
  <2>1. NewCall(m, k) /\ lastId' = lastId
    BY <1>5 DEF LoadUnreachable
  <2>2. CacheTypeOK'
    BY <1>5, LookupTypes DEF LoadUnreachable, TypeOK
  <2>3. "noNetwork" \in ErrorType /\ mainQueue \in Seq(Block)
    BY DEF ErrorType, TypeOK
  <2>4. CallTypes
    BY <1>5, <2>1, <2>3, NewCallTypes, FailedTypes DEF LoadUnreachable
  <2>5. TypeOK'
    BY <1>5, <2>1, <2>2, <2>4, NewCallTypes
       DEF LoadUnreachable, TypeOK, CallTypes, networkVars
  <2> QED BY <2>1, <2>5, <1>1
<1>6. ASSUME NEW useCache \in BOOLEAN, LoadFromNetwork(m, k, useCache)
      PROVE  TypeInv'
  <2> DEFINE id == NewTaskId(m)
             c == issued + 1
  <2>1. NewCall(m, k)
    BY <1>6 DEF LoadFromNetwork
  <2>2. CacheTypeOK'
    BY <1>6, LookupTypes DEF LoadFromNetwork, TypeOK
  <2>3. issued \in Nat /\ c \in Calls /\ issued' = c
    BY <2>1, NewCallTypes DEF TypeOK
  <2>4. id \in Calls /\ id <= c
    <3>1. CASE SessionOf[m] = NoSession
      BY <2>3, <3>1, ManagerAssumption DEF NewTaskId, Calls
    <3>2. CASE SessionOf[m] # NoSession
      <4>1. SessionOf[m] \in Sessions
        BY <3>2, ManagerAssumption
      <4>2. lastId[SessionOf[m]] \in Nat /\ lastId[SessionOf[m]] <= issued
        BY <4>1 DEF IdsBounded, TypeOK
      <4> QED BY <2>3, <3>2, <4>2, ManagerAssumption DEF NewTaskId, Calls
    <3> QED BY <3>1, <3>2
  <2>5. lastId' \in [Sessions -> 0..MaxCalls] /\ IdsBounded'
    <3>1. lastId' = [s \in Sessions |-> IF s = SessionOf[m] THEN id ELSE lastId[s]]
      BY <1>6 DEF LoadFromNetwork
    <3>2. \A s \in Sessions : lastId[s] \in 0..MaxCalls /\ lastId[s] <= issued
      BY DEF IdsBounded, TypeOK
    <3> HIDE DEF id
    <3> QED BY <3>1, <3>2, <2>3, <2>4, ManagerAssumption DEF IdsBounded, Calls
  <2>6. /\ dispatchTable' \in [Calls -> Calls \cup {0}]
        /\ requestIdList' \in [Managers -> SUBSET Calls]
        /\ taskId' \in [Calls -> 0..MaxCalls]
        /\ taskState' \in [Calls -> TaskState]
        /\ loading' \in [Managers -> BOOLEAN]
    <3>1. id \in 0..MaxCalls
      BY <2>4, ManagerAssumption DEF Calls
    <3>2. /\ dispatchTable' = [dispatchTable EXCEPT ![id] = c]
          /\ requestIdList' = [requestIdList EXCEPT ![m] = @ \cup {id}]
          /\ taskId' = [taskId EXCEPT ![c] = id]
          /\ taskState' = [taskState EXCEPT ![c] = "running"]
          /\ loading' = [loading EXCEPT ![m] = TRUE]
      BY <1>6 DEF LoadFromNetwork
    <3> HIDE DEF id, c
    <3> QED BY <2>3, <2>4, <3>1, <3>2 DEF TypeOK, TaskState
  <2>7. TypeOK'
    <3> HIDE DEF id, c
    <3> QED BY <1>6, <2>1, <2>2, <2>5, <2>6, NewCallTypes
            DEF LoadFromNetwork, TypeOK
  <2> QED BY <2>5, <2>7
<1> QED BY <1>2, <1>3, <1>4, <1>5, <1>6 DEF Load

(* The next block of the main queue is a block, and the rest a queue.       *)
LEMMA NextBlockTypes ==
  ASSUME TypeOK, NEW kind, NextBlock(kind)
  PROVE  Head(mainQueue) \in Block /\ Tail(mainQueue) \in Seq(Block)
<1>1. mainQueue \in Seq(Block) /\ mainQueue # <<>>
  BY DEF NextBlock, TypeOK
<1> HIDE DEF Block
<1> QED BY <1>1

(* The main queue keeps the types.                                          *)
LEMMA MainQueueTypes ==
  ASSUME TypeInv, MainQueueStep
  PROVE  TypeInv'
<1> USE DEF TypeInv
<1>0. Body = 0..MaxCalls /\ EmptyBody \in Body
  BY ManagerAssumption DEF EmptyBody
<1>1. ASSUME lastId' = lastId, issued' = issued, TypeOK'
      PROVE  TypeInv'
  BY <1>1 DEF IdsBounded
<1>2. ASSUME NEW c \in Calls, TaskLeaves(c)
      PROVE  /\ Tail(mainQueue) \in Seq(Block)
             /\ taskState' \in [Calls -> TaskState]
             /\ dispatchTable' \in [Calls -> Calls \cup {0}]
  BY <1>2, NextBlockTypes DEF TaskLeaves, TypeOK, TaskState
<1>3. ASSUME NEW c \in Calls, CompleteWithError(c)
      PROVE  TypeInv'
  <2>1. TaskLeaves(c)
    BY <1>3 DEF CompleteWithError
  <2>2. ErrorOf(taskResult[c]) \in ErrorType
    BY DEF ErrorOf, ErrorType
  <2>3. CallTypes
    BY <1>2, <1>3, <2>1, <2>2, FailedTypes DEF CompleteWithError
  <2>4. response' \in [Managers -> Response]
    <3>1. ResponseBody(c) \in Body
      BY <1>0 DEF ResponseBody, Calls
    <3> QED BY <1>3, <3>1 DEF CompleteWithError, Received, Response, TypeOK
  <2>5. TypeOK'
    BY <1>2, <1>3, <2>1, <2>3, <2>4
       DEF CompleteWithError, TypeOK, CacheTypeOK, CallTypes, cacheVars
  <2> QED BY <1>1, <1>3, <2>5 DEF CompleteWithError
<1>4. ASSUME NEW c \in Calls, CompleteWithBody(c)
      PROVE  TypeInv'
  <2>1. TaskLeaves(c)
    BY <1>4 DEF CompleteWithBody
  <2>2. PICK verdict \in BodyVerdicts :
          /\ Answered(owner[c], c, ResponseBody(c), taskId[c], verdict,
                      Tail(mainQueue))
          /\ SavedToCaches(owner[c], c, verdict)
          /\ accepted' = IF verdict = "noError" THEN accepted \cup {c}
                         ELSE accepted
    BY <1>4 DEF CompleteWithBody
  <2>3. verdict \in ErrorType
    BY ManagerAssumption
  <2>4. CallTypes
    BY <1>2, <2>1, <2>2, <2>3, AnsweredTypes
  <2>5. ResponseBody(c) \in Body
    BY <1>0 DEF ResponseBody, Calls
  <2>6. CacheTypeOK'
    <3>1. [body |-> ResponseBody(c), savedAt |-> now, cacheTime |-> MemorySeconds]
            \in Record
      BY <2>5, ManagerAssumption DEF Record, TypeOK, CacheTypeOK
    <3>2. [body |-> ResponseBody(c), savedAt |-> now, cacheTime |-> DiskSeconds]
            \in Record
      BY <2>5, ManagerAssumption DEF Record, TypeOK, CacheTypeOK
    <3> HIDE DEF Record
    <3> QED BY <2>2, <3>1, <3>2 DEF SavedToCaches, Saved, TypeOK, CacheTypeOK
  <2>7. /\ response' \in [Managers -> Response]
        /\ fetchedRawData' \in [Managers -> Body \cup {NotFetched}]
    BY <1>4, <2>5 DEF CompleteWithBody, Received, Response, TypeOK
  <2>8. TypeOK'
    BY <1>2, <1>4, <2>1, <2>2, <2>4, <2>6, <2>7
       DEF CompleteWithBody, TypeOK, CallTypes
  <2> QED BY <1>1, <1>4, <2>8 DEF CompleteWithBody
<1>5. ASSUME NEW kind, NEW end \in Outcome, DeliverAnswer(kind, end)
      PROVE  TypeInv'
  <2>1. Tail(mainQueue) \in Seq(Block)
    BY <1>5, NextBlockTypes DEF DeliverAnswer
  <2>2. outcome' \in [Calls -> Outcome]
    BY <1>5 DEF DeliverAnswer, TypeOK
  <2>3. TypeOK'
    BY <1>5, <2>1, <2>2
       DEF DeliverAnswer, TypeOK, CacheTypeOK, managerVars, networkVars, cacheVars
  <2> QED BY <1>1, <1>5, <2>3 DEF DeliverAnswer
<1> QED BY <1>3, <1>4, <1>5 DEF MainQueueStep, DeliverSuccess, DeliverFail, Outcome

(* So do cancelling, cleaning, restarting, the network and the caches.      *)
LEMMA OtherTypes ==
  ASSUME TypeInv,
         \/ \E m \in Managers : cancelAllRequests(m)
         \/ \E m \in Managers, id \in Calls : cancelRequestWithRequestId(m, id)
         \/ \E m \in Managers : cleanData(m)
         \/ Restart
         \/ \E c \in Calls : TaskFinishes(c)
         \/ ReachabilityChanges
         \/ CacheStep
         \/ UNCHANGED vars
  PROVE  TypeInv'
<1> USE DEF TypeInv
<1>1. ASSUME lastId' = lastId, issued' = issued, TypeOK'
      PROVE  TypeInv'
  BY <1>1 DEF IdsBounded
<1>2. ASSUME NEW ids \in SUBSET Calls, CancelIds(ids)
      PROVE  /\ cancelRequested' \in SUBSET Calls
             /\ dispatchTable' \in [Calls -> Calls \cup {0}]
  BY <1>2 DEF CancelIds, TypeOK
<1>3. ASSUME NEW m \in Managers, cancelAllRequests(m)
      PROVE  TypeInv'
  <2>1. requestIdList[m] \in SUBSET Calls
    BY DEF TypeOK
  <2>2. TypeOK'
    BY <1>2, <1>3, <2>1
       DEF cancelAllRequests, TypeOK, CacheTypeOK, callVars, cacheVars
  <2> QED BY <1>1, <1>3, <2>2 DEF cancelAllRequests, callVars
<1>4. ASSUME NEW m \in Managers, NEW id \in Calls,
             cancelRequestWithRequestId(m, id)
      PROVE  TypeInv'
  <2>1. TypeOK'
    BY <1>2, <1>4
       DEF cancelRequestWithRequestId, Removed, TypeOK, CacheTypeOK, callVars,
           cacheVars
  <2> QED BY <1>1, <1>4, <2>1 DEF cancelRequestWithRequestId, callVars
<1>5. ASSUME NEW m \in Managers, cleanData(m)
      PROVE  TypeInv'
  <2>1. TypeOK'
    BY <1>5 DEF cleanData, TypeOK, CacheTypeOK, ErrorType, networkVars, callVars,
                cacheVars
  <2> QED BY <1>1, <1>5, <2>1 DEF cleanData, callVars
<1>6. CASE Restart
  <2>1. CacheTypeOK'
    BY <1>6 DEF Restart, TypeOK, CacheTypeOK, EmptyCache
  <2>2. /\ NoResponse \in Response /\ "default" \in ErrorType
        /\ <<>> \in Seq(Block) /\ 0 \in 0..MaxCalls
    BY ManagerAssumption DEF NoResponse, Response, EmptyBody, ErrorType
  <2>3. outcome' \in [Calls -> Outcome]
    BY <1>6 DEF Restart, TypeOK, Outcome
  <2>4. TypeOK'
    <3> HIDE DEF ErrorType, Response, NoResponse, Block
    <3> QED BY <1>6, <2>1, <2>2, <2>3 DEF Restart, TypeOK, TaskState
  <2>5. IdsBounded'
    BY <1>6 DEF Restart, IdsBounded, TypeOK
  <2> QED BY <2>4, <2>5
<1>7. ASSUME NEW c \in Calls, TaskFinishes(c)
      PROVE  TypeInv'
  <2>1. mainQueue' \in Seq(Block)
    BY <1>7, BlockQueued DEF TaskFinishes, TypeOK
  <2>2. /\ taskState' \in [Calls -> TaskState]
        /\ taskResult' \in [Calls -> {"none", "ok", "cancel"} \cup Failures]
    BY <1>7 DEF TaskFinishes, TypeOK, TaskState
  <2>3. TypeOK'
    BY <1>7, <2>1, <2>2
       DEF TaskFinishes, TypeOK, CacheTypeOK, managerVars, callVars, cacheVars
  <2> QED BY <1>1, <1>7, <2>3 DEF TaskFinishes, callVars
<1>8. CASE ReachabilityChanges
  <2>1. TypeOK'
    BY <1>8 DEF ReachabilityChanges, TypeOK, CacheTypeOK, managerVars,
                networkVars, callVars, cacheVars
  <2> QED BY <1>1, <1>8, <2>1 DEF ReachabilityChanges, callVars
<1>9. CASE CacheStep
  <2>1. CacheTypeOK'
    <3>1. EmptyCache \in [Key -> Record \cup {NoRecord}]
      BY DEF EmptyCache
    <3>2. ASSUME NEW k \in Key, Evict(k) PROVE CacheTypeOK'
      BY <3>2 DEF Evict, TypeOK, CacheTypeOK
    <3>3. CASE Tick
      BY <3>3, CacheAssumption DEF Tick, TypeOK, CacheTypeOK
    <3>4. CASE cleanAllMemoryCache \/ cleanAllDiskCache
      BY <3>1, <3>4
         DEF cleanAllMemoryCache, cleanAllDiskCache, TypeOK, CacheTypeOK
    <3> QED BY <1>9, <3>2, <3>3, <3>4 DEF CacheStep, CacheNext
  <2>2. TypeOK'
    BY <1>9, <2>1 DEF CacheStep, TypeOK, managerVars, networkVars, callVars
  <2> QED BY <1>1, <1>9, <2>2 DEF CacheStep, callVars
<1>10. CASE UNCHANGED vars
  <2>1. TypeOK'
    BY <1>10 DEF vars, TypeOK, CacheTypeOK, managerVars, networkVars, callVars,
                 cacheVars
  <2> QED BY <1>1, <1>10, <2>1 DEF vars, callVars
<1> QED BY <1>3, <1>4, <1>5, <1>6, <1>7, <1>8, <1>9, <1>10

LEMMA TypeInvInit == Init => TypeInv
<1> SUFFICES ASSUME Init PROVE TypeInv
  OBVIOUS
<1>1. CacheTypeOK
  BY CacheAssumption DEF Init, CacheInit, CacheTypeOK, EmptyCache
<1>2. /\ NoResponse \in Response /\ "default" \in ErrorType
      /\ <<>> \in Seq(Block) /\ 0 \in 0..MaxCalls
  BY ManagerAssumption DEF NoResponse, Response, EmptyBody, ErrorType
<1>3. TypeOK
  <2> HIDE DEF ErrorType, Response, NoResponse, Block
  <2> QED BY <1>1, <1>2 DEF Init, TypeOK, TaskState, Outcome
<1> QED BY <1>3 DEF TypeInv, IdsBounded, Init

LEMMA TypeInvNext == TypeInv /\ [Next]_vars => TypeInv'
BY LoadTypes, MainQueueTypes, OtherTypes DEF Next, AppStep

(* Every variable keeps its type: in particular an identifier is always in  *)
(* range, so a task is always found under the number it was stored at.      *)
THEOREM TypeCorrect == Spec => []TypeOK
<1>1. TypeInv => TypeOK
  BY DEF TypeInv
<1> QED BY TypeInvInit, TypeInvNext, <1>1, PTL DEF Spec

----------------------------------------------------------------------------
(* The two books of requests, RCApiProxy's dispatchTable and each manager's *)
(* requestIdList, agree with each other and with the network, as long as    *)
(* every service hands out the same session.  The argument: identifiers of  *)
(* one session are distinct, a task has at most one completion block, and   *)
(* that block removes the task from both books in one turn of the main      *)
(* queue.                                                                   *)

SingleSession == \E s \in Sessions : \A m \in Managers : SessionOf[m] = s

(* A task belongs to a numbered call and has an identifier its session has  *)
(* handed out; only tasks have identifiers and are ever cancelled.          *)
TasksKnown ==
  \A c \in Calls :
    /\ taskState[c] # "none" =>
         /\ c <= issued /\ owner[c] \in Managers /\ taskId[c] \in Calls
         /\ \A s \in Sessions : taskId[c] <= lastId[s] \/ s # SessionOf[owner[c]]
    /\ c \in cancelRequested \/ taskId[c] # 0 => taskState[c] # "none"

IdsDistinct ==
  \A c, d \in Calls :
    taskState[c] # "none" /\ taskState[d] # "none" /\ taskId[c] = taskId[d]
      => c = d

(* Completion blocks are those of finished tasks, one each.                 *)
QueueOK(q, state) ==
  \A i \in DOMAIN q :
    q[i].kind = "completion" =>
      /\ state[q[i].call] = "finished"
      /\ \A j \in DOMAIN q :
           q[j].kind = "completion" /\ q[j].call = q[i].call => j = i

BooksInv ==
  /\ TypeInv
  /\ TasksKnown
  /\ IdsDistinct
  /\ QueueOK(mainQueue, taskState)
  /\ TrackedIffInFlight

----------------------------------------------------------------------------
(* The main queue: what each way of changing it does to QueueOK.            *)

LEMMA QueuedCalls ==
  ASSUME NEW q \in Seq(Block), NEW i \in DOMAIN q
  PROVE  q[i].call \in Calls
<1>1. q[i] \in Block
  <2> HIDE DEF Block
  <2> QED OBVIOUS
<1> QED BY <1>1 DEF Block

LEMMA QueueGrows ==
  ASSUME NEW q \in Seq(Block), NEW state, QueueOK(q, state),
         NEW b \in Block, b.kind # "completion"
  PROVE  QueueOK(Append(q, b), state)
<1> DEFINE r == Append(q, b)
<1>1. /\ DOMAIN r = 1..(Len(q) + 1) /\ DOMAIN q = 1..Len(q) /\ Len(q) \in Nat
      /\ \A i \in 1..Len(q) : r[i] = q[i]
      /\ r[Len(q) + 1] = b
  OBVIOUS
<1> HIDE DEF r
<1>2. QueueOK(r, state)
  BY <1>1 DEF QueueOK
<1> QED BY <1>2 DEF r

LEMMA QueueShrinks ==
  ASSUME NEW q \in Seq(Block), NEW state \in [Calls -> TaskState],
         QueueOK(q, state), q # <<>>
  PROVE  /\ QueueOK(Tail(q), state)
         /\ Head(q).kind = "completion" =>
              QueueOK(Tail(q), [state EXCEPT ![Head(q).call] = "done"])
<1> DEFINE r == Tail(q)
<1>1. /\ DOMAIN r = 1..(Len(q) - 1) /\ DOMAIN q = 1..Len(q) /\ Len(q) \in Nat \ {0}
      /\ \A i \in 1..(Len(q) - 1) : r[i] = q[i + 1]
      /\ Head(q) = q[1]
  OBVIOUS
<1>2. \A i \in DOMAIN q : q[i].call \in Calls
  BY QueuedCalls
<1> HIDE DEF r
<1>3. QueueOK(r, state)
  <2>1. ASSUME NEW i \in DOMAIN r
        PROVE  i \in Nat /\ i + 1 \in DOMAIN q /\ r[i] = q[i + 1]
    BY <1>1
  <2>2. ASSUME NEW i \in DOMAIN r, r[i].kind = "completion"
        PROVE  /\ state[r[i].call] = "finished"
               /\ \A j \in DOMAIN r :
                    r[j].kind = "completion" /\ r[j].call = r[i].call => j = i
    BY <2>1, <2>2 DEF QueueOK
  <2> QED BY <2>2 DEF QueueOK
<1>4. ASSUME q[1].kind = "completion"
      PROVE  QueueOK(r, [state EXCEPT ![q[1].call] = "done"])
  <2>1. ASSUME NEW i \in DOMAIN r, r[i].kind = "completion"
        PROVE  /\ r[i].call # q[1].call /\ r[i].call \in Calls
               /\ state[r[i].call] = "finished"
    BY <1>1, <1>2, <1>4, <2>1 DEF QueueOK
  <2> QED BY <1>3, <2>1 DEF QueueOK
<1> QED BY <1>1, <1>3, <1>4 DEF r

LEMMA QueueFinishes ==
  ASSUME NEW q \in Seq(Block), NEW state \in [Calls -> TaskState],
         QueueOK(q, state), NEW c \in Calls, state[c] = "running"
  PROVE  QueueOK(Append(q, [kind |-> "completion", call |-> c]),
                 [state EXCEPT ![c] = "finished"])
<1> DEFINE b == [kind |-> "completion", call |-> c]
           r == Append(q, b)
           t == [state EXCEPT ![c] = "finished"]
<1>1. b \in Block /\ b.call = c
  BY DEF Block
<1> HIDE DEF b
<1>2. /\ DOMAIN r = 1..(Len(q) + 1) /\ DOMAIN q = 1..Len(q) /\ Len(q) \in Nat
      /\ \A i \in 1..Len(q) : r[i] = q[i]
      /\ r[Len(q) + 1] = b
  BY <1>1
<1>3. \A i \in DOMAIN q : q[i].call \in Calls
  BY QueuedCalls
<1>4. \A i \in DOMAIN q : q[i].kind = "completion" => q[i].call # c
  BY DEF QueueOK
<1>5. t[c] = "finished" /\ \A d \in Calls : d # c => t[d] = state[d]
  OBVIOUS
<1> HIDE DEF r, t
<1>6. QueueOK(r, t)
  BY <1>1, <1>2, <1>3, <1>4, <1>5 DEF QueueOK
<1> QED BY <1>6 DEF r, t, b

LEMMA QueueStarts ==
  ASSUME NEW q \in Seq(Block), NEW state \in [Calls -> TaskState],
         QueueOK(q, state), NEW c \in Calls, state[c] = "none"
  PROVE  QueueOK(q, [state EXCEPT ![c] = "running"])
<1>1. \A i \in DOMAIN q : q[i].call \in Calls
  BY QueuedCalls
<1> QED BY <1>1 DEF QueueOK

(* Both callbacks leave the queue they are given, or add an answer block,   *)
(* and drop the identifier they are given.                                  *)
LEMMA CallbackEffect ==
  ASSUME NEW m, NEW c \in Calls, NEW body, NEW id, NEW verdict,
         NEW q \in Seq(Block), NEW state, QueueOK(q, state),
         \/ Answered(m, c, body, id, verdict, q)
         \/ failed(m, c, body, id, verdict, q)
  PROVE  QueueOK(mainQueue', state) /\ requestIdList' = Removed(m, id)
<1>1. \A kind \in {"success", "fail"} :
        /\ [kind |-> kind, call |-> c] \in Block
        /\ [kind |-> kind, call |-> c].kind # "completion"
  BY DEF Block
<1>2. \A kind \in {"success", "fail"} :
        QueueOK(Append(q, [kind |-> kind, call |-> c]), state)
  BY <1>1, QueueGrows
<1>3. CASE failed(m, c, body, id, verdict, q)
  BY <1>2, <1>3 DEF failed
<1>4. CASE succeeded(m, c, id, q)
  BY <1>2, <1>4 DEF succeeded
<1> QED BY <1>3, <1>4 DEF Answered

----------------------------------------------------------------------------
LEMMA BooksInit == Init => BooksInv
<1> SUFFICES ASSUME Init PROVE BooksInv
  OBVIOUS
<1>1. TasksKnown /\ IdsDistinct
  BY DEF Init, TasksKnown, IdsDistinct
<1>2. QueueOK(mainQueue, taskState)
  BY DEF Init, QueueOK
<1>3. TrackedIffInFlight
  BY DEF Init, TrackedIffInFlight, InFlight, Calls
<1> QED BY <1>1, <1>2, <1>3, TypeInvInit DEF BooksInv

(* A call that makes no task leaves the books alone.                        *)
LEMMA CallWithoutTask ==
  ASSUME BooksInv, NEW m \in Managers, NEW k \in Key, NewCall(m, k),
         requestIdList' = Removed(m, 0) \/ requestIdList' = requestIdList,
         UNCHANGED <<dispatchTable, lastId, networkVars>>,
         QueueOK(mainQueue', taskState), TypeInv'
  PROVE  BooksInv'
<1> DEFINE n == issued + 1
<1>1. n \in Calls /\ issued' = n /\ issued \in Nat
  BY NewCallTypes DEF BooksInv, TypeInv, TypeOK
<1>2. requestIdList' = requestIdList
  <2>1. requestIdList \in [Managers -> SUBSET Calls]
    BY DEF BooksInv, TypeInv, TypeOK
  <2>2. requestIdList[m] \ {0} = requestIdList[m]
    BY <2>1 DEF Calls
  <2>3. Removed(m, 0) = requestIdList
    BY <2>1, <2>2 DEF Removed
  <2> QED BY <2>3
<1>3. /\ taskState' = taskState /\ taskId' = taskId
      /\ cancelRequested' = cancelRequested
      /\ dispatchTable' = dispatchTable /\ lastId' = lastId
  BY DEF networkVars
<1>4. taskState[n] = "none"
  BY <1>1 DEF BooksInv, TasksKnown
<1>5. \A c \in Calls : c # n => owner'[c] = owner[c]
  BY DEF NewCall, BooksInv, TypeInv, TypeOK
<1> HIDE DEF n
<1>6. TasksKnown'
  <2>1. ASSUME NEW c \in Calls, taskState[c] # "none"
        PROVE  /\ c <= issued' /\ owner'[c] = owner[c] /\ owner[c] \in Managers
               /\ taskId[c] \in Calls
               /\ \A s \in Sessions : taskId[c] <= lastId[s]
                                      \/ s # SessionOf[owner[c]]
    <3>1. c # n
      BY <1>4, <2>1
    <3>2. c <= issued'
      BY <1>1, <2>1 DEF BooksInv, TasksKnown, Calls, n
    <3> QED BY <1>5, <2>1, <3>1, <3>2 DEF BooksInv, TasksKnown
  <2>2. \A c \in Calls :
          c \in cancelRequested \/ taskId[c] # 0 => taskState[c] # "none"
    BY DEF BooksInv, TasksKnown
  <2> QED BY <1>3, <2>1, <2>2 DEF TasksKnown
<1>7. IdsDistinct'
  BY <1>3 DEF BooksInv, IdsDistinct
<1>8. TrackedIffInFlight'
  BY <1>2, <1>3, <1>4, <1>5 DEF BooksInv, TrackedIffInFlight, InFlight
<1> QED BY <1>3, <1>6, <1>7, <1>8 DEF BooksInv

LEMMA LoadBooks ==
  ASSUME BooksInv, SingleSession, NEW m \in Managers, NEW k \in Key, Load(m, k)
  PROVE  BooksInv'
<1>0. /\ TypeInv' /\ mainQueue \in Seq(Block) /\ QueueOK(mainQueue, taskState)
      /\ taskState \in [Calls -> TaskState]
  BY LoadTypes DEF BooksInv, TypeInv, TypeOK
<1>1. ASSUME NewCall(m, k) PROVE issued + 1 \in Calls
  BY <1>1, NewCallTypes DEF BooksInv, TypeInv
<1>2. CASE LoadRefused(m, k)
  BY <1>0, <1>2, CallWithoutTask DEF LoadRefused, managerVars
<1>3. CASE LoadInvalid(m, k)
  <2>1. /\ NewCall(m, k) /\ UNCHANGED <<dispatchTable, lastId, networkVars>>
        /\ \E verdict : failed(m, issued + 1, EmptyBody, 0, verdict, mainQueue)
    BY <1>3 DEF LoadInvalid
  <2> QED BY <1>0, <1>1, <2>1, CallbackEffect, CallWithoutTask
<1>4. CASE LoadFromCache(m, k)
  <2>1. /\ NewCall(m, k) /\ UNCHANGED <<dispatchTable, lastId, networkVars>>
        /\ \E verdict : Answered(m, issued + 1, CachedAnswer(m, k, TRUE).body, 0,
                                 verdict, mainQueue)
    BY <1>4 DEF LoadFromCache
  <2> QED BY <1>0, <1>1, <2>1, CallbackEffect, CallWithoutTask
<1>5. ASSUME NEW useCache \in BOOLEAN, LoadUnreachable(m, k, useCache)
      PROVE  BooksInv'
  <2>1. /\ NewCall(m, k) /\ UNCHANGED <<dispatchTable, lastId, networkVars>>
        /\ failed(m, issued + 1, EmptyBody, 0, "noNetwork", mainQueue)
    BY <1>5 DEF LoadUnreachable
  <2> QED BY <1>0, <1>1, <2>1, CallbackEffect, CallWithoutTask
<1>6. ASSUME NEW useCache \in BOOLEAN, LoadFromNetwork(m, k, useCache)
      PROVE  BooksInv'
  <2> DEFINE n == issued + 1
             id == NewTaskId(m)
  <2>1. PICK s \in Sessions : \A x \in Managers : SessionOf[x] = s
    BY DEF SingleSession
  <2>2. id = lastId[s] + 1 /\ lastId[s] \in Nat
    BY <2>1, ManagerAssumption DEF NewTaskId, BooksInv, TypeInv, TypeOK
  <2>3. n \in Calls /\ issued' = n /\ issued \in Nat
    BY <1>1, <1>6, NewCallTypes
       DEF LoadFromNetwork, BooksInv, TypeInv, TypeOK
  <2>4. id \in Calls
    <3>1. lastId[s] <= issued
      BY DEF BooksInv, TypeInv, IdsBounded
    <3> QED BY <2>2, <2>3, <3>1, ManagerAssumption DEF Calls
  <2>5. taskState[n] = "none" /\ n \notin cancelRequested
    BY <2>3 DEF BooksInv, TasksKnown
  <2>6. \A c \in Calls : taskState[c] # "none" => taskId[c] <= lastId[s]
    BY <2>1 DEF BooksInv, TasksKnown
  <2>7. \A c \in Calls : taskState[c] # "none" => taskId[c] # id
    BY <2>2, <2>6 DEF BooksInv, TypeInv, TypeOK
  <2>8. /\ owner' = [owner EXCEPT ![n] = m]
        /\ taskState' = [taskState EXCEPT ![n] = "running"]
        /\ taskId' = [taskId EXCEPT ![n] = id]
        /\ lastId'[s] = id
        /\ dispatchTable' = [dispatchTable EXCEPT ![id] = n]
        /\ requestIdList' = [requestIdList EXCEPT ![m] = @ \cup {id}]
        /\ cancelRequested' = cancelRequested /\ mainQueue' = mainQueue
    BY <1>6, <2>1 DEF LoadFromNetwork, NewCall
  <2>9. /\ owner \in [Calls -> Managers \cup {NoManager}]
        /\ taskState \in [Calls -> TaskState]
        /\ taskId \in [Calls -> 0..MaxCalls]
        /\ dispatchTable \in [Calls -> Calls \cup {0}]
        /\ requestIdList \in [Managers -> SUBSET Calls]
    BY DEF BooksInv, TypeInv, TypeOK
  <2>10. QueueOK(mainQueue', taskState')
    BY <1>0, <2>3, <2>5, <2>8, QueueStarts
  <2> HIDE DEF n, id
  <2>11. TasksKnown'
    <3>1. SUFFICES ASSUME NEW c \in Calls
                   PROVE  /\ taskState'[c] # "none" =>
                               /\ c <= issued' /\ owner'[c] \in Managers
                               /\ taskId'[c] \in Calls
                               /\ \A x \in Sessions :
                                    taskId'[c] <= lastId'[x]
                                      \/ x # SessionOf[owner'[c]]
                          /\ c \in cancelRequested' \/ taskId'[c] # 0
                               => taskState'[c] # "none"
      BY DEF TasksKnown
    <3>2. CASE c = n
      BY <2>1, <2>2, <2>3, <2>4, <2>5, <2>8, <2>9, <3>2 DEF Calls
    <3>3. CASE c # n
      <4>1. /\ taskState'[c] = taskState[c] /\ taskId'[c] = taskId[c]
            /\ owner'[c] = owner[c]
        BY <2>8, <2>9, <3>3
      <4>2. taskState[c] # "none" => taskId[c] <= lastId'[s]
        BY <2>2, <2>6, <2>8, <2>9
      <4>3. taskState[c] # "none" =>
              c <= issued /\ owner[c] \in Managers /\ taskId[c] \in Calls
        BY DEF BooksInv, TasksKnown
      <4>4. c \in cancelRequested \/ taskId[c] # 0 => taskState[c] # "none"
        BY DEF BooksInv, TasksKnown
      <4> QED BY <2>1, <2>3, <2>8, <4>1, <4>2, <4>3, <4>4 DEF n, Calls
    <3> QED BY <3>2, <3>3
  <2>12. IdsDistinct'
    BY <2>3, <2>7, <2>8, <2>9 DEF BooksInv, IdsDistinct
  <2>13. TrackedIffInFlight'
    <3>1. \A c \in Calls : /\ InFlight(c)' <=> InFlight(c) \/ c = n
                           /\ c # n => taskId'[c] = taskId[c] /\ owner'[c] = owner[c]
                           /\ taskId'[n] = id /\ owner'[n] = m
                           /\ ~InFlight(n)
      BY <2>3, <2>5, <2>8, <2>9 DEF InFlight
    <3>2. \A c \in Calls : InFlight(c) => taskId[c] # id
      BY <2>7 DEF InFlight
    <3>3. ASSUME NEW x \in Managers, NEW i \in Calls
          PROVE  i \in requestIdList'[x]
                   <=> \E c \in Calls :
                         /\ owner'[c] = x /\ taskId'[c] = i
                         /\ InFlight(c)' /\ c \notin cancelRequested'
      <4>1. i \in requestIdList'[x]
              <=> i \in requestIdList[x] \/ (x = m /\ i = id)
        BY <2>8, <2>9
      <4>2. i \in requestIdList[x]
              <=> \E c \in Calls : /\ owner[c] = x /\ taskId[c] = i
                                   /\ InFlight(c) /\ c \notin cancelRequested
        BY DEF BooksInv, TrackedIffInFlight
      <4> QED BY <2>3, <2>5, <2>8, <3>1, <4>1, <4>2
    <3>4. ASSUME NEW i \in Calls, NEW c \in Calls
          PROVE  dispatchTable'[i] = c
                   <=> taskId'[c] = i /\ InFlight(c)' /\ c \notin cancelRequested'
      <4>1. dispatchTable[i] = c
              <=> taskId[c] = i /\ InFlight(c) /\ c \notin cancelRequested
        BY DEF BooksInv, TrackedIffInFlight
      <4> QED BY <2>3, <2>4, <2>5, <2>8, <2>9, <3>1, <3>2, <4>1
    <3> QED BY <3>3, <3>4 DEF TrackedIffInFlight
  <2> QED BY <1>0, <2>10, <2>11, <2>12, <2>13 DEF BooksInv
<1> QED BY <1>2, <1>3, <1>4, <1>5, <1>6 DEF Load

(* A step that starts, ends and cancels no task leaves the books alone.     *)
LEMMA BooksUntouched ==
  ASSUME BooksInv, TypeInv', QueueOK(mainQueue', taskState),
         UNCHANGED <<requestIdList, dispatchTable, lastId, taskState, taskId,
                     cancelRequested, issued, owner>>
  PROVE  BooksInv'
<1>1. TasksKnown'
  BY DEF BooksInv, TasksKnown
<1>2. IdsDistinct'
  BY DEF BooksInv, IdsDistinct
<1>3. TrackedIffInFlight'
  BY DEF BooksInv, TrackedIffInFlight, InFlight
<1> QED BY <1>1, <1>2, <1>3 DEF BooksInv

(* A completion block takes its task out of both books.                     *)
LEMMA CompletionBooks ==
  ASSUME BooksInv, TypeInv', NEW c \in Calls, TaskLeaves(c),
         requestIdList' = Removed(owner[c], taskId[c]),
         QueueOK(mainQueue', taskState'),
         UNCHANGED <<lastId, taskId, cancelRequested, issued, owner>>
  PROVE  BooksInv'
<1>1. /\ Head(mainQueue).kind = "completion" /\ Head(mainQueue).call = c
      /\ mainQueue # <<>> /\ mainQueue \in Seq(Block)
      /\ taskState' = [taskState EXCEPT ![c] = "done"]
      /\ dispatchTable' = [dispatchTable EXCEPT ![taskId[c]] = 0]
  BY DEF TaskLeaves, NextBlock, BooksInv, TypeInv, TypeOK
<1>2. /\ taskState \in [Calls -> TaskState]
      /\ taskId \in [Calls -> 0..MaxCalls]
      /\ dispatchTable \in [Calls -> Calls \cup {0}]
      /\ requestIdList \in [Managers -> SUBSET Calls]
  BY DEF BooksInv, TypeInv, TypeOK
<1>3. taskState[c] = "finished"
  <2>1. 1 \in DOMAIN mainQueue /\ Head(mainQueue) = mainQueue[1]
    <3> HIDE DEF Block
    <3> QED BY <1>1
  <2> QED BY <1>1, <2>1 DEF BooksInv, QueueOK
<1>4. taskId[c] \in Calls /\ owner[c] \in Managers
  BY <1>3 DEF BooksInv, TasksKnown
<1>5. \A d \in Calls : taskState[d] # "none" /\ taskId[d] = taskId[c] => d = c
  BY <1>3 DEF BooksInv, IdsDistinct
<1>6. \A d \in Calls : /\ taskState'[d] # "none" <=> taskState[d] # "none"
                       /\ InFlight(d)' <=> InFlight(d) /\ d # c
  BY <1>1, <1>2, <1>3 DEF InFlight
<1>7. TasksKnown'
  BY <1>6 DEF BooksInv, TasksKnown
<1>8. IdsDistinct'
  BY <1>6 DEF BooksInv, IdsDistinct
<1>9. TrackedIffInFlight'
  <2>1. ASSUME NEW x \in Managers, NEW i \in Calls
        PROVE  i \in requestIdList'[x]
                 <=> \E d \in Calls :
                       /\ owner'[d] = x /\ taskId'[d] = i
                       /\ InFlight(d)' /\ d \notin cancelRequested'
    <3>1. i \in requestIdList'[x]
            <=> i \in requestIdList[x] /\ ~(x = owner[c] /\ i = taskId[c])
      BY <1>2 DEF Removed
    <3>2. i \in requestIdList[x]
            <=> \E d \in Calls : /\ owner[d] = x /\ taskId[d] = i
                                 /\ InFlight(d) /\ d \notin cancelRequested
      BY DEF BooksInv, TrackedIffInFlight
    <3>3. \A d \in Calls : InFlight(d) /\ taskId[d] = taskId[c] => d = c
      BY <1>5 DEF InFlight
    <3> QED BY <1>6, <3>1, <3>2, <3>3
  <2>2. ASSUME NEW i \in Calls, NEW d \in Calls
        PROVE  dispatchTable'[i] = d
                 <=> taskId'[d] = i /\ InFlight(d)' /\ d \notin cancelRequested'
    <3>1. dispatchTable[i] = d
            <=> taskId[d] = i /\ InFlight(d) /\ d \notin cancelRequested
      BY DEF BooksInv, TrackedIffInFlight
    <3>2. dispatchTable'[i] = IF i = taskId[c] THEN 0 ELSE dispatchTable[i]
      BY <1>1, <1>2
    <3>3. InFlight(d) /\ taskId[d] = taskId[c] => d = c
      BY <1>5 DEF InFlight
    <3>4. d # 0
      BY DEF Calls
    <3> QED BY <1>6, <3>1, <3>2, <3>3, <3>4
  <2> QED BY <2>1, <2>2 DEF TrackedIffInFlight
<1> QED BY <1>7, <1>8, <1>9 DEF BooksInv

LEMMA MainQueueBooks ==
  ASSUME BooksInv, MainQueueStep
  PROVE  BooksInv'
<1>0. /\ TypeInv' /\ mainQueue \in Seq(Block) /\ QueueOK(mainQueue, taskState)
      /\ taskState \in [Calls -> TaskState]
  BY MainQueueTypes DEF BooksInv, TypeInv, TypeOK
<1>1. ASSUME NEW c \in Calls, TaskLeaves(c)
      PROVE  /\ QueueOK(Tail(mainQueue), taskState')
             /\ Tail(mainQueue) \in Seq(Block)
  BY <1>0, <1>1, QueueShrinks, NextBlockTypes
     DEF TaskLeaves, NextBlock, BooksInv, TypeInv
<1>2. ASSUME NEW c \in Calls, CompleteWithError(c)
      PROVE  BooksInv'
  <2>1. /\ TaskLeaves(c)
        /\ failed(owner[c], c, ResponseBody(c), taskId[c],
                  ErrorOf(taskResult[c]), Tail(mainQueue))
        /\ UNCHANGED <<lastId, taskId, cancelRequested, issued, owner>>
    BY <1>2 DEF CompleteWithError
  <2>2. /\ QueueOK(mainQueue', taskState')
        /\ requestIdList' = Removed(owner[c], taskId[c])
    BY <1>1, <2>1, CallbackEffect
  <2> QED BY <1>0, <2>1, <2>2, CompletionBooks
<1>3. ASSUME NEW c \in Calls, CompleteWithBody(c)
      PROVE  BooksInv'
  <2>1. /\ TaskLeaves(c)
        /\ \E verdict : Answered(owner[c], c, ResponseBody(c), taskId[c], verdict,
                                 Tail(mainQueue))
        /\ UNCHANGED <<lastId, taskId, cancelRequested, issued, owner>>
    BY <1>3 DEF CompleteWithBody
  <2>2. /\ QueueOK(mainQueue', taskState')
        /\ requestIdList' = Removed(owner[c], taskId[c])
    BY <1>1, <2>1, CallbackEffect
  <2> QED BY <1>0, <2>1, <2>2, CompletionBooks
<1>4. ASSUME NEW kind, NEW end, DeliverAnswer(kind, end)
      PROVE  BooksInv'
  <2>1. QueueOK(mainQueue', taskState)
    BY <1>0, <1>4, QueueShrinks DEF DeliverAnswer, NextBlock
  <2> QED BY <1>0, <1>4, <2>1, BooksUntouched
          DEF DeliverAnswer, managerVars, networkVars
<1> QED BY <1>2, <1>3, <1>4 DEF MainQueueStep, DeliverSuccess, DeliverFail

(* Cancelling the identifiers ids of one manager takes its tasks with these *)
(* identifiers out of both books, and no other manager's.                   *)
LEMMA CancelBooks ==
  ASSUME BooksInv, TypeInv', NEW m \in Managers, NEW ids \in SUBSET Calls,
         CancelIds(ids),
         requestIdList' = [requestIdList EXCEPT ![m] = @ \ ids],
         \A i \in ids, c \in Calls :
           InFlight(c) /\ taskId[c] = i => owner[c] = m,
         UNCHANGED <<lastId, taskState, taskId, mainQueue, issued, owner>>
  PROVE  BooksInv'
<1>1. /\ dispatchTable \in [Calls -> Calls \cup {0}]
      /\ requestIdList \in [Managers -> SUBSET Calls]
      /\ taskId \in [Calls -> 0..MaxCalls]
  BY DEF BooksInv, TypeInv, TypeOK
<1>2. \A d \in Calls : d # 0
  BY DEF Calls
<1>3. \A i, d \in Calls : dispatchTable[i] = d
        <=> taskId[d] = i /\ InFlight(d) /\ d \notin cancelRequested
  BY DEF BooksInv, TrackedIffInFlight
<1>4. \A d \in Calls : d \in cancelRequested'
        <=> d \in cancelRequested \/ (taskId[d] \in ids /\ InFlight(d))
  BY <1>2, <1>3 DEF CancelIds
<1>5. TasksKnown'
  BY <1>4 DEF BooksInv, TasksKnown, InFlight
<1>6. IdsDistinct'
  BY DEF BooksInv, IdsDistinct
<1>7. TrackedIffInFlight'
  <2>1. ASSUME NEW x \in Managers, NEW i \in Calls
        PROVE  i \in requestIdList'[x]
                 <=> \E d \in Calls :
                       /\ owner'[d] = x /\ taskId'[d] = i
                       /\ InFlight(d)' /\ d \notin cancelRequested'
    <3>1. i \in requestIdList'[x]
            <=> i \in requestIdList[x] /\ ~(x = m /\ i \in ids)
      BY <1>1
    <3>2. i \in requestIdList[x]
            <=> \E d \in Calls : /\ owner[d] = x /\ taskId[d] = i
                                 /\ InFlight(d) /\ d \notin cancelRequested
      BY DEF BooksInv, TrackedIffInFlight
    <3>3. \A d \in Calls : InFlight(d)' <=> InFlight(d)
      BY DEF InFlight
    <3> QED BY <1>4, <3>1, <3>2, <3>3
  <2>2. ASSUME NEW i \in Calls, NEW d \in Calls
        PROVE  dispatchTable'[i] = d
                 <=> taskId'[d] = i /\ InFlight(d)' /\ d \notin cancelRequested'
    <3>1. dispatchTable'[i] = IF i \in ids THEN 0 ELSE dispatchTable[i]
      BY DEF CancelIds
    <3>2. InFlight(d)' <=> InFlight(d)
      BY DEF InFlight
    <3> QED BY <1>2, <1>3, <1>4, <3>1, <3>2
  <2> QED BY <2>1, <2>2 DEF TrackedIffInFlight
<1> QED BY <1>5, <1>6, <1>7 DEF BooksInv

(* Within one session, an identifier a manager was given is of no other     *)
(* manager's task.                                                          *)
LEMMA OwnIds ==
  ASSUME BooksInv, NEW m \in Managers, NEW i \in requestIdList[m],
         NEW c \in Calls, InFlight(c), taskId[c] = i
  PROVE  owner[c] = m
<1>1. i \in Calls
  BY DEF BooksInv, TypeInv, TypeOK
<1>2. PICK d \in Calls : owner[d] = m /\ taskId[d] = i /\ InFlight(d)
  BY <1>1 DEF BooksInv, TrackedIffInFlight
<1> QED BY <1>2 DEF BooksInv, IdsDistinct, InFlight

LEMMA OtherBooks ==
  ASSUME BooksInv,
         \/ \E m \in Managers : cancelAllRequests(m)
         \/ \E m \in Managers, id \in Calls : cancelRequestWithRequestId(m, id)
         \/ \E m \in Managers : cleanData(m)
         \/ Restart
         \/ \E c \in Calls : TaskFinishes(c)
         \/ ReachabilityChanges
         \/ CacheStep
         \/ UNCHANGED vars
  PROVE  BooksInv'
<1>0. TypeInv' /\ QueueOK(mainQueue, taskState)
  BY OtherTypes DEF BooksInv
<1>1. ASSUME NEW m \in Managers, cancelAllRequests(m)
      PROVE  BooksInv'
  <2>1. requestIdList[m] \in SUBSET Calls
    BY DEF BooksInv, TypeInv, TypeOK
  <2>2. requestIdList' = [requestIdList EXCEPT ![m] = @ \ requestIdList[m]]
    <3>1. requestIdList[m] \ requestIdList[m] = {}
      OBVIOUS
    <3> QED BY <1>1, <3>1 DEF cancelAllRequests, BooksInv, TypeInv, TypeOK
  <2>3. \A i \in requestIdList[m], c \in Calls :
          InFlight(c) /\ taskId[c] = i => owner[c] = m
    BY OwnIds
  <2>4. CancelIds(requestIdList[m])
    BY <1>1 DEF cancelAllRequests
  <2> QED BY <1>0, <1>1, <2>1, <2>2, <2>3, <2>4, CancelBooks
          DEF cancelAllRequests, callVars
<1>2. ASSUME NEW m \in Managers, NEW id \in Calls,
             cancelRequestWithRequestId(m, id)
      PROVE  BooksInv'
  <2>1. PICK c \in 1..issued : owner[c] = m /\ taskId[c] = id
    BY <1>2 DEF cancelRequestWithRequestId
  <2>2. c \in Calls /\ taskState[c] # "none"
    <3>1. issued \in 0..MaxCalls
      BY DEF BooksInv, TypeInv, TypeOK
    <3>2. c \in Calls /\ id # 0
      BY <2>1, <3>1, ManagerAssumption DEF Calls
    <3> QED BY <2>1, <3>2 DEF BooksInv, TasksKnown
  <2>3. \A i \in {id}, d \in Calls : InFlight(d) /\ taskId[d] = i => owner[d] = m
    BY <2>1, <2>2 DEF BooksInv, IdsDistinct, InFlight
  <2>4. CancelIds({id}) /\ requestIdList' = [requestIdList EXCEPT ![m] = @ \ {id}]
    BY <1>2 DEF cancelRequestWithRequestId, Removed
  <2> QED BY <1>0, <1>2, <2>3, <2>4, CancelBooks
          DEF cancelRequestWithRequestId, callVars
<1>3. ASSUME NEW m \in Managers, cleanData(m)
      PROVE  BooksInv'
  BY <1>0, <1>3, BooksUntouched DEF cleanData, networkVars, callVars
<1>4. CASE Restart
  <2>1. QueueOK(mainQueue', taskState')
    BY <1>4 DEF Restart, QueueOK
  <2>2. /\ requestIdList' = [m \in Managers |-> {}]
        /\ dispatchTable' = [i \in Calls |-> 0]
        /\ taskState' = [c \in Calls |-> "none"]
        /\ taskId' = [c \in Calls |-> 0]
        /\ cancelRequested' = {}
    BY <1>4 DEF Restart
  <2>3. TasksKnown' /\ IdsDistinct'
    BY <2>2 DEF TasksKnown, IdsDistinct
  <2>4. TrackedIffInFlight'
    BY <2>2 DEF TrackedIffInFlight, InFlight, Calls
  <2> QED BY <1>0, <2>1, <2>3, <2>4 DEF BooksInv
<1>5. ASSUME NEW c \in Calls, TaskFinishes(c)
      PROVE  BooksInv'
  <2>1. /\ taskState[c] = "running"
        /\ taskState' = [taskState EXCEPT ![c] = "finished"]
        /\ taskState \in [Calls -> TaskState]
        /\ mainQueue' = Append(mainQueue, [kind |-> "completion", call |-> c])
    BY <1>5 DEF TaskFinishes, BooksInv, TypeInv, TypeOK
  <2>2. QueueOK(mainQueue', taskState')
    BY <1>0, <2>1, QueueFinishes DEF BooksInv, TypeInv, TypeOK
  <2>3. \A d \in Calls : /\ taskState'[d] # "none" <=> taskState[d] # "none"
                         /\ InFlight(d)' <=> InFlight(d)
    BY <2>1 DEF InFlight
  <2>4. UNCHANGED <<requestIdList, dispatchTable, lastId, taskId,
                    cancelRequested, issued, owner>>
    BY <1>5 DEF TaskFinishes, managerVars, callVars
  <2>5. TasksKnown'
    BY <2>3, <2>4 DEF BooksInv, TasksKnown
  <2>6. IdsDistinct'
    BY <2>3, <2>4 DEF BooksInv, IdsDistinct
  <2>7. TrackedIffInFlight'
    BY <2>3, <2>4 DEF BooksInv, TrackedIffInFlight
  <2> QED BY <1>0, <2>2, <2>5, <2>6, <2>7 DEF BooksInv
<1>6. CASE ReachabilityChanges \/ CacheStep \/ UNCHANGED vars
  BY <1>0, <1>6, BooksUntouched
     DEF ReachabilityChanges, CacheStep, vars, managerVars, networkVars, callVars
<1> QED BY <1>1, <1>2, <1>3, <1>4, <1>5, <1>6

----------------------------------------------------------------------------
LEMMA BooksNext == SingleSession /\ BooksInv /\ [Next]_vars => BooksInv'
BY LoadBooks, MainQueueBooks, OtherBooks DEF Next, AppStep

LEMMA BooksHold == SingleSession => (Spec => []BooksInv)
<1> SUFFICES ASSUME SingleSession PROVE Spec => []BooksInv
  OBVIOUS
<1>1. BooksInv /\ [Next]_vars => BooksInv'
  BY BooksNext
<1> QED BY BooksInit, <1>1, PTL DEF Spec

(* With one session for the whole app, an identifier is on a manager's list *)
(* and in the dispatch table exactly while that manager's task with it is   *)
(* in flight and not cancelled.                                             *)
THEOREM BooksAgree == SingleSession => (Spec => []TrackedIffInFlight)
<1>1. BooksInv => TrackedIffInFlight
  BY DEF BooksInv
<1> QED BY BooksHold, <1>1, PTL

(* With one session for the whole app, cancelAllRequests never cancels      *)
(* another manager's task.                                                  *)
THEOREM CancellingIsLocal == SingleSession => (Spec => CancelsOnlyOwn)
<1> DEFINE Local == \A m \in Managers : cancelAllRequests(m)
                      => \A c \in cancelRequested' \ cancelRequested : owner[c] = m
<1>1. ASSUME BooksInv, NEW m \in Managers, cancelAllRequests(m),
             NEW c \in cancelRequested' \ cancelRequested
      PROVE  owner[c] = m
  <2>1. PICK i \in requestIdList[m] : c = dispatchTable[i] /\ c # 0
    BY <1>1 DEF cancelAllRequests, CancelIds
  <2>2. i \in Calls /\ c \in Calls
    BY <1>1, <2>1 DEF BooksInv, TypeInv, TypeOK
  <2>3. taskId[c] = i /\ InFlight(c)
    BY <1>1, <2>1, <2>2 DEF BooksInv, TrackedIffInFlight
  <2> QED BY <1>1, <2>1, <2>2, <2>3, OwnIds
<1>2. BooksInv => Local
  BY <1>1
<1> QED BY BooksHold, <1>2, PTL DEF CancelsOnlyOwn

(* No spinner is left behind: a manager that says isLoading has a task in   *)
(* flight.                                                                  *)
THEOREM LoadingHasATask == SingleSession => (Spec => []LoadingMeansInFlight)
<1>1. TypeOK /\ TrackedIffInFlight => LoadingMeansInFlight
  <2> SUFFICES ASSUME TypeOK, TrackedIffInFlight, NEW m \in Managers, isLoading(m)
               PROVE  \E c \in Calls : owner[c] = m /\ InFlight(c)
    BY DEF LoadingMeansInFlight
  <2>1. PICK i \in Calls : i \in requestIdList[m]
    BY DEF isLoading, TypeOK
  <2> QED BY <2>1 DEF TrackedIffInFlight
<1> QED BY <1>1, BooksAgree, TypeCorrect, PTL

=============================================================================
