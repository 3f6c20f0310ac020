-------------------------- MODULE RCAPICallsProofs --------------------------
(***************************************************************************)
(* Every call of loadDataWithParams: is settled once, whatever the         *)
(* sessions, the discipline of the app and the bounds: RCAPIManager is a   *)
(* refinement of RCCallContract, but for liveness.  And what the caches    *)
(* hold: bodies that were accepted for their key, the same in both layers. *)
(* The argument: a call without an outcome is carried by its task, by its  *)
(* completion block or by an answer block, and never by two of them.       *)
(***************************************************************************)
EXTENDS RCAPIManagerProofs

Never(q, c) == \A i \in DOMAIN q : q[i].call # c

Once(q, c, kinds) ==
  \E i \in DOMAIN q : /\ q[i].call = c /\ q[i].kind \in kinds
                      /\ \A j \in DOMAIN q : q[j].call = c => j = i

Completing == {"completion"}
Answering == {"success", "fail"}

Open(c) == c <= issued /\ outcome[c] = "none"

CallCarried(c) ==
  IF Open(c)
  THEN \/ taskState[c] = "running" /\ Never(mainQueue, c)
       \/ taskState[c] = "finished" /\ Once(mainQueue, c, Completing)
       \/ taskState[c] \in {"none", "done"} /\ Once(mainQueue, c, Answering)
  ELSE taskState[c] \in {"none", "done"} /\ Never(mainQueue, c)

(* Calls that were not made have left no trace, the others have an owner.   *)
Numbered(c) ==
  IF c <= issued THEN owner[c] \in Managers
  ELSE outcome[c] = "none" /\ taskState[c] = "none"

CarryInv ==
  TypeInv /\ (\A c \in Calls : CallCarried(c)) /\ (\A c \in Calls : Numbered(c))

----------------------------------------------------------------------------
(* The main queue.  What carries a call in q carries it in r as well.       *)
Same(q, r, c) ==
  /\ Never(q, c) => Never(r, c)
  /\ Once(q, c, Completing) => Once(r, c, Completing)
  /\ \A kinds \in {Answering, {"success"}, {"fail"}} :
       Once(q, c, kinds) => Once(r, c, kinds)

(* The one answer block of a call says how the call goes on.                *)
LEMMA OneAnswer ==
  ASSUME NEW q, NEW c, Once(q, c, Answering)
  PROVE  \/ Once(q, c, {"success"}) /\ Succeeding(q, c)
         \/ Once(q, c, {"fail"}) /\ ~Succeeding(q, c)
<1>1. PICK i \in DOMAIN q : /\ q[i].call = c /\ q[i].kind \in Answering
                            /\ \A j \in DOMAIN q : q[j].call = c => j = i
  BY DEF Once
<1>2. CASE q[i].kind = "success"
  BY <1>1, <1>2 DEF Once, Succeeding
<1>3. CASE q[i].kind = "fail"
  BY <1>1, <1>3 DEF Once, Succeeding
<1> QED BY <1>1, <1>2, <1>3 DEF Answering

(* It goes on waiting as what it is.                                        *)
LEMMA SameAnswer ==
  ASSUME NEW q, NEW r, NEW c, Once(q, c, Answering), Same(q, r, c)
  PROVE  Succeeding(r, c) <=> Succeeding(q, c)
<1>1. CASE Once(q, c, {"success"}) /\ Succeeding(q, c)
  BY <1>1 DEF Same, Once, Succeeding
<1>2. CASE Once(q, c, {"fail"}) /\ ~Succeeding(q, c)
  <2>1. Once(r, c, {"fail"})
    BY <1>2 DEF Same
  <2> QED BY <1>2, <2>1 DEF Once, Succeeding
<1> QED BY <1>1, <1>2, OneAnswer

LEMMA AppendCarries ==
  ASSUME NEW q \in Seq(Block), NEW b \in Block
  PROVE  /\ \A kinds : Never(q, b.call) /\ b.kind \in kinds
                         => Once(Append(q, b), b.call, kinds)
         /\ \A c \in Calls : c # b.call => Same(q, Append(q, b), c)
<1> DEFINE r == Append(q, b)
<1>1. /\ DOMAIN r = 1..(Len(q) + 1) /\ DOMAIN q = 1..Len(q) /\ Len(q) \in Nat
      /\ \A i \in 1..Len(q) : r[i] = q[i]
      /\ r[Len(q) + 1] = b
  OBVIOUS
<1> HIDE DEF r
<1>2. \A kinds : Never(q, b.call) /\ b.kind \in kinds => Once(r, b.call, kinds)
  BY <1>1 DEF Never, Once
<1>3. ASSUME NEW c \in Calls, c # b.call PROVE Same(q, r, c)
  <2>1. Never(q, c) => Never(r, c)
    BY <1>1, <1>3 DEF Never
  <2>2. ASSUME NEW kinds, Once(q, c, kinds) PROVE Once(r, c, kinds)
    BY <1>1, <1>3, <2>2 DEF Once
  <2> QED BY <2>1, <2>2 DEF Same
<1> QED BY <1>2, <1>3 DEF r

LEMMA TailCarries ==
  ASSUME NEW q \in Seq(Block), q # <<>>
  PROVE  /\ \A kinds : Once(q, Head(q).call, kinds)
                         => Head(q).kind \in kinds /\ Never(Tail(q), Head(q).call)
         /\ ~Never(q, Head(q).call)
         /\ \A c \in Calls : c # Head(q).call => Same(q, Tail(q), c)
<1> DEFINE r == Tail(q)
<1>1. /\ DOMAIN r = 1..(Len(q) - 1) /\ DOMAIN q = 1..Len(q) /\ Len(q) \in Nat \ {0}
      /\ \A i \in 1..(Len(q) - 1) : r[i] = q[i + 1]
      /\ Head(q) = q[1]
  OBVIOUS
<1> HIDE DEF r
<1>2. 1 \in DOMAIN q /\ \A i \in DOMAIN r : i + 1 \in DOMAIN q /\ i + 1 # 1
  BY <1>1
<1>3. ASSUME NEW kinds, Once(q, q[1].call, kinds)
      PROVE  q[1].kind \in kinds /\ Never(r, q[1].call)
  <2>1. q[1].kind \in kinds /\ \A j \in DOMAIN q : q[j].call = q[1].call => j = 1
    BY <1>2, <1>3 DEF Once
  <2>2. Never(r, q[1].call)
    BY <1>1, <1>2, <2>1 DEF Never
  <2> QED BY <2>1, <2>2
<1>4. ASSUME NEW c \in Calls, c # q[1].call PROVE Same(q, r, c)
  <2>1. Never(q, c) => Never(r, c)
    BY <1>1, <1>2 DEF Never
  <2>2. ASSUME NEW kinds, Once(q, c, kinds) PROVE Once(r, c, kinds)
    <3>1. PICK i \in DOMAIN q : /\ q[i].call = c /\ q[i].kind \in kinds
                                /\ \A j \in DOMAIN q : q[j].call = c => j = i
      BY <2>2 DEF Once
    <3>2. i # 1
      BY <1>4, <3>1
    <3>3. i - 1 \in DOMAIN r /\ r[i - 1] = q[i]
      BY <1>1, <3>2
    <3>4. \A j \in DOMAIN r : r[j].call = c => j = i - 1
      BY <1>1, <1>2, <3>1
    <3> QED BY <3>1, <3>3, <3>4 DEF Once
  <2> QED BY <2>1, <2>2 DEF Same
<1>5. ~Never(q, q[1].call)
  BY <1>2 DEF Never
<1> QED BY <1>1, <1>3, <1>4, <1>5 DEF r
----------------------------------------------------------------------------
(* One call moves, and the others are carried as before.                    *)
Others(n) ==
  \A c \in Calls \ {n} :
    /\ Same(mainQueue, mainQueue', c)
    /\ taskState'[c] = taskState[c] /\ outcome'[c] = outcome[c]
    /\ owner'[c] = owner[c] /\ (c <= issued' <=> c <= issued)

Moves(n) ==
  /\ CarryInv'
  /\ \A c \in Calls \ {n} : Phase(c)' = Phase(c)

LEMMA OneMoves ==
  ASSUME CarryInv, TypeInv', NEW n \in Calls, Others(n),
         CallCarried(n)', n <= issued', owner'[n] \in Managers
  PROVE  Moves(n)
<1>1. ASSUME NEW c \in Calls \ {n}
      PROVE  CallCarried(c)' /\ Numbered(c)' /\ Phase(c)' = Phase(c)
  <2>1. /\ Same(mainQueue, mainQueue', c)
        /\ taskState'[c] = taskState[c] /\ outcome'[c] = outcome[c]
        /\ owner'[c] = owner[c] /\ (c <= issued' <=> c <= issued)
    BY DEF Others
  <2>2. CallCarried(c) /\ Numbered(c)
    BY DEF CarryInv
  <2>3. CallCarried(c)'
    BY <2>1, <2>2 DEF CallCarried, Open, Same
  <2>4. Numbered(c)'
    BY <2>1, <2>2 DEF Numbered
  <2>5. c > issued' <=> c > issued
    BY <2>1 DEF CarryInv, TypeInv, TypeOK, Calls
  <2>6. Phase(c)' = Phase(c)
    <3>1. CASE c > issued \/ outcome[c] # "none" \/ InFlight(c)
      BY <2>1, <2>5, <3>1 DEF Phase, InFlight
    <3>2. CASE ~(c > issued) /\ outcome[c] = "none" /\ ~InFlight(c)
      <4>1. Open(c)
        BY <3>2 DEF Open, CarryInv, TypeInv, TypeOK, Calls
      <4>2. Once(mainQueue, c, Answering)
        BY <2>2, <3>2, <4>1 DEF CallCarried, InFlight
      <4>3. Succeeding(mainQueue', c) <=> Succeeding(mainQueue, c)
        BY <2>1, <4>2, SameAnswer
      <4>4. ~(c > issued') /\ outcome'[c] = "none" /\ ~InFlight(c)'
        BY <2>1, <2>5, <3>2 DEF InFlight
      <4>5. Phase(c) = IF Succeeding(mainQueue, c) THEN "succeeding" ELSE "failing"
        BY <3>2 DEF Phase
      <4>6. Phase(c)' = IF Succeeding(mainQueue', c) THEN "succeeding" ELSE "failing"
        BY <4>4 DEF Phase, Succeeding
      <4> QED BY <4>3, <4>5, <4>6
    <3> QED BY <3>1, <3>2
  <2> QED BY <2>3, <2>4, <2>6
<1>2. Numbered(n)'
  BY DEF Numbered
<1> QED BY <1>1, <1>2 DEF CarryInv, Moves

(* Nothing that carries a call changes.                                     *)
LEMMA NoneMoves ==
  ASSUME CarryInv, TypeInv',
         UNCHANGED <<mainQueue, taskState, outcome, owner, issued>>
  PROVE  CarryInv' /\ \A c \in Calls : Phase(c)' = Phase(c)
BY DEF CarryInv, CallCarried, Numbered, Open, Once, Never, Phase, InFlight, Succeeding

(* Both callbacks add an answer block for their call, or settle it.         *)
Settles(n, q) ==
  /\ \A c \in Calls \ {n} : Same(q, mainQueue', c) /\ outcome'[c] = outcome[c]
  /\ \/ outcome'[n] = "none" /\ Once(mainQueue', n, Answering)
     \/ outcome'[n] \in {"handedOver", "withheld"} /\ Never(mainQueue', n)

LEMMA CallbackSettles ==
  ASSUME TypeOK, NEW m, NEW n \in Calls, NEW body, NEW id, NEW verdict,
         NEW q \in Seq(Block), Never(q, n), outcome[n] = "none",
         \/ Answered(m, n, body, id, verdict, q)
         \/ failed(m, n, body, id, verdict, q)
  PROVE  Settles(n, q)
<1>1. ASSUME NEW kind \in Answering, outcome' = outcome,
             mainQueue' = Append(q, [kind |-> kind, call |-> n])
      PROVE  Settles(n, q)
  <2> DEFINE b == [kind |-> kind, call |-> n]
  <2>1. b \in Block /\ b.call = n /\ b.kind \in Answering
    BY DEF Block, Answering
  <2> HIDE DEF b
  <2>2. Once(Append(q, b), n, Answering)
        /\ \A c \in Calls \ {n} : Same(q, Append(q, b), c)
    BY <2>1, AppendCarries
  <2>3. mainQueue' = Append(q, b)
    BY <1>1 DEF b
  <2> QED BY <1>1, <2>2, <2>3 DEF Settles
<1>2. ASSUME NEW o \in {"handedOver", "withheld"}, mainQueue' = q,
             outcome' = [outcome EXCEPT ![n] = o]
      PROVE  Settles(n, q)
  <2>1. outcome'[n] = o /\ \A c \in Calls \ {n} : outcome'[c] = outcome[c]
    BY <1>2 DEF TypeOK
  <2>2. \A c : Same(q, q, c)
    BY DEF Same
  <2> QED BY <1>2, <2>1, <2>2 DEF Settles
<1>3. CASE failed(m, n, body, id, verdict, q)
  BY <1>1, <1>2, <1>3 DEF failed, Answering
<1>4. CASE succeeded(m, n, id, q)
  BY <1>1, <1>2, <1>4 DEF succeeded, Answering
<1> QED BY <1>3, <1>4 DEF Answered

(* A call that settled waits to be answered, or has ended.                  *)
LEMMA SettledPhase ==
  ASSUME TypeInv', NEW n \in Calls, NEW q, Settles(n, q), n <= issued',
         taskState'[n] \in {"none", "done"}
  PROVE  CallCarried(n)' /\ Phase(n)' \in Contract!Decided
<1>1. ~(n > issued')
  BY DEF TypeInv, TypeOK, Calls
<1>2. CASE outcome'[n] = "none" /\ Once(mainQueue', n, Answering)
  BY <1>1, <1>2 DEF CallCarried, Open, Phase, InFlight, Once, Contract!Decided,
                    Contract!Waiting
<1>3. CASE outcome'[n] \in {"handedOver", "withheld"} /\ Never(mainQueue', n)
  BY <1>1, <1>3 DEF CallCarried, Open, Phase, InFlight, Never, Contract!Decided
<1> QED BY <1>2, <1>3 DEF Settles

----------------------------------------------------------------------------
(* A call is made: it is the next one, and nothing carried it before.       *)
Issues(n) ==
  /\ n = issued + 1 /\ n \in Calls /\ Moves(n)
  /\ Phase(n) = "unused"
  /\ Phase(n)' \in {"pending", "refused"} \cup Contract!Decided

LEMMA NewCallFacts ==
  ASSUME CarryInv, NEW m \in Managers, NEW k \in Key, NewCall(m, k)
  PROVE  LET n == issued + 1
         IN /\ n \in Calls /\ n <= issued' /\ owner'[n] \in Managers
            /\ issued \in Nat /\ ~(n <= issued) /\ n > issued
            /\ outcome[n] = "none" /\ taskState[n] = "none"
            /\ Never(mainQueue, n) /\ Phase(n) = "unused"
            /\ \A c \in Calls \ {n} :
                 owner'[c] = owner[c] /\ (c <= issued' <=> c <= issued)
<1> DEFINE n == issued + 1
<1>1. /\ n \in Calls /\ issued' = n /\ issued \in 0..MaxCalls
      /\ owner' = [owner EXCEPT ![n] = m]
      /\ owner \in [Calls -> Managers \cup {NoManager}]
  BY NewCallTypes DEF CarryInv, TypeInv, TypeOK, NewCall
<1>2. issued \in Nat /\ ~(n <= issued) /\ n > issued /\ n <= issued'
  BY <1>1, ManagerAssumption DEF Calls
<1>3. CallCarried(n) /\ Numbered(n)
  BY <1>1 DEF CarryInv
<1>4. outcome[n] = "none" /\ taskState[n] = "none" /\ Never(mainQueue, n)
  BY <1>2, <1>3 DEF CallCarried, Numbered, Open
<1>5. Phase(n) = "unused"
  BY <1>2 DEF Phase
<1>6. \A c \in Calls : c \in Int
  BY DEF Calls
<1>7. \A c \in Calls \ {n} : c <= issued' <=> c <= issued
  BY <1>1, <1>2, <1>6
<1> HIDE DEF n
<1>8. owner'[n] \in Managers /\ \A c \in Calls \ {n} : owner'[c] = owner[c]
  BY <1>1
<1> QED BY <1>1, <1>2, <1>4, <1>5, <1>7, <1>8 DEF n

(* It is settled at once, without a task.                                   *)
LEMMA IssuedSettled ==
  ASSUME CarryInv, TypeInv', NEW m \in Managers, NEW k \in Key, NewCall(m, k),
         taskState' = taskState, NEW body, NEW id, NEW verdict,
         \/ Answered(m, issued + 1, body, id, verdict, mainQueue)
         \/ failed(m, issued + 1, body, id, verdict, mainQueue)
  PROVE  \E n \in Calls : Issues(n)
<1>0. PICK n \in Calls : n = issued + 1
  BY NewCallFacts
<1>1. /\ n \in Calls /\ n <= issued' /\ owner'[n] \in Managers
      /\ outcome[n] = "none" /\ taskState[n] = "none"
      /\ Never(mainQueue, n) /\ Phase(n) = "unused"
      /\ \A c \in Calls \ {n} :
           owner'[c] = owner[c] /\ (c <= issued' <=> c <= issued)
  BY <1>0, NewCallFacts
<1>2. TypeOK /\ mainQueue \in Seq(Block)
  BY DEF CarryInv, TypeInv, TypeOK
<1>3. \/ Answered(m, n, body, id, verdict, mainQueue)
      \/ failed(m, n, body, id, verdict, mainQueue)
  BY <1>0
<1>4. Settles(n, mainQueue)
  BY <1>1, <1>2, <1>3, CallbackSettles
<1>5. taskState'[n] \in {"none", "done"}
  BY <1>1
<1>6. CallCarried(n)' /\ Phase(n)' \in Contract!Decided
  BY <1>1, <1>4, <1>5, SettledPhase
<1>7. Others(n)
  BY <1>1, <1>4 DEF Others, Settles
<1>8. Moves(n)
  BY <1>1, <1>6, <1>7, OneMoves
<1> QED BY <1>0, <1>1, <1>6, <1>8 DEF Issues

LEMMA LoadIssues ==
  ASSUME CarryInv, NEW m \in Managers, NEW k \in Key, Load(m, k)
  PROVE  \E n \in Calls : Issues(n)
<1>0. TypeInv' /\ TypeInv /\ TypeOK
  BY LoadTypes DEF CarryInv, TypeInv
<1>1. CASE LoadInvalid(m, k)
  <2>1. /\ NewCall(m, k) /\ taskState' = taskState
        /\ \E verdict : failed(m, issued + 1, EmptyBody, 0, verdict, mainQueue)
    BY <1>1 DEF LoadInvalid, networkVars
  <2> QED BY <1>0, <2>1, IssuedSettled
<1>2. CASE LoadFromCache(m, k)
  <2>1. /\ NewCall(m, k) /\ taskState' = taskState
        /\ \E verdict : Answered(m, issued + 1, CachedAnswer(m, k, TRUE).body, 0,
                                 verdict, mainQueue)
    BY <1>2 DEF LoadFromCache, networkVars
  <2> QED BY <1>0, <2>1, IssuedSettled
<1>3. ASSUME NEW useCache \in BOOLEAN, LoadUnreachable(m, k, useCache)
      PROVE  \E n \in Calls : Issues(n)
  <2>1. /\ NewCall(m, k) /\ taskState' = taskState
        /\ failed(m, issued + 1, EmptyBody, 0, "noNetwork", mainQueue)
    BY <1>3 DEF LoadUnreachable, networkVars
  <2> QED BY <1>0, <2>1, IssuedSettled
<1>4. ASSUME NEW o \in {"none", "refused"}, NEW t \in {"none", "running"},
             NewCall(m, k), mainQueue' = mainQueue,
             outcome' = [outcome EXCEPT ![issued + 1] = o],
             taskState' = [taskState EXCEPT ![issued + 1] = t],
             (o = "none") <=> (t = "running")
      PROVE  \E n \in Calls : Issues(n)
  <2>0. PICK n \in Calls : n = issued + 1
    BY <1>4, NewCallFacts
  <2>1. /\ n \in Calls /\ n <= issued' /\ owner'[n] \in Managers
        /\ issued \in Nat /\ outcome[n] = "none" /\ taskState[n] = "none"
        /\ Never(mainQueue, n) /\ Phase(n) = "unused"
        /\ \A c \in Calls \ {n} :
             owner'[c] = owner[c] /\ (c <= issued' <=> c <= issued)
    BY <1>4, <2>0, NewCallFacts
  <2>2. /\ outcome' = [outcome EXCEPT ![n] = o]
        /\ taskState' = [taskState EXCEPT ![n] = t]
        /\ outcome \in [Calls -> Outcome] /\ taskState \in [Calls -> TaskState]
    BY <1>0, <1>4, <2>0 DEF TypeOK
  <2>3. issued' \in Nat /\ n \in Nat
    BY <1>0, <2>0, <2>1 DEF TypeInv, TypeOK
  <2>4. /\ outcome'[n] = o /\ taskState'[n] = t
        /\ \A c \in Calls \ {n} : outcome'[c] = outcome[c] /\ taskState'[c] = taskState[c]
    BY <2>1, <2>2
  <2>5. Others(n)
    BY <1>4, <2>1, <2>4 DEF Others, Same
  <2>6. Never(mainQueue, n)'
    BY <1>4, <2>1 DEF Never
  <2>7. CallCarried(n)'
    BY <1>4, <2>1, <2>4, <2>6 DEF CallCarried, Open
  <2>8. Phase(n)' \in {"pending", "refused"}
    <3>1. ~(n > issued')
      BY <2>1, <2>3
    <3>2. o = "none" /\ t = "running" => Phase(n)' = "pending"
      BY <2>1, <2>4, <3>1 DEF Phase, InFlight
    <3>3. o = "refused" => Phase(n)' = "refused"
      BY <2>1, <2>4, <3>1 DEF Phase
    <3> QED BY <1>4, <3>2, <3>3
  <2>9. Moves(n)
    BY <1>0, <2>1, <2>5, <2>7, OneMoves
  <2> QED BY <2>0, <2>1, <2>8, <2>9 DEF Issues
<1>5. CASE LoadRefused(m, k)
  <2>1. NewCall(m, k) /\ mainQueue' = mainQueue /\ taskState' = taskState
        /\ outcome' = [outcome EXCEPT ![issued + 1] = "refused"]
    BY <1>5 DEF LoadRefused, networkVars
  <2>2. taskState[issued + 1] = "none" /\ issued + 1 \in Calls
    BY <2>1, NewCallFacts
  <2>3. taskState' = [taskState EXCEPT ![issued + 1] = "none"]
    BY <1>0, <2>1, <2>2 DEF TypeOK
  <2> QED BY <1>4, <2>1, <2>3
<1>6. ASSUME NEW useCache \in BOOLEAN, LoadFromNetwork(m, k, useCache)
      PROVE  \E n \in Calls : Issues(n)
  <2>1. NewCall(m, k) /\ mainQueue' = mainQueue /\ outcome' = outcome
        /\ taskState' = [taskState EXCEPT ![issued + 1] = "running"]
    BY <1>6 DEF LoadFromNetwork
  <2>2. outcome[issued + 1] = "none" /\ issued + 1 \in Calls
    BY <2>1, NewCallFacts
  <2>3. outcome' = [outcome EXCEPT ![issued + 1] = "none"]
    BY <1>0, <2>1, <2>2 DEF TypeOK
  <2> QED BY <1>4, <2>1, <2>3
<1> QED BY <1>1, <1>2, <1>3, <1>5, <1>6 DEF Load

----------------------------------------------------------------------------
(* The next block of the main queue is the one thing that carries its call. *)
LEMMA NextBlockFacts ==
  ASSUME CarryInv, NEW kind, NextBlock(kind), NEW n \in Calls,
         n = Head(mainQueue).call
  PROVE  /\ Open(n) /\ owner[n] \in Managers /\ ~(n > issued)
         /\ Never(Tail(mainQueue), n)
         /\ kind = "completion" => taskState[n] = "finished"
         /\ kind \in Answering => taskState[n] \in {"none", "done"}
         /\ kind = "success" => Succeeding(mainQueue, n)
         /\ kind = "fail" => ~Succeeding(mainQueue, n)
         /\ \A c \in Calls \ {n} : Same(mainQueue, Tail(mainQueue), c)
<1>1. mainQueue \in Seq(Block) /\ mainQueue # <<>> /\ Head(mainQueue).kind = kind
  BY DEF NextBlock, CarryInv, TypeInv, TypeOK
<1>2. /\ \A kinds : Once(mainQueue, n, kinds)
                      => kind \in kinds /\ Never(Tail(mainQueue), n)
      /\ ~Never(mainQueue, n)
      /\ \A c \in Calls \ {n} : Same(mainQueue, Tail(mainQueue), c)
  BY <1>1, TailCarries
<1>3. CallCarried(n) /\ Numbered(n)
  BY DEF CarryInv
<1>4. Open(n)
  BY <1>2, <1>3 DEF CallCarried
<1>5. \/ taskState[n] = "finished" /\ Once(mainQueue, n, Completing)
      \/ taskState[n] \in {"none", "done"} /\ Once(mainQueue, n, Answering)
  BY <1>2, <1>3, <1>4 DEF CallCarried
<1>6. /\ kind = "completion" => taskState[n] = "finished"
      /\ kind \in Answering => taskState[n] \in {"none", "done"}
  BY <1>2, <1>5 DEF Completing, Answering
<1>7. owner[n] \in Managers /\ n <= issued
  BY <1>3, <1>4 DEF Numbered, Open
<1>8. ~(n > issued)
  BY <1>7 DEF CarryInv, TypeInv, TypeOK, Calls
<1>9. /\ kind = "success" => Succeeding(mainQueue, n)
      /\ kind = "fail" => ~Succeeding(mainQueue, n)
  BY <1>2, <1>5, OneAnswer DEF Completing
<1> QED BY <1>2, <1>4, <1>5, <1>6, <1>7, <1>8, <1>9

LEMMA SameTwice ==
  ASSUME NEW q, NEW r, NEW t, NEW c, Same(q, r, c), Same(r, t, c) PROVE Same(q, t, c)
BY DEF Same

Decides(n) ==
  /\ Moves(n) /\ Phase(n) = "pending"
  /\ Phase(n)' \in Contract!Decided

LEMMA CompletionDecides ==
  ASSUME CarryInv, NEW n \in Calls, CompleteWithError(n) \/ CompleteWithBody(n)
  PROVE  Decides(n)
<1>1. /\ TaskLeaves(n) /\ UNCHANGED <<issued, owner>>
      /\ \E body, verdict :
           \/ Answered(owner[n], n, body, taskId[n], verdict, Tail(mainQueue))
           \/ failed(owner[n], n, body, taskId[n], verdict, Tail(mainQueue))
  BY DEF CompleteWithError, CompleteWithBody
<1>2. NextBlock("completion") /\ n = Head(mainQueue).call
      /\ taskState' = [taskState EXCEPT ![n] = "done"]
  BY <1>1 DEF TaskLeaves
<1>3. TypeInv' /\ TypeOK
  BY MainQueueTypes DEF MainQueueStep, CarryInv, TypeInv
<1>4. /\ Open(n) /\ owner[n] \in Managers /\ ~(n > issued)
      /\ Never(Tail(mainQueue), n) /\ taskState[n] = "finished"
      /\ \A c \in Calls \ {n} : Same(mainQueue, Tail(mainQueue), c)
  BY <1>2, NextBlockFacts
<1>5. n <= issued /\ outcome[n] = "none"
  BY <1>4 DEF Open
<1>6. Tail(mainQueue) \in Seq(Block)
  BY <1>2, <1>3, NextBlockTypes
<1>7. Settles(n, Tail(mainQueue))
  BY <1>1, <1>3, <1>4, <1>5, <1>6, CallbackSettles
<1>8. taskState'[n] = "done"
      /\ \A c \in Calls \ {n} : taskState'[c] = taskState[c]
  BY <1>2, <1>3 DEF TypeOK
<1>9. CallCarried(n)' /\ Phase(n)' \in Contract!Decided
  BY <1>1, <1>3, <1>5, <1>7, <1>8, SettledPhase
<1>10. Others(n)
  <2>1. \A c \in Calls \ {n} : Same(Tail(mainQueue), mainQueue', c)
                               /\ outcome'[c] = outcome[c]
    BY <1>7 DEF Settles
  <2>2. \A c \in Calls \ {n} : Same(mainQueue, mainQueue', c)
    BY <1>4, <2>1, SameTwice
  <2> QED BY <1>1, <1>8, <2>1, <2>2 DEF Others
<1>11. Moves(n)
  BY <1>1, <1>3, <1>4, <1>5, <1>9, <1>10, OneMoves
<1>12. Phase(n) = "pending"
  BY <1>4, <1>5 DEF Phase, InFlight
<1> QED BY <1>9, <1>11, <1>12 DEF Decides

Answers(n) ==
  /\ Moves(n)
  /\ \/ Phase(n) = "succeeding" /\ Phase(n)' = "told"
     \/ Phase(n) = "failing" /\ Phase(n)' \in {"told", "withheld"}

LEMMA DeliveryAnswers ==
  ASSUME CarryInv, DeliverSuccess \/ DeliverFail
  PROVE  \E n \in Calls : Answers(n)
<1>1. PICK kind \in Answering, end \in {"told", "withheld"} :
        DeliverAnswer(kind, end) /\ (kind = "success" => end = "told")
  BY DEF DeliverSuccess, DeliverFail, Answering
<1>2. TypeInv' /\ TypeOK
  BY MainQueueTypes DEF MainQueueStep, CarryInv, TypeInv
<1>3. NextBlock(kind)
  BY <1>1 DEF DeliverAnswer
<1>4. Head(mainQueue) \in Block
  BY <1>2, <1>3, NextBlockTypes
<1>5. PICK n \in Calls : n = Head(mainQueue).call
  BY <1>4 DEF Block
<1>6. /\ mainQueue' = Tail(mainQueue)
      /\ outcome' = [outcome EXCEPT ![n] = end]
      /\ UNCHANGED <<taskState, issued, owner>>
  BY <1>1, <1>5 DEF DeliverAnswer, networkVars
<1>7. /\ Open(n) /\ owner[n] \in Managers /\ ~(n > issued)
      /\ Never(Tail(mainQueue), n) /\ taskState[n] \in {"none", "done"}
      /\ kind = "success" => Succeeding(mainQueue, n)
      /\ kind = "fail" => ~Succeeding(mainQueue, n)
      /\ \A c \in Calls \ {n} : Same(mainQueue, Tail(mainQueue), c)
  BY <1>3, <1>5, NextBlockFacts
<1>8. outcome'[n] = end /\ \A c \in Calls \ {n} : outcome'[c] = outcome[c]
  BY <1>2, <1>6 DEF TypeOK
<1>9. Never(mainQueue, n)'
  BY <1>6, <1>7 DEF Never
<1>10. CallCarried(n)'
  BY <1>6, <1>7, <1>8, <1>9 DEF CallCarried, Open
<1>11. Others(n)
  BY <1>6, <1>7, <1>8 DEF Others
<1>12. Moves(n)
  BY <1>2, <1>6, <1>7, <1>10, <1>11, OneMoves DEF Open
<1>13. Phase(n) = IF Succeeding(mainQueue, n) THEN "succeeding" ELSE "failing"
  BY <1>7 DEF Phase, Open, InFlight
<1>14. Phase(n)' = end
  BY <1>1, <1>6, <1>7, <1>8 DEF Phase
<1> QED BY <1>1, <1>7, <1>12, <1>13, <1>14 DEF Answers, Answering

(* A task that finishes leaves its call pending.                            *)
LEMMA FinishKeeps ==
  ASSUME CarryInv, NEW n \in Calls, TaskFinishes(n)
  PROVE  CarryInv' /\ \A c \in Calls : Phase(c)' = Phase(c)
<1>0. TypeInv' /\ TypeOK /\ mainQueue \in Seq(Block)
  BY OtherTypes DEF CarryInv, TypeInv, TypeOK
<1> DEFINE b == [kind |-> "completion", call |-> n]
<1>1. /\ taskState[n] = "running"
      /\ taskState' = [taskState EXCEPT ![n] = "finished"]
      /\ mainQueue' = Append(mainQueue, b)
      /\ UNCHANGED <<outcome, issued, owner>>
  BY DEF TaskFinishes, callVars
<1>2. b \in Block /\ b.call = n /\ b.kind \in Completing
  BY DEF Block, Completing
<1> HIDE DEF b
<1>3. CallCarried(n) /\ Numbered(n)
  BY DEF CarryInv
<1>4. Open(n) /\ Never(mainQueue, n) /\ owner[n] \in Managers
  BY <1>1, <1>3 DEF CallCarried, Numbered, Open
<1>5. /\ Once(mainQueue', n, Completing)
      /\ \A c \in Calls \ {n} : Same(mainQueue, mainQueue', c)
  BY <1>0, <1>1, <1>2, <1>4, AppendCarries
<1>6. taskState'[n] = "finished"
      /\ \A c \in Calls \ {n} : taskState'[c] = taskState[c]
  BY <1>0, <1>1 DEF TypeOK
<1>7. Once(mainQueue, n, Completing)'
  BY <1>5 DEF Once, Completing
<1>8. CallCarried(n)'
  BY <1>1, <1>4, <1>6, <1>7 DEF CallCarried, Open
<1>9. Others(n)
  BY <1>1, <1>5, <1>6 DEF Others
<1>10. Moves(n)
  BY <1>0, <1>1, <1>4, <1>8, <1>9, OneMoves DEF Open
<1>11. Phase(n)' = Phase(n)
  BY <1>1, <1>6 DEF Phase, InFlight
<1> QED BY <1>10, <1>11 DEF Moves

(* A restart loses what was carried.                                        *)
Loses ==
  \A c \in Calls :
    Phase(c)' = IF Phase(c) \in {"pending"} \cup Contract!Waiting THEN "lost" ELSE Phase(c)

LEMMA RestartLoses ==
  ASSUME CarryInv, Restart PROVE CarryInv' /\ Loses
<1>1. TypeInv' /\ TypeOK
  BY OtherTypes DEF CarryInv, TypeInv
<1>2. /\ UNCHANGED <<issued, owner>>
      /\ \A c \in Calls : taskState'[c] = "none"
      /\ mainQueue' = <<>>
      /\ \A c \in Calls : outcome'[c] = IF c <= issued /\ outcome[c] = "none"
                                        THEN "lost" ELSE outcome[c]
  BY DEF Restart
<1>3. ASSUME NEW c \in Calls
      PROVE  /\ CallCarried(c)' /\ Numbered(c)'
             /\ Phase(c)' = IF Phase(c) \in {"pending"} \cup Contract!Waiting THEN "lost"
                            ELSE Phase(c)
  <2>1. CallCarried(c) /\ Numbered(c) /\ outcome[c] \in Outcome
    BY <1>1 DEF CarryInv, TypeOK
  <2>2. Never(mainQueue, c)'
    BY <1>2 DEF Never
  <2>3. CallCarried(c)'
    BY <1>2, <2>2 DEF CallCarried, Open
  <2>4. Numbered(c)'
    BY <1>2, <2>1 DEF Numbered
  <2>5. c > issued <=> ~(c <= issued)
    BY <1>1 DEF TypeOK, Calls
  <2>6. (c > issued)' <=> c > issued
    BY <1>2
  <2>7. Phase(c)' = IF Phase(c) \in {"pending"} \cup Contract!Waiting THEN "lost"
                    ELSE Phase(c)
    <3>1. CASE c > issued
      BY <1>2, <2>5, <3>1 DEF Phase, Contract!Waiting
    <3>2. CASE ~(c > issued) /\ outcome[c] # "none"
      <4>1. outcome'[c] = outcome[c]
        BY <1>2, <3>2
      <4>2. c <= issued /\ ~(c > issued) /\ issued' = issued
        BY <1>2, <2>5, <3>2
      <4>3. Phase(c) = outcome[c]
        BY <3>2, <4>2 DEF Phase
      <4>4. Phase(c)' = outcome[c]
        BY <3>2, <4>1, <4>2 DEF Phase
      <4> QED BY <2>1, <3>2, <4>3, <4>4 DEF Outcome, Contract!Waiting
    <3>3. CASE ~(c > issued) /\ outcome[c] = "none"
      <4>1. outcome'[c] = "lost"
        BY <1>2, <2>5, <3>3
      <4>2. Phase(c)' = "lost"
        BY <2>5, <2>6, <3>3, <4>1, <1>2 DEF Phase
      <4>3. Phase(c) \in {"pending"} \cup Contract!Waiting
        BY <3>3 DEF Phase, Contract!Waiting
      <4> QED BY <4>2, <4>3
    <3> QED BY <3>1, <3>2, <3>3
  <2> QED BY <2>3, <2>4, <2>7
<1> QED BY <1>1, <1>3 DEF CarryInv, Loses

(* The other steps carry nothing.                                           *)
LEMMA OtherKeeps ==
  ASSUME CarryInv,
         \/ \E m \in Managers : cancelAllRequests(m)
         \/ \E m \in Managers, id \in Calls : cancelRequestWithRequestId(m, id)
         \/ \E m \in Managers : cleanData(m)
         \/ ReachabilityChanges
         \/ CacheStep
         \/ UNCHANGED vars
  PROVE  CarryInv' /\ \A c \in Calls : Phase(c)' = Phase(c)
<1>1. TypeInv'
  BY OtherTypes DEF CarryInv
<1>2. UNCHANGED <<mainQueue, taskState, outcome, owner, issued>>
  BY DEF cancelAllRequests, cancelRequestWithRequestId, cleanData,
         ReachabilityChanges, CacheStep, vars, callVars, networkVars
<1> QED BY <1>1, <1>2, NoneMoves

----------------------------------------------------------------------------
(* The contract.                                                            *)
LEMMA MoveOfContract ==
  ASSUME NEW n \in Calls, NEW from, NEW to, Moves(n), Phase(n) = from, Phase(n)' = to
  PROVE  Contract!Move(n, from, to)
<1>1. [c \in Calls |-> Phase(c)]' = [c \in Calls |-> Phase(c)']
  BY DEF Calls
<1>2. \A c \in Calls \ {n} : Phase(c)' = Phase(c)
  BY DEF Moves
<1>3. [c \in Calls |-> Phase(c)]' = [[c \in Calls |-> Phase(c)] EXCEPT ![n] = to]
  BY <1>1, <1>2
<1> QED BY <1>3 DEF Contract!Move

LEMMA CarryInit == Init => CarryInv /\ Contract!Init
<1> SUFFICES ASSUME Init PROVE CarryInv /\ Contract!Init
  OBVIOUS
<1>1. /\ issued = 0 /\ mainQueue = <<>>
      /\ \A c \in Calls : taskState[c] = "none" /\ outcome[c] = "none"
  BY DEF Init
<1>2. \A c \in Calls : c > issued /\ ~(c <= issued)
  BY <1>1 DEF Calls
<1>3. \A c \in Calls : CallCarried(c) /\ Numbered(c)
  BY <1>1, <1>2 DEF CallCarried, Numbered, Open, Never
<1>4. \A c \in Calls : Phase(c) = "unused"
  BY <1>2 DEF Phase
<1>5. Contract!Init
  BY <1>4 DEF Contract!Init, Contract!Calls, Calls
<1> QED BY <1>3, <1>5, TypeInvInit DEF CarryInv

LEMMA CarryNext ==
  CarryInv /\ [Next]_vars =>
    CarryInv' /\ [Contract!Next]_[c \in Calls |-> Phase(c)]
<1> SUFFICES ASSUME CarryInv, [Next]_vars
             PROVE  CarryInv' /\ [Contract!Next]_[c \in Calls |-> Phase(c)]
  OBVIOUS
<1>0. Contract!Calls = Calls
  BY DEF Contract!Calls, Calls
<1>1. ASSUME NEW m \in Managers, NEW k \in Key, Load(m, k)
      PROVE  CarryInv' /\ Contract!Next
  <2>1. PICK n \in Calls : Issues(n)
    BY <1>1, LoadIssues
  <2>2. Moves(n) /\ Phase(n) = "unused" /\ n = issued + 1
    BY <2>1 DEF Issues
  <2>3. PICK to \in {"pending", "refused"} \cup Contract!Decided :
          Phase(n)' = to
    BY <2>1 DEF Issues
  <2>4. Contract!Move(n, "unused", to)
    BY <2>2, <2>3, MoveOfContract
  <2>5. \A d \in Calls : d < n => Phase(d) # "unused"
    <3>1. SUFFICES ASSUME NEW d \in Calls, d < n PROVE Phase(d) # "unused"
      OBVIOUS
    <3>2. ~(d > issued) /\ d <= issued
      BY <2>2, <3>1 DEF CarryInv, TypeInv, TypeOK, Calls
    <3>3. outcome[d] \in Outcome
      BY DEF CarryInv, TypeInv, TypeOK
    <3> QED BY <3>2, <3>3 DEF Phase, Outcome
  <2>6. Contract!Issue(n)
    BY <1>0, <2>3, <2>4, <2>5 DEF Contract!Issue
  <2> QED BY <1>0, <2>2, <2>6 DEF Moves, Contract!Next
<1>2. ASSUME NEW n \in Calls, CompleteWithError(n) \/ CompleteWithBody(n)
      PROVE  CarryInv' /\ Contract!Next
  <2>1. Moves(n) /\ Phase(n) = "pending"
    BY <1>2, CompletionDecides DEF Decides
  <2>2. PICK to \in Contract!Decided : Phase(n)' = to
    BY <1>2, CompletionDecides DEF Decides
  <2>3. Contract!Move(n, "pending", to)
    BY <2>1, <2>2, MoveOfContract
  <2>4. Contract!Decide(n)
    BY <2>3 DEF Contract!Decide
  <2> QED BY <1>0, <2>1, <2>4 DEF Moves, Contract!Next
<1>3. CASE DeliverSuccess \/ DeliverFail
  <2>1. PICK n \in Calls : Answers(n)
    BY <1>3, DeliveryAnswers
  <2>2. Contract!Answer(n)
    BY <2>1, MoveOfContract DEF Answers, Contract!Answer
  <2> QED BY <1>0, <2>1, <2>2 DEF Answers, Moves, Contract!Next
<1>4. CASE Restart
  <2>1. CarryInv' /\ Loses
    BY <1>4, RestartLoses
  <2>2. [c \in Calls |-> Phase(c)]' = [c \in Calls |-> Phase(c)']
    BY DEF Calls
  <2>3. Contract!Lose
    BY <1>0, <2>1, <2>2 DEF Loses, Contract!Lose
  <2> QED BY <2>1, <2>3 DEF Contract!Next
<1>5. ASSUME CarryInv', \A c \in Calls : Phase(c)' = Phase(c)
      PROVE  CarryInv' /\ [Contract!Next]_[c \in Calls |-> Phase(c)]
  <2>1. [c \in Calls |-> Phase(c)]' = [c \in Calls |-> Phase(c)']
    BY DEF Calls
  <2> QED BY <1>5, <2>1
<1>6. ASSUME NEW n \in Calls, TaskFinishes(n)
      PROVE  CarryInv' /\ [Contract!Next]_[c \in Calls |-> Phase(c)]
  BY <1>5, <1>6, FinishKeeps
<1>7. CASE \/ \E m \in Managers : cancelAllRequests(m)
           \/ \E m \in Managers, id \in Calls : cancelRequestWithRequestId(m, id)
           \/ \E m \in Managers : cleanData(m)
           \/ ReachabilityChanges
           \/ CacheStep
           \/ UNCHANGED vars
  BY <1>5, <1>7, OtherKeeps
<1> QED BY <1>1, <1>2, <1>3, <1>4, <1>6, <1>7 DEF Next, AppStep, MainQueueStep

(* Every call goes through the phases of the contract, in its order, and    *)
(* ends at most once; that it ends at all is liveness.                      *)
THEOREM CallsKeepContract == Spec => Contract!Spec
BY CarryInit, CarryNext, PTL DEF Spec, Contract!Spec

(* No step of the contract moves a call that has ended.                     *)
LEMMA FinalStays ==
  ASSUME Contract!Next \/ UNCHANGED [c \in Calls |-> Phase(c)],
         NEW c \in Calls, Phase(c) \in Contract!Final
  PROVE  Phase(c)' = Phase(c)
<1> DEFINE p == [d \in Calls |-> Phase(d)]
<1>1. p' = [d \in Calls |-> Phase(d)'] /\ p[c] = Phase(c)
  BY DEF Calls
<1>2. Phase(c)' = p'[c]
  BY <1>1
<1>3. Phase(c) \notin {"unused", "pending"} \cup Contract!Waiting
  BY DEF Contract!Final, Contract!Waiting
<1>4. ASSUME NEW d \in Calls, NEW from \in {"unused", "pending"} \cup Contract!Waiting, NEW to,
             Contract!Move(d, from, to)
      PROVE  p'[c] = p[c]
  BY <1>1, <1>3, <1>4 DEF Contract!Move
<1>5. CASE \E d \in Contract!Calls :
             Contract!Issue(d) \/ Contract!Decide(d) \/ Contract!Answer(d)
  <2>1. Contract!Calls = Calls
    BY DEF Contract!Calls, Calls
  <2>2. PICK d \in Calls : Contract!Issue(d) \/ Contract!Decide(d) \/ Contract!Answer(d)
    BY <1>5, <2>1
  <2>3. \E from \in {"unused", "pending"} \cup Contract!Waiting :
          \E to : Contract!Move(d, from, to)
    BY <2>2 DEF Contract!Issue, Contract!Decide, Contract!Answer, Contract!Waiting
  <2> QED BY <1>1, <1>2, <1>4, <2>3
<1>6. CASE Contract!Lose
  <2>1. Contract!Calls = Calls
    BY DEF Contract!Calls, Calls
  <2> QED BY <1>1, <1>2, <1>3, <1>6, <2>1 DEF Contract!Lose
<1> QED BY <1>1, <1>2, <1>5, <1>6 DEF Contract!Next

(* A call that was told, handed over, withheld, refused or lost stays so:   *)
(* no late answer, cancellation, cache hit or restart gives it another end. *)
THEOREM OutcomesAreFinal ==
  Spec => [][\A c \in Calls : c <= issued /\ outcome[c] # "none"
               => c <= issued' /\ outcome'[c] = outcome[c]]_vars
<1> DEFINE Kept == \A c \in Calls : c <= issued /\ outcome[c] # "none"
                     => c <= issued' /\ outcome'[c] = outcome[c]
<1>1. CarryInv /\ [Next]_vars => Kept
  <2> SUFFICES ASSUME CarryInv, [Next]_vars, NEW c \in Calls,
                      c <= issued, outcome[c] # "none"
               PROVE  c <= issued' /\ outcome'[c] = outcome[c]
    OBVIOUS
  <2>0. CarryInv' /\ (Contract!Next \/ UNCHANGED [d \in Calls |-> Phase(d)])
    BY CarryNext
  <2>1. issued \in Nat /\ issued' \in Nat /\ outcome[c] \in Outcome
    BY <2>0 DEF CarryInv, TypeInv, TypeOK
  <2>2. c \in Nat /\ ~(c > issued)
    BY <2>1 DEF Calls
  <2>3. Phase(c) = outcome[c]
    BY <2>2 DEF Phase
  <2>4. Phase(c) \in Contract!Final
    BY <2>1, <2>3 DEF Outcome, Contract!Final
  <2>5. Phase(c)' = Phase(c)
    BY <2>0, <2>4, FinalStays
  <2>6. Phase(c)' \notin {"unused", "pending"} \cup Contract!Waiting
    BY <2>4, <2>5 DEF Contract!Final, Contract!Waiting
  <2>7. c <= issued' /\ outcome'[c] # "none" /\ Phase(c)' = outcome'[c]
    BY <2>1, <2>2, <2>6 DEF Phase, Contract!Waiting
  <2> QED BY <2>3, <2>5, <2>7
<1>2. Spec => []CarryInv
  BY CarryInit, CarryNext, PTL DEF Spec
<1> QED BY <1>1, <1>2, PTL DEF Spec

(* A call without an outcome is carried by one task or block, every other   *)
(* call by none: none is forgotten, none is answered twice.                 *)
THEOREM EveryCallIsCarried == Spec => []EveryCallCarried
<1>1. ASSUME CarryInv, NEW c \in Calls
      PROVE  IF c <= issued /\ outcome[c] = "none"
             THEN \E x \in Carriers(c) : Carriers(c) = {x}
             ELSE Carriers(c) = {}
  <2> DEFINE tasks == {<<"task", c>> : x \in {t \in {c} : taskState[t] = "running"}}
             at == {j \in DOMAIN mainQueue : mainQueue[j].call = c}
             blocks == {<<"block", i>> : i \in at}
  <2>1. CallCarried(c) /\ Carriers(c) = tasks \cup blocks
    BY <1>1 DEF CarryInv, Carriers
  <2>2. taskState[c] # "running" => tasks = {}
    OBVIOUS
  <2>3. taskState[c] = "running" => tasks = {<<"task", c>>}
    OBVIOUS
  <2>4. Never(mainQueue, c) => blocks = {}
    BY DEF Never
  <2>5. ASSUME NEW kinds, Once(mainQueue, c, kinds)
        PROVE  \E x : blocks = {x}
    <3>1. PICK i \in DOMAIN mainQueue :
            mainQueue[i].call = c
              /\ \A j \in DOMAIN mainQueue : mainQueue[j].call = c => j = i
      BY <2>5 DEF Once
    <3>2. at = {i}
      BY <3>1
    <3>3. blocks = {<<"block", i>>}
      BY <3>2
    <3> QED BY <3>3
  <2> HIDE DEF tasks, blocks
  <2>6. CASE Open(c)
    <3>1. \E x : tasks \cup blocks = {x}
      <4>1. CASE taskState[c] = "running" /\ Never(mainQueue, c)
        BY <2>3, <2>4, <4>1
      <4>2. CASE taskState[c] = "finished" /\ Once(mainQueue, c, Completing)
        BY <2>2, <2>5, <4>2
      <4>3. CASE /\ taskState[c] \in {"none", "done"}
                 /\ Once(mainQueue, c, Answering)
        BY <2>2, <2>5, <4>3
      <4> QED BY <2>1, <2>6, <4>1, <4>2, <4>3 DEF CallCarried
    <3> QED BY <2>1, <2>6, <3>1 DEF Open
  <2>7. CASE ~Open(c)
    BY <2>1, <2>2, <2>4, <2>7 DEF CallCarried, Open
  <2> QED BY <2>6, <2>7
<1>2. CarryInv => EveryCallCarried
  BY <1>1 DEF EveryCallCarried
<1> QED BY <1>2, CarryInit, CarryNext, PTL DEF Spec

----------------------------------------------------------------------------
(* The caches.  Only a completion writes a record; every other step drops   *)
(* records at most, and renumbers no call.                                  *)
Shrinks(cache, left) == \A k \in Key : left[k] \in {cache[k], NoRecord}

OnlyDrops ==
  /\ Shrinks(memory, memory') /\ Shrinks(disk, disk')
  /\ accepted' = accepted
  /\ issued' \in Nat
  /\ \A c \in Calls : c <= issued => c <= issued' /\ keyOf'[c] = keyOf[c]

LEMMA OnlyCompletionsSave ==
  ASSUME CarryInv, [Next]_vars
  PROVE  OnlyDrops \/ \E c \in Calls : CompleteWithBody(c)
<1>1. /\ issued \in Nat /\ \A c \in Calls : c \in Nat
      /\ keyOf \in [Calls -> Key \cup {NoKey}]
      /\ memory \in [Key -> Record \cup {NoRecord}]
      /\ disk \in [Key -> Record \cup {NoRecord}]
  BY ManagerAssumption DEF CarryInv, TypeInv, TypeOK, CacheTypeOK, Calls
<1>2. ASSUME NEW m \in Managers, NEW k \in Key, Load(m, k) PROVE OnlyDrops
  <2>1. /\ NewCall(m, k) /\ accepted' = accepted
        /\ cacheVars' = cacheVars \/ \E useCache : LookupDone(m, k, useCache)
    BY <1>2 DEF Load, LoadRefused, LoadInvalid, LoadFromCache, LoadUnreachable,
                LoadFromNetwork
  <2>2. /\ issued' \in Nat
        /\ \A c \in Calls : c <= issued => c <= issued' /\ keyOf'[c] = keyOf[c]
    <3>1. issued' = issued + 1 /\ keyOf' = [keyOf EXCEPT ![issued + 1] = k]
      BY <2>1 DEF NewCall
    <3> QED BY <1>1, <3>1
  <2>3. ASSUME NEW useCache, LookupDone(m, k, useCache)
        PROVE  Shrinks(memory, memory') /\ Shrinks(disk, disk')
    <3>1. memory' = memory \/ memory' = [memory EXCEPT ![k] = FetchMemory(k)]
      BY <2>3 DEF LookupDone, MemoryAfterFetch
    <3>2. disk' = disk \/ disk' = [disk EXCEPT ![k] = FetchDisk(k)]
      BY <2>3 DEF LookupDone, DiskAfterFetch
    <3>3. FetchMemory(k) \in {memory[k], NoRecord} /\ FetchDisk(k) \in {disk[k], NoRecord}
      BY DEF FetchMemory, FetchDisk
    <3> QED BY <1>1, <3>1, <3>2, <3>3 DEF Shrinks
  <2>4. Shrinks(memory, memory') /\ Shrinks(disk, disk')
    BY <2>1, <2>3 DEF Shrinks, cacheVars
  <2> QED BY <2>1, <2>2, <2>4 DEF OnlyDrops
<1>3. ASSUME UNCHANGED <<issued, keyOf, accepted, cacheVars>> PROVE OnlyDrops
  BY <1>1, <1>3 DEF OnlyDrops, Shrinks, cacheVars
<1>4. CASE Restart
  <2>1. /\ UNCHANGED <<disk, issued, keyOf, accepted>>
        /\ \A k \in Key : memory'[k] = NoRecord
    BY <1>4 DEF Restart, EmptyCache
  <2> QED BY <1>1, <2>1 DEF OnlyDrops, Shrinks
<1>5. CASE CacheStep
  <2>1. UNCHANGED <<issued, keyOf, accepted>> /\ CacheNext
    BY <1>5 DEF CacheStep, callVars
  <2>2. Shrinks(memory, memory') /\ Shrinks(disk, disk')
    BY <1>1, <2>1 DEF CacheNext, cleanAllMemoryCache, cleanAllDiskCache, Evict,
                      Tick, EmptyCache, Shrinks
  <2> QED BY <1>1, <2>1, <2>2 DEF OnlyDrops
<1>6. ASSUME NEW m \in Managers, cleanData(m) PROVE OnlyDrops
  BY <1>3, <1>6 DEF cleanData, callVars
<1>7. ASSUME NEW m \in Managers, cancelAllRequests(m) PROVE OnlyDrops
  BY <1>3, <1>7 DEF cancelAllRequests, callVars
<1>8. ASSUME NEW m \in Managers, NEW id \in Calls, cancelRequestWithRequestId(m, id)
      PROVE  OnlyDrops
  BY <1>3, <1>8 DEF cancelRequestWithRequestId, callVars
<1>9. ASSUME NEW c \in Calls, CompleteWithError(c) \/ TaskFinishes(c) PROVE OnlyDrops
  BY <1>3, <1>9 DEF CompleteWithError, TaskFinishes, callVars
<1>10. CASE DeliverSuccess \/ DeliverFail \/ ReachabilityChanges \/ UNCHANGED vars
  BY <1>3, <1>10 DEF DeliverSuccess, DeliverFail, DeliverAnswer,
                     ReachabilityChanges, callVars, vars
<1> QED BY <1>2, <1>4, <1>5, <1>6, <1>7, <1>8, <1>9, <1>10
        DEF Next, AppStep, MainQueueStep

(* A record made for body b.                                                *)
LEMMA SavedRecord ==
  ASSUME TypeInv, NEW cache \in [Key -> Record \cup {NoRecord}], NEW k \in Key,
         NEW b \in Body, NEW secs \in Seconds
  PROVE  /\ Saved(cache, k, b, secs)[k] # NoRecord
         /\ Saved(cache, k, b, secs)[k].body = b
         /\ \A l \in Key \ {k} : Saved(cache, k, b, secs)[l] = cache[l]
<1> DEFINE r == [body |-> b, savedAt |-> now, cacheTime |-> secs]
<1>1. now \in Nat /\ secs \in Nat
  BY CacheAssumption DEF TypeInv, TypeOK, CacheTypeOK
<1>2. r \in [body : Body, savedAt : Nat, cacheTime : Nat]
  BY <1>1
<1>3. r # NoRecord /\ r.body = b
  BY <1>2, CacheAssumption
<1> HIDE DEF r
<1> QED BY <1>3 DEF Saved, r

(* A completion leaves a layer alone or saves the call's body under the     *)
(* call's key, and then the call is accepted; the layers of a manager that  *)
(* uses both do the same.                                                   *)
Writes(c, b, cache, left) ==
  /\ c \in accepted' /\ keyOf[c] \in Key
  /\ left[keyOf[c]] # NoRecord /\ left[keyOf[c]].body = b
  /\ \A k \in Key \ {keyOf[c]} : left[k] = cache[k]

LEMMA CompletionSaves ==
  ASSUME CarryInv, NEW c \in Calls, CompleteWithBody(c)
  PROVE  /\ c <= issued /\ issued \in Nat /\ owner[c] \in Managers
         /\ UNCHANGED <<issued, keyOf>>
         /\ accepted' \in {accepted, accepted \cup {c}}
         /\ ResponseBody(c) \in {c, EmptyBody}
         /\ memory' = memory \/ Writes(c, ResponseBody(c), memory, memory')
         /\ disk' = disk \/ Writes(c, ResponseBody(c), disk, disk')
         /\ Policy[owner[c]] = {"memory", "disk"}
              => \/ memory' = memory /\ disk' = disk
                 \/ /\ Writes(c, ResponseBody(c), memory, memory')
                    /\ Writes(c, ResponseBody(c), disk, disk')
<1> DEFINE m == owner[c]
           b == ResponseBody(c)
<1>1. /\ TypeInv /\ issued \in Nat
      /\ memory \in [Key -> Record \cup {NoRecord}]
      /\ disk \in [Key -> Record \cup {NoRecord}]
      /\ keyOf[c] \in Key \cup {NoKey}
  BY ManagerAssumption DEF CarryInv, TypeInv, TypeOK, CacheTypeOK
<1>2. c <= issued /\ owner[c] \in Managers
  BY NextBlockFacts DEF CompleteWithBody, TaskLeaves, Open
<1>3. b \in {c, EmptyBody} /\ b \in Body
  BY ManagerAssumption DEF ResponseBody, EmptyBody, Calls
<1>4. PICK verdict \in BodyVerdicts :
        /\ SavedToCaches(m, c, verdict)
        /\ accepted' = IF verdict = "noError" THEN accepted \cup {c} ELSE accepted
  BY DEF CompleteWithBody
<1>5. UNCHANGED <<issued, keyOf>>
  BY DEF CompleteWithBody
<1> HIDE DEF m, b
<1>6. ASSUME NEW cache \in [Key -> Record \cup {NoRecord}], NEW left,
             NEW secs \in Seconds, left = Saved(cache, keyOf[c], b, secs),
             verdict = "noError"
      PROVE  left = cache \/ Writes(c, b, cache, left)
  <2>1. CASE keyOf[c] \in Key
    BY <1>1, <1>3, <1>4, <1>6, <2>1, SavedRecord DEF Writes
  <2>2. CASE keyOf[c] \notin Key
    BY <1>6, <2>2 DEF Saved
  <2> QED BY <2>1, <2>2
<1>7. /\ MemorySeconds \in Seconds /\ DiskSeconds \in Seconds
      /\ \/ memory' = memory
         \/ verdict = "noError" /\ memory' = Saved(memory, keyOf[c], b, MemorySeconds)
      /\ \/ disk' = disk
         \/ verdict = "noError" /\ disk' = Saved(disk, keyOf[c], b, DiskSeconds)
  BY <1>4, ManagerAssumption DEF SavedToCaches, b
<1>8. memory' = memory \/ Writes(c, b, memory, memory')
  BY <1>1, <1>6, <1>7
<1>9. disk' = disk \/ Writes(c, b, disk, disk')
  BY <1>1, <1>6, <1>7
<1>10. ASSUME Policy[m] = {"memory", "disk"}
       PROVE  \/ memory' = memory /\ disk' = disk
              \/ Writes(c, b, memory, memory') /\ Writes(c, b, disk, disk')
  <2>1. CASE verdict # "noError"
    BY <1>7, <2>1
  <2>2. CASE verdict = "noError" /\ keyOf[c] \in Key
    <3>1. /\ memory' = Saved(memory, keyOf[c], b, MemorySeconds)
          /\ disk' = Saved(disk, keyOf[c], b, DiskSeconds)
      BY <1>4, <1>10, <2>2 DEF SavedToCaches, b
    <3> QED BY <1>1, <1>3, <1>4, <1>7, <2>2, <3>1, SavedRecord DEF Writes
  <2>3. CASE verdict = "noError" /\ keyOf[c] \notin Key
    BY <1>1, <1>7, <2>3 DEF Saved
  <2> QED BY <2>1, <2>2, <2>3
<1> QED BY <1>1, <1>2, <1>3, <1>4, <1>5, <1>8, <1>9, <1>10 DEF m, b

(* What a layer holds.                                                      *)
Accepted(cache) ==
  \A k \in Key :
    cache[k] # NoRecord /\ cache[k].body # EmptyBody
      => cache[k].body \in accepted /\ keyOf[cache[k].body] = k

CacheInv ==
  /\ Accepted(memory) /\ Accepted(disk)
  /\ \A c \in accepted : c \in Calls /\ c <= issued

LEMMA CacheInvNext == CarryInv /\ CacheInv /\ [Next]_vars => CacheInv'
<1> SUFFICES ASSUME CarryInv, CacheInv, [Next]_vars PROVE CacheInv'
  OBVIOUS
<1>1. ASSUME OnlyDrops PROVE CacheInv'
  <2>1. \A c \in accepted : c \in Calls /\ c <= issued' /\ keyOf'[c] = keyOf[c]
    BY <1>1 DEF OnlyDrops, CacheInv
  <2>2. ASSUME NEW cache, NEW left, Accepted(cache), Shrinks(cache, left), NEW k \in Key,
               left[k] # NoRecord, left[k].body # EmptyBody
        PROVE  left[k].body \in accepted /\ keyOf'[left[k].body] = k
    <3>1. left[k] = cache[k]
      BY <2>2 DEF Shrinks
    <3> QED BY <2>1, <2>2, <3>1 DEF Accepted
  <2>3. Accepted(memory)' /\ Accepted(disk)'
    BY <1>1, <2>2 DEF Accepted, OnlyDrops, CacheInv
  <2> QED BY <1>1, <2>1, <2>3 DEF CacheInv, OnlyDrops
<1>2. ASSUME NEW c \in Calls, CompleteWithBody(c) PROVE CacheInv'
  <2>1. /\ c <= issued /\ issued' = issued /\ keyOf' = keyOf
        /\ accepted' \in {accepted, accepted \cup {c}}
        /\ ResponseBody(c) \in {c, EmptyBody}
        /\ memory' = memory \/ Writes(c, ResponseBody(c), memory, memory')
        /\ disk' = disk \/ Writes(c, ResponseBody(c), disk, disk')
    BY <1>2, CompletionSaves
  <2>2. ASSUME NEW cache, NEW left, Accepted(cache),
               left = cache \/ Writes(c, ResponseBody(c), cache, left), NEW k \in Key,
               left[k] # NoRecord, left[k].body # EmptyBody
        PROVE  left[k].body \in accepted' /\ keyOf'[left[k].body] = k
    <3>1. CASE left[k] = cache[k]
      BY <2>1, <2>2, <3>1 DEF Accepted
    <3>2. CASE Writes(c, ResponseBody(c), cache, left) /\ k = keyOf[c]
      BY <2>1, <2>2, <3>2 DEF Writes
    <3> QED BY <2>2, <3>1, <3>2 DEF Writes
  <2>3. Accepted(memory)' /\ Accepted(disk)'
    BY <2>1, <2>2 DEF Accepted, CacheInv
  <2> QED BY <2>1, <2>3 DEF CacheInv
<1> QED BY <1>1, <1>2, OnlyCompletionsSave

(* What the caches hold was accepted for the key it is held under.          *)
THEOREM CachesHoldAccepted == Spec => []CacheHoldsAccepted
<1>1. Init => CacheInv
  BY DEF Init, CacheInit, CacheInv, Accepted, EmptyCache
<1>2. CacheInv => CacheHoldsAccepted
  BY DEF CacheInv, Accepted, CacheHoldsAccepted
<1> QED BY <1>1, <1>2, CarryInit, CarryNext, CacheInvNext, PTL DEF Spec

(* The two layers of managers that use both hold the same body under a key. *)
THEOREM LayersHoldTheSame ==
  (\A m \in Managers : Policy[m] = {"memory", "disk"}) => (Spec => []LayersAgree)
<1> SUFFICES ASSUME \A m \in Managers : Policy[m] = {"memory", "disk"}
             PROVE  Spec => []LayersAgree
  OBVIOUS
<1>1. Init => LayersAgree
  BY DEF Init, CacheInit, LayersAgree, EmptyCache
<1>2. ASSUME CarryInv, LayersAgree, [Next]_vars PROVE LayersAgree'
  <2>1. CASE OnlyDrops
    BY <1>2, <2>1 DEF OnlyDrops, Shrinks, LayersAgree
  <2>2. ASSUME NEW c \in Calls, CompleteWithBody(c) PROVE LayersAgree'
    <3>1. \/ memory' = memory /\ disk' = disk
          \/ /\ Writes(c, ResponseBody(c), memory, memory')
             /\ Writes(c, ResponseBody(c), disk, disk')
      BY <1>2, <2>2, CompletionSaves
    <3> QED BY <1>2, <3>1 DEF Writes, LayersAgree
  <2> QED BY <1>2, <2>1, <2>2, OnlyCompletionsSave
<1> QED BY <1>1, <1>2, CarryInit, CarryNext, PTL DEF Spec

----------------------------------------------------------------------------
(* An app that waits for each answer of a manager: a success block waiting  *)
(* on the main queue then still finds the data of its call.                 *)
(* A body from a cache is the body of a call made earlier.                  *)
Shown(c) ==
  /\ UsableFor(c)
  /\ LET m == owner[c] IN
     response[m].from = "cache" /\ fetchedRawData[m] # EmptyBody
       => fetchedRawData[m] \in Calls /\ fetchedRawData[m] <= issued

OnePerManager ==
  \A c, d \in Calls : Open(c) /\ Open(d) /\ owner[c] = owner[d] => c = d

SerialInv ==
  /\ OnePerManager
  /\ \A c \in Calls : Succeeding(mainQueue, c) => Shown(c)

LEMMA SucceedingQueues ==
  ASSUME NEW q \in Seq(Block)
  PROVE  /\ \A b \in Block, c \in Calls :
              Succeeding(Append(q, b), c)
                => Succeeding(q, c) \/ (b.kind = "success" /\ b.call = c)
         /\ q # <<>> => \A c \in Calls : Succeeding(Tail(q), c) => Succeeding(q, c)
<1>1. ASSUME NEW b \in Block, NEW c \in Calls, Succeeding(Append(q, b), c),
             ~(b.kind = "success" /\ b.call = c)
      PROVE  Succeeding(q, c)
  <2>1. PICK i \in DOMAIN Append(q, b) :
          Append(q, b)[i].kind = "success" /\ Append(q, b)[i].call = c
    BY <1>1 DEF Succeeding
  <2>2. i \in DOMAIN q /\ Append(q, b)[i] = q[i]
    BY <1>1, <2>1
  <2> QED BY <2>1, <2>2 DEF Succeeding
<1>2. ASSUME q # <<>>, NEW c \in Calls, Succeeding(Tail(q), c)
      PROVE  Succeeding(q, c)
  <2>1. PICK i \in DOMAIN Tail(q) : Tail(q)[i].kind = "success" /\ Tail(q)[i].call = c
    BY <1>2 DEF Succeeding
  <2>2. i + 1 \in DOMAIN q /\ Tail(q)[i] = q[i + 1]
    BY <1>2, <2>1
  <2> QED BY <2>1, <2>2 DEF Succeeding
<1> QED BY <1>1, <1>2

(* A call with a success block has no outcome yet and its task is gone.     *)
LEMMA SucceedingOpen ==
  ASSUME CarryInv, NEW c \in Calls, Succeeding(mainQueue, c)
  PROVE  /\ Open(c) /\ c <= issued /\ owner[c] \in Managers
         /\ taskState[c] # "running"
<1>1. CallCarried(c) /\ Numbered(c) /\ ~Never(mainQueue, c)
  BY DEF CarryInv, Succeeding, Never
<1> QED BY <1>1 DEF CallCarried, Numbered, Open

(* What a success block shows, it goes on showing while its manager, its    *)
(* task and the keys of the calls made so far are left alone.               *)
KeysStay ==
  \A d \in Calls : d <= issued => /\ d <= issued' /\ keyOf'[d] = keyOf[d]
                                  /\ owner'[d] = owner[d]

Untouched(m) ==
  /\ errorType'[m] = errorType[m] /\ fetchedRawData'[m] = fetchedRawData[m]
  /\ response'[m] = response[m]

LEMMA StillShown ==
  ASSUME KeysStay, NEW c \in Calls, c <= issued, Shown(c), Untouched(owner[c]),
         taskResult'[c] = taskResult[c]
  PROVE  Shown(c)'
<1>1. keyOf'[c] = keyOf[c] /\ owner'[c] = owner[c]
  BY DEF KeysStay
<1>2. ResponseBody(c)' = ResponseBody(c)
  BY DEF ResponseBody
<1> QED BY <1>1, <1>2 DEF Shown, UsableFor, Untouched, KeysStay

(* No new call, and none opens: still one per manager.                      *)
LEMMA StillOne ==
  ASSUME OnePerManager, owner' = owner, issued' = issued,
         \A c \in Calls : outcome'[c] = "none" => outcome[c] = "none"
  PROVE  OnePerManager'
BY DEF OnePerManager, Open

(* A step that adds no success block and leaves the managers with success   *)
(* blocks alone keeps the invariant.                                        *)
LEMMA Uneventful ==
  ASSUME CarryInv, SerialInv, issued' = issued, owner' = owner, keyOf' = keyOf,
         \A c \in Calls : outcome'[c] = "none" => outcome[c] = "none",
         \A c \in Calls :
           Succeeding(mainQueue', c)
             => /\ Succeeding(mainQueue, c)
                /\ Untouched(owner[c]) /\ taskResult'[c] = taskResult[c]
  PROVE  SerialInv'
<1>1. KeysStay
  BY DEF KeysStay
<1>2. OnePerManager'
  BY StillOne DEF SerialInv
<1>3. ASSUME NEW c \in Calls, Succeeding(mainQueue', c) PROVE Shown(c)'
  BY <1>1, <1>3, StillShown, SucceedingOpen DEF SerialInv
<1> QED BY <1>2, <1>3 DEF SerialInv, Succeeding

(* The callbacks touch one manager and queue a block for one call.          *)
LEMMA CallbackShows ==
  ASSUME TypeOK, NEW m \in Managers, NEW n \in Calls, NEW body, NEW id, NEW verdict,
         NEW q \in Seq(Block),
         \/ Answered(m, n, body, id, verdict, q)
         \/ failed(m, n, body, id, verdict, q)
  PROVE  /\ \A o \in Managers \ {m} : errorType'[o] = errorType[o]
         /\ \A c \in Calls \ {n} : outcome'[c] = outcome[c]
         /\ \A c \in Calls : Succeeding(mainQueue', c)
              => Succeeding(q, c) \/ (c = n /\ errorType'[m] = "success")
         /\ failed(m, n, body, id, verdict, q)
              => \A c \in Calls : Succeeding(mainQueue', c) => Succeeding(q, c)
<1>0. /\ \A kind \in Answering : [kind |-> kind, call |-> n] \in Block
      /\ errorType \in [Managers -> ErrorType] /\ outcome \in [Calls -> Outcome]
  BY DEF Block, Answering, TypeOK
<1>1. ASSUME failed(m, n, body, id, verdict, q)
      PROVE  /\ \A o \in Managers \ {m} : errorType'[o] = errorType[o]
             /\ \A c \in Calls \ {n} : outcome'[c] = outcome[c]
             /\ \A c \in Calls : Succeeding(mainQueue', c) => Succeeding(q, c)
  <2>1. /\ errorType' = [errorType EXCEPT ![m] = verdict]
        /\ outcome' \in {outcome, [outcome EXCEPT ![n] = "handedOver"]}
        /\ mainQueue' \in {q, Append(q, [kind |-> "fail", call |-> n])}
    BY <1>1 DEF failed
  <2> DEFINE b == [kind |-> "fail", call |-> n]
  <2>2. b \in Block /\ b.kind # "success" /\ mainQueue' \in {q, Append(q, b)}
    BY <1>0, <2>1 DEF Answering
  <2> HIDE DEF b
  <2>3. ASSUME NEW c \in Calls, Succeeding(mainQueue', c) PROVE Succeeding(q, c)
    <3>1. Succeeding(Append(q, b), c) => Succeeding(q, c)
      BY <2>2, SucceedingQueues
    <3> QED BY <2>2, <2>3, <3>1
  <2> QED BY <1>0, <2>1, <2>3
<1>2. ASSUME succeeded(m, n, id, q)
      PROVE  /\ \A o \in Managers \ {m} : errorType'[o] = errorType[o]
             /\ \A c \in Calls \ {n} : outcome'[c] = outcome[c]
             /\ errorType'[m] = "success"
             /\ \A c \in Calls : Succeeding(mainQueue', c) => Succeeding(q, c) \/ c = n
  <2>1. /\ errorType' = [errorType EXCEPT ![m] = "success"]
        /\ outcome' \in {outcome, [outcome EXCEPT ![n] = "withheld"]}
        /\ mainQueue' \in {q, Append(q, [kind |-> "success", call |-> n])}
    BY <1>2 DEF succeeded
  <2> DEFINE b == [kind |-> "success", call |-> n]
  <2>2. b \in Block /\ b.call = n /\ mainQueue' \in {q, Append(q, b)}
    BY <1>0, <2>1 DEF Answering
  <2> HIDE DEF b
  <2>3. ASSUME NEW c \in Calls, Succeeding(mainQueue', c), c # n PROVE Succeeding(q, c)
    <3>1. Succeeding(Append(q, b), c) => Succeeding(q, c)
      BY <2>2, <2>3, SucceedingQueues
    <3> QED BY <2>2, <2>3, <3>1
  <2> QED BY <1>0, <2>1, <2>3
<1> QED BY <1>1, <1>2 DEF Answered

(* A call is made only when its manager has none without an outcome.        *)
LEMMA CallMadeSerial ==
  ASSUME Discipline = "serial", CarryInv, SerialInv, NEW m \in Managers, NEW k \in Key,
         NewCall(m, k), NEW n \in Calls, n = issued + 1, taskResult' = taskResult,
         \A o \in Managers \ {m} : Untouched(o),
         \A c \in Calls \ {n} : outcome'[c] = outcome[c],
         \A c \in Calls : Succeeding(mainQueue', c)
           => Succeeding(mainQueue, c) \/ (c = n /\ Shown(n)')
  PROVE  SerialInv'
<1>1. /\ owner'[n] = m /\ KeysStay /\ ~(n <= issued)
      /\ \A c \in Calls \ {n} :
           owner'[c] = owner[c] /\ (c <= issued' <=> c <= issued)
  <2>1. /\ ~(n <= issued) /\ issued \in Nat
        /\ \A c \in Calls \ {n} :
             owner'[c] = owner[c] /\ (c <= issued' <=> c <= issued)
    BY NewCallFacts
  <2>2. /\ owner' = [owner EXCEPT ![n] = m] /\ keyOf' = [keyOf EXCEPT ![n] = k]
        /\ DOMAIN owner = Calls /\ DOMAIN keyOf = Calls
    BY DEF NewCall, CarryInv, TypeInv, TypeOK
  <2> QED BY <2>1, <2>2 DEF KeysStay
<1>2. ASSUME NEW c \in Calls, Open(c) PROVE owner[c] # m
  <2>1. ~Unsettled(m)
    BY DEF NewCall, MayCall
  <2>2. c \in 1..issued /\ outcome[c] = "none"
    BY <1>2 DEF Open, Calls, CarryInv, TypeInv, TypeOK
  <2> QED BY <2>1, <2>2 DEF Unsettled
<1>3. \A c \in Calls \ {n} : Open(c)' <=> Open(c)
  BY <1>1 DEF Open
<1>4. OnePerManager'
  <2>1. SUFFICES ASSUME NEW c \in Calls, NEW d \in Calls, Open(c)', Open(d)',
                        owner'[c] = owner'[d]
                 PROVE  c = d
    BY DEF OnePerManager
  <2>2. CASE c # n /\ d # n
    BY <1>1, <1>3, <2>1, <2>2 DEF SerialInv, OnePerManager
  <2>3. CASE c = n /\ d # n
    BY <1>1, <1>2, <1>3, <2>1, <2>3
  <2>4. CASE c # n /\ d = n
    BY <1>1, <1>2, <1>3, <2>1, <2>4
  <2> QED BY <2>2, <2>3, <2>4
<1>5. ASSUME NEW c \in Calls, Succeeding(mainQueue', c) PROVE Shown(c)'
  <2>1. CASE Succeeding(mainQueue, c)
    <3>1. Open(c) /\ c <= issued /\ owner[c] \in Managers /\ Shown(c)
      BY <2>1, SucceedingOpen DEF SerialInv
    <3>2. Untouched(owner[c])
      BY <1>2, <3>1
    <3> QED BY <1>1, <3>1, <3>2, StillShown
  <2>2. CASE c = n /\ Shown(n)'
    BY <2>2
  <2> QED BY <1>5, <2>1, <2>2
<1> QED BY <1>4, <1>5 DEF SerialInv, Succeeding

(* What a lookup finds.                                                     *)
LEMMA CachedBody ==
  ASSUME CacheInv, NEW m, NEW k \in Key, NEW useCache,
         CachedAnswer(m, k, useCache) # NoRecord
  PROVE  LET body == CachedAnswer(m, k, useCache).body
         IN body # EmptyBody => body \in Calls /\ body <= issued /\ keyOf[body] = k
<1> DEFINE answer == CachedAnswer(m, k, useCache)
<1>1. answer \in {memory[k], disk[k]} /\ answer # NoRecord
  BY DEF CachedAnswer, MemoryAnswer, FetchMemory, FetchDisk
<1> HIDE DEF answer
<1>2. answer.body # EmptyBody => answer.body \in accepted /\ keyOf[answer.body] = k
  BY <1>1 DEF CacheInv, Accepted
<1>3. answer.body # EmptyBody => answer.body \in Calls /\ answer.body <= issued
  BY <1>2 DEF CacheInv
<1> QED BY <1>2, <1>3 DEF answer

LEMMA LoadSerial ==
  ASSUME Discipline = "serial", CarryInv, CacheInv, SerialInv, NEW m \in Managers,
         NEW k \in Key, Load(m, k)
  PROVE  SerialInv'
<1>1. NewCall(m, k)
  BY DEF Load, LoadRefused, LoadInvalid, LoadFromCache, LoadUnreachable,
         LoadFromNetwork
<1>2. PICK n \in Calls : n = issued + 1
  BY <1>1, NewCallFacts
<1>3. /\ TypeOK /\ mainQueue \in Seq(Block)
      /\ outcome \in [Calls -> Outcome]
      /\ fetchedRawData \in [Managers -> Body \cup {NotFetched}]
      /\ response \in [Managers -> Response]
      /\ issued \in Nat /\ issued' = issued + 1
      /\ keyOf' = [keyOf EXCEPT ![n] = k] /\ DOMAIN keyOf = Calls
      /\ owner' = [owner EXCEPT ![n] = m] /\ DOMAIN owner = Calls
  BY <1>1, <1>2 DEF CarryInv, TypeInv, TypeOK, NewCall
<1>4. CASE LoadRefused(m, k)
  <2>1. /\ UNCHANGED <<managerVars, taskResult, mainQueue>>
        /\ outcome' = [outcome EXCEPT ![n] = "refused"]
    BY <1>2, <1>4 DEF LoadRefused, networkVars
  <2>2. \A o \in Managers : Untouched(o)
    BY <2>1 DEF Untouched, managerVars
  <2> QED BY <1>1, <1>2, <1>3, <2>1, <2>2, CallMadeSerial
<1>5. CASE \E useCache \in BOOLEAN : LoadFromNetwork(m, k, useCache)
  <2>1. UNCHANGED <<errorType, fetchedRawData, response, taskResult, mainQueue, outcome>>
    BY <1>5 DEF LoadFromNetwork
  <2>2. \A o \in Managers : Untouched(o)
    BY <2>1 DEF Untouched
  <2> QED BY <1>1, <1>2, <1>3, <2>1, <2>2, CallMadeSerial
<1>6. ASSUME NEW verdict, failed(m, n, EmptyBody, 0, verdict, mainQueue),
             UNCHANGED <<fetchedRawData, response, taskResult>>
      PROVE  SerialInv'
  <2>1. /\ \A o \in Managers \ {m} : errorType'[o] = errorType[o]
        /\ \A c \in Calls \ {n} : outcome'[c] = outcome[c]
        /\ \A c \in Calls : Succeeding(mainQueue', c) => Succeeding(mainQueue, c)
    BY <1>3, <1>6, CallbackShows
  <2>2. \A o \in Managers \ {m} : Untouched(o)
    BY <1>6, <2>1 DEF Untouched
  <2> QED BY <1>1, <1>2, <1>6, <2>1, <2>2, CallMadeSerial
<1>7. CASE LoadFromCache(m, k)
  <2> DEFINE body == CachedAnswer(m, k, TRUE).body
  <2>1. /\ CachedAnswer(m, k, TRUE) # NoRecord
        /\ response' = [response EXCEPT ![m] = [from |-> "cache", body |-> body]]
        /\ fetchedRawData' = [fetchedRawData EXCEPT ![m] = body]
        /\ taskResult' = taskResult
        /\ \E verdict : Answered(m, n, body, 0, verdict, mainQueue)
    BY <1>2, <1>7 DEF LoadFromCache, Received, networkVars
  <2>2. body # EmptyBody => body \in Calls /\ body <= issued /\ keyOf[body] = k
    BY <2>1, CachedBody
  <2> HIDE DEF body
  <2>3. /\ \A o \in Managers \ {m} : errorType'[o] = errorType[o]
        /\ \A c \in Calls \ {n} : outcome'[c] = outcome[c]
        /\ \A c \in Calls : Succeeding(mainQueue', c)
             => Succeeding(mainQueue, c) \/ (c = n /\ errorType'[m] = "success")
    BY <1>3, <2>1, CallbackShows
  <2>4. \A o \in Managers \ {m} : Untouched(o)
    BY <1>3, <2>1, <2>3 DEF Untouched
  <2>5. /\ response'[m].from = "cache" /\ response'[m].body = body
        /\ fetchedRawData'[m] = body /\ owner'[n] = m /\ keyOf'[n] = k
    BY <1>3, <2>1
  <2>6. body # EmptyBody => body \in Calls /\ body <= issued' /\ keyOf'[body] = k
    BY <1>2, <1>3, <2>2 DEF Calls
  <2>7. errorType'[m] = "success" => Shown(n)'
    BY <2>5, <2>6 DEF Shown, UsableFor
  <2> QED BY <1>1, <1>2, <2>1, <2>3, <2>4, <2>7, CallMadeSerial
<1>8. CASE LoadInvalid(m, k)
  <2>1. /\ UNCHANGED <<fetchedRawData, response, taskResult>>
        /\ \E verdict : failed(m, n, EmptyBody, 0, verdict, mainQueue)
    BY <1>2, <1>8 DEF LoadInvalid, networkVars
  <2> QED BY <1>6, <2>1
<1>9. CASE \E useCache \in BOOLEAN : LoadUnreachable(m, k, useCache)
  <2>1. /\ UNCHANGED <<fetchedRawData, response, taskResult>>
        /\ failed(m, n, EmptyBody, 0, "noNetwork", mainQueue)
    BY <1>2, <1>9 DEF LoadUnreachable, networkVars
  <2> QED BY <1>6, <2>1
<1> QED BY <1>4, <1>5, <1>7, <1>8, <1>9 DEF Load

(* A completion touches the manager of its call, which has no other call    *)
(* without an outcome.                                                      *)
LEMMA CompletionSerial ==
  ASSUME CarryInv, SerialInv, NEW n \in Calls,
         CompleteWithError(n) \/ CompleteWithBody(n)
  PROVE  SerialInv'
<1> DEFINE m == owner[n]
           q == Tail(mainQueue)
<1>1. /\ TaskLeaves(n) /\ UNCHANGED <<issued, owner, keyOf, taskResult>>
      /\ \E body, verdict :
           \/ Answered(m, n, body, taskId[n], verdict, q)
           \/ failed(m, n, body, taskId[n], verdict, q)
  BY DEF CompleteWithError, CompleteWithBody
<1>2. NextBlock("completion") /\ n = Head(mainQueue).call
  BY <1>1 DEF TaskLeaves
<1>3. /\ TypeOK /\ mainQueue \in Seq(Block) /\ mainQueue # <<>> /\ q \in Seq(Block)
      /\ fetchedRawData \in [Managers -> Body \cup {NotFetched}]
      /\ response \in [Managers -> Response]
  BY <1>2, NextBlockTypes DEF CarryInv, TypeInv, TypeOK, NextBlock
<1>4. m \in Managers /\ n <= issued /\ Open(n) /\ Never(q, n)
  BY <1>2, NextBlockFacts DEF Open
<1> HIDE DEF m, q
<1>5. /\ \A o \in Managers \ {m} : errorType'[o] = errorType[o]
      /\ \A c \in Calls \ {n} : outcome'[c] = outcome[c]
      /\ \A c \in Calls : Succeeding(mainQueue', c)
           => Succeeding(q, c) \/ (c = n /\ errorType'[m] = "success")
  BY <1>1, <1>3, <1>4, CallbackShows
<1>6. \A c \in Calls : Succeeding(q, c) => Succeeding(mainQueue, c) /\ c # n
  BY <1>3, <1>4, SucceedingQueues DEF q, Never, Succeeding
<1>7. \A o \in Managers \ {m} :
        fetchedRawData'[o] = fetchedRawData[o] /\ response'[o] = response[o]
  BY <1>3, <1>4 DEF CompleteWithError, CompleteWithBody, Received, m
<1>8. KeysStay
  BY <1>1 DEF KeysStay
<1>9. OnePerManager'
  BY <1>1, <1>4, <1>5, StillOne DEF SerialInv, Open
<1>10. ASSUME NEW c \in Calls, Succeeding(q, c) PROVE Shown(c)'
  <2>1. /\ c # n /\ Open(c) /\ c <= issued /\ owner[c] \in Managers /\ Shown(c)
    BY <1>6, <1>10, SucceedingOpen DEF SerialInv
  <2>2. owner[c] # m
    BY <1>4, <2>1 DEF SerialInv, OnePerManager, m
  <2>3. Untouched(owner[c])
    BY <1>5, <1>7, <2>1, <2>2 DEF Untouched
  <2> QED BY <1>1, <1>8, <2>1, <2>3, StillShown
<1>11. ASSUME Succeeding(mainQueue', n), errorType'[m] = "success" PROVE Shown(n)'
  <2>1. CASE CompleteWithBody(n)
    <3>1. /\ response' = [response EXCEPT
                            ![m] = [from |-> "network", body |-> ResponseBody(n)]]
          /\ fetchedRawData' = [fetchedRawData EXCEPT ![m] = ResponseBody(n)]
      BY <2>1 DEF CompleteWithBody, Received, m
    <3>2. /\ response'[m].from = "network" /\ response'[m].body = ResponseBody(n)
          /\ fetchedRawData'[m] = ResponseBody(n)
      BY <1>3, <1>4, <3>1
    <3>3. ResponseBody(n)' = ResponseBody(n) /\ owner'[n] = m
      BY <1>1 DEF ResponseBody, m
    <3> QED BY <1>11, <3>2, <3>3 DEF Shown, UsableFor
  <2>2. CASE CompleteWithError(n)
    <3>1. \E verdict : failed(m, n, ResponseBody(n), taskId[n], verdict, q)
      BY <2>2 DEF CompleteWithError, m, q
    <3>2. Succeeding(q, n)
      BY <1>3, <1>4, <1>11, <3>1, CallbackShows
    <3> QED BY <1>10, <3>2
  <2> QED BY <2>1, <2>2
<1> QED BY <1>5, <1>9, <1>10, <1>11 DEF SerialInv, Succeeding

(* Every other step.                                                        *)
LEMMA OthersSerial ==
  ASSUME Discipline = "serial", CarryInv, SerialInv,
         \/ DeliverSuccess \/ DeliverFail
         \/ \E n \in Calls : TaskFinishes(n)
         \/ \E m \in Managers : cancelAllRequests(m)
         \/ \E m \in Managers, id \in Calls : cancelRequestWithRequestId(m, id)
         \/ \E m \in Managers : cleanData(m)
         \/ ReachabilityChanges \/ CacheStep \/ Restart \/ UNCHANGED vars
  PROVE  SerialInv'
<1>1. /\ TypeOK /\ mainQueue \in Seq(Block) /\ outcome \in [Calls -> Outcome]
      /\ taskResult \in [Calls -> {"none", "ok", "cancel"} \cup Failures]
      /\ fetchedRawData \in [Managers -> Body \cup {NotFetched}]
      /\ errorType \in [Managers -> ErrorType]
  BY DEF CarryInv, TypeInv, TypeOK
<1>2. CASE DeliverSuccess \/ DeliverFail
  <2>1. PICK kind, end : DeliverAnswer(kind, end) /\ end \in {"told", "withheld"}
    BY <1>2 DEF DeliverSuccess, DeliverFail
  <2>2. /\ mainQueue # <<>> /\ mainQueue' = Tail(mainQueue)
        /\ outcome' = [outcome EXCEPT ![Head(mainQueue).call] = end]
        /\ UNCHANGED <<managerVars, taskResult, issued, owner, keyOf>>
    BY <2>1 DEF DeliverAnswer, NextBlock, networkVars
  <2>3. \A m : Untouched(m)
    BY <2>2 DEF Untouched, managerVars
  <2>4. \A c \in Calls : Succeeding(mainQueue', c) => Succeeding(mainQueue, c)
    BY <1>1, <2>2, SucceedingQueues
  <2>5. \A c \in Calls : outcome'[c] = "none" => outcome[c] = "none"
    BY <1>1, <2>1, <2>2
  <2> QED BY <2>2, <2>3, <2>4, <2>5, Uneventful
<1>3. ASSUME NEW n \in Calls, TaskFinishes(n) PROVE SerialInv'
  <2> DEFINE b == [kind |-> "completion", call |-> n]
  <2>1. /\ taskState[n] = "running" /\ mainQueue' = Append(mainQueue, b)
        /\ \E result : taskResult' = [taskResult EXCEPT ![n] = result]
        /\ UNCHANGED <<managerVars, issued, owner, keyOf, outcome>>
    BY <1>3 DEF TaskFinishes, callVars
  <2>2. b \in Block /\ b.kind # "success"
    BY DEF Block
  <2> HIDE DEF b
  <2>3. ASSUME NEW c \in Calls, Succeeding(mainQueue', c)
        PROVE  Succeeding(mainQueue, c) /\ taskResult'[c] = taskResult[c]
    <3>1. Succeeding(Append(mainQueue, b), c) => Succeeding(mainQueue, c)
      BY <1>1, <2>2, SucceedingQueues
    <3>2. Succeeding(mainQueue, c)
      BY <2>1, <2>3, <3>1
    <3>3. c # n
      BY <2>1, <3>2, SucceedingOpen
    <3> QED BY <1>1, <2>1, <3>2, <3>3
  <2>4. \A m : Untouched(m)
    BY <2>1 DEF Untouched, managerVars
  <2> QED BY <2>1, <2>3, <2>4, Uneventful
<1>4. CASE Restart
  <2>1. /\ mainQueue' = <<>>
        /\ UNCHANGED <<issued, owner, keyOf>>
        /\ \A c \in Calls : outcome'[c] = IF c <= issued /\ outcome[c] = "none"
                                          THEN "lost" ELSE outcome[c]
    BY <1>4 DEF Restart
  <2>2. \A c \in Calls : ~Succeeding(mainQueue', c)
    BY <2>1 DEF Succeeding
  <2>3. \A c \in Calls : outcome'[c] = "none" => outcome[c] = "none"
    BY <2>1
  <2> QED BY <2>1, <2>2, <2>3, Uneventful
<1>5. ASSUME NEW m \in Managers, cleanData(m) PROVE SerialInv'
  <2>1. /\ ~Unsettled(m)
        /\ fetchedRawData' = [fetchedRawData EXCEPT ![m] = NotFetched]
        /\ errorType' = [errorType EXCEPT ![m] = "default"]
        /\ UNCHANGED <<response, taskResult, mainQueue, issued, owner, keyOf, outcome>>
    BY <1>5 DEF cleanData, networkVars, callVars
  <2>2. ASSUME NEW c \in Calls, Succeeding(mainQueue, c) PROVE Untouched(owner[c])
    <3>1. Open(c) /\ c \in 1..issued
      BY <2>2, SucceedingOpen DEF Open, Calls, CarryInv, TypeInv, TypeOK
    <3>2. owner[c] # m
      BY <2>1, <3>1 DEF Unsettled, Open
    <3> QED BY <1>1, <2>1, <3>2 DEF Untouched
  <2> QED BY <2>1, <2>2, Uneventful
<1>6. ASSUME UNCHANGED <<errorType, fetchedRawData, response, taskResult,
                         mainQueue, issued, owner, keyOf, outcome>>
      PROVE  SerialInv'
  <2>1. \A m : Untouched(m)
    BY <1>6 DEF Untouched
  <2> QED BY <1>6, <2>1, Uneventful
<1>7. ASSUME \/ \E m \in Managers : cancelAllRequests(m)
             \/ \E m \in Managers, id \in Calls : cancelRequestWithRequestId(m, id)
             \/ ReachabilityChanges \/ CacheStep \/ UNCHANGED vars
      PROVE  SerialInv'
  BY <1>6, <1>7 DEF cancelAllRequests, cancelRequestWithRequestId,
                    ReachabilityChanges, CacheStep, vars, managerVars, networkVars,
                    callVars
<1> QED BY <1>2, <1>3, <1>4, <1>5, <1>7

LEMMA SerialNext ==
  ASSUME Discipline = "serial", CarryInv, CacheInv, SerialInv, [Next]_vars
  PROVE  SerialInv'
BY LoadSerial, CompletionSerial, OthersSerial DEF Next, AppStep, MainQueueStep

LEMMA SerialHolds ==
  Discipline = "serial" => (Spec => [](CarryInv /\ CacheInv /\ SerialInv))
<1> SUFFICES ASSUME Discipline = "serial"
             PROVE  Spec => [](CarryInv /\ CacheInv /\ SerialInv)
  OBVIOUS
<1>1. Init => CarryInv /\ CacheInv /\ SerialInv
  BY CarryInit
     DEF Init, CacheInit, CacheInv, Accepted, EmptyCache, SerialInv, OnePerManager,
         Open, Succeeding, Calls
<1>2. CarryInv /\ CacheInv /\ SerialInv /\ [Next]_vars
        => (CarryInv /\ CacheInv /\ SerialInv)'
  BY CarryNext, CacheInvNext, SerialNext
<1> QED BY <1>1, <1>2, PTL DEF Spec

(* A success block that waits will find its call's data, in an app that     *)
(* waits for each answer.                                                   *)
THEOREM SuccessWaits == Discipline = "serial" => (Spec => []SuccessShowsItsCall)
<1>1. CarryInv /\ SerialInv => SuccessShowsItsCall
  <2> SUFFICES ASSUME CarryInv, SerialInv, NEW i \in DOMAIN mainQueue,
                      mainQueue[i].kind = "success"
               PROVE  UsableFor(mainQueue[i].call)
    BY DEF SuccessShowsItsCall
  <2>1. mainQueue[i] \in Block
    BY DEF CarryInv, TypeInv, TypeOK
  <2>2. PICK c \in Calls : c = mainQueue[i].call
    BY <2>1 DEF Block
  <2> QED BY <2>2 DEF SerialInv, Succeeding, Shown
<1> QED BY <1>1, SerialHolds, PTL

(* What RCNetworkingDefines.h says of success holds in such an app.         *)
THEOREM SuccessUsable == Discipline = "serial" => (Spec => SuccessMeansUsable)
<1>1. CarryInv /\ SerialInv => (DeliverSuccess => UsableFor(Head(mainQueue).call))
  <2> SUFFICES ASSUME CarryInv, SerialInv, DeliverSuccess
               PROVE  UsableFor(Head(mainQueue).call)
    OBVIOUS
  <2>1. /\ mainQueue \in Seq(Block) /\ mainQueue # <<>>
        /\ Head(mainQueue).kind = "success"
    BY DEF CarryInv, TypeInv, TypeOK, DeliverSuccess, DeliverAnswer, NextBlock
  <2>2. 1 \in DOMAIN mainQueue /\ Head(mainQueue) = mainQueue[1] /\ mainQueue[1] \in Block
    BY <2>1
  <2>3. PICK c \in Calls : c = mainQueue[1].call
    BY <2>2 DEF Block
  <2> QED BY <2>1, <2>2, <2>3 DEF SerialInv, Succeeding, Shown
<1> QED BY <1>1, SerialHolds, PTL DEF SuccessMeansUsable

=============================================================================
