--------------------------- MODULE RCCacheCenter ---------------------------
(***************************************************************************)
(* The two response caches behind RCCacheCenter: RCMemoryCacheDataCenter   *)
(* (an NSCache of RCMemoryCachedRecord) and RCDiskCacheCenter (entries of  *)
(* NSUserDefaults).  A key is the formatted service + method + parameter   *)
(* string; a body is the JSON content of a response.  Time is the wall     *)
(* clock both centers read through NSDate.                                 *)
(***************************************************************************)
EXTENDS Integers

CONSTANTS
  Key,        \* formatted cache keys
  Body,       \* contents of responses
  Seconds,    \* cache times a manager may ask for
  NoRecord,   \* no entry under a key
  MaxTime     \* bound on the clock

ASSUME CacheAssumption ==
  /\ Seconds \subseteq Nat
  /\ MaxTime \in Nat
  /\ NoRecord \notin [body : Body, savedAt : Nat, cacheTime : Nat]

VARIABLES
  memory,     \* key -> record held by the NSCache
  disk,       \* key -> record held by NSUserDefaults
  now         \* the wall clock

cacheVars == <<memory, disk, now>>

Record == [body : Body, savedAt : 0..MaxTime, cacheTime : Seconds]

EmptyCache == [k \in Key |-> NoRecord]

CacheTypeOK ==
  /\ memory \in [Key -> Record \cup {NoRecord}]
  /\ disk \in [Key -> Record \cup {NoRecord}]
  /\ now \in 0..MaxTime

CacheInit ==
  /\ memory = EmptyCache
  /\ disk = EmptyCache
  /\ now = 0

----------------------------------------------------------------------------
(* Lookups: the record that answers, and the cache the lookup leaves.       *)

Age(rec) == now - rec.savedAt

MemoryLive(k) == memory[k] # NoRecord /\ Age(memory[k]) <= memory[k].cacheTime

DiskLive(k) == disk[k] # NoRecord /\ Age(disk[k]) < disk[k].cacheTime

FetchMemory(k) == IF MemoryLive(k) THEN memory[k] ELSE NoRecord

FetchDisk(k) == IF DiskLive(k) THEN disk[k] ELSE NoRecord

MemoryAfterFetch(k) == [memory EXCEPT ![k] = FetchMemory(k)]

DiskAfterFetch(k) == [disk EXCEPT ![k] = FetchDisk(k)]

Saved(cache, k, b, secs) ==
  [cache EXCEPT ![k] = [body |-> b, savedAt |-> now, cacheTime |-> secs]]

----------------------------------------------------------------------------
(* Steps of the caches that no request takes.                               *)

cleanAllMemoryCache == memory' = EmptyCache /\ UNCHANGED <<disk, now>>

cleanAllDiskCache == disk' = EmptyCache /\ UNCHANGED <<memory, now>>

(* NSCache drops entries on its own: past countLimit, or under memory       *)
(* pressure.                                                                *)
Evict(k) ==
  /\ memory[k] # NoRecord
  /\ memory' = [memory EXCEPT ![k] = NoRecord]
  /\ UNCHANGED <<disk, now>>

Tick ==
  /\ now < MaxTime
  /\ now' = now + 1
  /\ UNCHANGED <<memory, disk>>

CacheNext ==
  \/ cleanAllMemoryCache
  \/ cleanAllDiskCache
  \/ \E k \in Key : Evict(k)
  \/ Tick
============================================================================
