----------------------------- MODULE ContentDir -----------------------------
(***************************************************************************)
(* Browse and Search of one ContentDirectory (djmount/content_dir.c): FUSE *)
(* threads share the fetched children of an object through the cache of    *)
(* the service.                                                            *)
(*                                                                         *)
(* A reader calls Browse with the mutex of the device list held, and Browse *)
(* takes the mutex of the cache for its lookup and for the fetch.  The      *)
(* result is used, and later destroyed, without the mutex of the list;      *)
(* DestroyResult takes that of the cache.                                   *)
(*                                                                         *)
(* Children are talloc memory: a context (the cache) owns them, refs counts *)
(* the references added to that, and talloc_free drops a reference if there *)
(* is one and frees the memory otherwise.                                   *)
(***************************************************************************)
EXTENDS Naturals, FiniteSets

CONSTANTS
  Reader, Nobody,
  Key, NoKey,         \* an object id with Browse flag or search criteria
  Data, Null,         \* addresses of Children
  MaxAge,             \* CACHE_TIMEOUT
  CleanPeriod, Horizon,
  Quiet               \* the device leaves only when no result is in use

ASSUME ReaderAssumption == Nobody \notin Reader /\ IsFiniteSet(Reader)
ASSUME TimeAssumption   == MaxAge \in Nat /\ CleanPeriod \in Nat /\ Horizon \in Nat
ASSUME DataAssumption   == Null \notin Data /\ NoKey \notin Key
ASSUME QuietAssumption  == Quiet \in BOOLEAN

VARIABLES
  listLock,      \* owner of DeviceListMutex
  cacheLock,     \* owner of cache_mutex
  pc,
  key, since,    \* what each reader asks for and when it looked it up
  result,        \* br->children of each reader
  alive, refs,   \* allocated Children and their references
  present,       \* the device has not been freed
  now, table, nextClean, born   \* the cache, see module Cache

cacheVars == <<table, nextClean, born>>
vars == <<listLock, cacheLock, pc, key, since, result, alive, refs, present,
          now, cacheVars>>

Cached == {table[k].data : k \in DOMAIN table} \ {Null}

(* The reader that holds cp, the address of an entry's data.                *)
Looking == {r \in Reader : pc[r] = "cp"}
Slot    == IF Looking = {} THEN NoKey ELSE key[CHOOSE r \in Looking : TRUE]
Asked   == IF Looking = {} THEN 0 ELSE since[CHOOSE r \in Looking : TRUE]

C == INSTANCE Cache WITH slot <- Slot, asked <- Asked, alive <- Cached

Goto(r, from, to) ==
  /\ pc[r] = from
  /\ pc' = [pc EXCEPT ![r] = to]

(* BrowseOrSearchWithCache returns: both mutexes are released.              *)
Leave(r) ==
  /\ listLock' = Nobody /\ cacheLock' = Nobody
  /\ key' = [key EXCEPT ![r] = NoKey]
  /\ since' = [since EXCEPT ![r] = 0]

Init ==
  /\ listLock = Nobody /\ cacheLock = Nobody
  /\ pc = [r \in Reader |-> "idle"]
  /\ key = [r \in Reader |-> NoKey]
  /\ since = [r \in Reader |-> 0]
  /\ result = [r \in Reader |-> Null]
  /\ alive = {}
  /\ refs = [d \in Data |-> 0]
  /\ present = TRUE
  /\ now = 1 /\ table = << >> /\ nextClean = 0
  /\ born = [d \in Data |-> 0]

-----------------------------------------------------------------------------
(* DEVICE_LIST_CALL_SERVICE (.., ContentDir, Browse, ..).                   *)
Browse(r) ==
  /\ Goto(r, "idle", "browse")
  /\ present
  /\ listLock = Nobody /\ listLock' = r
  /\ \E k \in Key : key' = [key EXCEPT ![r] = k]
  /\ UNCHANGED <<cacheLock, since, result, alive, refs, present, now, cacheVars>>

(* cache_free_expired_data, for what a lookup drops from the table.         *)
ReleaseCached(dropped) ==
  /\ alive' = alive \ {d \in dropped : refs[d] = 0}
  /\ refs' = [d \in Data |->
                IF d \in dropped /\ refs[d] > 0 THEN refs[d] - 1 ELSE refs[d]]

(* Mutant of CacheGet: both mutexes are released for the time of the fetch. *)
CacheGetUnlocked(r) ==
  /\ Goto(r, "browse", "cp")
  /\ cacheLock = Nobody
  /\ listLock' = Nobody /\ cacheLock' = Nobody
  /\ C!Lookup(key[r])
  /\ ReleaseCached(C!Released)
  /\ since' = [since EXCEPT ![r] = now]
  /\ UNCHANGED <<key, result, present, now, born>>

CacheGet(r) ==
  /\ Goto(r, "browse", "cp")
  /\ cacheLock = Nobody /\ cacheLock' = r
  /\ C!Lookup(key[r])
  /\ ReleaseCached(C!Released)
  /\ since' = [since EXCEPT ![r] = now]
  /\ UNCHANGED <<listLock, key, result, present, now, born>>

(* Mutant of Hit: no reference is added.                                    *)
HitWithoutReference(r) ==
  LET d == table[key[r]].data IN
  /\ Goto(r, "cp", "use")
  /\ d # Null
  /\ result' = [result EXCEPT ![r] = d]
  /\ Leave(r)
  /\ UNCHANGED <<refs, alive, present, now, cacheVars>>

Hit(r) ==
  LET d == table[key[r]].data IN
  /\ Goto(r, "cp", "use")
  /\ d # Null
  /\ result' = [result EXCEPT ![r] = d]
  /\ refs' = [refs EXCEPT ![d] = @ + 1]
  /\ Leave(r)
  /\ UNCHANGED <<alive, present, now, cacheVars>>

(* BrowseOrSearchAll answered.                                              *)
Fetch(r) ==
  /\ Goto(r, "cp", "use")
  /\ \E d \in Data \ alive :
       /\ C!Store(key[r], d, since[r])
       /\ alive' = alive \cup {d}
       /\ refs' = [refs EXCEPT ![d] = 1]
       /\ result' = [result EXCEPT ![r] = d]
  /\ Leave(r)
  /\ UNCHANGED <<present, now, nextClean>>

(* Mutant of FetchFails: returns with the mutex of the cache held.          *)
FailLocked(r) ==
  /\ Goto(r, "cp", "idle")
  /\ table[key[r]].data = Null
  /\ listLock' = Nobody
  /\ key' = [key EXCEPT ![r] = NoKey]
  /\ since' = [since EXCEPT ![r] = 0]
  /\ UNCHANGED <<cacheLock, result, alive, refs, present, now, cacheVars>>

(* It failed: the entry stays empty, and Browse returns NULL.               *)
FetchFails(r) ==
  /\ Goto(r, "cp", "idle")
  /\ table[key[r]].data = Null
  /\ Leave(r)
  /\ UNCHANGED <<result, alive, refs, present, now, cacheVars>>

-----------------------------------------------------------------------------
(* DestroyResult: talloc_free (br->children) looks whether there is a       *)
(* reference, then drops it or frees the memory.                            *)

DestroyResult(r) ==
  /\ pc[r] = "use"
  /\ cacheLock = Nobody /\ cacheLock' = r
  /\ pc' = [pc EXCEPT ![r] = IF refs[result[r]] > 0 THEN "drop" ELSE "free"]
  /\ UNCHANGED <<listLock, key, since, result, alive, refs, present, now,
                 cacheVars>>

Drop(r) ==
  /\ Goto(r, "drop", "idle")
  /\ refs' = [refs EXCEPT ![result[r]] = @ - 1]
  /\ result' = [result EXCEPT ![r] = Null]
  /\ cacheLock' = Nobody
  /\ UNCHANGED <<listLock, key, since, alive, present, now, cacheVars>>

FreeLast(r) ==
  /\ Goto(r, "free", "idle")
  /\ alive' = alive \ {result[r]}
  /\ result' = [result EXCEPT ![r] = Null]
  /\ cacheLock' = Nobody
  /\ UNCHANGED <<listLock, key, since, refs, present, now, cacheVars>>

-----------------------------------------------------------------------------
(* The contexts that own the Children one after the other while a device is *)
(* freed: the cache, the service, the device and its node.                  *)
Contexts == 4

(* talloc_free of the device, unlinked from the list: each context tries to *)
(* free the Children, which drops a reference and hands them to the next    *)
(* context if there is one.  The table goes too and is not read again.      *)
RemoveDevice ==
  /\ present
  /\ listLock = Nobody
  /\ Quiet => \A r \in Reader : result[r] = Null
  /\ present' = FALSE
  /\ alive' = {d \in alive : refs[d] >= Contexts}
  /\ refs' = [d \in Data |-> IF refs[d] >= Contexts THEN refs[d] - Contexts ELSE 0]
  /\ UNCHANGED <<listLock, cacheLock, pc, key, since, result, now, cacheVars>>

Tick ==
  /\ present /\ now < Horizon
  /\ now' = now + 1
  /\ UNCHANGED <<listLock, cacheLock, pc, key, since, result, alive, refs,
                 present, cacheVars>>

BrowseStep(r)  == CacheGet(r) \/ Hit(r) \/ Fetch(r) \/ FetchFails(r)
DestroyStep(r) == DestroyResult(r) \/ Drop(r) \/ FreeLast(r)

Next ==
  \/ \E r \in Reader : Browse(r) \/ BrowseStep(r) \/ DestroyStep(r)
  \/ RemoveDevice
  \/ Tick

Spec == Init /\ [][Next]_vars

(* A fetch ends (libupnp bounds it by a timeout), results are destroyed when *)
(* the FUSE operation ends, and a mutex that is released again and again is *)
(* obtained.                                                                *)
Fairness == \A r \in Reader : SF_vars(BrowseStep(r)) /\ SF_vars(DestroyStep(r))

FairSpec == Spec /\ Fairness
-----------------------------------------------------------------------------
(* Properties.                                                              *)

(* Every variable keeps its type.                                           *)
TypeOK ==
  /\ listLock \in Reader \cup {Nobody}
  /\ cacheLock \in Reader \cup {Nobody}
  /\ pc \in [Reader -> {"idle", "browse", "cp", "use", "drop", "free"}]
  /\ key \in [Reader -> Key \cup {NoKey}]
  /\ since \in [Reader -> Nat]
  /\ result \in [Reader -> Data \cup {Null}]
  /\ alive \subseteq Data
  /\ refs \in [Data -> Nat]
  /\ present \in BOOLEAN
  /\ now \in Nat /\ nextClean \in Nat
  /\ DOMAIN table \subseteq Key
  /\ born \in [Data -> Nat]

(* Children are really freed only when their reference count drops to zero: *)
(* those of a result stay allocated until the result is destroyed, even     *)
(* when the cache expires them meanwhile.                                   *)
ResultUsable == \A r \in Reader : result[r] # Null => result[r] \in alive

Users(d) == {r \in Reader : result[r] = d}

(* The owners of allocated Children are the results that use them and the   *)
(* entry of the table: one more than refs.  So the last owner frees them,   *)
(* nobody uses what is freed, and nothing else stays allocated.             *)
OwnersCounted ==
  /\ ResultUsable
  /\ \A d \in alive :
       refs[d] + 1 =
         Cardinality(Users(d)) + (IF present /\ d \in Cached THEN 1 ELSE 0)

(* Threads that browse at the same time use the cache as its interface asks *)
(* of a single thread: no other lookup comes between that of a reader and   *)
(* the storing of what it fetched.                                          *)
UsesCacheAlone == C!Spec

(* A Browse that was started returns: the two mutexes are nested in one     *)
(* order, and each is released on every path.                               *)
BrowseReturns ==
  \A r \in Reader : (pc[r] = "browse") ~> (pc[r] \in {"use", "idle"})
=============================================================================
