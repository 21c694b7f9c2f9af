------------------------------- MODULE Cache -------------------------------
(***************************************************************************)
(* The ageing cache of djmount/cache.c, in the variant that is compiled    *)
(* (CACHE_FIXED_SIZE 0: a hash table of entries, which owns its data until *)
(* it hands them to free_expired_data).                                    *)
(*                                                                         *)
(* Cache_Get returns a pointer to the data of an entry; its caller reads   *)
(* the data or, when NULL, may store what it fetched.  The clock may       *)
(* advance meanwhile.  The functions are not thread safe: the caller holds *)
(* a mutex from Cache_Get until it has stored the data, so the calls of    *)
(* this module follow one another.                                         *)
(***************************************************************************)
EXTENDS Integers

CONSTANTS
  Key, NoKey,
  Data, Null,       \* Data: addresses of fetched data
  MaxAge,           \* max_age, 0 to disable ageing
  CleanPeriod,      \* CACHE_CLEAN_PERIOD
  Horizon           \* the bound of the clock

ASSUME TimeAssumption == MaxAge \in Nat /\ CleanPeriod \in Nat /\ Horizon \in Nat
ASSUME NullAssumption == Null \notin Data
ASSUME NoKeyAssumption == NoKey \notin Key

VARIABLES
  now,          \* time (NULL)
  table,        \* the entries, by key
  nextClean,    \* next_clean
  slot,         \* the key whose &data the caller holds, if any
  asked,        \* when the caller got it: what it stores is as old as that
  alive,        \* data fetched and not yet freed
  born          \* when each of them was asked for

cacheVars == <<table, nextClean, slot, asked>>
vars      == <<now, cacheVars, alive, born>>

Stored(t) == {t[k].data : k \in DOMAIN t} \ {Null}

Init ==
  /\ now = 1
  /\ table = << >>
  /\ nextClean = 0
  /\ slot = NoKey
  /\ asked = 0
  /\ alive = {}
  /\ born = [d \in Data |-> 0]

Valid(k)  == MaxAge = 0 \/ now <= table[k].rip

NewEntry == [rip |-> now + MaxAge, data |-> Null]
Put(t, k, e) == [x \in DOMAIN t \cup {k} |-> IF x = k THEN e ELSE t[x]]
Stale(t)  == {k \in DOMAIN t : now > t[k].rip}
Remaining(t) == [k \in DOMAIN t \ Stale(t) |-> t[k]]

(* Mutant of CleanDue: the period is not added to the time of the cleaning. *)
CleanRarely == MaxAge > 0 /\ now > nextClean + CleanPeriod

CleanDue  == MaxAge > 0 /\ now > nextClean

(* cache_expire_entries *)
ExpireEntries(t) ==
  IF CleanDue
  THEN table' = Remaining(t) /\ nextClean' = now + CleanPeriod
  ELSE table' = t /\ nextClean' = nextClean

Hit(k) ==
  /\ k \in DOMAIN table
  /\ Valid(k)
  /\ UNCHANGED <<table, nextClean>>

(* Mutant of Expired: the entry is renewed and its data kept.               *)
RenewExpired(k) ==
  /\ k \in DOMAIN table
  /\ ~Valid(k)
  /\ table' = [table EXCEPT ![k].rip = now + MaxAge]
  /\ UNCHANGED nextClean

Expired(k) ==
  /\ k \in DOMAIN table
  /\ ~Valid(k)
  /\ table' = Put(table, k, NewEntry)
  /\ UNCHANGED nextClean

(* Mutant of New: the table is cleaned before rip is set.                   *)
CleanBeforeInit(k) ==
  /\ k \notin DOMAIN table
  /\ ExpireEntries(Put(table, k, [rip |-> 0, data |-> Null]))

New(k) ==
  /\ k \notin DOMAIN table
  /\ ExpireEntries(Put(table, k, NewEntry))

(* Cache_Get (cache, k), and the data it gives to free_expired_data.        *)
Lookup(k) == Hit(k) \/ Expired(k) \/ New(k)

(* Mutant of Released: free_expired_data is not called.                     *)
NothingReleased == {}

Released == Stored(table) \ Stored(table')

Get(k) ==
  /\ Lookup(k)
  /\ slot' = k
  /\ asked' = now
  /\ alive' = alive \ Released
  /\ UNCHANGED <<now, born>>

(* The caller of Cache_Get (cache, k) stores d, which it asked for at time t *)
(* after an empty answer, ...                                               *)
Store(k, d, t) ==
  /\ table[k].data = Null
  /\ table' = [table EXCEPT ![k].data = d]
  /\ born' = [born EXCEPT ![d] = t]

Set ==
  /\ slot # NoKey
  /\ \E d \in Data \ alive :
       /\ Store(slot, d, asked)
       /\ alive' = alive \cup {d}
  /\ slot' = NoKey
  /\ asked' = 0
  /\ UNCHANGED <<now, nextClean>>

(* ... or is done with the answer, or could fetch nothing.                  *)
Leave ==
  /\ slot # NoKey
  /\ slot' = NoKey
  /\ asked' = 0
  /\ UNCHANGED <<now, table, nextClean, alive, born>>

(* _Cache_PurgeExpiredEntries; nobody keeps a pointer across the call.      *)
Purge ==
  /\ slot = NoKey
  /\ IF MaxAge > 0
     THEN table' = Remaining(table) /\ nextClean' = now + CleanPeriod
     ELSE table' = table /\ nextClean' = now - 1
  /\ alive' = alive \ Released
  /\ UNCHANGED <<now, slot, asked, born>>

Tick ==
  /\ now < Horizon
  /\ now' = now + 1
  /\ UNCHANGED <<cacheVars, alive, born>>

Next == (\E k \in Key : Get(k)) \/ Set \/ Leave \/ Purge \/ Tick

Spec == Init /\ [][Next]_vars

-----------------------------------------------------------------------------
(* Properties.                                                              *)

Entry == [rip : Nat, data : Data \cup {Null}]

(* Every variable keeps its type.                                           *)
TypeOK ==
  /\ now \in Nat \ {0}
  /\ DOMAIN table \subseteq Key
  /\ \A k \in DOMAIN table : table[k] \in Entry
  /\ nextClean \in Nat
  /\ slot \in Key \cup {NoKey}
  /\ asked \in Nat
  /\ alive \subseteq Data
  /\ born \in [Data -> Nat]

(* What Cache_Get returned was asked for at most max_age before, however    *)
(* long its fetch took and however often a fetch for that key had failed.   *)
ServedFresh ==
  MaxAge > 0 /\ slot # NoKey /\ table[slot].data # Null =>
    asked - born[table[slot].data] <= MaxAge

(* The entry whose &data was returned is still in the table: the cleaning   *)
(* that a miss runs never deletes the entry that the miss has inserted.     *)
SlotLive == slot # NoKey => slot \in DOMAIN table

(* Every fetched datum is freed once, when its entry drops it: the live     *)
(* ones are exactly those in the table, each in one entry.                  *)
Accounted ==
  /\ alive = Stored(table)
  /\ \A j, k \in DOMAIN table :
       table[j].data = table[k].data /\ table[j].data # Null => j = k

(* A miss leaves no entry that expired more than a cleaning period ago,     *)
(* however many keys were looked up once and never again.                   *)
GarbageBounded ==
  [][MaxAge > 0 /\ (\E k \in Key : k \notin DOMAIN table /\ slot' = k) =>
       \A j \in DOMAIN table' : now - table'[j].rip <= CleanPeriod]_vars
=============================================================================
