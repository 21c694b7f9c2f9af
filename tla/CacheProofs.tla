---------------------------- MODULE CacheProofs ----------------------------
(***************************************************************************)
(* The properties of the cache for all keys, ages and periods.  The        *)
(* inductive invariant bounds each time of an entry by the time at which   *)
(* its data was asked for and by the time of the next cleaning.            *)
(***************************************************************************)
EXTENDS Cache, TLAPS

USE TimeAssumption, NullAssumption, NoKeyAssumption

(* No entry lives longer than max_age after its data was asked for, nor the *)
(* returned one, while it is empty, than max_age after the call.            *)
AgeInv ==
  MaxAge > 0 =>
    /\ asked <= now
    /\ \A k \in DOMAIN table : table[k].data # Null =>
         table[k].rip <= born[table[k].data] + MaxAge
    /\ slot # NoKey /\ table[slot].data = Null =>
         table[slot].rip <= asked + MaxAge
    /\ \A k \in DOMAIN table : table[k].rip <= now + MaxAge

(* The last cleaning, at nextClean - CleanPeriod, left nothing older.       *)
CleanInv ==
  MaxAge > 0 =>
    /\ nextClean <= now + CleanPeriod
    /\ \A k \in DOMAIN table : table[k].rip >= nextClean - CleanPeriod

IInv == TypeOK /\ SlotLive /\ Accounted /\ AgeInv /\ CleanInv /\ ServedFresh

LEMMA Initial == Init => IInv
  BY DEF Init, IInv, TypeOK, SlotLive, Accounted, Stored, AgeInv, CleanInv,
         ServedFresh, Entry

LEMMA RemainingFacts ==
  ASSUME NEW t
  PROVE  /\ DOMAIN Remaining(t) \subseteq DOMAIN t
         /\ \A j \in DOMAIN Remaining(t) :
              Remaining(t)[j] = t[j] /\ ~(now > t[j].rip)
         /\ \A j \in DOMAIN t : ~(now > t[j].rip) => j \in DOMAIN Remaining(t)
  BY DEF Remaining, Stale

(* What a cleaning, if it is due, does to a table.                          *)
LEMMA ExpireFacts ==
  ASSUME NEW t, ExpireEntries(t)
  PROVE  /\ DOMAIN table' \subseteq DOMAIN t
         /\ \A j \in DOMAIN table' : table'[j] = t[j]
         /\ \A j \in DOMAIN t : ~(now > t[j].rip) => j \in DOMAIN table'
         /\ \/ ~CleanDue /\ nextClean' = nextClean
            \/ /\ CleanDue
               /\ nextClean' = now + CleanPeriod
               /\ \A j \in DOMAIN table' : ~(now > t[j].rip)
  BY RemainingFacts DEF ExpireEntries

(* Cache_Get answers with an entry of the table, valid or just made; every  *)
(* other entry that is left is unchanged.                                   *)
Answered(k) ==
  /\ slot' = k
  /\ asked' = now
  /\ k \in DOMAIN table'
  /\ \/ k \in DOMAIN table /\ Valid(k) /\ table'[k] = table[k]
     \/ table'[k] = NewEntry
  /\ \A j \in DOMAIN table' \ {k} : j \in DOMAIN table /\ table'[j] = table[j]
  /\ \/ nextClean' = nextClean
     \/ /\ nextClean' = now + CleanPeriod
        /\ \A j \in DOMAIN table' : table'[j].rip >= now
  /\ k \in DOMAIN table \/ ~CleanDue \/ nextClean' = now + CleanPeriod

LEMMA GetFacts ==
  ASSUME IInv, NEW k \in Key, Get(k)
  PROVE  Answered(k)
  <1> DEFINE t == Put(table, k, NewEntry)
  <1>0. /\ DOMAIN t = DOMAIN table \cup {k}
        /\ t[k] = NewEntry
        /\ \A j \in DOMAIN table : j # k => t[j] = table[j]
    BY DEF Put
  <1> HIDE DEF t
  <1>1. CASE Hit(k)
    BY <1>1 DEF Hit, Get, Answered
  <1>2. CASE Expired(k)
    <2>1. table' = t /\ nextClean' = nextClean /\ k \in DOMAIN table
      BY <1>2 DEF Expired, t
    <2>2. QED
      BY <2>1, <1>0 DEF Get, Answered
  <1>3. CASE New(k)
    <2>0. k \notin DOMAIN table /\ ExpireEntries(t)
      BY <1>3 DEF New, t
    <2>1. /\ DOMAIN t = DOMAIN table \cup {k}
          /\ t[k] = NewEntry
          /\ \A j \in DOMAIN table : t[j] = table[j]
      BY <1>0, <2>0
    <2>2. ~(now > t[k].rip)
      BY <2>1 DEF NewEntry, IInv, TypeOK
    <2>3. now \in Int /\ \A j \in DOMAIN t : t[j].rip \in Int
      BY <2>1 DEF NewEntry, IInv, TypeOK, Entry
    <2>4. k \in DOMAIN table'
      BY <2>0, <2>1, <2>2, ExpireFacts
    <2>5. /\ DOMAIN table' \subseteq DOMAIN t
          /\ \A j \in DOMAIN table' : table'[j] = t[j]
          /\ \/ ~CleanDue /\ nextClean' = nextClean
             \/ /\ CleanDue
                /\ nextClean' = now + CleanPeriod
                /\ \A j \in DOMAIN table' : ~(now > t[j].rip)
      BY <2>0, ExpireFacts
    <2>6. \A j \in DOMAIN table' : ~(now > t[j].rip) => table'[j].rip >= now
      BY <2>3, <2>5
    <2>7. QED
      BY <2>0, <2>1, <2>4, <2>5, <2>6 DEF Get, Answered
  <1>4. QED
    BY <1>1, <1>2, <1>3 DEF Get, Lookup

LEMMA GetStep ==
  ASSUME IInv, NEW k \in Key, Get(k)
  PROVE  IInv'
  <1> USE DEF TypeOK, Entry
  <1>1. /\ Answered(k)
        /\ alive' = alive \ Released
        /\ UNCHANGED <<now, born>>
    BY GetFacts DEF Get
  <1>2. NewEntry \in Entry /\ NewEntry.data = Null /\ NewEntry.rip = now + MaxAge
    BY DEF NewEntry, IInv
  <1>3. TypeOK'
    BY <1>1, <1>2 DEF Answered, IInv
  <1>4. SlotLive'
    BY <1>1 DEF Answered, SlotLive
  <1>5. Accounted'
    <2>1. \A j \in DOMAIN table' : table'[j].data # Null =>
            j \in DOMAIN table /\ table'[j] = table[j]
      BY <1>1, <1>2 DEF Answered
    <2>2. Stored(table') \subseteq Stored(table)
      BY <2>1 DEF Stored
    <2>3. alive' = Stored(table')
      BY <1>1, <2>2 DEF IInv, Accounted, Released
    <2>4. QED
      BY <2>1, <2>3 DEF IInv, Accounted
  <1>6. AgeInv'
    BY <1>1, <1>2 DEF Answered, AgeInv, IInv, Valid
  <1>7. CleanInv'
    BY <1>1, <1>2 DEF Answered, CleanInv, IInv
  <1>8. ServedFresh'
    BY <1>1, <1>2 DEF Answered, ServedFresh, AgeInv, IInv, Valid
  <1>9. QED
    BY <1>3, <1>4, <1>5, <1>6, <1>7, <1>8 DEF IInv

LEMMA SetStep ==
  ASSUME IInv, Set
  PROVE  IInv'
  <1> USE DEF TypeOK, Entry
  <1>1. PICK d \in Data \ alive : Store(slot, d, asked) /\ alive' = alive \cup {d}
    BY DEF Set
  <1>2. /\ slot \in DOMAIN table
        /\ slot' = NoKey
        /\ asked' = 0
        /\ UNCHANGED <<now, nextClean>>
    BY DEF Set, IInv, SlotLive
  <1>3. /\ DOMAIN table' = DOMAIN table
        /\ table'[slot] = [rip |-> table[slot].rip, data |-> d]
        /\ \A j \in DOMAIN table \ {slot} : table'[j] = table[j]
    BY <1>1, <1>2 DEF Store, IInv
  <1>4. /\ table[slot].data = Null
        /\ alive' = alive \cup {d}
        /\ born' = [born EXCEPT ![d] = asked]
    BY <1>1 DEF Store
  <1>5. \A j \in DOMAIN table : table[j].data # d
    BY <1>1 DEF IInv, Accounted, Stored
  <1>6. TypeOK'
    BY <1>2, <1>3, <1>4 DEF IInv
  <1>7. SlotLive'
    BY <1>2 DEF SlotLive
  <1>8. Accounted'
    <2>1. Stored(table') = Stored(table) \cup {d}
      BY <1>2, <1>3, <1>4 DEF Stored
    <2>2. QED
      BY <2>1, <1>2, <1>3, <1>4, <1>5 DEF IInv, Accounted
  <1>9. AgeInv'
    BY <1>2, <1>3, <1>4, <1>5 DEF AgeInv, IInv
  <1>10. CleanInv'
    BY <1>2, <1>3 DEF CleanInv, IInv
  <1>11. ServedFresh'
    BY <1>2 DEF ServedFresh
  <1>12. QED
    BY <1>6, <1>7, <1>8, <1>9, <1>10, <1>11 DEF IInv

LEMMA PurgeStep ==
  ASSUME IInv, Purge
  PROVE  IInv'
  <1> USE DEF TypeOK, Entry
  <1>1. /\ slot = NoKey
        /\ alive' = alive \ Released
        /\ UNCHANGED <<now, slot, asked, born>>
    BY DEF Purge
  <1>2. /\ DOMAIN table' \subseteq DOMAIN table
        /\ \A j \in DOMAIN table' : table'[j] = table[j]
        /\ MaxAge > 0 => /\ nextClean' = now + CleanPeriod
                         /\ \A j \in DOMAIN table' : ~(now > table[j].rip)
        /\ nextClean' \in Nat
    BY RemainingFacts DEF Purge, IInv
  <1>3. Accounted'
    <2>1. Stored(table') \subseteq Stored(table)
      BY <1>2 DEF Stored
    <2>2. QED
      BY <1>1, <1>2, <2>1 DEF IInv, Accounted, Released
  <1>4. QED
    BY <1>1, <1>2, <1>3 DEF IInv, SlotLive, AgeInv, CleanInv, ServedFresh

LEMMA Inductive == IInv /\ [Next]_vars => IInv'
  <1> SUFFICES ASSUME IInv, [Next]_vars PROVE IInv'
    OBVIOUS
  <1>1. CASE \E k \in Key : Get(k)
    BY <1>1, GetStep
  <1>2. CASE Set
    BY <1>2, SetStep
  <1>3. CASE Purge
    BY <1>3, PurgeStep
  <1>4. CASE Leave
    BY <1>4 DEF Leave, IInv, TypeOK, Entry, SlotLive, Accounted, Stored, AgeInv,
       CleanInv, ServedFresh
  <1>5. CASE Tick
    BY <1>5 DEF Tick, cacheVars, IInv, TypeOK, Entry, SlotLive, Accounted,
       Stored, AgeInv, CleanInv, ServedFresh
  <1>6. CASE UNCHANGED vars
    BY <1>6 DEF vars, cacheVars, IInv, TypeOK, Entry, SlotLive, Accounted,
       Stored, AgeInv, CleanInv, ServedFresh
  <1>7. QED
    BY <1>1, <1>2, <1>3, <1>4, <1>5, <1>6 DEF Next

LEMMA Invariance == Spec => []IInv
  BY Initial, Inductive, PTL DEF Spec

-----------------------------------------------------------------------------
(* Every variable keeps its type.                                           *)
THEOREM TypeCorrect == Spec => []TypeOK
  <1>1. IInv => TypeOK
    BY DEF IInv
  <1>2. QED
    BY <1>1, Invariance, PTL

(* No caller is ever given data asked for more than max_age ago.            *)
THEOREM NeverTooOld == Spec => []ServedFresh
  <1>1. IInv => ServedFresh
    BY DEF IInv
  <1>2. QED
    BY <1>1, Invariance, PTL

(* The slot that is returned belongs to an entry of the table.              *)
THEOREM SlotStaysLive == Spec => []SlotLive
  <1>1. IInv => SlotLive
    BY DEF IInv
  <1>2. QED
    BY <1>1, Invariance, PTL

(* No datum is leaked, freed twice or shared by two entries.                *)
THEOREM FreedOnce == Spec => []Accounted
  <1>1. IInv => Accounted
    BY DEF IInv
  <1>2. QED
    BY <1>1, Invariance, PTL

(* A miss removes whatever expired more than a cleaning period ago.         *)
THEOREM GarbageIsBounded == Spec => GarbageBounded
  <1> DEFINE Missed == MaxAge > 0 /\ \E k \in Key : k \notin DOMAIN table /\ slot' = k
             Clean  == \A j \in DOMAIN table' : now - table'[j].rip <= CleanPeriod
  <1>1. ASSUME IInv, [Next]_vars PROVE [Missed => Clean]_vars
    <2> SUFFICES ASSUME MaxAge > 0, NEW k \in Key, k \notin DOMAIN table, slot' = k
                 PROVE  Clean
      OBVIOUS
    <2>1. Get(k)
      <3>1. slot # k
        BY <1>1 DEF IInv, SlotLive
      <3>2. QED
        BY <1>1, <3>1, k # NoKey DEF Next, Get, Set, Leave, Purge, Tick, vars, cacheVars
    <2>2. Answered(k) /\ IInv' /\ now' = now
      BY <1>1, <2>1, GetFacts, GetStep DEF Get
    <2>3. now <= nextClean \/ nextClean' = now + CleanPeriod
      BY <1>1, <2>2 DEF Answered, CleanDue, IInv, TypeOK
    <2>4. \A j \in DOMAIN table' : table'[j].rip \in Int /\ table'[j].rip >= nextClean' - CleanPeriod
      BY <2>2 DEF IInv, CleanInv, TypeOK, Entry
    <2>5. nextClean' >= now
      BY <1>1, <2>2, <2>3 DEF Answered, IInv, TypeOK
    <2>6. QED
      BY <1>1, <2>2, <2>4, <2>5 DEF IInv, TypeOK
  <1>2. QED
    BY <1>1, Invariance, PTL DEF Spec, GarbageBounded
=============================================================================
