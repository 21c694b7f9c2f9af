------------------------- MODULE ControlPointProofs -------------------------
(***************************************************************************)
(* The control point, for any threads, subscriptions and bounds.  Three    *)
(* facts carry the proofs.  How far the end has come tells what still      *)
(* runs.  A subscription that the device grants is in the list, or a       *)
(* thread holds GlobalClientSubscribeMutex and is about to add it.  And    *)
(* every event of the timer is in one place only, so that what it is for   *)
(* is one search or one renewal.  The bounds come last.                    *)
(***************************************************************************)
EXTENDS ControlPoint, SequenceTheorems, FiniteSetTheorems, TLAPS

-----------------------------------------------------------------------------
(***************************************************************************)
(* The queue of the timer.                                                 *)
(***************************************************************************)
(* What InsertAt and RemoveAt return.                                      *)
Inserted(r, S, q, k, e) ==
  /\ r \in Seq(S) /\ Len(r) = Len(q) + 1
  /\ \A i \in 1 .. Len(q) + 1 : r[i] = IF i < k THEN q[i] ELSE IF i = k THEN e ELSE q[i - 1]

LEMMA InsertFacts ==
  ASSUME NEW S, NEW q \in Seq(S), NEW e \in S, NEW k \in 1 .. Len(q) + 1
  PROVE  Inserted(InsertAt(q, k, e), S, q, k, e)
  <1>1. Len(q) \in Nat
    BY LenProperties
  <1>2. PICK a : a = SubSeq(q, 1, k - 1)
    OBVIOUS
  <1>3. a \in Seq(S) /\ Len(a) = k - 1 /\ \A i \in 1 .. k - 1 : a[i] = q[i]
    <2>1. PICK n \in Int : n = k - 1
      OBVIOUS
    <2>2. \A i \in 1 .. n : q[i] \in S
      BY <1>1, <2>1, ElementOfSeq
    <2>3. /\ SubSeq(q, 1, n) \in Seq(S)
          /\ Len(SubSeq(q, 1, n)) = IF 1 <= n THEN n - 1 + 1 ELSE 0
          /\ \A i \in 1 .. n - 1 + 1 : SubSeq(q, 1, n)[i] = q[1 + i - 1]
      BY <2>2, SubSeqProperties
    <2>4. QED
      BY <1>1, <1>2, <2>1, <2>3
  <1>4. PICK b : b = SubSeq(q, k, Len(q))
    OBVIOUS
  <1>5. b \in Seq(S) /\ Len(b) = Len(q) - k + 1
        /\ \A i \in 1 .. Len(b) : b[i] = q[k + i - 1]
    <2>2. \A i \in k .. Len(q) : q[i] \in S
      BY <1>1, ElementOfSeq
    <2>3. /\ b \in Seq(S)
          /\ Len(b) = IF k <= Len(q) THEN Len(q) - k + 1 ELSE 0
          /\ \A i \in 1 .. Len(q) - k + 1 : b[i] = q[k + i - 1]
      BY <1>1, <1>4, <2>2, SubSeqProperties
    <2>4. QED
      BY <1>1, <2>3
  <1>6. <<e>> \in Seq(S) /\ Len(<<e>>) = 1 /\ <<e>>[1] = e
    OBVIOUS
  <1>7. PICK c : c = a \o <<e>>
    OBVIOUS
  <1>8. c \in Seq(S) /\ Len(c) = k
        /\ \A i \in 1 .. k : c[i] = IF i <= k - 1 THEN a[i] ELSE <<e>>[i - (k - 1)]
    BY <1>3, <1>6, <1>7, ConcatProperties
  <1>9. PICK r : r = c \o b
    OBVIOUS
  <1>10. r \in Seq(S) /\ Len(r) = k + Len(b)
        /\ \A i \in 1 .. k + Len(b) : r[i] = IF i <= k THEN c[i] ELSE b[i - k]
    BY <1>5, <1>8, <1>9, ConcatProperties
  <1>11. r = InsertAt(q, k, e)
    BY <1>2, <1>4, <1>7, <1>9 DEF InsertAt
  <1>12. Len(r) = Len(q) + 1
    BY <1>1, <1>5, <1>10
  <1>13. \A i \in 1 .. Len(q) + 1 :
            r[i] = IF i < k THEN q[i] ELSE IF i = k THEN e ELSE q[i - 1]
    <2>1. TAKE i \in 1 .. Len(q) + 1
    <2>2. i \in 1 .. k + Len(b)
      BY <1>1, <1>5
    <2>3. CASE i < k
      <3>1. i \in 1 .. k /\ i \in 1 .. k - 1
        BY <1>1, <2>3
      <3>2. QED
        BY <1>3, <1>8, <1>10, <2>2, <2>3, <3>1
    <2>4. CASE i = k
      <3>1. i - (k - 1) = 1 /\ ~(i <= k - 1) /\ i \in 1 .. k
        BY <1>1, <2>4
      <3>2. r[i] = c[i]
        BY <1>10, <2>2, <3>1
      <3>3. c[i] = <<e>>[i - (k - 1)]
        BY <1>8, <3>1
      <3>4. c[i] = <<e>>[1]
        BY <3>1, <3>3
      <3>5. QED
        BY <1>6, <2>4, <3>2, <3>4
    <2>5. CASE i > k
      <3>1. PICK j : j = i - k
        OBVIOUS
      <3>2. j \in 1 .. Len(b) /\ k + j - 1 = i - 1
        BY <1>1, <1>5, <2>2, <2>5, <3>1
      <3>3. r[i] = b[j]
        BY <1>10, <2>2, <2>5, <3>1
      <3>4. QED
        BY <1>5, <2>5, <3>2, <3>3
    <2>6. QED
      BY <2>3, <2>4, <2>5
  <1>14. Inserted(r, S, q, k, e)
    BY <1>10, <1>12, <1>13 DEF Inserted
  <1>15. QED
    BY <1>11, <1>14

LEMMA RemoveAtFacts ==
  ASSUME NEW S, NEW q \in Seq(S), NEW k \in 1 .. Len(q)
  PROVE  /\ RemoveAt(q, k) \in Seq(S)
         /\ Len(RemoveAt(q, k)) = Len(q) - 1
         /\ \A i \in 1 .. Len(q) - 1 : RemoveAt(q, k)[i] = IF i < k THEN q[i] ELSE q[i + 1]
  <1>1. Len(q) \in Nat
    BY LenProperties
  <1>2. PICK a : a = SubSeq(q, 1, k - 1)
    OBVIOUS
  <1>3. a \in Seq(S) /\ Len(a) = k - 1 /\ \A i \in 1 .. k - 1 : a[i] = q[i]
    <2>1. PICK n \in Int : n = k - 1
      OBVIOUS
    <2>2. \A i \in 1 .. n : q[i] \in S
      BY <1>1, <2>1, ElementOfSeq
    <2>3. /\ SubSeq(q, 1, n) \in Seq(S)
          /\ Len(SubSeq(q, 1, n)) = IF 1 <= n THEN n - 1 + 1 ELSE 0
          /\ \A i \in 1 .. n - 1 + 1 : SubSeq(q, 1, n)[i] = q[1 + i - 1]
      BY <2>2, SubSeqProperties
    <2>4. QED
      BY <1>1, <1>2, <2>1, <2>3
  <1>4. PICK b : b = SubSeq(q, k + 1, Len(q))
    OBVIOUS
  <1>5. b \in Seq(S) /\ Len(b) = Len(q) - k
        /\ \A i \in 1 .. Len(b) : b[i] = q[k + i]
    <2>1. PICK n \in Int : n = k + 1
      OBVIOUS
    <2>2. \A i \in n .. Len(q) : q[i] \in S
      BY <1>1, <2>1, ElementOfSeq
    <2>3. /\ SubSeq(q, n, Len(q)) \in Seq(S)
          /\ Len(SubSeq(q, n, Len(q))) = IF n <= Len(q) THEN Len(q) - n + 1 ELSE 0
          /\ \A i \in 1 .. Len(q) - n + 1 : SubSeq(q, n, Len(q))[i] = q[n + i - 1]
      BY <1>1, <2>2, SubSeqProperties
    <2>4. Len(b) = Len(q) - k
      BY <1>1, <1>4, <2>1, <2>3
    <2>5. QED
      BY <1>1, <1>4, <2>1, <2>3, <2>4
  <1>6. PICK r : r = a \o b
    OBVIOUS
  <1>7. r \in Seq(S) /\ Len(r) = Len(a) + Len(b)
        /\ \A i \in 1 .. Len(a) + Len(b) : r[i] = IF i <= Len(a) THEN a[i] ELSE b[i - Len(a)]
    BY <1>3, <1>5, <1>6, ConcatProperties
  <1>8. r = RemoveAt(q, k)
    BY <1>2, <1>4, <1>6 DEF RemoveAt
  <1>9. Len(r) = Len(q) - 1
    BY <1>1, <1>3, <1>5, <1>7
  <1>10. \A i \in 1 .. Len(q) - 1 : r[i] = IF i < k THEN q[i] ELSE q[i + 1]
    <2>1. TAKE i \in 1 .. Len(q) - 1
    <2>2. i \in 1 .. Len(a) + Len(b)
      BY <1>1, <1>3, <1>5
    <2>3. CASE i < k
      <3>1. i <= Len(a) /\ i \in 1 .. k - 1
        BY <1>1, <1>3, <2>3
      <3>2. QED
        BY <1>3, <1>7, <2>2, <2>3, <3>1
    <2>4. CASE ~(i < k)
      <3>1. PICK j : j = i - Len(a)
        OBVIOUS
      <3>2. j \in 1 .. Len(b) /\ k + j = i + 1 /\ ~(i <= Len(a))
        BY <1>1, <1>3, <1>5, <2>2, <2>4, <3>1
      <3>3. r[i] = b[j]
        BY <1>7, <2>2, <3>1, <3>2
      <3>4. QED
        BY <1>5, <2>4, <3>2, <3>3
    <2>5. QED
      BY <2>3, <2>4
  <1>11. QED
    BY <1>7, <1>8, <1>9, <1>10

(* The events of a queue, by time, each with an id of its own.             *)
Ordered(q) == \A i, j \in DOMAIN q : i < j => q[i].time <= q[j].time /\ q[i].id # q[j].id
Ids(q) == {q[i].id : i \in DOMAIN q}

(* Where an event of that time is put.                                     *)
Place(q, k, time) ==
  /\ \A i \in 1 .. k - 1 : q[i].time < time
  /\ k <= Len(q) => q[k].time >= time

(* An event put before the first that is not earlier keeps the order.      *)
LEMMA InsertKeeps ==
  ASSUME NEW Timed, \A x \in Timed : x.time \in Nat, NEW q \in Seq(Timed), NEW e \in Timed,
         NEW k \in 1 .. Len(q) + 1, Ordered(q), e.id \notin Ids(q), Place(q, k, e.time)
  PROVE  /\ InsertAt(q, k, e) \in Seq(Timed) /\ Ordered(InsertAt(q, k, e))
         /\ Ids(InsertAt(q, k, e)) = Ids(q) \cup {e.id}
  <1>1. PICK r : r = InsertAt(q, k, e)
    OBVIOUS
  <1>2. PICK n : n = Len(q)
    OBVIOUS
  <1>3. n \in Nat /\ DOMAIN q = 1 .. n /\ \A i \in 1 .. n : q[i] \in Timed
    BY <1>2, LenProperties, ElementOfSeq
  <1>4. /\ r \in Seq(Timed) /\ Len(r) = n + 1
        /\ \A i \in 1 .. n + 1 : r[i] = IF i < k THEN q[i] ELSE IF i = k THEN e ELSE q[i - 1]
    <2>1. Inserted(r, Timed, q, k, e)
      BY <1>1, InsertFacts
    <2>2. QED
      BY <1>2, <2>1 DEF Inserted
  <1>5. DOMAIN r = 1 .. n + 1
    BY <1>4, LenProperties
  <1>6. k \in 1 .. n + 1
    BY <1>2
  <1>7. \A i \in 1 .. n : q[i].time \in Nat
    BY <1>3
  <1>8. e.time \in Nat
    OBVIOUS
  <1>9. \A i \in 1 .. k - 1 : i \in 1 .. n /\ r[i] = q[i] /\ q[i].time < e.time
    BY <1>2, <1>3, <1>4, <1>6 DEF Place
  <1>10. r[k] = e
    BY <1>4, <1>6
  <1>11. \A i \in k + 1 .. n + 1 : i - 1 \in k .. n /\ r[i] = q[i - 1]
    <2>1. TAKE i \in k + 1 .. n + 1
    <2>2. i - 1 \in k .. n /\ i \in 1 .. n + 1 /\ ~(i < k) /\ i # k
      BY <1>3, <1>6
    <2>3. QED
      BY <1>4, <2>2
  <1>12. \A i \in k .. n : i \in 1 .. n /\ e.time <= q[i].time
    <2>1. TAKE i \in k .. n
    <2>2. i \in 1 .. n /\ k \in 1 .. n /\ e.time <= q[k].time
      BY <1>2, <1>3, <1>6, <1>7, <1>8 DEF Place
    <2>3. i = k \/ q[k].time <= q[i].time
      BY <1>3, <2>2 DEF Ordered
    <2>4. QED
      BY <1>7, <1>8, <2>2, <2>3
  <1>13. Ordered(r)
    <2>1. SUFFICES ASSUME NEW i \in 1 .. n + 1, NEW j \in 1 .. n + 1, i < j
                   PROVE  r[i].time <= r[j].time /\ r[i].id # r[j].id
      BY <1>5 DEF Ordered
    <2>2. CASE i < k
      <3>1. i \in 1 .. k - 1
        BY <2>2
      <3>2. i \in 1 .. n /\ r[i] = q[i] /\ q[i].time < e.time
        BY <1>9, <3>1
      <3>3. CASE j < k
        <4>1. j \in 1 .. n /\ r[j] = q[j]
          BY <1>9, <3>3
        <4>2. QED
          BY <1>3, <2>1, <3>2, <4>1 DEF Ordered
      <3>4. CASE j = k
        <4>1. r[j] = e /\ q[i].id # e.id
          BY <1>3, <1>10, <3>2, <3>4 DEF Ids
        <4>2. QED
          BY <1>7, <1>8, <3>2, <4>1
      <3>5. CASE j > k
        <4>1. PICK m : m = j - 1
          OBVIOUS
        <4>2. m \in 1 .. n /\ r[j] = q[m] /\ i < m
          BY <1>6, <1>11, <2>2, <3>5, <4>1
        <4>3. QED
          BY <1>3, <3>2, <4>2 DEF Ordered
      <3>6. QED
        BY <1>6, <3>3, <3>4, <3>5
    <2>3. CASE i = k
      <3>1. PICK m : m = j - 1
        OBVIOUS
      <3>2. m \in k .. n /\ r[j] = q[m]
        BY <1>6, <1>11, <2>1, <2>3, <3>1
      <3>3. m \in 1 .. n /\ e.time <= q[m].time /\ q[m].id # e.id
        BY <1>3, <1>12, <3>2 DEF Ids
      <3>4. QED
        BY <1>10, <2>3, <3>2, <3>3
    <2>4. CASE i > k
      <3>1. PICK l, m : l = i - 1 /\ m = j - 1
        OBVIOUS
      <3>2. l \in 1 .. n /\ m \in 1 .. n /\ l < m /\ r[i] = q[l] /\ r[j] = q[m]
        BY <1>6, <1>11, <2>1, <2>4, <3>1
      <3>3. QED
        BY <1>3, <3>2 DEF Ordered
    <2>5. QED
      BY <1>6, <2>2, <2>3, <2>4
  <1>14. Ids(r) \subseteq Ids(q) \cup {e.id}
    <2>1. ASSUME NEW i \in 1 .. n + 1 PROVE r[i].id \in Ids(q) \cup {e.id}
      <3>1. CASE i < k
        <4>1. i \in 1 .. k - 1
          BY <2>1, <3>1
        <4>2. QED
          BY <1>3, <1>9, <4>1 DEF Ids
      <3>2. CASE i = k
        BY <1>10, <3>2
      <3>3. CASE i > k
        <4>1. PICK j : j = i - 1
          OBVIOUS
        <4>2. j \in 1 .. n /\ r[i] = q[j]
          BY <1>6, <1>11, <2>1, <3>3, <4>1
        <4>3. QED
          BY <1>3, <4>2 DEF Ids
      <3>4. QED
        BY <1>6, <3>1, <3>2, <3>3
    <2>2. QED
      BY <1>5, <2>1 DEF Ids
  <1>15. e.id \in Ids(r)
    BY <1>5, <1>6, <1>10 DEF Ids
  <1>16. ASSUME NEW i \in 1 .. n PROVE q[i].id \in Ids(r)
    <2>1. CASE i < k
      <3>1. i \in 1 .. n + 1 /\ r[i] = q[i]
        <4>1. i \in 1 .. k - 1
          BY <1>16, <2>1
        <4>2. QED
          BY <1>3, <1>9, <1>16, <4>1
      <3>2. QED
        BY <1>5, <3>1 DEF Ids
    <2>2. CASE ~(i < k)
      <3>1. i + 1 \in k + 1 .. n + 1 /\ i + 1 \in 1 .. n + 1 /\ (i + 1) - 1 = i
        BY <1>3, <1>6, <2>2
      <3>2. r[i + 1] = q[i]
        BY <1>11, <3>1
      <3>3. QED
        BY <1>5, <3>1, <3>2 DEF Ids
    <2>3. QED
      BY <2>1, <2>2
  <1>17. Ids(q) \subseteq Ids(r)
    BY <1>3, <1>16 DEF Ids
  <1>18. QED
    BY <1>1, <1>4, <1>13, <1>14, <1>15, <1>17

(* So does the removal of one, and the next is not due before.             *)
LEMMA RemoveKeeps ==
  ASSUME NEW Timed, \A x \in Timed : x.time \in Nat, NEW q \in Seq(Timed), NEW k \in DOMAIN q, Ordered(q)
  PROVE  /\ RemoveAt(q, k) \in Seq(Timed) /\ Ordered(RemoveAt(q, k))
         /\ Ids(RemoveAt(q, k)) = Ids(q) \ {q[k].id}
         /\ RemoveAt(q, k) # << >> => q # << >> /\ Head(q).time <= Head(RemoveAt(q, k)).time
  <1>1. PICK r : r = RemoveAt(q, k)
    OBVIOUS
  <1>2. PICK n : n = Len(q)
    OBVIOUS
  <1>3. /\ n \in Nat /\ DOMAIN q = 1 .. n /\ k \in 1 .. n
        /\ \A i \in 1 .. n : q[i] \in Timed
    BY <1>2, LenProperties, ElementOfSeq
  <1>4. /\ r \in Seq(Timed) /\ Len(r) = n - 1
        /\ \A i \in 1 .. n - 1 : r[i] = IF i < k THEN q[i] ELSE q[i + 1]
    BY <1>1, <1>2, <1>3, RemoveAtFacts
  <1>5. DOMAIN r = 1 .. n - 1
    BY <1>4, LenProperties
  <1>6. \A i \in 1 .. n : q[i].time \in Nat
    BY <1>3
  <1>7. Ordered(r)
    <2>1. SUFFICES ASSUME NEW i \in 1 .. n - 1, NEW j \in 1 .. n - 1, i < j
                   PROVE  r[i].time <= r[j].time /\ r[i].id # r[j].id
      BY <1>5 DEF Ordered
    <2>2. PICK l, m : l = (IF i < k THEN i ELSE i + 1) /\ m = (IF j < k THEN j ELSE j + 1)
      OBVIOUS
    <2>3. l \in 1 .. n /\ m \in 1 .. n /\ l < m
      BY <1>3, <2>1, <2>2
    <2>4. r[i] = q[l] /\ r[j] = q[m]
      BY <1>4, <2>2
    <2>5. QED
      BY <1>3, <2>3, <2>4 DEF Ordered
  <1>8. Ids(r) \subseteq Ids(q) \ {q[k].id}
    <2>1. ASSUME NEW i \in 1 .. n - 1 PROVE r[i].id \in Ids(q) /\ r[i].id # q[k].id
      <3>1. PICK l : l = IF i < k THEN i ELSE i + 1
        OBVIOUS
      <3>2. l \in 1 .. n /\ (l < k \/ k < l) /\ r[i] = q[l]
        BY <1>3, <1>4, <3>1
      <3>3. QED
        BY <1>3, <3>2 DEF Ids, Ordered
    <2>2. QED
      BY <1>5, <2>1 DEF Ids
  <1>9. Ids(q) \ {q[k].id} \subseteq Ids(r)
    <2>1. ASSUME NEW l \in 1 .. n, l # k PROVE q[l].id \in Ids(r)
      <3>1. PICK i : i = IF l < k THEN l ELSE l - 1
        OBVIOUS
      <3>2. i \in 1 .. n - 1 /\ l = IF i < k THEN i ELSE i + 1
        BY <1>3, <2>1, <3>1
      <3>3. r[i] = q[l]
        BY <1>4, <3>2
      <3>4. QED
        BY <1>5, <3>2, <3>3 DEF Ids
    <2>2. QED
      BY <1>3, <2>1 DEF Ids
  <1>10. ASSUME r # << >> PROVE q # << >> /\ Head(q).time <= Head(r).time
    <2>1. 1 \in 1 .. n - 1 /\ 2 \in 1 .. n /\ Head(r) = r[1]
      <3>1. Len(r) \in Nat \ {0}
        BY <1>4, <1>10, EmptySeq
      <3>2. QED
        BY <1>3, <1>4, <3>1
    <2>2. r[1] = IF 1 < k THEN q[1] ELSE q[2]
      BY <1>4, <2>1, <1>3
    <2>3. q # << >> /\ Head(q) = q[1] /\ 1 \in 1 .. n
      BY <1>2, <1>3
    <2>4. q[1].time <= q[2].time
      BY <1>3, <2>1, <2>3 DEF Ordered
    <2>5. QED
      BY <1>6, <2>1, <2>2, <2>3, <2>4
  <1>11. QED
    BY <1>1, <1>4, <1>7, <1>8, <1>9, <1>10

-----------------------------------------------------------------------------
(***************************************************************************)
(* The first invariant: the end, and subscriptions.                        *)
(***************************************************************************)
USE ActorAssumption DEF Actor

TypeInv ==
  /\ pc = [a \in Actor |-> pc[a]]
  /\ at \in [Receiver \cup Notified -> Sid \cup {NoSid}]
  /\ device \in [Sid -> {"unasked", "granted", "endless", "forgotten"}]
  /\ DOMAIN subs \subseteq Sid
  /\ timer = [pc |-> timer.pc, until |-> timer.until]

Registered == {"idle", "gena", "unregister"}
NoThread == {"mini", "shut", "send", "recv", "over"}

(* How far Main has come, and what is left then.                           *)
EndInv ==
  /\ pc[Main] \in Registered \cup {"timer", "timer_wait"} \cup NoThread
  /\ client <=> pc[Main] \in Registered
  /\ handle # Unlocked => client
  /\ stopping => pc[Main] = "timer_wait"
  /\ timer.pc = "gone" => pc[Main] \in {"timer_wait"} \cup NoThread
  /\ pc[Main] = "timer_wait" => stopping \/ timer.pc = "gone"
  /\ pc[Main] \in NoThread => timer.pc = "gone"
  /\ pc[Main] \in {"timer_wait"} \cup NoThread => eventQ = << >>
  /\ pc[Main] \in {"recv", "over"} =>
       fired = {} /\ \A id \in EventId : pc[id] \in {"idle", "over"}
  /\ pc[Main] = "over" =>
       /\ results = 0 /\ mini = "idle"
       /\ \A r \in Receiver \cup Notified : pc[r] = "idle"

Adding(r, s) == pc[r] \in {"granted", "schedule"} /\ at[r] = s

(* Who knows of a subscription.                                            *)
SubsInv ==
  /\ \A r \in Receiver : pc[r] \in {"granted", "schedule"} => at[r] \in Sid
  /\ \A r \in Notified : pc[r] = "await" => at[r] \in Sid /\ device[at[r]] # "unasked"
  /\ client =>
       \A s \in Sid \ DOMAIN subs :
         device[s] \in {"unasked", "forgotten"} \/ \E r \in Receiver : Adding(r, s)

IInv == TypeInv /\ EndInv /\ SubsInv

LEMMA Initial == Init => IInv
  <1> SUFFICES ASSUME Init PROVE IInv
    OBVIOUS
  <1> USE DEF Init, TimerInit
  <1>1. TypeInv
    <2>1. DOMAIN subs = {}
      OBVIOUS
    <2>2. pc = [a \in Actor |-> pc[a]]
      OBVIOUS
    <2>3. timer = [pc |-> timer.pc, until |-> timer.until]
      OBVIOUS
    <2>4. /\ at \in [Receiver \cup Notified -> Sid \cup {NoSid}]
          /\ device \in [Sid -> {"unasked", "granted", "endless", "forgotten"}]
      OBVIOUS
    <2>5. QED
      BY <2>1, <2>2, <2>3, <2>4 DEF TypeInv
  <1>2. EndInv
    BY DEF EndInv, Registered, NoThread
  <1>3. SubsInv
    BY DEF SubsInv
  <1>4. QED
    BY <1>1, <1>2, <1>3 DEF IInv

-----------------------------------------------------------------------------
(* One step of one thread.                                                  *)
Moves(a) == pc' = [b \in Actor |-> pc'[b]] /\ \A b \in Actor \ {a} : pc'[b] = pc[b]

LEMMA GotoMoves ==
  ASSUME TypeInv, NEW a \in Actor, NEW from, NEW to, Goto(a, from, to)
  PROVE  Moves(a) /\ pc[a] = from /\ pc'[a] = to
  BY DEF TypeInv, Goto, Moves

LEMMA DoneFacts ==
  ASSUME TypeInv, NEW r \in Receiver \cup Notified, NEW from, Done(r, from)
  PROVE  /\ Moves(r) /\ pc[r] = from /\ pc'[r] = "idle"
         /\ at' \in [Receiver \cup Notified -> Sid \cup {NoSid}]
         /\ \A b \in (Receiver \cup Notified) \ {r} : at'[b] = at[b]
  BY GotoMoves DEF TypeInv, Done

(* Nothing is scheduled once there is no client. *)
LEMMA ScheduleFacts ==
  ASSUME IInv, NEW a \in Actor, NEW for, Schedules(a, for)
  PROVE  /\ client /\ pc[Main] \in Registered
         /\ handle' = Unlocked /\ timer' = [pc |-> timer'.pc, until |-> timer'.until]
         /\ timer.pc # "gone" /\ timer'.pc # "gone" /\ ~stopping
         /\ UNCHANGED <<stopping, fired>>
  BY DEF IInv, TypeInv, EndInv, Registered, NoThread, Schedules, TimerThreadSchedule,
         Signalled, Unlocked

(* The steps of the thread that searches.                                  *)
LEMMA SearchStep ==
  ASSUME IInv, SearchAsync \/ SearchSteps
  PROVE  IInv'
  <1> USE DEF HandleFree, timerVars
  <1>1. Moves(Searcher) /\ UNCHANGED <<at, device, subs, client, mini, results>>
    <2>1. CASE SearchAsync
      BY <2>1, GotoMoves DEF IInv, SearchAsync
    <2>2. CASE SearchByTarget
      BY <2>2, GotoMoves DEF IInv, SearchByTarget
    <2>3. CASE SearchScheduled
      BY <2>3, GotoMoves DEF IInv, SearchScheduled
    <2>4. QED
      BY <2>1, <2>2, <2>3 DEF SearchSteps
  <1>2. CASE UNCHANGED timerVars /\ (handle' = handle \/ client)
    <2>1. TypeInv'
      BY <1>1, <1>2 DEF IInv, TypeInv, Moves
    <2>2. EndInv'
      BY <1>1, <1>2 DEF IInv, EndInv, Moves
    <2>3. SubsInv'
      BY <1>1, <1>2 DEF IInv, SubsInv, Adding, Moves
    <2>4. QED
      BY <2>1, <2>2, <2>3 DEF IInv
  <1>3. CASE SearchScheduled
    <2>0. Schedules(Searcher, Search)
      BY <1>3 DEF SearchScheduled
    <2>1. TypeInv'
      BY <1>1, <2>0, ScheduleFacts DEF IInv, TypeInv, Moves
    <2>2. EndInv'
      BY <1>1, <2>0, ScheduleFacts DEF IInv, EndInv, Moves, Registered, NoThread
    <2>3. SubsInv'
      BY <1>1 DEF IInv, SubsInv, Adding, Moves
    <2>4. QED
      BY <2>1, <2>2, <2>3 DEF IInv
  <1>4. QED
    BY <1>2, <1>3 DEF SearchAsync, SearchSteps, SearchByTarget

-----------------------------------------------------------------------------
(* The steps of a receiver that touch no subscription.                     *)
LEMMA MessageStep ==
  ASSUME IInv, NEW r \in Receiver,
         Message(r) \/ Reply(r) \/ send_search_result(r) \/ Callback(r) \/ genaSubscribe(r)
  PROVE  IInv'
  <1> USE DEF timerVars
  <1>1. /\ Moves(r) /\ UNCHANGED <<timerVars, client, subs, device, handle, mini>>
        /\ pc[r] \notin {"granted", "schedule"} /\ pc'[r] \notin {"granted", "schedule"}
        /\ \A b \in (Receiver \cup Notified) \ {r} : at'[b] = at[b]
    <2>1. CASE Message(r)
      BY <2>1, GotoMoves DEF IInv, Message
    <2>2. CASE Reply(r)
      BY <2>2, GotoMoves DEF IInv, Reply
    <2>3. CASE send_search_result(r)
      BY <2>3, GotoMoves DEF IInv, send_search_result
    <2>4. CASE Callback(r)
      BY <2>4, GotoMoves DEF IInv, TypeInv, Callback
    <2>5. CASE genaSubscribe(r)
      BY <2>5, GotoMoves DEF IInv, genaSubscribe
    <2>6. QED
      BY <2>1, <2>2, <2>3, <2>4, <2>5
  <1>2. at' \in [Receiver \cup Notified -> Sid \cup {NoSid}]
    BY DEF IInv, TypeInv, Message, Reply, send_search_result, Callback, genaSubscribe
  <1>3. TypeInv'
    BY <1>1, <1>2 DEF IInv, TypeInv, Moves
  <1>4. pc[Main] # "over"
    BY GotoMoves DEF IInv, EndInv, Message, Reply, send_search_result, Callback, genaSubscribe
  <1>5. EndInv'
    BY <1>1, <1>4 DEF IInv, EndInv, Moves
  <1>6. SubsInv'
    BY <1>1 DEF IInv, SubsInv, Adding, Moves
  <1>7. QED
    BY <1>3, <1>5, <1>6 DEF IInv

(* A receiver that subscribes.                                             *)
LEMMA AskStep ==
  ASSUME IInv, NEW r \in Receiver, Ask(r)
  PROVE  IInv'
  <1> USE DEF Ask, timerVars
  <1>1. /\ Moves(r) /\ pc[r] = "ask" /\ pc'[r] \in {"granted", "idle"}
        /\ at' \in [Receiver \cup Notified -> Sid \cup {NoSid}]
        /\ \A b \in (Receiver \cup Notified) \ {r} : at'[b] = at[b]
        /\ pc'[r] = "granted" => at'[r] \in Sid
    BY GotoMoves, DoneFacts DEF IInv, TypeInv
  <1>2. /\ device' \in [Sid -> {"unasked", "granted", "endless", "forgotten"}]
        /\ \A s \in Sid : \/ device'[s] \in {device[s], "forgotten"}
                          \/ device'[s] = "granted" /\ pc'[r] = "granted" /\ at'[r] = s
    BY GotoMoves DEF IInv, TypeInv
  <1>3. TypeInv'
    BY <1>1, <1>2 DEF IInv, TypeInv, Moves
  <1>4. EndInv'
    BY <1>1 DEF IInv, EndInv, Moves
  <1>5. SubsInv'
    BY <1>1, <1>2 DEF IInv, SubsInv, Adding, Moves
  <1>6. QED
    BY <1>3, <1>4, <1>5 DEF IInv

LEMMA GrantedStep ==
  ASSUME IInv, NEW r \in Receiver, Granted(r)
  PROVE  IInv'
  <1> USE DEF Granted, timerVars
  <1>1. /\ Moves(r) /\ pc[r] = "granted" /\ pc'[r] \in {"schedule", "idle"} /\ at[r] \in Sid
        /\ at' \in [Receiver \cup Notified -> Sid \cup {NoSid}]
        /\ \A b \in (Receiver \cup Notified) \ {r} : at'[b] = at[b]
        /\ pc'[r] = "schedule" => at'[r] = at[r]
    BY GotoMoves, DoneFacts DEF IInv, TypeInv, SubsInv
  <1>2. /\ device' \in [Sid -> {"unasked", "granted", "endless", "forgotten"}]
        /\ \A s \in Sid : device'[s] = device[s] \/ (s = at[r] /\ device'[s] # "unasked")
    <2>1. \/ device' = device
          \/ \E to \in {"endless", "forgotten"} : device' = [device EXCEPT ![at[r]] = to]
      BY DEF Endless
    <2>2. at[r] \in Sid /\ device \in [Sid -> {"unasked", "granted", "endless", "forgotten"}]
      BY <1>1 DEF IInv, TypeInv
    <2>3. CASE device' = device
      BY <2>2, <2>3
    <2>4. ASSUME NEW to \in {"endless", "forgotten"}, device' = [device EXCEPT ![at[r]] = to]
          PROVE  /\ device' \in [Sid -> {"unasked", "granted", "endless", "forgotten"}]
                 /\ \A s \in Sid : device'[s] = device[s] \/ (s = at[r] /\ device'[s] # "unasked")
      BY <2>2, <2>4
    <2>5. QED
      BY <2>1, <2>3, <2>4
  <1>3. DOMAIN subs' = DOMAIN subs \/ DOMAIN subs' = DOMAIN subs \cup {at[r]}
    BY DEF Added
  <1>4. client => \/ pc'[r] = "schedule" /\ UNCHANGED <<subs, device>>
                  \/ at[r] \in DOMAIN subs'
    BY <1>1, GotoMoves DEF IInv, Added
  <1>5. TypeInv'
    BY <1>1, <1>2, <1>3 DEF IInv, TypeInv, Moves
  <1>6. EndInv'
    BY <1>1 DEF IInv, EndInv, Moves
  <1>7. SubsInv'
    BY <1>1, <1>2, <1>3, <1>4 DEF IInv, SubsInv, Adding, Moves
  <1>8. QED
    BY <1>5, <1>6, <1>7 DEF IInv

LEMMA SubscribedStep ==
  ASSUME IInv, NEW r \in Receiver, Subscribed(r)
  PROVE  IInv'
  <1> USE DEF Subscribed
  <1>1. Done(r, "schedule") /\ Schedules(r, at[r]) /\ at[r] \in Sid
    BY DoneFacts DEF IInv, SubsInv
  <1>2. DOMAIN subs' = DOMAIN subs \cup {at[r]}
    BY DEF Added
  <1>3. TypeInv'
    BY <1>1, <1>2, ScheduleFacts, DoneFacts DEF IInv, TypeInv, Moves
  <1>4. EndInv'
    BY <1>1, ScheduleFacts, DoneFacts DEF IInv, EndInv, Moves, Registered, NoThread
  <1>5. SubsInv'
    BY <1>1, <1>2, DoneFacts DEF IInv, SubsInv, Adding, Moves
  <1>6. QED
    BY <1>3, <1>4, <1>5 DEF IInv

(* While there is a client, a subscription may go with its renewal.        *)
LEMMA RemoveFacts ==
  ASSUME IInv, NEW s, RemoveClientSub(s)
  PROVE  /\ DOMAIN subs' = DOMAIN subs \ {s}
         /\ device' \in [Sid -> {"unasked", "granted", "endless", "forgotten"}]
         /\ \A k \in Sid : device'[k] = IF k = s THEN "forgotten" ELSE device[k]
         /\ UNCHANGED <<stopping, timer, fired>>
  BY DEF IInv, TypeInv, RemoveClientSub, TimerThreadRemove, timerVars

LEMMA UnsubscribeStep ==
  ASSUME IInv, NEW r \in Receiver, genaUnSubscribe(r)
  PROVE  IInv'
  <1> USE DEF genaUnSubscribe
  <1>1. Done(r, "unsubscribe") /\ TypeInv
    BY DEF IInv
  <1>2. CASE client
    <2>0. /\ DOMAIN subs' = DOMAIN subs \ {at[r]}
          /\ device' \in [Sid -> {"unasked", "granted", "endless", "forgotten"}]
          /\ \A k \in Sid : device'[k] = IF k = at[r] THEN "forgotten" ELSE device[k]
          /\ UNCHANGED <<stopping, timer, fired>>
      BY <1>2, RemoveFacts
    <2>1. TypeInv'
      BY <1>1, <2>0, DoneFacts DEF IInv, TypeInv, Moves
    <2>2. EndInv'
      BY <1>1, <1>2, DoneFacts, RemoveFacts DEF IInv, EndInv, Moves, Registered, NoThread
    <2>3. SubsInv'
      BY <1>1, <2>0, DoneFacts DEF IInv, SubsInv, Adding, Moves
    <2>4. QED
      BY <2>1, <2>2, <2>3 DEF IInv
  <1>3. CASE ~client
    <2>1. TypeInv'
      BY <1>1, <1>3, DoneFacts DEF IInv, TypeInv, Moves, timerVars
    <2>2. EndInv'
      BY <1>1, <1>3, DoneFacts DEF IInv, EndInv, Moves, timerVars
    <2>3. SubsInv'
      BY <1>1, <1>3, DoneFacts DEF IInv, SubsInv, Moves
    <2>4. QED
      BY <2>1, <2>2, <2>3 DEF IInv
  <1>4. QED
    BY <1>2, <1>3

-----------------------------------------------------------------------------
(* The jobs of the timer.                                                  *)
LEMMA JobStep ==
  ASSUME IInv, NEW id \in EventId, JobSteps(id)
  PROVE  IInv'
  <1> USE DEF timerVars
  <1>1. pc[Main] \notin {"recv", "over"}
    BY GotoMoves DEF IInv, EndInv, JobSteps, searchExpired, Renew, RenewAnswered, Renewed, RenewFailed
  <1>2. Moves(id)
    BY GotoMoves DEF IInv, JobSteps, searchExpired, Renew, RenewAnswered, Renewed, RenewFailed
  <1>3. UNCHANGED <<at, client, mini, results>>
    BY DEF JobSteps, searchExpired, Renew, RenewAnswered, Renewed, RenewFailed
  <1>4. ASSUME UNCHANGED <<device, stopping, timer>>, DOMAIN subs' = DOMAIN subs,
               handle' = handle \/ client, eventQ' = eventQ \/ client
        PROVE  IInv'
    <2>1. TypeInv'
      BY <1>2, <1>3, <1>4 DEF IInv, TypeInv, Moves
    <2>2. EndInv'
      BY <1>1, <1>2, <1>3, <1>4 DEF IInv, EndInv, Moves, Registered, NoThread
    <2>3. SubsInv'
      BY <1>2, <1>3, <1>4 DEF IInv, SubsInv, Adding, Moves
    <2>4. QED
      BY <2>1, <2>2, <2>3 DEF IInv
  <1>5. CASE searchExpired(id) \/ RenewFailed(id)
    BY <1>4, <1>5 DEF searchExpired, RenewFailed
  <1>6. CASE Renew(id)
    <2>1. DOMAIN subs' = DOMAIN subs
      BY <1>6 DEF Renew
    <2>2. QED
      BY <1>4, <1>6, <2>1 DEF Renew
  <1>7. CASE Renewed(id)
    <2>1. Schedules(id, what[id]) /\ DOMAIN subs' = DOMAIN subs /\ UNCHANGED device
      BY <1>7 DEF Renewed
    <2>2. TypeInv'
      BY <1>2, <1>3, <2>1, ScheduleFacts DEF IInv, TypeInv, Moves
    <2>3. EndInv'
      BY <1>2, <1>3, <2>1, ScheduleFacts DEF IInv, EndInv, Moves, Registered, NoThread
    <2>4. SubsInv'
      BY <1>2, <1>3, <2>1 DEF IInv, SubsInv, Adding, Moves
    <2>5. QED
      BY <2>2, <2>3, <2>4 DEF IInv
  <1>8. CASE RenewAnswered(id)
    <2>1. CASE client /\ RemoveClientSub(what[id]) /\ UNCHANGED handle
      <3>1. /\ DOMAIN subs' = DOMAIN subs \ {what[id]}
            /\ device' \in [Sid -> {"unasked", "granted", "endless", "forgotten"}]
            /\ \A k \in Sid : device'[k] = IF k = what[id] THEN "forgotten" ELSE device[k]
            /\ UNCHANGED <<stopping, timer, fired>>
        BY <2>1, RemoveFacts
      <3>2. TypeInv'
        BY <1>2, <1>3, <3>1 DEF IInv, TypeInv, Moves
      <3>3. EndInv'
        BY <1>2, <1>3, <2>1, <3>1 DEF IInv, EndInv, Moves, Registered, NoThread
      <3>4. SubsInv'
        BY <1>2, <1>3, <3>1 DEF IInv, SubsInv, Adding, Moves
      <3>5. QED
        BY <3>2, <3>3, <3>4 DEF IInv
    <2>2. CASE client /\ what[id] \in DOMAIN subs /\ Endless(what[id])
               /\ UNCHANGED <<timerVars, subs, handle>>
      <3>1. /\ device' \in [Sid -> {"unasked", "granted", "endless", "forgotten"}]
            /\ \A k \in Sid : device'[k] = IF k = what[id] THEN "endless" ELSE device[k]
        BY <2>2 DEF IInv, TypeInv, Endless
      <3>2. TypeInv'
        BY <1>2, <1>3, <2>2, <3>1 DEF IInv, TypeInv, Moves
      <3>3. EndInv'
        BY <1>1, <1>2, <1>3, <2>2 DEF IInv, EndInv, Moves
      <3>4. SubsInv'
        BY <1>2, <1>3, <2>2, <3>1 DEF IInv, SubsInv, Adding, Moves
      <3>5. QED
        BY <3>2, <3>3, <3>4 DEF IInv
    <2>3. CASE UNCHANGED <<timerVars, subs, device>> /\ (UNCHANGED handle \/ client)
      BY <1>4, <2>3
    <2>4. QED
      BY <1>8, <2>1, <2>2, <2>3 DEF RenewAnswered
  <1>9. QED
    BY <1>5, <1>6, <1>7, <1>8 DEF JobSteps

(* The events of devices.                                                  *)
LEMMA EventStep ==
  ASSUME IInv, NEW r \in Notified, EventAgain(r) \/ \E s \in Sid : Event(r, s)
  PROVE  IInv'
  <1> USE DEF timerVars
  <1> DEFINE Quiet ==
        /\ Moves(r) /\ UNCHANGED <<timerVars, client, subs, device, handle, results, mini>>
        /\ at' \in [Receiver \cup Notified -> Sid \cup {NoSid}]
        /\ \A b \in (Receiver \cup Notified) \ {r} : at'[b] = at[b]
        /\ pc'[r] = "await" => at'[r] \in Sid /\ device[at'[r]] # "unasked"
        /\ pc[Main] # "over"
  <1>1. Quiet
    <2>1. CASE EventAgain(r)
      BY <2>1, DoneFacts DEF IInv, EndInv, EventAgain
    <2>2. ASSUME NEW s \in Sid, Event(r, s)
          PROVE  Quiet
      BY <2>2, GotoMoves DEF IInv, TypeInv, EndInv, Event
    <2>3. QED
      BY <2>1, <2>2
  <1>2. TypeInv'
    BY <1>1 DEF IInv, TypeInv, Moves
  <1>3. EndInv'
    BY <1>1 DEF IInv, EndInv, Moves
  <1>4. SubsInv'
    BY <1>1 DEF IInv, SubsInv, Adding, Moves
  <1>5. QED
    BY <1>2, <1>3, <1>4 DEF IInv

-----------------------------------------------------------------------------
(* The end: the steps of Main, those that leave the subscriptions ...      *)
LEMMA MainStep ==
  ASSUME IInv,
         \/ Stop \/ UpnpUnRegisterClient \/ TimerThreadShutdown \/ TimerThreadGone
         \/ StopMiniServer \/ SendShutDown \/ SendPoolShutdown \/ RecvPoolShutdown
  PROVE  IInv'
  <1> USE DEF timerVars
  <1>1. UNCHANGED <<at, device>> /\ DOMAIN subs' \subseteq DOMAIN subs /\ (client' => subs' = subs)
    <2>1. CASE UpnpUnRegisterClient
      <3>1. subs' = << >> /\ DOMAIN << >> = {}
        BY <2>1 DEF UpnpUnRegisterClient
      <3>2. QED
        BY <2>1, <3>1 DEF UpnpUnRegisterClient
    <2>2. QED
      BY <2>1 DEF Stop, TimerThreadShutdown, TimerThreadGone, StopMiniServer, SendShutDown,
                  SendPoolShutdown, RecvPoolShutdown, ShutdownBegin, ShutdownEnd
  <1>2. Moves(Main) /\ (client' => client)
    <2> USE DEF IInv
    <2>1. CASE Stop
      BY <2>1, GotoMoves DEF Stop
    <2>2. CASE UpnpUnRegisterClient
      BY <2>2, GotoMoves DEF UpnpUnRegisterClient
    <2>3. CASE TimerThreadShutdown \/ TimerThreadGone
      BY <2>3, GotoMoves DEF TimerThreadShutdown, TimerThreadGone
    <2>4. CASE StopMiniServer \/ SendShutDown
      <3>1. CASE UNCHANGED pc
        BY <2>4, <3>1 DEF StopMiniServer, SendShutDown, TypeInv, Moves
      <3>2. ASSUME NEW from, NEW next \in {"shut", "send"}, Goto(Main, from, next) PROVE Moves(Main)
        BY <3>2, GotoMoves
      <3>3. QED
        BY <2>4, <3>1, <3>2 DEF StopMiniServer, SendShutDown
    <2>5. CASE SendPoolShutdown \/ RecvPoolShutdown
      BY <2>5, GotoMoves DEF SendPoolShutdown, RecvPoolShutdown
    <2>6. QED
      BY <2>1, <2>2, <2>3, <2>4, <2>5
  <1>3. timer' = [pc |-> timer'.pc, until |-> timer'.until]
    BY DEF IInv, TypeInv, Stop, UpnpUnRegisterClient, TimerThreadShutdown, TimerThreadGone,
           StopMiniServer, SendShutDown, SendPoolShutdown, RecvPoolShutdown, ShutdownBegin,
           ShutdownEnd, Signalled
  <1>4. TypeInv'
    BY <1>1, <1>2, <1>3 DEF IInv, TypeInv, Moves
  <1>5. SubsInv'
    BY <1>1, <1>2 DEF IInv, SubsInv, Adding, Moves
  <1>6. EndInv'
    <2> USE DEF IInv, EndInv, Registered, NoThread, HandleFree, Unlocked, Moves
    <2>1. CASE Stop
      BY <2>1, <1>2, GotoMoves DEF Stop
    <2>2. CASE UpnpUnRegisterClient
      BY <2>2, <1>2, GotoMoves DEF UpnpUnRegisterClient
    <2>3. CASE TimerThreadShutdown
      <3>1. /\ pc[Main] = "timer" /\ pc'[Main] = "timer_wait"
            /\ UNCHANGED <<client, handle>> /\ stopping' = TRUE /\ eventQ' = << >>
        BY <2>3, GotoMoves DEF TimerThreadShutdown, ShutdownBegin
      <3>2. QED
        BY <3>1
    <2>4. CASE TimerThreadGone
      BY <2>4, <1>2, GotoMoves DEF TimerThreadGone, ShutdownEnd
    <2>5. CASE StopMiniServer \/ SendShutDown
      BY <2>5, <1>2, GotoMoves DEF StopMiniServer, SendShutDown
    <2>6. CASE SendPoolShutdown
      BY <2>6, <1>2, GotoMoves DEF SendPoolShutdown
    <2>7. CASE RecvPoolShutdown
      BY <2>7, <1>2, GotoMoves DEF RecvPoolShutdown
    <2>8. QED
      BY <2>1, <2>2, <2>3, <2>4, <2>5, <2>6, <2>7
  <1>7. QED
    BY <1>4, <1>5, <1>6 DEF IInv

(* ... and the one that unsubscribes.                                      *)
LEMMA UnregisterStep ==
  ASSUME IInv, genaUnregisterClient
  PROVE  IInv'
  <1>1. /\ Moves(Main) /\ pc[Main] = "gena" /\ pc'[Main] \in {"gena", "unregister"}
        /\ client /\ UNCHANGED <<client, at, handle, results, mini>>
    BY GotoMoves DEF IInv, EndInv, Registered, NoThread, genaUnregisterClient
  <1>2. CASE UNCHANGED <<timerVars, subs, device>>
    <2>1. TypeInv'
      BY <1>1, <1>2 DEF IInv, TypeInv, Moves, timerVars
    <2>2. EndInv'
      BY <1>1, <1>2 DEF IInv, EndInv, Moves, Registered, NoThread, timerVars
    <2>3. SubsInv'
      BY <1>1, <1>2 DEF IInv, SubsInv, Adding, Moves
    <2>4. QED
      BY <2>1, <2>2, <2>3 DEF IInv
  <1>3. ASSUME NEW s \in DOMAIN subs, RemoveClientSub(s)
        PROVE  IInv'
    <2>1. /\ DOMAIN subs' = DOMAIN subs \ {s}
          /\ device' \in [Sid -> {"unasked", "granted", "endless", "forgotten"}]
          /\ \A k \in Sid : device'[k] = IF k = s THEN "forgotten" ELSE device[k]
          /\ UNCHANGED <<stopping, timer, fired>>
      BY <1>3, RemoveFacts
    <2>2. TypeInv'
      BY <1>1, <2>1 DEF IInv, TypeInv, Moves
    <2>3. EndInv'
      BY <1>1, <2>1 DEF IInv, EndInv, Moves, Registered, NoThread
    <2>4. SubsInv'
      BY <1>1, <2>1 DEF IInv, SubsInv, Adding, Moves
    <2>5. QED
      BY <2>2, <2>3, <2>4 DEF IInv
  <1>4. QED
    BY <1>2, <1>3 DEF genaUnregisterClient

(* The timer thread, the clock and the miniserver.                         *)
LEMMA OtherStep ==
  ASSUME IInv, TimerSteps \/ MessageLost \/ RunMiniServer
  PROVE  IInv'
  <1> USE DEF cpVars, timerVars
  <1>1. UNCHANGED <<pc, at, device, subs, client, handle, results>>
    BY DEF TimerSteps, MessageLost, RunMiniServer
  <1>2. TypeInv'
    BY <1>1 DEF IInv, TypeInv, TimerSteps, TimerThreadWorker, WorkerExit, WorkerFire, WorkerWait,
                WorkerTimeOut, Tick, MessageLost, RunMiniServer
  <1>3. SubsInv'
    BY <1>1 DEF IInv, SubsInv, Adding
  <1>4. EndInv'
    <2> USE <1>1 DEF IInv, EndInv, Registered, NoThread, Running
    <2>1. CASE WorkerExit /\ UNCHANGED cpVars
      BY <2>1 DEF WorkerExit
    <2>2. CASE WorkerFire /\ UNCHANGED cpVars
      BY <2>2 DEF WorkerFire, Due
    <2>3. CASE WorkerWait /\ UNCHANGED cpVars
      BY <2>3 DEF WorkerWait
    <2>4. CASE WorkerTimeOut /\ UNCHANGED cpVars
      BY <2>4 DEF WorkerTimeOut
    <2>5. CASE UNCHANGED <<eventQ, stopping, timer, fired>> /\ (mini' = mini \/ mini' = "idle")
      BY <2>5
    <2>6. CASE (Tick /\ UNCHANGED cpVars) \/ MessageLost \/ RunMiniServer
      BY <2>5, <2>6 DEF Tick, MessageLost, RunMiniServer
    <2>7. QED
      BY <2>1, <2>2, <2>3, <2>4, <2>5, <2>6 DEF TimerSteps, TimerThreadWorker
  <1>5. QED
    BY <1>2, <1>3, <1>4 DEF IInv

-----------------------------------------------------------------------------
LEMMA Inductive == IInv /\ [Next]_vars => IInv'
  <1> SUFFICES ASSUME IInv, [Next]_vars PROVE IInv'
    OBVIOUS
  <1>1. CASE UNCHANGED vars
    BY <1>1 DEF IInv, TypeInv, EndInv, SubsInv, Adding, vars, timerVars, cpVars
  <1>2. CASE Next
    BY <1>2, SearchStep, MessageStep, AskStep, GrantedStep, SubscribedStep, UnsubscribeStep,
       JobStep, EventStep, MainStep, UnregisterStep, OtherStep
       DEF Next, ReceiverSteps, MainSteps
  <1>3. QED
    BY <1>1, <1>2

LEMMA Invariant == Spec => []IInv
  BY Initial, Inductive, PTL DEF Spec

(* EndIsQuiet: when UpnpFinish returns nothing of libupnp is left to run.  *)
THEOREM QuietAtEnd == Spec => []EndIsQuiet
  <1>1. IInv => EndIsQuiet
    <2> SUFFICES ASSUME IInv, pc[Main] = "over" PROVE EndIsQuiet
      BY DEF EndIsQuiet
    <2>1. eventQ = << >> /\ fired = {}
      BY DEF IInv, EndInv, NoThread
    <2>2. Queued = {}
      BY <2>1 DEF Queued
    <2>3. QED
      BY <2>1, <2>2 DEF IInv, EndInv, NoThread, EndIsQuiet, Pending
  <1>2. QED
    BY <1>1, Invariant, PTL

(* TimerAlive: searches and renewals that the end overtakes do not touch   *)
(* a timer whose mutex and queue are being destroyed.                      *)
THEOREM TimerAliveAlways == Spec => TimerAlive
  <1>1. ASSUME IInv, [Next]_vars, lastEventId' # lastEventId
        PROVE  ~stopping /\ timer.pc # "gone"
    <2>1. CASE \E a \in Actor, for \in Sid \cup {NoSid, Search} : Schedules(a, for)
      BY <1>1, <2>1, ScheduleFacts
    <2>2. CASE SearchScheduled
      BY <2>1, <2>2 DEF SearchScheduled
    <2>3. CASE \E r \in Receiver : Subscribed(r)
      BY <1>1, <2>1, <2>3 DEF IInv, TypeInv, Subscribed
    <2>4. CASE \E id \in EventId : Renewed(id)
      BY <1>1, <2>4, ScheduleFacts DEF Renewed
    <2>5. CASE UNCHANGED lastEventId
      BY <1>1, <2>5
    <2> USE DEF timerVars, vars
    <2>6. CASE SearchAsync \/ SearchByTarget \/ Stop \/ MessageLost \/ RunMiniServer
      BY <2>5, <2>6 DEF SearchAsync, SearchByTarget, Stop, MessageLost, RunMiniServer
    <2>7. CASE MainSteps
      BY <2>5, <2>7 DEF MainSteps, genaUnregisterClient, UpnpUnRegisterClient, TimerThreadShutdown,
        TimerThreadGone, StopMiniServer, SendShutDown, SendPoolShutdown, RecvPoolShutdown,
        RemoveClientSub, TimerThreadRemove, ShutdownBegin, ShutdownEnd
    <2>8. CASE TimerSteps
      BY <2>5, <2>8 DEF TimerSteps, TimerThreadWorker, WorkerExit, WorkerFire, WorkerWait,
        WorkerTimeOut, Tick
    <2>9. ASSUME NEW id \in EventId, JobSteps(id)
          PROVE  Renewed(id) \/ UNCHANGED lastEventId
      BY <2>9 DEF JobSteps, searchExpired, Renew, RenewAnswered, RenewFailed, RemoveClientSub,
        TimerThreadRemove
    <2>10. ASSUME NEW r \in Receiver, Message(r) \/ ReceiverSteps(r)
           PROVE  Subscribed(r) \/ UNCHANGED lastEventId
      BY <2>10 DEF ReceiverSteps, Message, Reply, send_search_result, Callback, genaSubscribe, Ask,
        Granted, genaUnSubscribe, RemoveClientSub, TimerThreadRemove
    <2>11. ASSUME NEW r \in Notified, EventAgain(r) \/ \E s \in Sid : Event(r, s)
           PROVE  UNCHANGED lastEventId
      BY <2>11 DEF EventAgain, Event
    <2>12. CASE UNCHANGED vars
      BY <2>5, <2>12
    <2>13. QED
      BY <1>1, <2>2, <2>3, <2>4, <2>5, <2>6, <2>7, <2>8, <2>9, <2>10, <2>11, <2>12
         DEF Next, SearchSteps
  <1>2. IInv /\ [Next]_vars
          => [lastEventId' # lastEventId => ~stopping /\ timer.pc # "gone"]_vars
    BY <1>1
  <1>3. QED
    BY <1>2, Invariant, PTL DEF Spec, TimerAlive

(* FirstEventKept: a first event that overtakes the answer to SUBSCRIBE is *)
(* refused only when the subscription is gone.                             *)
THEOREM FirstEventKeptAlways == Spec => FirstEventKept
  <1>1. ASSUME IInv, Next, NEW r \in Notified, pc[r] = "await", pc'[r] = "idle"
        PROVE  EventAgain(r)
    <2>1. ASSUME NEW a \in Actor \ {r} PROVE ~Moves(a)
      BY <1>1, <2>1 DEF Moves
    <2> USE GotoMoves, DoneFacts, <1>1, <2>1 DEF IInv
    <2>2. ~SearchAsync /\ ~SearchByTarget /\ ~SearchScheduled
      BY DEF SearchAsync, SearchByTarget, SearchScheduled
    <2>3. ~Stop /\ ~genaUnregisterClient /\ ~UpnpUnRegisterClient
      BY DEF Stop, genaUnregisterClient, UpnpUnRegisterClient
    <2>4. ~TimerThreadShutdown /\ ~TimerThreadGone /\ ~SendPoolShutdown /\ ~RecvPoolShutdown
      BY DEF TimerThreadShutdown, TimerThreadGone, SendPoolShutdown, RecvPoolShutdown
    <2>5. ~StopMiniServer /\ ~SendShutDown /\ ~MessageLost /\ ~RunMiniServer /\ ~TimerSteps
      BY DEF StopMiniServer, SendShutDown, MessageLost, RunMiniServer, TimerSteps, cpVars
    <2>6. ASSUME NEW id \in EventId PROVE ~JobSteps(id)
      BY DEF JobSteps, searchExpired, Renew, RenewAnswered, Renewed, RenewFailed
    <2>7. ASSUME NEW k \in Receiver PROVE ~Message(k) /\ ~ReceiverSteps(k)
      BY DEF ReceiverSteps, Message, Reply, send_search_result, Callback, genaSubscribe, Ask,
             Granted, Subscribed, genaUnSubscribe
    <2>8. ASSUME NEW k \in Notified PROVE EventAgain(k) => k = r
      BY DEF EventAgain
    <2>9. ASSUME NEW k \in Notified, NEW s \in Sid PROVE ~Event(k, s)
      BY DEF Event
    <2>10. QED
      BY <2>2, <2>3, <2>4, <2>5, <2>6, <2>7, <2>8, <2>9 DEF Next, SearchSteps, MainSteps
  <1>2. ASSUME IInv, NEW r \in Notified, EventAgain(r), client, at[r] \notin DOMAIN subs
        PROVE  device[at[r]] = "forgotten"
    <2>1. /\ at[r] \in Sid /\ device[at[r]] # "unasked"
          /\ \A k \in Receiver : ~Adding(k, at[r])
      BY <1>2, DoneFacts DEF IInv, SubsInv, EventAgain, SubscribeFree, Subscribing, Adding
    <2>2. QED
      BY <1>2, <2>1 DEF IInv, SubsInv
  <1>3. IInv /\ [Next]_vars
          => [\A r \in Notified :
                pc[r] = "await" /\ pc'[r] = "idle" /\ client /\ at[r] \notin DOMAIN subs
                  => device[at[r]] = "forgotten"]_vars
    BY <1>1, <1>2
  <1>4. QED
    BY <1>3, Invariant, PTL DEF Spec, FirstEventKept

-----------------------------------------------------------------------------
(***************************************************************************)
(* The second invariant: every event in one place, and what it is for.     *)
(***************************************************************************)
TimedEvent == [id : EventId, time : Nat]

(* The queue is in order, and the timer thread waits for its head.         *)
QueueInv ==
  /\ eventQ \in Seq(TimedEvent) /\ Ordered(eventQ)
  /\ now \in Nat /\ timer.until \in Nat
  /\ timer.pc = "wait" /\ eventQ # << >> => timer.until <= Head(eventQ).time

(* One thread or job at a time schedules.                                  *)
LockInv ==
  /\ lastEventId \in 0 .. MaxId
  /\ handle = Unlocked \/ (handle \in [owner : Actor, time : Nat] /\ lastEventId < MaxId)
  /\ \A a \in Actor : pc[a] = "schedule" <=> handle.owner = a

(* An id is new, queued, handed over, or its job has begun.                *)
IdInv ==
  /\ fired \subseteq EventId /\ Queued \cap fired = {}
  /\ \A id \in Pending : id < lastEventId /\ pc[id] = "idle"
  /\ \A id \in EventId : pc[id] # "idle" => id < lastEventId

ListsInv ==
  /\ what \in [EventId -> Sid \cup {NoSid, Search}]
  /\ subs \in [DOMAIN subs -> EventId \cup {NoEvent}]
  /\ \A id \in searches : what[id] = Search /\ id \in Pending
  /\ ~client => searches = {} /\ DOMAIN subs = {}

Under(id, s) == what[id] = s /\ pc[id] \in {"renew", "schedule"}

Fresh(s) == s \notin DOMAIN subs /\ \A id \in EventId : what[id] # s

(* The one renewal of a subscription: scheduled, under way, or none at all. *)
Renewal(s) ==
  IF subs[s] # NoEvent
  THEN /\ device[s] # "endless" /\ subs[s] \in Pending
       /\ \A id \in Pending : what[id] = s <=> id = subs[s]
       /\ \A id \in EventId : ~Under(id, s)
  ELSE /\ \A id \in Pending : what[id] # s
       /\ IF device[s] = "endless" THEN \A id \in EventId : ~Under(id, s)
          ELSE \E id \in EventId : \A k \in EventId : Under(k, s) <=> k = id

RenewInv ==
  /\ \A s \in DOMAIN subs : Renewal(s)
  /\ \A id \in EventId : pc[id] \in {"renew", "schedule"} => what[id] \in Sid
  /\ \A id \in EventId : pc[id] = "schedule" => what[id] \in DOMAIN subs
  /\ client => \A id \in Queued : what[id] \in Sid => what[id] \in DOMAIN subs

(* What a thread is about to add is new.                                   *)
AddInv ==
  /\ \A r, q \in Subscribing : r = q
  /\ \A r \in Receiver, s \in Sid :
       Adding(r, s) => device[s] \notin {"unasked", "endless"} /\ Fresh(s)
  /\ \A s \in Sid : device[s] = "unasked" => Fresh(s)

JInv == QueueInv /\ LockInv /\ IdInv /\ ListsInv /\ RenewInv /\ AddInv

LEMMA InitialJ == Init => JInv
  <1> SUFFICES ASSUME Init PROVE JInv
    OBVIOUS
  <1>1. /\ eventQ = << >> /\ fired = {} /\ searches = {} /\ lastEventId = 0 /\ now = 0
        /\ timer = [pc |-> "woken", until |-> Forever] /\ client /\ handle = Unlocked
        /\ DOMAIN subs = {} /\ subs = << >>
        /\ \A a \in Actor : pc[a] = "idle"
        /\ \A id \in EventId : what[id] = NoSid
    BY DEF Init, TimerInit
  <1>2. Queued = {} /\ Pending = {}
    BY <1>1 DEF Queued, Pending
  <1>3. QueueInv
    <2>1. Forever \in Nat
      BY TimerAssumption DEF Forever
    <2>2. eventQ \in Seq(TimedEvent) /\ Ordered(eventQ)
      BY <1>1 DEF Ordered
    <2>3. QED
      BY <1>1, <2>1, <2>2 DEF QueueInv
  <1>4. LockInv
    BY <1>1, TimerAssumption DEF LockInv, Unlocked
  <1>5. IdInv
    BY <1>1, <1>2 DEF IdInv
  <1>6. ListsInv
    <2>1. what \in [EventId -> Sid \cup {NoSid, Search}]
      BY DEF Init
    <2>2. subs \in [{} -> EventId \cup {NoEvent}]
      BY <1>1
    <2>3. QED
      BY <1>1, <2>1, <2>2 DEF ListsInv
  <1>7. RenewInv
    BY <1>1, <1>2 DEF RenewInv
  <1>8. AddInv
    BY <1>1, SidAssumption DEF AddInv, Subscribing, Adding, Fresh
  <1>9. QED
    BY <1>3, <1>4, <1>5, <1>6, <1>7, <1>8 DEF JInv

LEMMA QueuedIds ==
  ASSUME QueueInv PROVE Queued \subseteq EventId
  <1>1. \A i \in DOMAIN eventQ : eventQ[i] \in TimedEvent
    BY LenProperties, ElementOfSeq DEF QueueInv
  <1>2. QED
    BY <1>1 DEF Queued, TimedEvent

-----------------------------------------------------------------------------
(* An event that is scheduled has a new id; the timer thread looks again.   *)
LEMMA ScheduleEffect ==
  ASSUME IInv, JInv, NEW a \in Actor, NEW for, Schedules(a, for)
  PROVE  /\ lastEventId \in EventId /\ lastEventId' = lastEventId + 1
         /\ lastEventId \notin Pending /\ pc[lastEventId] = "idle"
         /\ Queued' = Queued \cup {lastEventId} /\ fired' = fired
         /\ what' = [what EXCEPT ![lastEventId] = for]
         /\ pc[a] = "schedule" /\ handle' = Unlocked /\ client
         /\ lastEventId' \in 0 .. MaxId
         /\ QueueInv'
  <1>1. /\ handle.owner = a /\ TimerThreadSchedule(handle.time) /\ handle' = Unlocked
        /\ what' = [what EXCEPT ![lastEventId] = for]
    BY DEF Schedules
  <1>2. handle # Unlocked
    BY <1>1 DEF Unlocked
  <1>3. handle.time \in Nat /\ lastEventId < MaxId /\ lastEventId \in 0 .. MaxId
    BY <1>2 DEF JInv, LockInv
  <1>4. lastEventId \in EventId
    BY <1>3, TimerAssumption DEF EventId
  <1>5. lastEventId \notin Pending /\ pc[lastEventId] = "idle"
    BY <1>3, <1>4 DEF JInv, IdInv
  <1>6. pc[a] = "schedule" /\ client
    BY <1>1, <1>2 DEF JInv, LockInv, IInv, EndInv
  <1>7. PICK e : e = [id |-> lastEventId, time |-> handle.time]
    OBVIOUS
  <1>8. e \in TimedEvent /\ e.id = lastEventId /\ e.time = handle.time
    BY <1>3, <1>4, <1>7 DEF TimedEvent
  <1>9. PICK k \in 1 .. Len(eventQ) + 1 :
          /\ \A i \in 1 .. k - 1 : eventQ[i].time < e.time
          /\ k <= Len(eventQ) => eventQ[k].time >= e.time
          /\ eventQ' = InsertAt(eventQ, k, e)
    BY <1>1, <1>7, <1>8 DEF TimerThreadSchedule
  <1>10. eventQ \in Seq(TimedEvent) /\ Ordered(eventQ)
    BY DEF JInv, QueueInv
  <1>11. e.id \notin Ids(eventQ)
    BY <1>5, <1>8 DEF Pending, Queued, Ids
  <1>12. /\ eventQ' \in Seq(TimedEvent) /\ Ordered(eventQ')
         /\ Ids(eventQ') = Ids(eventQ) \cup {e.id}
    <2>1. PICK q \in Seq(TimedEvent) : q = eventQ
      BY <1>10
    <2>2. /\ InsertAt(q, k, e) \in Seq(TimedEvent)
          /\ Ordered(InsertAt(q, k, e))
          /\ Ids(InsertAt(q, k, e)) = Ids(q) \cup {e.id}
      <3>1. Ordered(q) /\ e.id \notin Ids(q) /\ k \in 1 .. Len(q) + 1
        BY <1>9, <1>10, <1>11, <2>1
      <3>2. Place(q, k, e.time)
        BY <1>9, <2>1 DEF Place
      <3>3. /\ e \in TimedEvent /\ Len(q) \in Nat
            /\ \A x \in TimedEvent : x.time \in Nat
        BY <1>8, <2>1, LenProperties DEF TimedEvent
      <3>4. QED
        BY <3>1, <3>2, <3>3, InsertKeeps
    <2>3. QED
      BY <1>9, <2>1, <2>2
  <1>13. Queued' = Queued \cup {lastEventId}
    BY <1>8, <1>12 DEF Queued, Ids
  <1>14. /\ lastEventId' = lastEventId + 1 /\ fired' = fired /\ now' = now
         /\ timer'.pc # "wait" /\ timer'.until = timer.until
    BY <1>1 DEF TimerThreadSchedule, Signalled, IInv, TypeInv
  <1>15. QueueInv'
    BY <1>12, <1>14 DEF QueueInv, JInv
  <1>16. lastEventId' \in 0 .. MaxId
    BY <1>3, <1>14, TimerAssumption
  <1>17. QED
    BY <1>1, <1>4, <1>5, <1>6, <1>13, <1>14, <1>15, <1>16

LEMMA DropEffect ==
  ASSUME QueueInv, NEW id, Drop(id), UNCHANGED <<now, timer>>
  PROVE  QueueInv' /\ Queued' = Queued \ {id}
  <1>1. CASE id \notin Queued /\ UNCHANGED eventQ
    BY <1>1 DEF QueueInv, Queued
  <1>2. ASSUME NEW k \in DOMAIN eventQ, eventQ[k].id = id, eventQ' = RemoveAt(eventQ, k)
        PROVE  QueueInv' /\ Queued' = Queued \ {id}
    <2>1. eventQ \in Seq(TimedEvent) /\ Ordered(eventQ)
      BY DEF QueueInv
    <2>2. /\ eventQ' \in Seq(TimedEvent) /\ Ordered(eventQ')
          /\ Ids(eventQ') = Ids(eventQ) \ {eventQ[k].id}
          /\ eventQ' # << >> => eventQ # << >> /\ Head(eventQ).time <= Head(eventQ').time
      <3>1. \A x \in TimedEvent : x.time \in Nat
        BY DEF TimedEvent
      <3>2. QED
        BY <1>2, <2>1, <3>1, RemoveKeeps
    <2>3. Queued' = Queued \ {id}
      BY <1>2, <2>2 DEF Queued, Ids
    <2>4. timer'.pc = "wait" /\ eventQ' # << >> => timer'.until <= Head(eventQ').time
      <3>1. SUFFICES ASSUME timer'.pc = "wait", eventQ' # << >>
                     PROVE  timer'.until <= Head(eventQ').time
        OBVIOUS
      <3>2. /\ timer.until <= Head(eventQ).time /\ timer.until \in Nat
            /\ Head(eventQ).time <= Head(eventQ').time
        BY <2>2, <3>1 DEF QueueInv
      <3>3. Head(eventQ) \in TimedEvent /\ Head(eventQ') \in TimedEvent
        BY <2>1, <2>2, <3>1, HeadTailProperties
      <3>4. Head(eventQ).time \in Nat /\ Head(eventQ').time \in Nat
        BY <3>3 DEF TimedEvent
      <3>5. QED
        BY <3>2, <3>4
    <2>5. QED
      BY <2>2, <2>3, <2>4 DEF QueueInv
  <1>3. QED
    BY <1>1, <1>2 DEF Drop

(* A subscription goes with its renewal, if that is queued.                *)
LEMMA RemoveEffect ==
  ASSUME IInv, JInv, NEW s, RemoveClientSub(s)
  PROVE  /\ subs' = [k \in DOMAIN subs \ {s} |-> subs[k]]
         /\ UNCHANGED <<now, lastEventId, stopping, timer, fired>>
         /\ QueueInv'
         /\ Queued' = Queued \ (IF s \in DOMAIN subs THEN {subs[s]} ELSE {})
  <1>1. subs' = [k \in DOMAIN subs \ {s} |-> subs[k]]
    BY DEF RemoveClientSub
  <1>2. CASE s \in DOMAIN subs /\ subs[s] # NoEvent
    <2>1. Drop(subs[s]) /\ UNCHANGED <<now, lastEventId, stopping, timer, fired>>
      BY <1>2 DEF RemoveClientSub, TimerThreadRemove
    <2>2. QED
      BY <1>1, <1>2, <2>1, DropEffect DEF JInv
  <1>3. CASE ~(s \in DOMAIN subs /\ subs[s] # NoEvent)
    <2>1. UNCHANGED timerVars
      BY <1>3 DEF RemoveClientSub
    <2>2. QueueInv' /\ Queued' = Queued
      BY <2>1 DEF timerVars, JInv, QueueInv, Queued
    <2>3. NoEvent \notin Queued
      <3>1. NoEvent \notin EventId
        BY DEF NoEvent, EventId
      <3>2. QED
        BY <3>1, QueuedIds DEF JInv
    <2>4. QED
      BY <1>1, <1>3, <2>1, <2>2, <2>3 DEF timerVars
  <1>4. QED
    BY <1>2, <1>3

-----------------------------------------------------------------------------
(* The lock, when a thread moves.                                          *)
LEMMA LockKept ==
  ASSUME IInv, JInv, NEW a \in Actor, Moves(a), pc[a] # "schedule", pc'[a] # "schedule",
         UNCHANGED <<handle, lastEventId>>
  PROVE  LockInv'
  BY DEF JInv, LockInv, Moves

LEMMA LockTaken ==
  ASSUME IInv, JInv, NEW a \in Actor, Moves(a), pc'[a] = "schedule", HandleFree,
         Locks(a), UNCHANGED lastEventId
  PROVE  LockInv'
  <1>1. PICK wait \in 0 .. MaxWait :
          lastEventId < MaxId /\ handle' = [owner |-> a, time |-> now + wait]
    BY DEF Locks
  <1>2. handle' \in [owner : Actor, time : Nat] /\ handle'.owner = a
    BY <1>1, BoundAssumption DEF JInv, QueueInv
  <1>3. \A b \in Actor : pc[b] # "schedule"
    BY DEF JInv, LockInv, HandleFree, Unlocked
  <1>4. QED
    BY <1>1, <1>2, <1>3 DEF JInv, LockInv, Moves

LEMMA LockLeft ==
  ASSUME IInv, JInv, NEW a \in Actor, Moves(a), pc'[a] # "schedule", NEW for,
         Schedules(a, for)
  PROVE  LockInv'
  <1>1. /\ handle.owner = a /\ handle' = Unlocked /\ lastEventId' \in 0 .. MaxId
    BY ScheduleEffect DEF Schedules
  <1>2. \A b \in Actor : pc'[b] # "schedule"
    BY <1>1 DEF JInv, LockInv, Moves
  <1>3. QED
    BY <1>1, <1>2 DEF LockInv, Unlocked

(* A step that changes no list and no event but moves a thread.            *)
Busy == {"ask", "granted", "schedule"}

LEMMA PcStep ==
  ASSUME IInv, JInv, LockInv', NEW a \in Actor, Moves(a),
         UNCHANGED <<timerVars, client, searches, subs, device, what>>,
         a \in EventId =>
           /\ pc[a] # "idle"
           /\ pc'[a] \in {"renew", "schedule"} => pc[a] = "renew"
           /\ pc'[a] = "schedule" => what[a] \in DOMAIN subs
           /\ pc[a] \in {"renew", "schedule"} /\ what[a] \in DOMAIN subs =>
                pc'[a] \in {"renew", "schedule"},
         a \in Receiver =>
           /\ pc'[a] \in Busy => SubscribeFree \/ pc[a] \in Busy
           /\ pc'[a] \in {"granted", "schedule"} =>
                pc[a] \in {"granted", "schedule"} /\ at'[a] = at[a],
         \A r \in Receiver \ {a} : at'[r] = at[r]
  PROVE  JInv'
  <1> USE DEF timerVars
  <1>1. Queued' = Queued /\ Pending' = Pending
    BY DEF Queued, Pending
  <1>2. QueueInv'
    BY DEF JInv, QueueInv
  <1>3. IdInv'
    <2>1. Pending \subseteq EventId
      BY QueuedIds DEF JInv, IdInv, Pending
    <2>2. QED
      BY <1>1, <2>1 DEF JInv, IdInv, Moves
  <1>4. ListsInv'
    BY <1>1 DEF JInv, ListsInv
  <1>5. RenewInv'
    <2>1. \A s \in DOMAIN subs, id \in EventId : Under(id, s)' <=> Under(id, s)
      BY DEF Under, Moves
    <2>2. \A s \in DOMAIN subs : Renewal(s)' <=> Renewal(s)
      BY <1>1, <2>1 DEF Renewal
    <2>3. QED
      BY <1>1, <2>2 DEF JInv, RenewInv, Moves
  <1>6. AddInv'
    <2>1. \A s : Fresh(s)' <=> Fresh(s)
      BY DEF Fresh
    <2>2. \A r \in Receiver : \A s : Adding(r, s)' => Adding(r, s)
      BY DEF Adding, Moves
    <2>3. \A r, q \in Subscribing' : r = q
      BY DEF JInv, AddInv, Subscribing, SubscribeFree, Busy, Moves
    <2>4. QED
      BY <2>1, <2>2, <2>3 DEF JInv, AddInv
  <1>7. QED
    BY <1>2, <1>3, <1>4, <1>5, <1>6 DEF JInv

(* The steps that move a thread: of the search and of messages, ...        *)
LEMMA QuietSearch ==
  ASSUME IInv, JInv, SearchAsync \/ SearchByTarget
  PROVE  JInv'
  <1>1. /\ Moves(Searcher) /\ UNCHANGED <<timerVars, client, searches, subs, device, what, at>>
        /\ HandleFree
    BY GotoMoves DEF IInv, SearchAsync, SearchByTarget
  <1>2. LockInv'
    <2>1. CASE SearchAsync
      <3>1. pc[Searcher] = "idle" /\ pc'[Searcher] = "search" /\ UNCHANGED <<handle, lastEventId>>
        BY <2>1, GotoMoves DEF IInv, SearchAsync, timerVars
      <3>2. QED
        BY <1>1, <3>1, LockKept
    <2>2. CASE Goto(Searcher, "search", "schedule") /\ Locks(Searcher)
      <3>1. pc'[Searcher] = "schedule"
        BY <2>2, GotoMoves DEF IInv
      <3>2. QED
        BY <1>1, <2>2, <3>1, LockTaken DEF timerVars
    <2>3. CASE Goto(Searcher, "search", "idle") /\ UNCHANGED handle
      <3>1. pc[Searcher] = "search" /\ pc'[Searcher] = "idle"
        BY <2>3, GotoMoves DEF IInv
      <3>2. QED
        BY <1>1, <2>3, <3>1, LockKept DEF timerVars
    <2>4. QED
      BY <2>1, <2>2, <2>3 DEF SearchByTarget
  <1>3. QED
    BY <1>1, <1>2, PcStep

LEMMA QuietReceiver ==
  ASSUME IInv, JInv, NEW r \in Receiver,
         Message(r) \/ Reply(r) \/ send_search_result(r) \/ Callback(r) \/ genaSubscribe(r)
  PROVE  JInv'
  <1>1. /\ Moves(r) /\ UNCHANGED <<timerVars, client, searches, subs, device, what, handle>>
        /\ pc[r] \notin {"granted", "schedule"} /\ pc'[r] \notin {"granted", "schedule"}
        /\ pc'[r] = "ask" => SubscribeFree
        /\ \A b \in (Receiver \cup Notified) \ {r} : at'[b] = at[b]
    <2>1. CASE Message(r)
      BY <2>1, GotoMoves DEF IInv, Message
    <2>2. CASE Reply(r)
      BY <2>2, GotoMoves DEF IInv, Reply
    <2>3. CASE send_search_result(r)
      BY <2>3, GotoMoves DEF IInv, send_search_result
    <2>4. CASE Callback(r)
      BY <2>4, GotoMoves DEF IInv, TypeInv, Callback
    <2>5. CASE genaSubscribe(r)
      BY <2>5, GotoMoves DEF IInv, genaSubscribe
    <2>6. QED
      BY <2>1, <2>2, <2>3, <2>4, <2>5
  <1>2. LockInv'
    BY <1>1, LockKept DEF timerVars
  <1>3. QED
    BY <1>1, <1>2, PcStep DEF Busy

(* ... of first events, ...                                                *)
LEMMA QuietNotified ==
  ASSUME IInv, JInv, NEW r \in Notified, EventAgain(r) \/ \E s \in Sid : Event(r, s)
  PROVE  JInv'
  <1> DEFINE Quiet ==
        /\ Moves(r) /\ UNCHANGED <<timerVars, client, searches, subs, device, what, handle>>
        /\ pc[r] # "schedule" /\ pc'[r] # "schedule"
        /\ \A b \in (Receiver \cup Notified) \ {r} : at'[b] = at[b]
  <1>1. Quiet
    <2>1. CASE EventAgain(r)
      BY <2>1, DoneFacts DEF IInv, EventAgain
    <2>2. ASSUME NEW s \in Sid, Event(r, s)
          PROVE  Quiet
      BY <2>2, GotoMoves DEF IInv, TypeInv, Event
    <2>3. QED
      BY <2>1, <2>2
  <1>2. LockInv'
    BY <1>1, LockKept DEF timerVars
  <1>3. QED
    BY <1>1, <1>2, PcStep

(* ... and of the end and the miniserver.                                  *)
LEMMA QuietMain ==
  ASSUME IInv, JInv,
         \/ Stop \/ TimerThreadGone \/ StopMiniServer \/ SendShutDown \/ RecvPoolShutdown
         \/ MessageLost \/ RunMiniServer
  PROVE  JInv'
  <1>1. /\ Moves(Main) /\ pc[Main] # "schedule" /\ pc'[Main] # "schedule"
        /\ UNCHANGED <<timerVars, client, searches, subs, device, what, handle, at>>
    <2> USE DEF IInv
    <2>0. pc[Main] # "schedule"
      BY DEF EndInv, Registered, NoThread
    <2>1. CASE Stop
      BY <2>0, <2>1, GotoMoves DEF Stop
    <2>2. CASE TimerThreadGone
      BY <2>0, <2>2, GotoMoves DEF TimerThreadGone, ShutdownEnd
    <2>3. CASE StopMiniServer \/ SendShutDown
      <3>1. CASE UNCHANGED pc
        <4>1. Moves(Main)
          BY <3>1 DEF TypeInv, Moves
        <4>2. QED
          BY <2>0, <2>3, <3>1, <4>1 DEF StopMiniServer, SendShutDown
      <3>2. ASSUME NEW from, NEW next \in {"shut", "send"}, Goto(Main, from, next)
            PROVE  Moves(Main) /\ pc'[Main] # "schedule"
        BY <3>2, GotoMoves
      <3>3. QED
        BY <2>0, <2>3, <3>1, <3>2 DEF StopMiniServer, SendShutDown
    <2>4. CASE RecvPoolShutdown
      BY <2>0, <2>4, GotoMoves DEF RecvPoolShutdown, timerVars
    <2>5. CASE MessageLost \/ RunMiniServer
      BY <2>0, <2>5 DEF MessageLost, RunMiniServer, TypeInv, Moves
    <2>6. QED
      BY <2>1, <2>2, <2>3, <2>4, <2>5
  <1>2. LockInv'
    BY <1>1, LockKept DEF timerVars
  <1>3. QED
    BY <1>1, <1>2, PcStep

-----------------------------------------------------------------------------
(* An event for a search, a new subscription, or the next renewal.         *)
LEMMA ScheduledSearch ==
  ASSUME IInv, JInv, SearchScheduled PROVE JInv'
  <1>1. /\ Moves(Searcher) /\ pc'[Searcher] = "idle" /\ Schedules(Searcher, Search)
        /\ searches' = searches \cup {lastEventId}
        /\ UNCHANGED <<client, subs, device, at>>
    BY GotoMoves DEF IInv, SearchScheduled
  <1>2. /\ lastEventId \in EventId /\ lastEventId' = lastEventId + 1
        /\ lastEventId \notin Pending /\ pc[lastEventId] = "idle"
        /\ Queued' = Queued \cup {lastEventId} /\ fired' = fired
        /\ what' = [what EXCEPT ![lastEventId] = Search] /\ client
        /\ QueueInv'
    BY <1>1, ScheduleEffect
  <1>3. LockInv'
    BY <1>1, LockLeft
  <1>4. Pending' = Pending \cup {lastEventId}
    BY <1>2 DEF Pending
  <1>5. /\ \A id \in EventId : what'[id] = IF id = lastEventId THEN Search ELSE what[id]
        /\ what' \in [EventId -> Sid \cup {NoSid, Search}]
        /\ \A id \in EventId : pc'[id] = pc[id]
        /\ Search \notin Sid /\ Pending \subseteq EventId
    BY <1>1, <1>2, SidAssumption, QueuedIds DEF JInv, ListsInv, IdInv, Pending, Moves
  <1>6. IdInv'
    BY <1>2, <1>4, <1>5, TimerAssumption DEF JInv, IdInv, EventId, Pending
  <1>7. ListsInv'
    BY <1>1, <1>2, <1>4, <1>5 DEF JInv, ListsInv
  <1>8. RenewInv'
    <2>1. \A s \in DOMAIN subs : s \in Sid
      BY DEF IInv, TypeInv
    <2>2. \A s \in DOMAIN subs, id \in EventId : Under(id, s)' <=> Under(id, s)
      BY <1>2, <1>5, <2>1 DEF Under
    <2>3. \A s \in DOMAIN subs : Renewal(s) => Renewal(s)'
      BY <1>1, <1>2, <1>4, <1>5, <2>1, <2>2 DEF Renewal
    <2>4. QED
      BY <1>1, <1>2, <1>5, <2>3 DEF JInv, RenewInv
  <1>9. AddInv'
    <2>1. \A s \in Sid : Fresh(s) => Fresh(s)'
      BY <1>1, <1>5 DEF Fresh
    <2>2. \A r \in Receiver, s \in Sid : Adding(r, s)' <=> Adding(r, s)
      BY <1>1 DEF Adding, Moves
    <2>3. Subscribing' = Subscribing
      BY <1>1 DEF Subscribing, Moves
    <2>4. QED
      BY <1>1, <2>1, <2>2, <2>3 DEF JInv, AddInv
  <1>10. QED
    BY <1>2, <1>3, <1>6, <1>7, <1>8, <1>9 DEF JInv

LEMMA ScheduledFirst ==
  ASSUME IInv, JInv, NEW r \in Receiver, Subscribed(r) PROVE JInv'
  <1>1. PICK s \in Sid : s = at[r]
    BY DoneFacts DEF IInv, SubsInv, Subscribed
  <1>2. /\ Moves(r) /\ pc[r] = "schedule" /\ pc'[r] = "idle" /\ Schedules(r, s)
        /\ subs' = Added(s, lastEventId)
        /\ UNCHANGED <<client, searches, device>>
        /\ \A b \in Receiver \ {r} : at'[b] = at[b]
    BY <1>1, DoneFacts DEF IInv, Subscribed
  <1>3. /\ lastEventId \in EventId /\ lastEventId' = lastEventId + 1
        /\ lastEventId \notin Pending /\ pc[lastEventId] = "idle"
        /\ Queued' = Queued \cup {lastEventId} /\ fired' = fired
        /\ what' = [what EXCEPT ![lastEventId] = s] /\ client
        /\ QueueInv'
    BY <1>2, ScheduleEffect
  <1>4. LockInv'
    BY <1>2, LockLeft
  <1>5. Pending' = Pending \cup {lastEventId}
    BY <1>3 DEF Pending
  <1>6. /\ \A id \in EventId : what'[id] = IF id = lastEventId THEN s ELSE what[id]
        /\ what' \in [EventId -> Sid \cup {NoSid, Search}]
        /\ \A id \in EventId : pc'[id] = pc[id]
        /\ Search \notin Sid /\ Pending \subseteq EventId
    BY <1>2, <1>3, SidAssumption, QueuedIds DEF JInv, ListsInv, IdInv, Pending, Moves
  <1>7. Adding(r, s) /\ Fresh(s) /\ device[s] # "unasked" /\ device[s] # "endless"
    BY <1>1, <1>2 DEF Adding, JInv, AddInv
  <1>8. /\ DOMAIN subs' = DOMAIN subs \cup {s}
        /\ \A t \in DOMAIN subs' : subs'[t] = IF t = s THEN lastEventId ELSE subs[t]
        /\ subs' \in [DOMAIN subs' -> EventId \cup {NoEvent}]
    BY <1>2, <1>3 DEF Added, JInv, ListsInv
  <1>9. IdInv'
    BY <1>3, <1>5, <1>6, TimerAssumption DEF JInv, IdInv, EventId, Pending
  <1>10. ListsInv'
    <2>1. lastEventId \notin searches
      BY <1>3 DEF JInv, ListsInv
    <2>2. searches \subseteq EventId
      BY <1>6 DEF JInv, ListsInv
    <2>3. QED
      BY <1>2, <1>3, <1>5, <1>6, <1>8, <2>1, <2>2 DEF JInv, ListsInv
  <1>11. RenewInv'
    <2>1. \A t \in DOMAIN subs : t \in Sid /\ t # s
      BY <1>7 DEF IInv, TypeInv, Fresh
    <2>2. \A t \in DOMAIN subs, id \in EventId : Under(id, t)' <=> Under(id, t)
      BY <1>3, <1>6, <2>1 DEF Under
    <2>3. \A t \in DOMAIN subs : Renewal(t) => Renewal(t)'
      BY <1>2, <1>3, <1>5, <1>6, <1>8, <2>1, <2>2 DEF Renewal
    <2>4. Renewal(s)'
      <3>1. lastEventId # NoEvent
        BY <1>3 DEF NoEvent, EventId
      <3>2. \A id \in EventId : what[id] # s
        BY <1>7 DEF Fresh
      <3>3. \A id \in EventId : ~Under(id, s)'
        BY <1>3, <1>6, <3>2 DEF Under
      <3>4. QED
        BY <1>2, <1>5, <1>6, <1>7, <1>8, <3>1, <3>2, <3>3 DEF Renewal
    <2>5. QED
      BY <1>2, <1>3, <1>6, <1>8, <2>3, <2>4 DEF JInv, RenewInv
  <1>12. AddInv'
    <2>1. \A q \in Receiver, t \in Sid : ~Adding(q, t)'
      <3>1. \A q \in Receiver \ {r} : pc[q] \notin {"granted", "schedule"}
        BY <1>2 DEF JInv, AddInv, Subscribing
      <3>2. QED
        BY <1>2, <3>1 DEF Adding, Moves
    <2>2. \A t \in Sid : device[t] = "unasked" => t # s
      BY <1>7
    <2>3. \A t \in Sid : t # s /\ Fresh(t) => Fresh(t)'
      BY <1>6, <1>8 DEF Fresh
    <2>4. Subscribing' \subseteq Subscribing
      BY <1>2 DEF Subscribing, Moves
    <2>5. QED
      BY <1>2, <2>1, <2>2, <2>3, <2>4 DEF JInv, AddInv
  <1>13. QED
    BY <1>3, <1>4, <1>9, <1>10, <1>11, <1>12 DEF JInv

LEMMA ScheduledNext ==
  ASSUME IInv, JInv, NEW id \in EventId, Renewed(id) PROVE JInv'
  <1>1. PICK s : s = what[id]
    OBVIOUS
  <1>2. /\ Moves(id) /\ pc[id] = "schedule" /\ pc'[id] = "over" /\ Schedules(id, s)
        /\ subs' = [subs EXCEPT ![s] = lastEventId]
        /\ UNCHANGED <<client, searches, device, at>>
    BY <1>1, GotoMoves DEF IInv, Renewed
  <1>3. /\ lastEventId \in EventId /\ lastEventId' = lastEventId + 1
        /\ lastEventId \notin Pending /\ pc[lastEventId] = "idle"
        /\ Queued' = Queued \cup {lastEventId} /\ fired' = fired
        /\ what' = [what EXCEPT ![lastEventId] = s] /\ client
        /\ QueueInv'
    BY <1>2, ScheduleEffect
  <1>4. LockInv'
    BY <1>2, LockLeft
  <1>5. Pending' = Pending \cup {lastEventId}
    BY <1>3 DEF Pending
  <1>6. s \in DOMAIN subs /\ s \in Sid /\ Under(id, s) /\ id # lastEventId
    BY <1>1, <1>2, <1>3 DEF JInv, RenewInv, Under
  <1>7. /\ \A k \in EventId : what'[k] = IF k = lastEventId THEN s ELSE what[k]
        /\ what' \in [EventId -> Sid \cup {NoSid, Search}]
        /\ \A k \in EventId \ {id} : pc'[k] = pc[k]
        /\ Search \notin Sid /\ Pending \subseteq EventId
    BY <1>2, <1>3, <1>6, SidAssumption, QueuedIds DEF JInv, ListsInv, IdInv, Pending, Moves
  <1>8. /\ DOMAIN subs' = DOMAIN subs
        /\ \A t \in DOMAIN subs' : subs'[t] = IF t = s THEN lastEventId ELSE subs[t]
        /\ subs' \in [DOMAIN subs' -> EventId \cup {NoEvent}]
    BY <1>2, <1>3, <1>6 DEF JInv, ListsInv
  <1>9. IdInv'
    <2>1. id \notin Pending /\ id < lastEventId
      BY <1>2 DEF JInv, IdInv
    <2>2. QED
      BY <1>2, <1>3, <1>5, <1>7, <2>1, TimerAssumption DEF JInv, IdInv, EventId, Pending
  <1>10. ListsInv'
    <2>1. lastEventId \notin searches
      BY <1>3 DEF JInv, ListsInv
    <2>2. searches \subseteq EventId
      BY <1>7 DEF JInv, ListsInv
    <2>3. QED
      BY <1>2, <1>3, <1>5, <1>7, <1>8, <2>1, <2>2 DEF JInv, ListsInv
  <1>11. RenewInv'
    <2>1. \A t \in DOMAIN subs : t \in Sid
      BY DEF IInv, TypeInv
    <2>2. \A t \in DOMAIN subs \ {s}, k \in EventId : Under(k, t)' <=> Under(k, t)
      BY <1>1, <1>3, <1>7, <2>1 DEF Under
    <2>3. \A t \in DOMAIN subs \ {s} : Renewal(t) => Renewal(t)'
      BY <1>2, <1>3, <1>5, <1>7, <1>8, <2>1, <2>2 DEF Renewal
    <2>4. Renewal(s)'
      <3>1. lastEventId # NoEvent
        BY <1>3 DEF NoEvent, EventId
      <3>2. /\ device[s] # "endless"
            /\ \A k \in Pending : what[k] # s
            /\ \A k \in EventId : Under(k, s) <=> k = id
        BY <1>6 DEF JInv, RenewInv, Renewal
      <3>3. \A k \in EventId : ~Under(k, s)'
        BY <1>2, <1>3, <1>7, <3>2 DEF Under
      <3>4. QED
        BY <1>2, <1>5, <1>6, <1>7, <1>8, <3>1, <3>2, <3>3 DEF Renewal
    <2>5. QED
      BY <1>2, <1>3, <1>6, <1>7, <1>8, <2>3, <2>4 DEF JInv, RenewInv
  <1>12. AddInv'
    <2>1. \A q \in Receiver, t \in Sid : Adding(q, t)' <=> Adding(q, t)
      BY <1>2 DEF Adding, Moves
    <2>2. \A t \in Sid : Fresh(t) => Fresh(t)'
      BY <1>6, <1>7, <1>8 DEF Fresh
    <2>3. Subscribing' = Subscribing
      BY <1>2 DEF Subscribing, Moves
    <2>4. QED
      BY <1>2, <2>1, <2>2, <2>3 DEF JInv, AddInv
  <1>13. QED
    BY <1>3, <1>4, <1>9, <1>10, <1>11, <1>12 DEF JInv

-----------------------------------------------------------------------------
(* A subscription is asked for and granted.                                *)
LEMMA AskJ ==
  ASSUME IInv, JInv, NEW r \in Receiver, Ask(r) PROVE JInv'
  <1>1. /\ Moves(r) /\ pc[r] = "ask" /\ pc'[r] \in {"granted", "idle"}
        /\ \A b \in Receiver \ {r} : at'[b] = at[b]
        /\ UNCHANGED <<timerVars, client, searches, subs, handle, what>>
    <2>1. ASSUME NEW s \in Sid, at' = [at EXCEPT ![r] = s], Goto(r, "ask", "granted")
          PROVE  <1>1!1 /\ <1>1!2
      BY <2>1, GotoMoves DEF IInv, TypeInv
    <2>2. ASSUME Done(r, "ask")
          PROVE  <1>1!1 /\ <1>1!2
      BY <2>2, DoneFacts DEF IInv
    <2>3. UNCHANGED <<timerVars, client, searches, subs, handle, what>>
      BY DEF Ask
    <2>4. QED
      BY <2>1, <2>2, <2>3 DEF Ask
  <1>2. /\ \A s \in Sid : device'[s] = device[s] \/ (device[s] = "unasked" /\ device'[s] \in {"granted", "forgotten"})
        /\ \A s \in Sid : pc'[r] = "granted" /\ at'[r] = s =>
              device[s] = "unasked" /\ device'[s] = "granted"
    <2>1. ASSUME NEW s \in Sid, device[s] = "unasked", device' = [device EXCEPT ![s] = "granted"],
                 at' = [at EXCEPT ![r] = s]
          PROVE  <1>2!1 /\ <1>2!2
      BY <2>1 DEF IInv, TypeInv
    <2>2. ASSUME NEW s \in Sid, device[s] = "unasked", device' = [device EXCEPT ![s] = "forgotten"],
                 pc'[r] = "idle"
          PROVE  <1>2!1 /\ <1>2!2
      BY <2>2 DEF IInv, TypeInv
    <2>3. CASE UNCHANGED device /\ pc'[r] = "idle"
      BY <2>3
    <2>4. QED
      BY <2>1, <2>2, <2>3, DoneFacts DEF Ask, IInv
  <1>3. LockInv'
    BY <1>1, LockKept DEF timerVars
  <1>4. Queued' = Queued /\ Pending' = Pending
    BY <1>1 DEF timerVars, Queued, Pending
  <1>5. QueueInv'
    BY <1>1 DEF JInv, QueueInv, timerVars
  <1>6. \A id \in EventId : pc'[id] = pc[id]
    BY <1>1 DEF Moves
  <1>7. IdInv'
    BY <1>1, <1>4, <1>6, QueuedIds DEF JInv, IdInv, timerVars, Pending
  <1>8. ListsInv'
    BY <1>1, <1>4 DEF JInv, ListsInv
  <1>9. RenewInv'
    <2>1. \A s \in DOMAIN subs : s \in Sid /\ device'[s] = device[s]
      BY <1>2 DEF IInv, TypeInv, JInv, AddInv, Fresh
    <2>2. \A s : \A id \in EventId : Under(id, s)' <=> Under(id, s)
      BY <1>1, <1>6 DEF Under
    <2>3. \A s \in DOMAIN subs : Renewal(s)' <=> Renewal(s)
      BY <1>1, <1>4, <1>6, <2>1 DEF Renewal, Under
    <2>4. QED
      BY <1>1, <1>4, <1>6, <2>3 DEF JInv, RenewInv
  <1>10. AddInv'
    <2>1. \A s : Fresh(s)' <=> Fresh(s)
      BY <1>1 DEF Fresh
    <2>2. \A q \in Receiver \ {r} : pc'[q] \notin Busy
      BY <1>1 DEF JInv, AddInv, Subscribing, Moves, Busy
    <2>3. \A q, k \in Subscribing' : q = k
      BY <2>2 DEF Subscribing, Busy
    <2>4. \A q \in Receiver, s \in Sid : Adding(q, s)' =>
            device'[s] = "granted" /\ device[s] = "unasked"
      <3>1. SUFFICES ASSUME NEW q \in Receiver, NEW s \in Sid, Adding(q, s)'
                     PROVE  device'[s] = "granted" /\ device[s] = "unasked"
        OBVIOUS
      <3>2. pc'[q] \in {"granted", "schedule"} /\ at'[q] = s
        BY <3>1 DEF Adding
      <3>3. q = r
        BY <2>2, <3>2 DEF Busy
      <3>4. pc'[r] = "granted"
        BY <1>1, <3>2, <3>3
      <3>5. QED
        BY <1>2, <3>2, <3>3, <3>4
    <2>5. QED
      BY <1>2, <2>1, <2>3, <2>4 DEF JInv, AddInv
  <1>11. QED
    BY <1>3, <1>5, <1>7, <1>8, <1>9, <1>10 DEF JInv

LEMMA GrantedJ ==
  ASSUME IInv, JInv, NEW r \in Receiver, Granted(r) PROVE JInv'
  <1>1. /\ Moves(r) /\ pc[r] = "granted" /\ HandleFree
        /\ \A b \in Receiver \ {r} : at'[b] = at[b]
        /\ UNCHANGED <<timerVars, client, searches, what>>
    BY GotoMoves, DoneFacts DEF IInv, TypeInv, Granted
  <1>2. CASE Goto(r, "granted", "schedule") /\ Locks(r) /\ UNCHANGED <<subs, device, at>>
    <2>1. pc'[r] = "schedule"
      BY <1>2, GotoMoves DEF IInv
    <2>2. LockInv'
      BY <1>1, <1>2, <2>1, LockTaken DEF timerVars
    <2>3. QED
      BY <1>1, <1>2, <2>1, <2>2, PcStep DEF Busy
  <1>3. PICK s \in Sid : s = at[r]
    BY <1>1 DEF IInv, SubsInv
  <1>4. Adding(r, s) /\ Fresh(s)
    BY <1>1, <1>3 DEF Adding, JInv, AddInv
  <1>5. \A q \in Receiver \ {r} : pc[q] \notin Busy
    BY <1>1 DEF JInv, AddInv, Subscribing, Busy
  <1>6. Queued' = Queued /\ Pending' = Pending
    BY <1>1 DEF timerVars, Queued, Pending
  <1>7. QueueInv'
    BY <1>1 DEF JInv, QueueInv, timerVars
  <1>8. \A id \in EventId : pc'[id] = pc[id]
    BY <1>1 DEF Moves
  <1>9. IdInv'
    BY <1>1, <1>6, <1>8, QueuedIds DEF JInv, IdInv, timerVars, Pending
  <1>10. \A t : \A id \in EventId : Under(id, t)' <=> Under(id, t)
    BY <1>1, <1>8 DEF Under
  <1>11. ASSUME pc'[r] = "idle", UNCHANGED handle,
                NEW to \in {"endless", "forgotten"}, device' = [device EXCEPT ![s] = to],
                \/ subs' = Added(s, NoEvent) /\ client /\ to = "endless"
                \/ subs' = subs
         PROVE  JInv'
    <2>1. \A t \in Sid : device'[t] = IF t = s THEN to ELSE device[t]
      BY <1>11 DEF IInv, TypeInv
    <2>2. LockInv'
      BY <1>1, <1>11, LockKept DEF timerVars
    <2>3. /\ \A t \in DOMAIN subs : t \in DOMAIN subs' /\ subs'[t] = subs[t] /\ t \in Sid /\ t # s
          /\ \A t \in DOMAIN subs' \ DOMAIN subs : t = s /\ subs'[s] = NoEvent /\ to = "endless" /\ client
          /\ subs' \in [DOMAIN subs' -> EventId \cup {NoEvent}]
      <3>1. \A t \in DOMAIN subs : t \in Sid /\ t # s
        BY <1>4 DEF IInv, TypeInv, Fresh
      <3>2. subs \in [DOMAIN subs -> EventId \cup {NoEvent}]
        BY DEF JInv, ListsInv
      <3>3. CASE subs' = subs
        BY <3>1, <3>2, <3>3
      <3>4. CASE subs' = Added(s, NoEvent) /\ client /\ to = "endless"
        BY <3>1, <3>2, <3>4 DEF Added
      <3>5. QED
        BY <1>11, <3>3, <3>4
    <2>4. ListsInv'
      BY <1>1, <1>6, <2>3 DEF JInv, ListsInv
    <2>5. RenewInv'
      <3>1. \A t \in DOMAIN subs : Renewal(t) => Renewal(t)'
        BY <1>1, <1>6, <1>8, <2>1, <2>3 DEF Renewal, Under
      <3>2. ASSUME s \in DOMAIN subs' PROVE Renewal(s)'
        <4>1. subs'[s] = NoEvent /\ device'[s] = "endless"
          BY <1>4, <2>1, <2>3, <3>2 DEF Fresh
        <4>2. \A id \in EventId : what'[id] # s
          BY <1>1, <1>4 DEF Fresh
        <4>3. Pending' \subseteq EventId
          BY <1>6, QueuedIds DEF JInv, IdInv, Pending
        <4>4. QED
          BY <4>1, <4>2, <4>3 DEF Renewal, Under
      <3>3. \A t \in DOMAIN subs' : t \in DOMAIN subs \/ t = s
        BY <2>3
      <3>4. \A t \in DOMAIN subs' : Renewal(t)'
        BY <3>1, <3>2, <3>3 DEF JInv, RenewInv
      <3>5. DOMAIN subs \subseteq DOMAIN subs'
        BY <2>3
      <3>6. QED
        BY <1>1, <1>6, <1>8, <3>4, <3>5 DEF JInv, RenewInv
    <2>6. AddInv'
      <3>1. \A q \in Receiver : pc'[q] \notin Busy
        BY <1>1, <1>5, <1>11 DEF Moves, Busy
      <3>2. \A t \in Sid : t # s /\ Fresh(t) => Fresh(t)'
        BY <1>1, <2>3 DEF Fresh
      <3>3. \A t \in Sid : device'[t] = "unasked" => t # s /\ device[t] = "unasked"
        BY <2>1
      <3>4. QED
        BY <3>1, <3>2, <3>3 DEF JInv, AddInv, Subscribing, Adding, Busy
    <2>7. QED
      BY <1>7, <1>9, <2>2, <2>4, <2>5, <2>6 DEF JInv
  <1>12. CASE client /\ Done(r, "granted") /\ Endless(at[r]) /\ UNCHANGED handle
              /\ subs' = Added(at[r], NoEvent)
    BY <1>3, <1>11, <1>12, DoneFacts DEF IInv, Endless
  <1>13. CASE ~client /\ Done(r, "granted") /\ UNCHANGED <<handle, subs>>
              /\ device' = [device EXCEPT ![at[r]] = "forgotten"]
    BY <1>3, <1>11, <1>13, DoneFacts DEF IInv
  <1>14. QED
    BY <1>2, <1>12, <1>13 DEF Granted

(* A subscription is removed, with its renewal and no other event.         *)
LEMMA RemovedJ ==
  ASSUME IInv, JInv, NEW s, RemoveClientSub(s), HandleFree, NEW a \in Actor, Moves(a),
         pc[a] # "schedule", pc'[a] # "schedule", client,
         UNCHANGED <<client, searches, handle, what>>,
         a \in EventId => /\ pc[a] # "idle" /\ pc'[a] # "renew"
                          /\ pc[a] = "renew" => what[a] = s,
         a \in Receiver => pc'[a] \notin Busy,
         \A r \in Receiver \ {a} : at'[r] = at[r]
  PROVE  JInv'
  <1>1. /\ DOMAIN subs' = DOMAIN subs \ {s}
        /\ \A t \in DOMAIN subs' : subs'[t] = subs[t]
        /\ subs' \in [DOMAIN subs' -> EventId \cup {NoEvent}]
        /\ UNCHANGED <<now, lastEventId, stopping, timer, fired>>
        /\ QueueInv'
        /\ Queued' = Queued \ (IF s \in DOMAIN subs THEN {subs[s]} ELSE {})
    <2>1. /\ subs' = [k \in DOMAIN subs \ {s} |-> subs[k]]
          /\ UNCHANGED <<now, lastEventId, stopping, timer, fired>>
          /\ QueueInv'
          /\ Queued' = Queued \ (IF s \in DOMAIN subs THEN {subs[s]} ELSE {})
      BY RemoveEffect
    <2>2. subs \in [DOMAIN subs -> EventId \cup {NoEvent}]
      BY DEF JInv, ListsInv
    <2>3. DOMAIN subs' = DOMAIN subs \ {s} /\ \A t \in DOMAIN subs' : subs'[t] = subs[t]
      BY <2>1
    <2>4. subs' \in [DOMAIN subs' -> EventId \cup {NoEvent}]
      <3>1. \A t \in DOMAIN subs' : subs'[t] \in EventId \cup {NoEvent}
        BY <2>2, <2>3
      <3>2. subs' = [k \in DOMAIN subs' |-> subs'[k]]
        BY <2>1
      <3>3. QED
        BY <3>1, <3>2
    <2>5. QED
      BY <2>1, <2>3, <2>4
  <1>2. \A t \in Sid : device'[t] = IF t = s THEN "forgotten" ELSE device[t]
    BY RemoveFacts
  <1>3. /\ Queued' \subseteq Queued /\ Pending' \subseteq Pending
        /\ \A id \in Pending : id \in Pending' \/ (s \in DOMAIN subs /\ what[id] = s)
        /\ s \in DOMAIN subs => \A id \in Queued' : what[id] # s
    <2>1. CASE s \in DOMAIN subs
      <3>1. Renewal(s)
        BY <2>1 DEF JInv, RenewInv
      <3>2. Queued' = Queued \ {subs[s]} /\ fired' = fired
        BY <1>1, <2>1
      <3>3. \A id \in Pending : id = subs[s] => what[id] = s
        <4>1. NoEvent \notin Pending
          BY QueuedIds DEF JInv, IdInv, Pending, EventId, NoEvent
        <4>2. QED
          BY <3>1, <4>1 DEF Renewal
      <3>4. \A id \in Pending : what[id] = s => id = subs[s]
        BY <3>1 DEF Renewal
      <3>5. QED
        BY <2>1, <3>2, <3>3, <3>4 DEF Pending
    <2>2. CASE s \notin DOMAIN subs
      BY <1>1, <2>2 DEF Pending
    <2>3. QED
      BY <2>1, <2>2
  <1>4. LockInv'
    BY <1>1, LockKept
  <1>5. IdInv'
    <2>1. Pending \subseteq EventId
      BY QueuedIds DEF JInv, IdInv, Pending
    <2>2. QED
      BY <1>1, <1>3, <2>1 DEF JInv, IdInv, Moves
  <1>6. \A t \in DOMAIN subs : t \in Sid
    BY DEF IInv, TypeInv
  <1>7. ListsInv'
    <2>1. \A id \in searches : id \in Pending'
      BY <1>3, <1>6, SidAssumption DEF JInv, ListsInv
    <2>2. QED
      BY <1>1, <2>1 DEF JInv, ListsInv
  <1>8. RenewInv'
    <2>1. \A id \in EventId : pc[id] # "schedule"
      BY DEF JInv, LockInv, HandleFree, Unlocked
    <2>2. \A t \in DOMAIN subs', id \in EventId : Under(id, t)' <=> Under(id, t)
      BY <1>1, <2>1 DEF Under, Moves
    <2>3. \A t \in DOMAIN subs' : Renewal(t) => Renewal(t)'
      <3>1. \A t \in DOMAIN subs' : device'[t] = device[t] /\ subs'[t] = subs[t] /\ t # s
        BY <1>1, <1>2, <1>6
      <3>2. \A t \in DOMAIN subs', id \in Pending : what[id] = t => id \in Pending'
        BY <1>3, <3>1
      <3>3. what' = what
        OBVIOUS
      <3>4. QED
        BY <1>3, <2>2, <3>1, <3>2, <3>3 DEF Renewal
    <2>4. \A id \in EventId : pc'[id] # "schedule"
      BY <2>1 DEF Moves
    <2>5. \A id \in EventId : pc'[id] = "renew" => what'[id] \in Sid
      BY DEF JInv, RenewInv, Moves
    <2>6. \A id \in Queued' : what'[id] \in Sid => what'[id] \in DOMAIN subs'
      BY <1>1, <1>3 DEF JInv, RenewInv
    <2>7. \A t \in DOMAIN subs' : Renewal(t)'
      BY <1>1, <2>3 DEF JInv, RenewInv
    <2>8. QED
      BY <2>4, <2>5, <2>6, <2>7 DEF RenewInv
  <1>9. AddInv'
    <2>1. \A q \in Receiver : \A t : Adding(q, t)' => Adding(q, t)
      BY DEF Adding, Moves, Busy
    <2>2. Subscribing' \subseteq Subscribing
      BY DEF Subscribing, Moves, Busy
    <2>3. \A t \in Sid : Fresh(t) => Fresh(t)'
      BY <1>1 DEF Fresh
    <2>4. \A t \in Sid : device'[t] = device[t] \/ device'[t] = "forgotten"
      BY <1>2
    <2>5. QED
      BY <2>1, <2>2, <2>3, <2>4 DEF JInv, AddInv
  <1>10. QED
    BY <1>1, <1>4, <1>5, <1>7, <1>8, <1>9 DEF JInv

LEMMA UnsubscribeJ ==
  ASSUME IInv, JInv, NEW r \in Receiver, genaUnSubscribe(r) PROVE JInv'
  <1>1. /\ Moves(r) /\ pc[r] = "unsubscribe" /\ pc'[r] = "idle" /\ HandleFree
        /\ \A b \in Receiver \ {r} : at'[b] = at[b]
        /\ UNCHANGED <<client, searches, handle, what>>
    BY DoneFacts DEF IInv, genaUnSubscribe
  <1>2. CASE client
    BY <1>1, <1>2, RemovedJ DEF genaUnSubscribe, Busy
  <1>3. CASE ~client
    <2>1. UNCHANGED <<timerVars, subs, device>>
      BY <1>3 DEF genaUnSubscribe
    <2>2. LockInv'
      BY <1>1, <2>1, LockKept DEF timerVars
    <2>3. QED
      BY <1>1, <2>1, <2>2, PcStep DEF Busy
  <1>4. QED
    BY <1>2, <1>3

LEMMA UnregisterJ ==
  ASSUME IInv, JInv, genaUnregisterClient PROVE JInv'
  <1>1. /\ Moves(Main) /\ pc[Main] = "gena" /\ pc'[Main] \in {"gena", "unregister"}
        /\ HandleFree /\ client /\ UNCHANGED <<client, searches, at, handle, what>>
    BY GotoMoves DEF IInv, EndInv, Registered, NoThread, genaUnregisterClient
  <1>2. CASE UNCHANGED <<timerVars, subs, device>>
    <2>1. LockInv'
      BY <1>1, <1>2, LockKept DEF timerVars
    <2>2. QED
      BY <1>1, <1>2, <2>1, PcStep
  <1>3. ASSUME NEW s \in DOMAIN subs, RemoveClientSub(s) PROVE JInv'
    BY <1>1, <1>3, RemovedJ
  <1>4. QED
    BY <1>2, <1>3 DEF genaUnregisterClient

-----------------------------------------------------------------------------
(* The job of an event begins: a search expires, or a renewal.             *)
LEMMA BegunJ ==
  ASSUME IInv, JInv, NEW id \in EventId, id \in fired, Moves(id), HandleFree, QueueInv',
         Queued' = Queued, fired' = fired \ {id}, searches' = searches \ {id},
         UNCHANGED <<lastEventId, client, device, at, handle, what>>, pc[id] = "idle",
         IF what[id] \in DOMAIN subs
         THEN pc'[id] = "renew" /\ subs' = [subs EXCEPT ![what[id]] = NoEvent]
         ELSE pc'[id] = "over" /\ UNCHANGED subs
  PROVE  JInv'
  <1>1. PICK s : s = what[id]
    OBVIOUS
  <1>2. /\ id \in Pending /\ id \notin Queued /\ id < lastEventId /\ Pending \subseteq EventId
        /\ Pending' = Pending \ {id}
    BY QueuedIds DEF JInv, IdInv, Pending
  <1>3. /\ DOMAIN subs' = DOMAIN subs /\ \A t \in DOMAIN subs : t \in Sid
        /\ \A t \in DOMAIN subs : subs'[t] = IF t = s THEN NoEvent ELSE subs[t]
        /\ subs' \in [DOMAIN subs' -> EventId \cup {NoEvent}]
    BY <1>1 DEF JInv, ListsInv, IInv, TypeInv
  <1>4. \A k \in EventId : pc[k] # "schedule" /\ pc'[k] # "schedule"
    BY DEF JInv, LockInv, HandleFree, Unlocked, Moves
  <1>5. LockInv'
    BY LockKept
  <1>6. IdInv'
    BY <1>2 DEF JInv, IdInv, Moves
  <1>7. ListsInv'
    BY <1>2, <1>3 DEF JInv, ListsInv
  <1>8. RenewInv'
    <2>1. ASSUME NEW t \in DOMAIN subs, t # s PROVE Renewal(t)'
      <3>1. Renewal(t) /\ what[id] # t
        BY <1>1, <2>1 DEF JInv, RenewInv
      <3>2. \A k \in EventId : Under(k, t)' <=> Under(k, t)
        BY <3>1 DEF Under, Moves
      <3>3. subs'[t] = subs[t]
        BY <1>3, <2>1
      <3>4. \A k \in Pending : what[k] = t => k \in Pending'
        BY <1>2, <3>1
      <3>5. subs[t] # NoEvent => subs[t] \in Pending'
        BY <3>1, <3>4 DEF Renewal
      <3>6. QED
        BY <1>2, <3>1, <3>2, <3>3, <3>5 DEF Renewal
    <2>2. ASSUME s \in DOMAIN subs PROVE Renewal(s)'
      <3>1. subs'[s] = NoEvent /\ pc'[id] = "renew"
        BY <1>1, <1>3, <2>2
      <3>2. Renewal(s)
        BY <2>2 DEF JInv, RenewInv
      <3>3. /\ device[s] # "endless"
            /\ \A k \in Pending : what[k] = s <=> k = id
            /\ \A k \in EventId : ~Under(k, s)
        BY <1>1, <1>2, <3>2 DEF Renewal
      <3>4. \A k \in EventId : Under(k, s)' <=> k = id
        BY <1>1, <3>1, <3>3 DEF Under, Moves
      <3>5. \A k \in Pending' : what'[k] # s
        BY <1>2, <3>3
      <3>6. QED
        BY <3>1, <3>3, <3>4, <3>5 DEF Renewal
    <2>3. \A k \in EventId : pc'[k] = "renew" => what'[k] \in Sid
      BY <1>1, <1>3 DEF JInv, RenewInv, Moves
    <2>4. client' => \A k \in Queued' : what'[k] \in Sid => what'[k] \in DOMAIN subs'
      BY <1>3 DEF JInv, RenewInv
    <2>5. \A t \in DOMAIN subs' : Renewal(t)'
      BY <1>3, <2>1, <2>2
    <2>6. QED
      BY <1>4, <2>3, <2>4, <2>5 DEF RenewInv
  <1>9. AddInv'
    <2>1. \A t : Fresh(t)' <=> Fresh(t)
      BY <1>3 DEF Fresh
    <2>2. \A q \in Receiver : \A t : Adding(q, t)' <=> Adding(q, t)
      BY DEF Adding, Moves
    <2>3. Subscribing' = Subscribing
      BY DEF Subscribing, Moves
    <2>4. QED
      BY <2>1, <2>2, <2>3 DEF JInv, AddInv
  <1>10. QED
    BY <1>5, <1>6, <1>7, <1>8, <1>9 DEF JInv

LEMMA ExpiredJ ==
  ASSUME IInv, JInv, NEW id \in EventId, searchExpired(id) PROVE JInv'
  <1>1. /\ id \in fired /\ what[id] = Search /\ HandleFree /\ fired' = fired \ {id}
        /\ Moves(id) /\ pc[id] = "idle" /\ pc'[id] = "over"
        /\ UNCHANGED <<now, eventQ, lastEventId, timer, client, subs, device, at, handle, what>>
    BY GotoMoves DEF IInv, searchExpired
  <1>2. searches' = searches \ {id}
    BY DEF searchExpired, JInv, ListsInv
  <1>3. Search \notin DOMAIN subs
    BY SidAssumption DEF IInv, TypeInv
  <1>4. Queued' = Queued /\ QueueInv'
    BY <1>1 DEF Queued, QueueInv, JInv
  <1>5. QED
    BY <1>1, <1>2, <1>3, <1>4, BegunJ

(* The renewal that begins is the one of the subscription, so that nothing *)
(* is queued that it could cancel.                                         *)
LEMMA RenewJ ==
  ASSUME IInv, JInv, NEW id \in EventId, Renew(id) PROVE JInv'
  <1>1. PICK s \in Sid : s = what[id]
    BY DEF Renew
  <1>2. /\ id \in fired /\ HandleFree /\ fired' = fired \ {id}
        /\ UNCHANGED <<now, lastEventId, timer, client, searches, device, at, handle, what>>
    BY DEF Renew
  <1>3. id \notin searches
    BY <1>1, SidAssumption DEF JInv, ListsInv
  <1>4. CASE client /\ s \in DOMAIN subs
    <2>1. /\ Goto(id, "idle", "renew") /\ Drop(subs[s])
          /\ subs' = [subs EXCEPT ![s] = NoEvent]
      BY <1>1, <1>4 DEF Renew
    <2>2. PICK e : e = subs[s]
      OBVIOUS
    <2>3. QueueInv' /\ Queued' = Queued \ {e}
      BY <1>2, <2>1, <2>2, DropEffect DEF JInv
    <2>4. e = id
      BY <1>1, <1>2, <1>4, <2>2 DEF JInv, RenewInv, Renewal, Pending
    <2>5. Queued' = Queued
      BY <1>2, <2>3, <2>4 DEF JInv, IdInv
    <2>6. Moves(id) /\ pc[id] = "idle" /\ pc'[id] = "renew"
      BY <2>1, GotoMoves DEF IInv
    <2>7. searches' = searches \ {id}
      BY <1>2, <1>3
    <2>8. what[id] \in DOMAIN subs /\ subs' = [subs EXCEPT ![what[id]] = NoEvent]
      BY <1>1, <1>4, <2>1
    <2>9. QED
      BY <1>2, <2>3, <2>5, <2>6, <2>7, <2>8, BegunJ
  <1>5. CASE ~(client /\ s \in DOMAIN subs)
    <2>1. Goto(id, "idle", "over") /\ UNCHANGED <<subs, eventQ>>
      BY <1>1, <1>5 DEF Renew
    <2>2. s \notin DOMAIN subs
      BY <1>5 DEF JInv, ListsInv
    <2>3. QueueInv' /\ Queued' = Queued
      BY <1>2, <2>1 DEF QueueInv, Queued, JInv
    <2>4. Moves(id) /\ pc[id] = "idle" /\ pc'[id] = "over"
      BY <2>1, GotoMoves DEF IInv
    <2>5. searches' = searches \ {id}
      BY <1>2, <1>3
    <2>6. QED
      BY <1>1, <1>2, <2>1, <2>2, <2>3, <2>4, <2>5, BegunJ
  <1>6. QED
    BY <1>4, <1>5

(* The device has renewed a subscription for ever.                         *)
LEMMA EndlessJ ==
  ASSUME IInv, JInv, NEW id \in EventId, NEW s \in DOMAIN subs, s = what[id], Moves(id),
         pc[id] = "renew", pc'[id] = "over", Endless(s),
         UNCHANGED <<timerVars, client, searches, subs, at, handle, what>>
  PROVE  JInv'
  <1> USE DEF timerVars
  <1>1. \A t \in Sid : device'[t] = IF t = s THEN "endless" ELSE device[t]
    BY DEF IInv, TypeInv, Endless
  <1>2. \A t \in DOMAIN subs : t \in Sid
    BY DEF IInv, TypeInv
  <1>3. Queued' = Queued /\ Pending' = Pending
    BY DEF Queued, Pending
  <1>4. QueueInv' /\ LockInv' /\ ListsInv'
    BY <1>3, LockKept DEF JInv, QueueInv, ListsInv
  <1>5. IdInv'
    <2>1. Pending \subseteq EventId
      BY QueuedIds DEF JInv, IdInv, Pending
    <2>2. QED
      BY <1>3, <2>1 DEF JInv, IdInv, Moves
  <1>6. RenewInv'
    <2>1. ASSUME NEW t \in DOMAIN subs, t # s PROVE Renewal(t)'
      <3>1. \A k \in EventId : Under(k, t)' <=> Under(k, t)
        BY <2>1 DEF Under, Moves
      <3>2. device'[t] = device[t]
        BY <1>1, <1>2, <2>1
      <3>3. QED
        BY <1>3, <2>1, <3>1, <3>2 DEF JInv, RenewInv, Renewal
    <2>2. Renewal(s)'
      <3>1. Under(id, s) /\ Renewal(s)
        BY DEF Under, JInv, RenewInv
      <3>2. /\ subs[s] = NoEvent
            /\ \A k \in Pending : what[k] # s
            /\ \A k \in EventId : Under(k, s) <=> k = id
        BY <3>1 DEF Renewal
      <3>3. \A k \in EventId : ~Under(k, s)'
        BY <3>2 DEF Under, Moves
      <3>4. device'[s] = "endless"
        BY <1>1, <1>2
      <3>5. QED
        BY <1>3, <3>2, <3>3, <3>4 DEF Renewal
    <2>3. \A t \in DOMAIN subs' : Renewal(t)'
      BY <2>1, <2>2
    <2>4. QED
      BY <1>3, <2>3 DEF JInv, RenewInv, Moves
  <1>7. AddInv'
    <2>1. \A t : Fresh(t)' <=> Fresh(t)
      BY DEF Fresh
    <2>2. \A q \in Receiver : \A t : Adding(q, t)' <=> Adding(q, t)
      BY DEF Adding, Moves
    <2>3. Subscribing' = Subscribing
      BY DEF Subscribing, Moves
    <2>4. ~Fresh(s)
      BY DEF Fresh
    <2>5. QED
      BY <1>1, <2>1, <2>2, <2>3, <2>4 DEF JInv, AddInv
  <1>8. QED
    BY <1>4, <1>5, <1>6, <1>7 DEF JInv

LEMMA AnsweredJ ==
  ASSUME IInv, JInv, NEW id \in EventId, RenewAnswered(id) PROVE JInv'
  <1>1. PICK s : s = what[id]
    OBVIOUS
  <1>2. /\ HandleFree /\ UNCHANGED <<client, searches, at, what>>
        /\ Moves(id) /\ pc[id] = "renew"
    BY GotoMoves DEF IInv, RenewAnswered
  <1>3. CASE /\ Goto(id, "renew", "over") /\ ~(client /\ s \in DOMAIN subs)
             /\ UNCHANGED <<timerVars, subs, device, handle>>
    <2>1. s \notin DOMAIN subs
      BY <1>3 DEF JInv, ListsInv
    <2>2. pc'[id] = "over"
      BY <1>3, GotoMoves DEF IInv
    <2>3. LockInv'
      BY <1>2, <1>3, <2>2, LockKept DEF timerVars
    <2>4. QED
      BY <1>1, <1>2, <1>3, <2>1, <2>2, <2>3, PcStep
  <1>4. CASE client /\ Goto(id, "renew", "failed") /\ RemoveClientSub(s) /\ UNCHANGED handle
    <2>1. pc'[id] = "failed"
      BY <1>4, GotoMoves DEF IInv
    <2>2. QED
      BY <1>1, <1>2, <1>4, <2>1, RemovedJ
  <1>5. CASE /\ s \in DOMAIN subs /\ Goto(id, "renew", "schedule") /\ Locks(id)
             /\ UNCHANGED <<timerVars, subs, device>>
    <2>1. pc'[id] = "schedule"
      BY <1>5, GotoMoves DEF IInv
    <2>2. LockInv'
      BY <1>2, <1>5, <2>1, LockTaken DEF timerVars
    <2>3. QED
      BY <1>1, <1>2, <1>5, <2>1, <2>2, PcStep
  <1>6. CASE /\ s \in DOMAIN subs /\ Goto(id, "renew", "over") /\ Endless(s)
             /\ UNCHANGED <<timerVars, subs, handle>>
    <2>1. pc'[id] = "over"
      BY <1>6, GotoMoves DEF IInv
    <2>2. QED
      BY <1>1, <1>2, <1>6, <2>1, EndlessJ
  <1>7. QED
    BY <1>1, <1>3, <1>4, <1>5, <1>6 DEF RenewAnswered

LEMMA JobJ ==
  ASSUME IInv, JInv, NEW id \in EventId, JobSteps(id) PROVE JInv'
  <1>1. CASE RenewFailed(id)
    <2>1. /\ Moves(id) /\ pc[id] = "failed" /\ pc'[id] = "over"
          /\ UNCHANGED <<timerVars, client, searches, subs, device, what, handle, at>>
      BY <1>1, GotoMoves DEF IInv, RenewFailed
    <2>2. LockInv'
      BY <2>1, LockKept DEF timerVars
    <2>3. QED
      BY <2>1, <2>2, PcStep
  <1>2. QED
    BY <1>1, ExpiredJ, RenewJ, AnsweredJ, ScheduledNext DEF JobSteps

-----------------------------------------------------------------------------
(* At the end the lists and the events go.                                 *)
LEMMA EndJ ==
  ASSUME IInv, JInv, Moves(Main), pc[Main] # "schedule", pc'[Main] # "schedule", HandleFree,
         ~client', searches' = {}, DOMAIN subs' = {}, subs' \in [{} -> EventId \cup {NoEvent}],
         Queued' \subseteq Queued, fired' \subseteq fired, QueueInv',
         UNCHANGED <<lastEventId, device, at, handle, what>>
  PROVE  JInv'
  <1>1. Pending' \subseteq Pending /\ Pending \subseteq EventId
    BY QueuedIds DEF JInv, IdInv, Pending
  <1>2. LockInv'
    BY LockKept
  <1>3. IdInv'
    BY <1>1 DEF JInv, IdInv, Moves
  <1>4. ListsInv'
    BY DEF JInv, ListsInv
  <1>5. RenewInv'
    <2>1. \A k \in EventId : pc'[k] # "schedule"
      BY DEF JInv, LockInv, HandleFree, Unlocked, Moves
    <2>2. QED
      BY <2>1 DEF JInv, RenewInv, Moves
  <1>6. AddInv'
    <2>1. \A t : Fresh(t) => Fresh(t)'
      BY DEF Fresh
    <2>2. \A q \in Receiver : \A t : Adding(q, t)' <=> Adding(q, t)
      BY DEF Adding, Moves
    <2>3. Subscribing' = Subscribing
      BY DEF Subscribing, Moves
    <2>4. QED
      BY <2>1, <2>2, <2>3 DEF JInv, AddInv
  <1>7. QED
    BY <1>2, <1>3, <1>4, <1>5, <1>6 DEF JInv

LEMMA FinishJ ==
  ASSUME IInv, JInv, UpnpUnRegisterClient \/ TimerThreadShutdown \/ SendPoolShutdown
  PROVE  JInv'
  <1>1. CASE UpnpUnRegisterClient
    <2>1. /\ Moves(Main) /\ pc[Main] = "unregister" /\ pc'[Main] = "timer" /\ HandleFree
          /\ ~client' /\ searches' = {} /\ subs' = << >>
          /\ UNCHANGED <<timerVars, device, at, handle, what>>
      BY <1>1, GotoMoves DEF IInv, UpnpUnRegisterClient
    <2>2. DOMAIN subs' = {} /\ subs' \in [{} -> EventId \cup {NoEvent}]
      BY <2>1
    <2>3. Queued' = Queued /\ QueueInv'
      BY <2>1 DEF Queued, QueueInv, JInv, timerVars
    <2>4. QED
      BY <2>1, <2>2, <2>3, EndJ DEF timerVars
  <1>2. ASSUME ~client
        PROVE  /\ HandleFree /\ searches = {} /\ DOMAIN subs = {}
               /\ subs \in [{} -> EventId \cup {NoEvent}]
    BY <1>2 DEF IInv, EndInv, HandleFree, JInv, ListsInv
  <1>3. CASE TimerThreadShutdown
    <2>1. /\ Moves(Main) /\ pc[Main] = "timer" /\ pc'[Main] = "timer_wait"
          /\ eventQ' = << >> /\ timer' = Signalled
          /\ UNCHANGED <<now, lastEventId, fired, client, searches, subs, device, at, handle, what>>
      BY <1>3, GotoMoves DEF IInv, TimerThreadShutdown, ShutdownBegin
    <2>2. ~client
      BY <2>1 DEF IInv, EndInv, Registered
    <2>3. timer'.until = timer.until
      BY <2>1 DEF Signalled, IInv, TypeInv
    <2>4. Queued' = {} /\ QueueInv'
      BY <2>1, <2>3 DEF Queued, QueueInv, Ordered, JInv
    <2>5. QED
      BY <1>2, <2>1, <2>2, <2>4, EndJ
  <1>4. CASE SendPoolShutdown
    <2>1. /\ Moves(Main) /\ pc[Main] = "send" /\ pc'[Main] = "recv" /\ fired' = {}
          /\ UNCHANGED <<now, eventQ, lastEventId, timer>>
          /\ UNCHANGED <<client, searches, subs, device, at, handle, what>>
      BY <1>4, GotoMoves DEF IInv, SendPoolShutdown
    <2>2. ~client
      BY <2>1 DEF IInv, EndInv, Registered
    <2>3. Queued' = Queued /\ QueueInv'
      BY <2>1 DEF Queued, QueueInv, JInv
    <2>4. QED
      BY <1>2, <2>1, <2>2, <2>3, EndJ
  <1>5. QED
    BY <1>1, <1>3, <1>4

-----------------------------------------------------------------------------
(* The timer thread hands over what is due, and the clock goes on.         *)
LEMMA HandOver ==
  ASSUME QueueInv, eventQ # << >>, eventQ' = Tail(eventQ),
         timer' = [timer EXCEPT !.pc = "loop"], IInv, UNCHANGED now
  PROVE  /\ QueueInv' /\ Head(eventQ).id \in Queued
         /\ Queued' = Queued \ {Head(eventQ).id}
  <1>1. PICK q \in Seq(TimedEvent) : q = eventQ /\ Ordered(q)
    BY DEF QueueInv
  <1>2. PICK n : n = Len(q)
    OBVIOUS
  <1>3. /\ n \in Nat /\ DOMAIN q = 1 .. n /\ Len(q) = n /\ q # << >> /\ 1 \in 1 .. n
    BY <1>1, <1>2, LenProperties, EmptySeq
  <1>4. PICK t : t = Tail(q)
    OBVIOUS
  <1>5. /\ t \in Seq(TimedEvent) /\ Len(t) = n - 1 /\ Head(q) = q[1]
        /\ \A i \in 1 .. n - 1 : t[i] = q[i + 1]
    BY <1>3, <1>4, HeadTailProperties
  <1>6. DOMAIN t = 1 .. n - 1
    BY <1>5, LenProperties
  <1>7. Ordered(t)
    <2>1. SUFFICES ASSUME NEW i \in 1 .. n - 1, NEW j \in 1 .. n - 1, i < j
                   PROVE  t[i].time <= t[j].time /\ t[i].id # t[j].id
      BY <1>6 DEF Ordered
    <2>2. PICK l, m : l = i + 1 /\ m = j + 1
      OBVIOUS
    <2>3. l \in DOMAIN q /\ m \in DOMAIN q /\ l < m /\ t[i] = q[l] /\ t[j] = q[m]
      BY <1>3, <1>5, <2>1, <2>2
    <2>4. QED
      BY <1>1, <2>3 DEF Ordered
  <1>8. Ids(t) = Ids(q) \ {q[1].id}
    <2>1. ASSUME NEW i \in 1 .. n - 1 PROVE t[i].id \in Ids(q) /\ t[i].id # q[1].id
      <3>1. PICK l : l = i + 1
        OBVIOUS
      <3>2. l \in DOMAIN q /\ 1 \in DOMAIN q /\ 1 < l /\ t[i] = q[l]
        BY <1>3, <1>5, <2>1, <3>1
      <3>3. QED
        BY <1>1, <3>2 DEF Ordered, Ids
    <2>2. ASSUME NEW i \in 1 .. n, i # 1 PROVE q[i].id \in Ids(t)
      <3>1. PICK j : j = i - 1
        OBVIOUS
      <3>2. j \in 1 .. n - 1 /\ i = j + 1
        BY <1>3, <2>2, <3>1
      <3>3. t[j] = q[i]
        BY <1>5, <3>2
      <3>4. QED
        BY <1>6, <3>2, <3>3 DEF Ids
    <2>3. Ids(t) \subseteq Ids(q) \ {q[1].id}
      BY <1>6, <2>1 DEF Ids
    <2>4. Ids(q) \ {q[1].id} \subseteq Ids(t)
      BY <1>3, <2>2 DEF Ids
    <2>5. QED
      BY <2>3, <2>4
  <1>9. Queued' = Ids(t) /\ Queued = Ids(q)
    BY <1>1, <1>4 DEF Queued, Ids
  <1>10. Head(eventQ).id \in Queued
    BY <1>1, <1>3, <1>5, <1>9 DEF Ids
  <1>11. timer'.pc = "loop" /\ timer'.until = timer.until
    BY DEF IInv, TypeInv
  <1>12. QueueInv'
    BY <1>1, <1>4, <1>5, <1>7, <1>11 DEF QueueInv
  <1>13. QED
    BY <1>1, <1>5, <1>8, <1>9, <1>10, <1>12

LEMMA TimerJ ==
  ASSUME IInv, JInv, TimerSteps PROVE JInv'
  <1> USE DEF cpVars
  <1>1. UNCHANGED cpVars /\ lastEventId' = lastEventId
    BY DEF TimerSteps, TimerThreadWorker, WorkerExit, WorkerFire, WorkerWait, WorkerTimeOut, Tick
  <1>2. ASSUME QueueInv', Pending' = Pending, Queued' \subseteq Queued,
               fired' \subseteq EventId, Queued' \cap fired' = {}
        PROVE  JInv'
    <2>1. LockInv' /\ IdInv' /\ ListsInv'
      BY <1>1, <1>2 DEF JInv, LockInv, IdInv, ListsInv
    <2>2. RenewInv'
      <3>1. \A t \in DOMAIN subs : Renewal(t) <=> Renewal(t)'
        BY <1>1, <1>2 DEF Renewal, Under
      <3>2. QED
        BY <1>1, <1>2, <3>1 DEF JInv, RenewInv
    <2>3. AddInv'
      BY <1>1 DEF JInv, AddInv, Subscribing, Adding, Fresh
    <2>4. QED
      BY <1>2, <2>1, <2>2, <2>3 DEF JInv
  <1>3. CASE WorkerFire
    <2>1. /\ eventQ # << >> /\ fired' = fired \cup {Head(eventQ).id} /\ eventQ' = Tail(eventQ)
          /\ timer' = [timer EXCEPT !.pc = "loop"] /\ UNCHANGED now
      BY <1>3 DEF WorkerFire, Due
    <2>2. PICK h : h = Head(eventQ).id
      OBVIOUS
    <2>3. QueueInv' /\ h \in Queued /\ Queued' = Queued \ {h}
      BY <2>1, <2>2, HandOver DEF JInv
    <2>4. fired' = fired \cup {h}
      BY <2>1, <2>2
    <2>5. fired' \subseteq EventId
      BY <2>3, <2>4, QueuedIds DEF JInv, IdInv
    <2>6. Pending' = Pending
      BY <2>3, <2>4 DEF Pending
    <2>7. Queued' \cap fired' = {}
      BY <2>3, <2>4 DEF JInv, IdInv
    <2>8. QED
      BY <1>2, <2>3, <2>5, <2>6, <2>7
  <1>4. ASSUME QueueInv', UNCHANGED <<eventQ, fired>> PROVE JInv'
    <2>1. Queued' = Queued /\ Pending' = Pending
      BY <1>4 DEF Queued, Pending
    <2>2. QED
      BY <1>2, <1>4, <2>1 DEF JInv, IdInv
  <1>5. CASE WorkerExit \/ WorkerTimeOut
    <2>1. /\ UNCHANGED <<now, eventQ, fired>>
          /\ timer'.pc # "wait" /\ timer'.until = timer.until
      BY <1>5 DEF WorkerExit, WorkerTimeOut, IInv, TypeInv
    <2>2. QED
      BY <1>4, <2>1 DEF JInv, QueueInv
  <1>6. CASE WorkerWait
    <2>1. /\ UNCHANGED <<now, eventQ, fired>>
          /\ timer'.until = IF eventQ = << >> THEN Forever ELSE Head(eventQ).time
      BY <1>6 DEF WorkerWait
    <2>2. eventQ # << >> => Head(eventQ).time \in Nat
      <3>1. eventQ # << >> => Head(eventQ) \in TimedEvent
        BY HeadTailProperties DEF JInv, QueueInv
      <3>2. QED
        BY <3>1 DEF TimedEvent
    <2>3. timer'.until \in Nat
      BY <2>1, <2>2, TimerAssumption DEF Forever
    <2>4. eventQ # << >> => timer'.until <= Head(eventQ).time
      BY <2>1, <2>2
    <2>5. QueueInv'
      BY <2>1, <2>3, <2>4 DEF JInv, QueueInv
    <2>6. QED
      BY <1>4, <2>1, <2>5
  <1>7. CASE Tick
    <2>1. UNCHANGED <<eventQ, fired, timer>> /\ now' = now + 1
      BY <1>7 DEF Tick
    <2>2. QueueInv'
      BY <2>1 DEF JInv, QueueInv
    <2>3. QED
      BY <1>4, <2>1, <2>2
  <1>8. QED
    BY <1>3, <1>5, <1>6, <1>7 DEF TimerSteps, TimerThreadWorker

-----------------------------------------------------------------------------
LEMMA InductiveJ == IInv /\ JInv /\ [Next]_vars => JInv'
  <1> SUFFICES ASSUME IInv, JInv, [Next]_vars PROVE JInv'
    OBVIOUS
  <1>1. CASE UNCHANGED vars
    <2>1. UNCHANGED <<timerVars, cpVars>>
      BY <1>1 DEF vars
    <2>2. QueueInv' /\ LockInv' /\ AddInv'
      BY <2>1 DEF timerVars, cpVars, JInv, QueueInv, LockInv, AddInv, Subscribing, Adding, Fresh
    <2>3. Queued' = Queued /\ Pending' = Pending
      BY <2>1 DEF timerVars, Queued, Pending
    <2>4. IdInv' /\ ListsInv'
      BY <2>1, <2>3 DEF timerVars, cpVars, JInv, IdInv, ListsInv
    <2>5. RenewInv'
      BY <2>1, <2>3 DEF timerVars, cpVars, JInv, RenewInv, Renewal, Under
    <2>6. QED
      BY <2>2, <2>4, <2>5 DEF JInv
  <1>2. CASE SearchAsync \/ SearchSteps
    BY <1>2, QuietSearch, ScheduledSearch DEF SearchSteps
  <1>3. ASSUME NEW id \in EventId, JobSteps(id) PROVE JInv'
    BY <1>3, JobJ
  <1>4. ASSUME NEW r \in Receiver, Message(r) \/ ReceiverSteps(r) PROVE JInv'
    BY <1>4, QuietReceiver, AskJ, GrantedJ, ScheduledFirst, UnsubscribeJ DEF ReceiverSteps
  <1>5. ASSUME NEW r \in Notified, EventAgain(r) \/ \E s \in Sid : Event(r, s) PROVE JInv'
    BY <1>5, QuietNotified
  <1>6. CASE Stop \/ MainSteps \/ MessageLost \/ RunMiniServer
    BY <1>6, QuietMain, UnregisterJ, FinishJ DEF MainSteps
  <1>7. CASE TimerSteps
    BY <1>7, TimerJ
  <1>8. QED
    BY <1>1, <1>2, <1>3, <1>4, <1>5, <1>6, <1>7 DEF Next

LEMMA InvariantJ == Spec => [](IInv /\ JInv)
  <1>1. IInv /\ JInv /\ [Next]_vars => (IInv /\ JInv)'
    BY Inductive, InductiveJ
  <1>2. Init => IInv /\ JInv
    BY Initial, InitialJ
  <1>3. QED
    BY <1>1, <1>2, PTL DEF Spec

(* The events of the timer are in the order of their times, and its thread *)
(* never waits past the first, whatever is scheduled, removed or handed    *)
(* over meanwhile (TimerThreadSchedule, TimerThreadRemove and              *)
(* TimerThreadWorker of TimerThread.c).                                    *)
THEOREM NextAwaitedAlways == Spec => []NextIsAwaited
  <1>1. IInv /\ JInv => NextIsAwaited
    <2>1. SUFFICES ASSUME QueueInv PROVE NextIsAwaited
      BY DEF JInv
    <2>2. PICK q \in Seq(TimedEvent) : q = eventQ /\ Ordered(q)
      BY <2>1 DEF QueueInv
    <2>3. Len(q) \in Nat /\ DOMAIN q = 1 .. Len(q)
      BY LenProperties
    <2>4. ASSUME NEW i \in 1 .. (Len(q) - 1) PROVE q[i].time <= q[i + 1].time
      <3>1. PICK j : j = i + 1
        OBVIOUS
      <3>2. i \in DOMAIN q /\ j \in DOMAIN q /\ i < j
        BY <2>3, <2>4, <3>1
      <3>3. QED
        BY <2>2, <3>1, <3>2 DEF Ordered
    <2>5. QED
      BY <2>1, <2>2, <2>4 DEF NextIsAwaited, QueueInv
  <1>2. QED
    BY <1>1, InvariantJ, PTL

(* Every search has its timeout and every subscription that ends one       *)
(* renewal, scheduled or under way, for any number of searches, devices    *)
(* and jobs: nobody schedules a second one, loses one, or leaves one to a  *)
(* subscription that is gone (genaSubscribe, genaRenewSubscription,        *)
(* genaUnSubscribe of gena_ctrlpt.c and SearchByTarget of ssdp_ctrlpt.c).  *)
THEOREM OneTimeoutAlways == Spec => []OneTimeoutEach
  <1>1. ASSUME IInv, JInv PROVE OneTimeoutEach
    <2>1. \A id \in searches : what[id] = Search /\ id \in Pending
      BY <1>1 DEF JInv, ListsInv
    <2>2. client => \A id \in Queued : what[id] \in Sid => what[id] \in DOMAIN subs
      BY <1>1 DEF JInv, RenewInv
    <2>3. Pending \subseteq EventId
      BY <1>1, QueuedIds DEF JInv, IdInv, Pending
    <2>4. ASSUME NEW s \in DOMAIN subs
          PROVE  /\ Cardinality(RenewalsOf(s)) = IF device[s] = "endless" THEN 0 ELSE 1
                 /\ RenewalsOf(s) \cap Pending \subseteq {subs[s]}
      <3>1. Renewal(s)
        BY <1>1 DEF JInv, RenewInv
      <3>2. \A id : id \in RenewalsOf(s) <=>
                      (id \in Pending /\ what[id] = s) \/ (id \in EventId /\ Under(id, s))
        BY DEF RenewalsOf, Under
      <3>3. \A id \in Pending : ~Under(id, s)
        BY <1>1, <2>3 DEF JInv, IdInv, Under
      <3>4. CASE subs[s] # NoEvent
        <4>1. RenewalsOf(s) = {subs[s]} /\ device[s] # "endless"
          BY <2>3, <3>1, <3>2, <3>4 DEF Renewal
        <4>2. QED
          BY <4>1, FS_Singleton
      <3>5. CASE subs[s] = NoEvent /\ device[s] = "endless"
        <4>1. RenewalsOf(s) = {}
          BY <3>1, <3>2, <3>5 DEF Renewal
        <4>2. QED
          BY <3>5, <4>1, FS_EmptySet
      <3>6. CASE subs[s] = NoEvent /\ device[s] # "endless"
        <4>1. PICK id \in EventId : \A k \in EventId : Under(k, s) <=> k = id
          BY <3>1, <3>6 DEF Renewal
        <4>2. \A k \in Pending : what[k] # s
          BY <3>1, <3>6 DEF Renewal
        <4>3. RenewalsOf(s) = {id} /\ RenewalsOf(s) \cap Pending = {}
          BY <3>2, <4>1, <4>2, <3>3
        <4>4. QED
          BY <3>6, <4>3, FS_Singleton
      <3>7. QED
        BY <3>4, <3>5, <3>6
    <2>5. QED
      BY <2>1, <2>2, <2>4 DEF OneTimeoutEach
  <1>2. QED
    BY <1>1, InvariantJ, PTL
-----------------------------------------------------------------------------
(***************************************************************************)
(* The bounds: the clock, the times of events and the pools.               *)
(***************************************************************************)
InTime == [id : EventId, time : 0 .. Horizon]

ClockInv ==
  /\ now <= Horizon
  /\ eventQ \in Seq(InTime)
  /\ timer.pc \in {"woken", "loop", "wait", "gone"} /\ timer.until <= Forever
  /\ handle.time <= Horizon
  /\ stopping \in BOOLEAN

PoolInv ==
  /\ client \in BOOLEAN /\ stopMsg \in BOOLEAN
  /\ results \in 0 .. MaxResults
  /\ mini \in {"running", "stopping", "idle"}

StageInv == \A a \in Actor : pc[a] \in Stage

BoundInv == ClockInv /\ PoolInv /\ StageInv

LEMMA InitialBound == Init => BoundInv
  <1> SUFFICES ASSUME Init PROVE BoundInv
    OBVIOUS
  <1>1. ClockInv
    <2>1. /\ now = 0 /\ eventQ = << >> /\ timer = [pc |-> "woken", until |-> Forever]
          /\ handle = Unlocked /\ stopping = FALSE
      BY DEF Init, TimerInit
    <2>2. << >> \in Seq(InTime) /\ Horizon \in Nat /\ Forever \in Nat
      BY TimerAssumption DEF Forever
    <2>3. timer.pc = "woken" /\ timer.until = Forever /\ handle.time = 0
      BY <2>1 DEF Unlocked
    <2>4. 0 <= Horizon /\ Forever <= Forever
      BY <2>2
    <2>5. QED
      BY <2>1, <2>2, <2>3, <2>4 DEF ClockInv
  <1>2. PoolInv
    <2>1. 0 \in 0 .. MaxResults
      BY BoundAssumption
    <2>2. client = TRUE /\ stopMsg = FALSE /\ results = 0 /\ mini = "running"
      BY DEF Init
    <2>3. QED
      BY <2>1, <2>2 DEF PoolInv
  <1>3. StageInv
    BY DEF Init, StageInv, Stage
  <1>4. QED
    BY <1>1, <1>2, <1>3 DEF BoundInv

LEMMA GotoStage ==
  ASSUME StageInv, TypeInv, NEW a \in Actor, NEW from, NEW to \in Stage, Goto(a, from, to)
  PROVE  StageInv'
  BY GotoMoves DEF StageInv, Moves, Goto

LEMMA StageKept == ASSUME StageInv, UNCHANGED pc PROVE StageInv'
  BY DEF StageInv

(* The parts of a step that change the queue.                              *)
LEMMA LocksInTime ==
  ASSUME JInv, ClockInv, NEW a, Locks(a), UNCHANGED timerVars
  PROVE  ClockInv'
  <1>1. PICK wait \in 0 .. MaxWait :
          now + wait <= Horizon /\ handle' = [owner |-> a, time |-> now + wait]
    BY DEF Locks
  <1>2. QED
    BY <1>1 DEF ClockInv, timerVars

LEMMA SchedulesInTime ==
  ASSUME IInv, JInv, ClockInv, NEW a \in Actor, NEW for, Schedules(a, for)
  PROVE  ClockInv'
  <1>1. /\ handle' = Unlocked /\ lastEventId \in EventId
        /\ TimerThreadSchedule(handle.time) /\ handle.owner = a
    BY ScheduleEffect DEF Schedules
  <1>2. handle.time \in Nat
    BY <1>1 DEF JInv, LockInv, Unlocked
  <1>3. PICK e \in InTime : e = [id |-> lastEventId, time |-> handle.time]
    <2>1. handle.time \in 0 .. Horizon
      BY <1>2, TimerAssumption DEF ClockInv
    <2>2. QED
      BY <1>1, <2>1 DEF InTime
  <1>4. PICK k \in 1 .. Len(eventQ) + 1 : eventQ' = InsertAt(eventQ, k, e)
    BY <1>1, <1>3 DEF TimerThreadSchedule
  <1>5. PICK q \in Seq(InTime) : q = eventQ
    BY DEF ClockInv
  <1>6. InsertAt(q, k, e) \in Seq(InTime)
    BY <1>4, <1>5, InsertFacts DEF Inserted
  <1>7. /\ now' = now /\ stopping' = stopping /\ timer'.until = timer.until
        /\ timer'.pc \in {timer.pc, "woken"}
    BY <1>1 DEF TimerThreadSchedule, Signalled, IInv, TypeInv
  <1>8. QED
    BY <1>1, <1>4, <1>5, <1>6, <1>7, TimerAssumption DEF ClockInv, Unlocked

LEMMA DropInTime ==
  ASSUME ClockInv, NEW id, Drop(id), UNCHANGED <<now, timer, stopping, handle>>
  PROVE  ClockInv'
  <1>1. CASE UNCHANGED eventQ
    BY <1>1 DEF ClockInv
  <1>2. ASSUME NEW k \in DOMAIN eventQ, eventQ' = RemoveAt(eventQ, k)
        PROVE  ClockInv'
    <2>1. PICK q \in Seq(InTime) : q = eventQ
      BY DEF ClockInv
    <2>2. k \in 1 .. Len(q)
      BY <2>1, LenProperties
    <2>3. RemoveAt(q, k) \in Seq(InTime)
      BY <2>2, RemoveAtFacts
    <2>4. QED
      BY <1>2, <2>1, <2>3 DEF ClockInv
  <1>3. QED
    BY <1>1, <1>2 DEF Drop

LEMMA RemoveInTime ==
  ASSUME ClockInv, NEW s, RemoveClientSub(s), UNCHANGED handle
  PROVE  ClockInv'
  <1>1. CASE s \in DOMAIN subs /\ subs[s] # NoEvent
    BY <1>1, DropInTime DEF RemoveClientSub, TimerThreadRemove
  <1>2. CASE ~(s \in DOMAIN subs /\ subs[s] # NoEvent)
    BY <1>2 DEF RemoveClientSub, timerVars, ClockInv
  <1>3. QED
    BY <1>1, <1>2

LEMMA QuietInTime == ASSUME ClockInv, UNCHANGED <<timerVars, handle>> PROVE ClockInv'
  BY DEF ClockInv, timerVars

LEMMA SearchBounded ==
  ASSUME IInv, JInv, BoundInv, SearchAsync \/ SearchSteps
  PROVE  BoundInv'
  <1>1. ClockInv'
    BY QuietInTime, LocksInTime, SchedulesInTime
       DEF BoundInv, SearchAsync, SearchSteps, SearchByTarget, SearchScheduled
  <1>2. PoolInv'
    BY DEF BoundInv, PoolInv, SearchAsync, SearchSteps, SearchByTarget, SearchScheduled
  <1>3. StageInv'
    BY GotoStage DEF Stage, IInv, BoundInv, SearchAsync, SearchSteps, SearchByTarget, SearchScheduled
  <1>4. QED
    BY <1>1, <1>2, <1>3 DEF BoundInv

LEMMA JobBounded ==
  ASSUME IInv, JInv, BoundInv, NEW id \in EventId, JobSteps(id)
  PROVE  BoundInv'
  <1>1. CASE searchExpired(id) \/ RenewFailed(id)
    <2>1. ClockInv'
      BY <1>1 DEF BoundInv, ClockInv, searchExpired, RenewFailed, timerVars
    <2>2. PoolInv'
      BY <1>1 DEF BoundInv, PoolInv, searchExpired, RenewFailed
    <2>3. StageInv'
      BY <1>1, GotoStage DEF Stage, IInv, BoundInv, searchExpired, RenewFailed
    <2>4. QED
      BY <2>1, <2>2, <2>3 DEF BoundInv
  <1>2. CASE Renew(id)
    <2>1. ClockInv'
      BY <1>2, DropInTime DEF BoundInv, ClockInv, Renew
    <2>2. PoolInv'
      BY <1>2 DEF BoundInv, PoolInv, Renew
    <2>3. StageInv'
      BY <1>2, GotoStage DEF Stage, IInv, BoundInv, Renew
    <2>4. QED
      BY <2>1, <2>2, <2>3 DEF BoundInv
  <1>3. CASE RenewAnswered(id)
    <2>1. ClockInv'
      BY <1>3, QuietInTime, LocksInTime, RemoveInTime DEF BoundInv, RenewAnswered
    <2>2. PoolInv'
      BY <1>3 DEF BoundInv, PoolInv, RenewAnswered
    <2>3. StageInv'
      BY <1>3, GotoStage DEF Stage, IInv, BoundInv, RenewAnswered
    <2>4. QED
      BY <2>1, <2>2, <2>3 DEF BoundInv
  <1>4. CASE Renewed(id)
    <2>1. ClockInv'
      BY <1>4, SchedulesInTime DEF BoundInv, Renewed
    <2>2. PoolInv'
      BY <1>4 DEF BoundInv, PoolInv, Renewed
    <2>3. StageInv'
      BY <1>4, GotoStage DEF Stage, IInv, BoundInv, Renewed
    <2>4. QED
      BY <2>1, <2>2, <2>3 DEF BoundInv
  <1>5. QED
    BY <1>1, <1>2, <1>3, <1>4 DEF JobSteps

LEMMA ReceiverBounded ==
  ASSUME IInv, JInv, BoundInv, NEW r \in Receiver, Message(r) \/ ReceiverSteps(r)
  PROVE  BoundInv'
  <1>1. CASE Message(r) \/ Callback(r) \/ genaSubscribe(r) \/ Ask(r)
    <2>1. ClockInv'
      BY <1>1, QuietInTime DEF BoundInv, Message, Callback, genaSubscribe, Ask
    <2>2. PoolInv'
      BY <1>1 DEF BoundInv, PoolInv, Message, Callback, genaSubscribe, Ask
    <2>3. StageInv'
      BY <1>1, GotoStage DEF Stage, IInv, BoundInv, Message, Callback, genaSubscribe, Ask, Done
    <2>4. QED
      BY <2>1, <2>2, <2>3 DEF BoundInv
  <1>2. CASE Reply(r)
    <2>1. ClockInv'
      BY <1>2, QuietInTime DEF BoundInv, Reply
    <2>2. PoolInv'
      <3>1. PICK matched \in SUBSET searches :
              /\ results + Cardinality(matched) <= MaxResults
              /\ results' = IF client THEN results + Cardinality(matched) ELSE results
        BY <1>2 DEF Reply
      <3>2. IsFiniteSet(EventId)
        BY FS_Interval, TimerAssumption DEF EventId
      <3>3. matched \subseteq EventId
        BY <3>1, QueuedIds DEF JInv, ListsInv, IdInv, Pending
      <3>4. Cardinality(matched) \in Nat
        BY <3>2, <3>3, FS_Subset, FS_CardinalityType
      <3>5. QED
        BY <1>2, <3>1, <3>4, BoundAssumption DEF BoundInv, PoolInv, Reply
    <2>3. StageInv'
      BY <1>2, GotoStage DEF Stage, IInv, BoundInv, Reply
    <2>4. QED
      BY <2>1, <2>2, <2>3 DEF BoundInv
  <1>3. CASE send_search_result(r)
    <2>1. ClockInv'
      BY <1>3, QuietInTime DEF BoundInv, send_search_result
    <2>2. PoolInv'
      BY <1>3, BoundAssumption DEF BoundInv, PoolInv, send_search_result
    <2>3. StageInv'
      BY <1>3, GotoStage DEF Stage, IInv, BoundInv, send_search_result
    <2>4. QED
      BY <2>1, <2>2, <2>3 DEF BoundInv
  <1>4. CASE Granted(r) \/ Subscribed(r) \/ genaUnSubscribe(r)
    <2>1. ClockInv'
      BY <1>4, QuietInTime, LocksInTime, SchedulesInTime, RemoveInTime
         DEF BoundInv, Granted, Subscribed, genaUnSubscribe
    <2>2. PoolInv'
      BY <1>4 DEF BoundInv, PoolInv, Granted, Subscribed, genaUnSubscribe
    <2>3. StageInv'
      BY <1>4, GotoStage DEF Stage, IInv, BoundInv, Granted, Subscribed, genaUnSubscribe, Done
    <2>4. QED
      BY <2>1, <2>2, <2>3 DEF BoundInv
  <1>5. QED
    BY <1>1, <1>2, <1>3, <1>4 DEF ReceiverSteps

LEMMA NotifiedBounded ==
  ASSUME IInv, BoundInv, NEW r \in Notified, EventAgain(r) \/ \E s \in Sid : Event(r, s)
  PROVE  BoundInv'
  <1>1. ClockInv'
    BY QuietInTime DEF BoundInv, EventAgain, Event
  <1>2. PoolInv'
    BY DEF BoundInv, PoolInv, EventAgain, Event
  <1>3. StageInv'
    BY GotoStage DEF Stage, IInv, BoundInv, EventAgain, Event, Done
  <1>4. QED
    BY <1>1, <1>2, <1>3 DEF BoundInv

LEMMA MainBounded ==
  ASSUME IInv, BoundInv, Stop \/ MainSteps \/ MessageLost \/ RunMiniServer
  PROVE  BoundInv'
  <1> USE DEF MainSteps, Stop, MessageLost, RunMiniServer
  <1>1. ClockInv'
    <2>1. CASE genaUnregisterClient
      BY <2>1, QuietInTime, RemoveInTime DEF BoundInv, genaUnregisterClient
    <2>2. CASE TimerThreadShutdown
      <3>1. << >> \in Seq(InTime)
        OBVIOUS
      <3>2. /\ eventQ' = << >> /\ stopping' = TRUE /\ now' = now /\ handle' = handle
            /\ timer' = Signalled
        BY <2>2 DEF TimerThreadShutdown, ShutdownBegin
      <3>3. timer'.until = timer.until /\ timer'.pc \in {timer.pc, "woken"}
        BY <3>2 DEF Signalled, IInv, TypeInv
      <3>4. QED
        BY <3>1, <3>2, <3>3 DEF BoundInv, ClockInv
    <2>3. CASE SendPoolShutdown
      BY <2>3 DEF BoundInv, ClockInv, SendPoolShutdown
    <2>4. QED
      BY <2>1, <2>2, <2>3, QuietInTime
         DEF BoundInv, UpnpUnRegisterClient, TimerThreadGone, ShutdownEnd, StopMiniServer,
             SendShutDown, RecvPoolShutdown
  <1>2. PoolInv'
    <2>1. 0 \in 0 .. MaxResults
      BY BoundAssumption
    <2>2. CASE RecvPoolShutdown
      BY <2>1, <2>2 DEF BoundInv, PoolInv, RecvPoolShutdown
    <2>3. CASE Stop \/ genaUnregisterClient \/ UpnpUnRegisterClient \/ TimerThreadShutdown
      BY <2>3 DEF BoundInv, PoolInv, genaUnregisterClient, UpnpUnRegisterClient,
                  TimerThreadShutdown
    <2>4. CASE TimerThreadGone \/ StopMiniServer \/ SendShutDown \/ SendPoolShutdown
      BY <2>4 DEF BoundInv, PoolInv, TimerThreadGone, StopMiniServer, SendShutDown,
                  SendPoolShutdown
    <2>5. CASE MessageLost \/ RunMiniServer
      BY <2>5 DEF BoundInv, PoolInv
    <2>6. QED
      BY <2>2, <2>3, <2>4, <2>5
  <1>3. StageInv'
    BY GotoStage, StageKept
       DEF Stage, IInv, BoundInv, genaUnregisterClient, UpnpUnRegisterClient,
           TimerThreadShutdown, TimerThreadGone, StopMiniServer, SendShutDown,
           SendPoolShutdown, RecvPoolShutdown
  <1>4. QED
    BY <1>1, <1>2, <1>3 DEF BoundInv

LEMMA TimerBounded ==
  ASSUME IInv, JInv, BoundInv, TimerSteps
  PROVE  BoundInv'
  <1>1. PoolInv' /\ StageInv'
    BY DEF TimerSteps, cpVars, BoundInv, PoolInv, StageInv
  <1>2. ClockInv'
    <2>1. UNCHANGED handle
      BY DEF TimerSteps, cpVars
    <2>2. eventQ \in Seq(InTime) /\ now \in Nat /\ timer.until \in Nat
      BY DEF BoundInv, ClockInv, JInv, QueueInv
    <2>3. CASE WorkerExit \/ WorkerTimeOut
      BY <2>1, <2>3 DEF WorkerExit, WorkerTimeOut, BoundInv, ClockInv, IInv, TypeInv
    <2>4. CASE WorkerFire
      <3>1. Tail(eventQ) \in Seq(InTime)
        BY <2>2, <2>4, HeadTailProperties DEF WorkerFire, Due
      <3>2. QED
        BY <2>1, <2>4, <3>1 DEF WorkerFire, BoundInv, ClockInv, IInv, TypeInv
    <2>5. CASE WorkerWait
      <3>1. eventQ # << >> => Head(eventQ) \in InTime
        BY <2>2, HeadTailProperties
      <3>2. eventQ # << >> => Head(eventQ).time \in 0 .. Horizon
        BY <3>1 DEF InTime
      <3>3. timer'.pc = "wait" /\ timer'.until <= Forever
        BY <2>5, <3>2, TimerAssumption DEF WorkerWait, Forever
      <3>4. QED
        BY <2>1, <2>5, <3>3 DEF WorkerWait, BoundInv, ClockInv
    <2>6. CASE Tick
      BY <2>1, <2>2, <2>6, TimerAssumption DEF Tick, BoundInv, ClockInv
    <2>7. QED
      BY <2>3, <2>4, <2>5, <2>6 DEF TimerSteps, TimerThreadWorker
  <1>3. QED
    BY <1>1, <1>2 DEF BoundInv

LEMMA InvariantBound == Spec => [](IInv /\ JInv /\ BoundInv)
  <1>1. ASSUME IInv, JInv, BoundInv, [Next]_vars PROVE BoundInv'
    <2>1. CASE UNCHANGED vars
      BY <1>1, <2>1, QuietInTime, StageKept DEF vars, timerVars, cpVars, BoundInv, PoolInv
    <2>2. CASE Next
      BY <1>1, <2>2, SearchBounded, JobBounded, ReceiverBounded, NotifiedBounded, MainBounded,
         TimerBounded DEF Next
    <2>3. QED
      BY <1>1, <2>1, <2>2
  <1>2. QED
    BY <1>1, InitialBound, InvariantJ, PTL DEF Spec

(* Every variable keeps its type and its bound: in particular the time of  *)
(* an event is one the clock reaches, and the results waiting in the pool  *)
(* are never fewer than none.                                              *)
THEOREM TypeCorrect == Spec => []TypeOK
  <1>1. ASSUME IInv, JInv, BoundInv PROVE TypeOK
    <2>1. /\ now \in 0 .. Horizon /\ lastEventId \in 0 .. MaxId /\ stopping \in BOOLEAN
          /\ eventQ \in Seq([id : EventId, time : 0 .. Horizon]) /\ fired \subseteq EventId
      BY <1>1 DEF BoundInv, ClockInv, InTime, JInv, QueueInv, LockInv, IdInv
    <2>2. timer \in [pc : {"woken", "loop", "wait", "gone"}, until : 0 .. Forever]
      BY <1>1, TimerAssumption DEF BoundInv, ClockInv, JInv, QueueInv, IInv, TypeInv, Forever
    <2>3. client \in BOOLEAN /\ searches \subseteq EventId
      BY <1>1, QueuedIds DEF BoundInv, PoolInv, JInv, ListsInv, IdInv, Pending
    <2>4. DOMAIN subs \subseteq Sid /\ \A s \in DOMAIN subs : subs[s] \in EventId \cup {NoEvent}
      BY <1>1 DEF IInv, TypeInv, JInv, ListsInv
    <2>5. /\ device \in [Sid -> {"unasked", "granted", "endless", "forgotten"}]
          /\ at \in [Receiver \cup Notified -> Sid \cup {NoSid}]
      BY <1>1 DEF IInv, TypeInv
    <2>6. pc \in [Actor -> Stage]
      BY <1>1 DEF IInv, TypeInv, BoundInv, StageInv
    <2>7. handle = Unlocked \/ handle \in [owner : Actor, time : 0 .. Horizon]
      BY <1>1, TimerAssumption DEF JInv, LockInv, BoundInv, ClockInv
    <2>8. /\ what \in [EventId -> Sid \cup {NoSid, Search}]
          /\ results \in 0 .. MaxResults /\ stopMsg \in BOOLEAN
          /\ mini \in {"running", "stopping", "idle"}
      BY <1>1 DEF JInv, ListsInv, BoundInv, PoolInv
    <2>9. QED
      BY <2>1, <2>2, <2>3, <2>4, <2>5, <2>6, <2>7, <2>8 DEF TypeOK
  <1>2. QED
    BY <1>1, InvariantBound, PTL
=============================================================================
