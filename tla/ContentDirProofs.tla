-------------------------- MODULE ContentDirProofs --------------------------
(***************************************************************************)
(* The properties of fetching the children of an object, for all objects,  *)
(* addresses and answers of the server and for any number of threads.      *)
(*                                                                         *)
(* The requests of one fetch come first (BrowseAll): what was collected    *)
(* are the well-formed ones of the first objects the server holds, and the *)
(* number of requests is the number of retries counted, plus one.          *)
(*                                                                         *)
(* For Browse (ContentDir) the inductive invariant has two parts.  What    *)
(* the two mutexes protect holds whenever the device leaves: a thread in   *)
(* the cache holds both, so that there is one, and the device is still     *)
(* there.  What the references count holds as long as the device is there, *)
(* and after that if it left while no result was in use (Quiet).           *)
(***************************************************************************)
EXTENDS ContentDir, BrowseAll, FiniteSetTheorems, TLAPS

-----------------------------------------------------------------------------
(* The requests for one object (BrowseAll).                                 *)

(* What is common to every stage: the requests are counted.                 *)
RequestInv ==
  /\ server \in Seq(Object) /\ Distinct(server)
  /\ objects \in Seq(Object)
  /\ matched \in Nat
  /\ retry \in Nat /\ sent \in 0..(MaxRetry + 1)
  /\ stage \in {"first", "retry", "done", "failed"}
  /\ stage = "first" => retry = 0 /\ sent = 0 /\ objects = << >>
  /\ stage = "retry" => retry \in 1..MaxRetry /\ sent = retry

(* The list o holds the well-formed ones of the first objects of s, and is  *)
(* no longer than these are.                                                *)
Prefix(o, s) ==
  \E m \in Len(o)..Len(s) : Elements(o) = Elements(SubSeq(s, 1, m)) \ Malformed

(* What is made of an answer is a list of its well-formed objects.          *)
LEMMA CreatedIsList ==
  ASSUME NEW s \in Seq(Object), NEW t \in Created(s)
  PROVE  t \in Seq(Object) /\ (s = << >> => t = << >>)
<1> DEFINE new == Elements(s) \ Malformed
<1>1. new \subseteq Object /\ IsFiniteSet(new)
  BY ObjectAssumption, FS_Subset DEF Elements
<1>2. Cardinality(new) \in Nat
  BY <1>1, FS_CardinalityType
<1>3. t \in [1..Cardinality(new) -> new]
  BY DEF Created
<1>4. t \in Seq(Object)
  <2> PICK c \in Nat : c = Cardinality(new)
    BY <1>2
  <2>1. t \in [1..c -> Object]
    BY <1>1, <1>3
  <2> HIDE DEF new
  <2> QED BY ONLY <2>1, c \in Nat
<1>5. ASSUME s = << >> PROVE t = << >>
  <2>1. new = {}
    BY <1>5 DEF Elements
  <2>2. Cardinality(new) = 0
    BY <2>1, FS_EmptySet
  <2> QED BY <1>3, <1>4, <2>2
<1> QED BY <1>4, <1>5

(* It holds each of them once.                                              *)
LEMMA CreatedIsComplete ==
  ASSUME NEW s \in Seq(Object), Distinct(s), NEW t \in Created(s)
  PROVE  Len(t) <= Len(s) /\ Elements(t) = Elements(s) \ Malformed
<1> DEFINE new == Elements(s) \ Malformed
<1>1. IsFiniteSet(1..Len(s)) /\ Cardinality(1..Len(s)) = Len(s)
  <2> PICK c \in Nat : c = Len(s)
    OBVIOUS
  <2>1. 1 \in Int /\ c \in Int
    OBVIOUS
  <2>2. IsFiniteSet(1..c) /\ Cardinality(1..c) = IF 1 > c THEN 0 ELSE c - 1 + 1
    BY <2>1, FS_Interval, Zenon
  <2> QED BY <2>2
<1>2. s \in Bijection(1..Len(s), Elements(s))
  BY DEF Bijection, Injection, Surjection, IsInjective, Elements, Distinct
<1>3. IsFiniteSet(Elements(s)) /\ Cardinality(Elements(s)) = Len(s)
  BY <1>1, <1>2, FS_Bijection DEF ExistsBijection
<1>4. IsFiniteSet(new) /\ Cardinality(new) <= Len(s) /\ Cardinality(new) \in Nat
  <2>1. new \subseteq Elements(s)
    OBVIOUS
  <2> QED BY <2>1, <1>3, FS_Subset, FS_CardinalityType
<1> PICK c \in Nat : c = Cardinality(new)
  BY <1>4
<1>5. /\ t \in [1..c -> new]
      /\ \A i, j \in 1..c : i < j => Before(s, t[i], t[j])
  BY DEF Created
<1>6. Len(t) = c
  BY <1>5, CreatedIsList
<1>7. \A a : ~ Before(s, a, a)
  BY DEF Before, Distinct
<1>8. \A i, j \in 1..c : t[i] = t[j] => i = j
  <2>1. \A i, j \in 1..c : i < j => t[i] # t[j]
    <3> SUFFICES ASSUME NEW i \in 1..c, NEW j \in 1..c, i < j, t[i] = t[j] PROVE FALSE
      OBVIOUS
    <3>1. Before(s, t[i], t[j])
      BY <1>5
    <3> QED BY <3>1, <1>7
  <2>2. \A i, j \in 1..c : i < j \/ j < i \/ i = j
    OBVIOUS
  <2> QED BY ONLY <2>1, <2>2
<1>9. t \in Injection(1..c, new)
  BY <1>5, <1>8 DEF Injection, IsInjective
<1>10. IsFiniteSet(1..c) /\ Cardinality(1..c) = c
  <2>1. 1 \in Int /\ c \in Int
    OBVIOUS
  <2>2. IsFiniteSet(1..c) /\ Cardinality(1..c) = IF 1 > c THEN 0 ELSE c - 1 + 1
    BY <2>1, FS_Interval, Zenon
  <2> QED BY <2>2
<1>11. t \in Surjection(1..c, new)
  BY <1>4, <1>9, <1>10, FS_Injection
<1>12. Elements(t) = new
  <2>1. Elements(t) = {t[i] : i \in 1..c}
    BY <1>6 DEF Elements
  <2>2. \A x \in new : \E i \in 1..c : t[i] = x
    BY <1>11 DEF Surjection
  <2> QED BY <1>5, <2>1, <2>2
<1> QED BY <1>4, <1>6, <1>12

(* The elements of two lists, one after the other.                          *)
LEMMA ElementsConcat ==
  ASSUME NEW o \in Seq(Object), NEW t \in Seq(Object)
  PROVE  Elements(o \o t) = Elements(o) \cup Elements(t)
<1> PICK m \in Nat : m = Len(o)
  OBVIOUS
<1> PICK n \in Nat : n = Len(t)
  OBVIOUS
<1>1. /\ Len(o \o t) = m + n
      /\ \A i \in 1..m : (o \o t)[i] = o[i]
      /\ \A i \in 1..n : (o \o t)[m + i] = t[i]
  OBVIOUS
<1>2. \A i \in 1..(m + n) : i \in 1..m \/ \E k \in 1..n : i = m + k
  <2> TAKE i \in 1..(m + n)
  <2>1. CASE i <= m
    BY <2>1
  <2>2. CASE i > m
    <3>1. i - m \in 1..n /\ i = m + (i - m)
      BY <2>2
    <3> QED BY <3>1
  <2> QED BY <2>1, <2>2
<1>3. ASSUME NEW x \in Elements(o \o t) PROVE x \in Elements(o) \cup Elements(t)
  <2> PICK i \in 1..(m + n) : (o \o t)[i] = x
    BY <1>1 DEF Elements
  <2>1. CASE i \in 1..m
    BY <2>1, <1>1 DEF Elements
  <2>2. ASSUME NEW k \in 1..n, i = m + k PROVE x \in Elements(t)
    BY <2>2, <1>1 DEF Elements
  <2> QED BY <2>1, <2>2, <1>2
<1>4. ASSUME NEW x \in Elements(o) PROVE x \in Elements(o \o t)
  BY <1>1 DEF Elements
<1>5. ASSUME NEW x \in Elements(t) PROVE x \in Elements(o \o t)
  <2> PICK k \in 1..n : t[k] = x
    BY DEF Elements
  <2>1. m + k \in 1..(m + n) /\ (o \o t)[m + k] = x
    BY <1>1
  <2> QED BY <2>1, <1>1 DEF Elements
<1> QED BY <1>3, <1>4, <1>5

IsPart(a, s, k, m) == a = SubSeq(s, k + 1, m)

(* The elements of a part of a list.                                        *)
LEMMA ElementsPart ==
  ASSUME NEW s \in Seq(Object), NEW k \in Nat, NEW m \in Nat, m <= Len(s), k <= m,
         NEW a, IsPart(a, s, k, m)
  PROVE  \A x : x \in Elements(a) <=> \E i \in (k + 1)..m : s[i] = x
<1>1. a \in Seq(Object) /\ Len(a) = m - k /\ \A i \in 1..(m - k) : a[i] = s[k + i]
  BY DEF IsPart
<1>2. \A x : x \in Elements(a) <=> \E i \in 1..(m - k) : a[i] = x
  BY <1>1 DEF Elements
<1>3. \A i \in (k + 1)..m : i - k \in 1..(m - k) /\ a[i - k] = s[i]
  <2> TAKE i \in (k + 1)..m
  <2>1. i - k \in 1..(m - k) /\ k + (i - k) = i
    OBVIOUS
  <2> QED BY <2>1, <1>1
<1>4. \A i \in 1..(m - k) : k + i \in (k + 1)..m /\ s[k + i] = a[i]
  BY <1>1
<1>5. ASSUME NEW x, x \in Elements(a) PROVE \E i \in (k + 1)..m : s[i] = x
  <2> PICK i \in 1..(m - k) : a[i] = x
    BY <1>2, <1>5
  <2> QED BY <1>4
<1>6. ASSUME NEW x, NEW i \in (k + 1)..m, s[i] = x PROVE x \in Elements(a)
  <2>1. i - k \in 1..(m - k) /\ a[i - k] = x
    BY <1>3, <1>6
  <2> QED BY <2>1, <1>2
<1> QED BY ONLY <1>5, <1>6

(* The answer to a request for what follows as many as were made continues  *)
(* the list: it leaves nothing out, as no more were made than were passed.  *)
LEMMA AnswerContinues ==
  ASSUME NEW s \in Seq(Object), Distinct(s),
         NEW o \in Seq(Object), Prefix(o, s),
         NEW n \in Nat, Len(o) + n <= Len(s),
         NEW t \in Created(SubSeq(s, Len(o) + 1, Len(o) + n))
  PROVE  Prefix(o \o t, s)
<1> PICK k \in Nat : k = Len(o)
  OBVIOUS
<1> PICK m \in k..Len(s) : Elements(o) = Elements(SubSeq(s, 1, m)) \ Malformed
  BY DEF Prefix
<1> PICK a : IsPart(a, s, k, k + n)
  BY DEF IsPart
<1>1. /\ a \in Seq(Object) /\ Len(a) = n
      /\ \A i \in 1..n : a[i] = s[k + i]
  BY DEF IsPart
<1>2. Distinct(a)
  <2>1. \A i, j \in 1..Len(s) : s[i] = s[j] => i = j
    BY DEF Distinct
  <2>2. \A i \in 1..n : k + i \in 1..Len(s)
    OBVIOUS
  <2>3. \A i, j \in 1..n : a[i] = a[j] => i = j
    <3> SUFFICES ASSUME NEW i \in 1..n, NEW j \in 1..n, a[i] = a[j] PROVE i = j
      OBVIOUS
    <3>1. s[k + i] = s[k + j]
      BY <1>1
    <3>2. k + i = k + j
      BY <2>1, <2>2, <3>1
    <3> QED BY <3>2
  <2> QED BY <2>3, <1>1 DEF Distinct
<1>3. t \in Seq(Object) /\ Len(t) <= n /\ Elements(t) = Elements(a) \ Malformed
  <2>1. t \in Created(a)
    BY DEF IsPart
  <2> QED BY <1>1, <1>2, <2>1, CreatedIsList, CreatedIsComplete
<1> PICK p \in Nat : p = IF k + n > m THEN k + n ELSE m
  OBVIOUS
<1>4. p <= Len(s) /\ m <= p /\ k + n <= p
  OBVIOUS
<1>5. Len(o \o t) \in Nat /\ Len(o \o t) <= p
  <2>1. t \in Seq(Object) /\ Len(t) \in Nat /\ Len(t) <= n
    BY <1>3
  <2>2. Len(o \o t) = Len(o) + Len(t)
    BY ONLY <2>1, o \in Seq(Object)
  <2> QED BY <2>1, <2>2, <1>4
<1>6. Elements(o \o t) = Elements(o) \cup Elements(t)
  BY <1>3, ElementsConcat
<1>7. \A x : x \in Elements(a) <=> \E i \in (k + 1)..(k + n) : s[i] = x
  <2> PICK q \in Nat : q = k + n
    OBVIOUS
  <2>1. q <= Len(s) /\ k <= q /\ IsPart(a, s, k, q)
    OBVIOUS
  <2>2. \A x : x \in Elements(a) <=> \E i \in (k + 1)..q : s[i] = x
    BY <2>1, ElementsPart
  <2> QED BY <2>2
<1>8. \A q \in Nat : q <= Len(s) =>
        \A x : x \in Elements(SubSeq(s, 1, q)) <=> \E i \in 1..q : s[i] = x
  <2> TAKE q \in Nat
  <2> HAVE q <= Len(s)
  <2> PICK z \in Nat : z = 0
    OBVIOUS
  <2> PICK b : IsPart(b, s, z, q)
    BY DEF IsPart
  <2>1. z <= q
    OBVIOUS
  <2>2. \A x : x \in Elements(b) <=> \E i \in (z + 1)..q : s[i] = x
    BY <2>1, ElementsPart
  <2>3. z + 1 = 1
    OBVIOUS
  <2>4. b = SubSeq(s, 1, q)
    BY <2>3 DEF IsPart
  <2> QED BY <2>2, <2>3, <2>4, Zenon
<1>9. Elements(SubSeq(s, 1, p)) = Elements(SubSeq(s, 1, m)) \cup Elements(a)
  <2>1. \A i \in 1..p : i \in 1..m \/ i \in (k + 1)..(k + n)
    OBVIOUS
  <2>2. (1..m) \cup ((k + 1)..(k + n)) \subseteq 1..p
    BY <1>4
  <2>3. m \in Nat /\ m <= Len(s)
    OBVIOUS
  <2>4. \A x : x \in Elements(SubSeq(s, 1, m)) <=> \E i \in 1..m : s[i] = x
    BY <1>8, <2>3
  <2>5. \A x : x \in Elements(SubSeq(s, 1, p)) <=> \E i \in 1..p : s[i] = x
    BY <1>8, <1>4
  <2> QED BY <2>1, <2>2, <2>4, <2>5, <1>7
<1>10. Elements(o \o t) = Elements(SubSeq(s, 1, p)) \ Malformed
  BY <1>3, <1>6, <1>9
<1>11. p \in Len(o \o t)..Len(s)
  BY <1>4, <1>5
<1> QED BY <1>10, <1>11, Zenon DEF Prefix

LEMMA RequestsBegin == CollectInit => RequestInv /\ Prefix(objects, server)
<1> SUFFICES ASSUME CollectInit PROVE RequestInv /\ Prefix(objects, server)
  OBVIOUS
<1>1. server \in Seq(Object) /\ Distinct(server)
  BY ObjectAssumption, FS_CardinalityType DEF CollectInit
<1>2. Elements(<< >>) = {}
  BY DEF Elements
<1>3. SubSeq(server, 1, 0) = << >>
  BY <1>1
<1>4. Prefix(objects, server)
  <2>1. objects = << >> /\ Len(<< >>) = 0
    BY DEF CollectInit
  <2>2. 0 \in Len(objects)..Len(server)
    BY <1>1, <2>1
  <2>3. Elements(objects) = Elements(SubSeq(server, 1, 0)) \ Malformed
    BY <1>2, <1>3, <2>1
  <2> QED BY <2>2, <2>3 DEF Prefix
<1>5. RequestInv
  BY <1>1, RetryAssumption DEF CollectInit, RequestInv
<1> QED BY <1>4, <1>5

(* What every answer does, at the first request or at a retry.              *)
LEMMA AnswerFacts ==
  ASSUME RequestInv, NEW n \in Nat, NEW total \in Totals,
         Start + n <= Len(server), Answer(Start, n, total)
  PROVE  /\ server' = server /\ matched' = total /\ matched' \in Nat
         /\ sent' = sent + 1
         /\ objects' \in Seq(Object)
         /\ n = 0 => objects' = objects
         /\ Prefix(objects, server) => Prefix(objects, server)'
<1> PICK s : s = SubSeq(server, Start + 1, Start + n)
  OBVIOUS
<1>1. s \in Seq(Object) /\ (n = 0 => s = << >>)
  BY DEF RequestInv, Start
<1> PICK t \in Created(s) : objects' = objects \o t
  BY DEF Answer
<1>2. t \in Seq(Object) /\ (s = << >> => t = << >>)
  BY <1>1, CreatedIsList
<1>3. server' = server /\ matched' = total /\ total \in Nat /\ sent' = sent + 1
  BY ObjectAssumption, FS_CardinalityType DEF Answer, Totals
<1>4. objects' \in Seq(Object) /\ (n = 0 => objects' = objects)
  BY <1>1, <1>2 DEF RequestInv
<1>5. ASSUME Prefix(objects, server) PROVE Prefix(objects, server)'
  <2>1. Prefix(objects \o t, server)
    BY <1>5, AnswerContinues DEF RequestInv, Start
  <2> QED BY <2>1, <1>3
<1> QED BY <1>3, <1>4, <1>5


LEMMA FirstKeeps == RequestInv /\ First => RequestInv'
<1> SUFFICES ASSUME RequestInv, First PROVE RequestInv'
  OBVIOUS
<1> PICK n \in 0..Len(server), total \in Totals :
      Answer(0, n, total) /\ Loop(objects', total)
  BY DEF First
<1>1. Start = 0 /\ n \in Nat /\ Start + n <= Len(server)
  BY DEF First, RequestInv, Start
<1>2. /\ server' = server /\ matched' \in Nat /\ sent' = sent + 1
      /\ objects' \in Seq(Object)
  BY <1>1, AnswerFacts
<1> QED BY <1>2, RetryAssumption DEF First, Loop, RequestInv

LEMMA RetryKeeps == RequestInv /\ Retry => RequestInv'
<1> SUFFICES ASSUME RequestInv, Retry PROVE RequestInv'
  OBVIOUS
<1> PICK n \in 0..(matched - Len(objects)), total \in Totals :
      /\ Start + n <= Len(server)
      /\ Answer(Start, n, total)
      /\ \/ stage' = "done" /\ retry' = retry
         \/ Loop(objects', total)
  BY DEF Retry
<1>1. n \in Nat
  BY DEF RequestInv
<1>2. /\ server' = server /\ matched' \in Nat /\ sent' = sent + 1
      /\ objects' \in Seq(Object)
  BY <1>1, AnswerFacts
<1> QED BY <1>2, RetryAssumption DEF Retry, Loop, RequestInv

LEMMA RequestInductive == RequestInv /\ [CollectNext]_collectVars => RequestInv'
<1> SUFFICES ASSUME RequestInv, [CollectNext]_collectVars PROVE RequestInv'
  OBVIOUS
<1>1. CASE FirstFails
  BY <1>1, RetryAssumption DEF FirstFails, RequestInv
<1>2. CASE RetryFails
  BY <1>2, RetryAssumption DEF RetryFails, RequestInv
<1>3. CASE UNCHANGED collectVars
  BY <1>3 DEF collectVars, RequestInv
<1> QED BY <1>1, <1>2, <1>3, FirstKeeps, RetryKeeps DEF CollectNext

LEMMA PrefixInductive ==
  RequestInv /\ Prefix(objects, server) /\ [CollectNext]_collectVars
    => Prefix(objects, server)'
<1> SUFFICES ASSUME RequestInv, Prefix(objects, server), [CollectNext]_collectVars
             PROVE  Prefix(objects, server)'
  OBVIOUS
<1>1. CASE First
  <2> PICK n \in 0..Len(server), total \in Totals : Answer(0, n, total)
    BY <1>1 DEF First
  <2>1. Start = 0 /\ n \in Nat /\ Start + n <= Len(server)
    BY <1>1 DEF First, RequestInv, Start
  <2> QED BY <2>1, AnswerFacts
<1>2. CASE Retry
  <2> PICK n \in 0..(matched - Len(objects)), total \in Totals :
        Start + n <= Len(server) /\ Answer(Start, n, total)
    BY <1>2 DEF Retry
  <2>1. n \in Nat
    BY DEF RequestInv
  <2> QED BY <2>1, AnswerFacts
<1>3. CASE FirstFails \/ RetryFails \/ UNCHANGED collectVars
  BY <1>3 DEF FirstFails, RetryFails, collectVars
<1> QED BY <1>1, <1>2, <1>3 DEF CollectNext

(* A list that is no longer than a set it runs through has no repeats.      *)
LEMMA NoRepeat ==
  ASSUME NEW s \in Seq(Object), Distinct(s), NEW o \in Seq(Object),
         NEW m \in Len(o)..Len(s), Elements(o) = Elements(SubSeq(s, 1, m))
  PROVE  Distinct(o)
<1> PICK k \in Nat : k = Len(o)
  OBVIOUS
<1> PICK z \in Nat : z = 0
  OBVIOUS
<1> PICK a : IsPart(a, s, z, m)
  BY DEF IsPart
<1>1. m \in Nat /\ k <= m
  OBVIOUS
<1>2. /\ a \in Seq(Object) /\ Len(a) = m /\ \A i \in 1..m : a[i] = s[i]
      /\ Elements(o) = Elements(a)
  BY <1>1 DEF IsPart
<1>3. \A c \in Nat : IsFiniteSet(1..c) /\ Cardinality(1..c) = c
  <2> TAKE c \in Nat
  <2>1. 1 \in Int /\ c \in Int
    OBVIOUS
  <2>2. IsFiniteSet(1..c) /\ Cardinality(1..c) = IF 1 > c THEN 0 ELSE c - 1 + 1
    BY <2>1, FS_Interval, Zenon
  <2> QED BY <2>2
<1>4. a \in Bijection(1..m, Elements(a))
  <2>1. a \in [1..m -> Elements(a)]
    <3>1. \A i \in 1..m : a[i] \in Elements(a)
      BY <1>2 DEF Elements
    <3>2. a \in [1..m -> Object]
      BY <1>2
    <3> QED BY ONLY <3>1, <3>2
  <2>2. \A i, j \in 1..m : a[i] = a[j] => i = j
    BY <1>2 DEF Distinct
  <2>3. \A x \in Elements(a) : \E i \in 1..m : a[i] = x
    BY <1>2 DEF Elements
  <2> QED BY <2>1, <2>2, <2>3 DEF Bijection, Injection, Surjection, IsInjective
<1>5. IsFiniteSet(Elements(a)) /\ Cardinality(Elements(a)) = m
  BY <1>1, <1>3, <1>4, FS_Bijection DEF ExistsBijection
<1>6. o \in Surjection(1..k, Elements(a))
  <2>1. o \in [1..k -> Elements(o)]
    BY DEF Elements
  <2>2. \A x \in Elements(o) : \E i \in 1..k : o[i] = x
    BY DEF Elements
  <2>3. Elements(o) = Elements(a)
    BY <1>2
  <2> QED BY <2>1, <2>2, <2>3 DEF Surjection
<1>7. /\ Cardinality(Elements(a)) <= Cardinality(1..k)
      /\ Cardinality(Elements(a)) = Cardinality(1..k) <=> o \in Injection(1..k, Elements(a))
  BY <1>3, <1>6, FS_Surjection
<1>8. o \in Injection(1..k, Elements(a))
  BY <1>1, <1>3, <1>5, <1>7
<1> QED BY <1>8 DEF Injection, IsInjective, Distinct

(* BrowseOrSearchAll, for every container, all answers of its server, which *)
(* of its objects may be refused, and any number of retries: the list that  *)
(* is returned leaves no well-formed object of the first ones out, and      *)
(* holds each once unless some of these were refused.                       *)
THEOREM FirstOnes == CollectSpec => []FirstObjects
<1>1. RequestInv /\ Prefix(objects, server) => FirstObjects
  <2> SUFFICES ASSUME RequestInv, Prefix(objects, server) PROVE FirstObjects
    OBVIOUS
  <2> PICK m \in Len(objects)..Len(server) :
        Elements(objects) = Elements(SubSeq(server, 1, m)) \ Malformed
    BY DEF Prefix
  <2>1. ASSUME Elements(SubSeq(server, 1, m)) \cap Malformed = {}
        PROVE  Distinct(objects)
    <3>1. Elements(objects) = Elements(SubSeq(server, 1, m))
      BY <2>1
    <3> QED BY <3>1, NoRepeat DEF RequestInv
  <2> QED BY <2>1 DEF FirstObjects
<1> QED BY <1>1, RequestsBegin, RequestInductive, PrefixInductive, PTL DEF CollectSpec

(* BrowseOrSearchAll asks at most MaxRetry + 1 times, and returns fewer     *)
(* objects than announced only after that, or if a retry brought nothing;   *)
(* objects that are refused are no exception.                               *)
THEOREM FewRequests == CollectSpec => ShortOnlyIfRefused
<1> DEFINE Step ==
      /\ sent' <= MaxRetry + 1
      /\ stage' = "done" /\ matched' > Len(objects') =>
           sent' = MaxRetry + 1 \/ objects' = objects
<1>1. ASSUME RequestInv, RequestInv', CollectNext PROVE Step
  <2>1. sent' <= MaxRetry + 1
    BY <1>1, RetryAssumption DEF RequestInv
  <2>2. ASSUME stage' = "done", matched' > Len(objects'), objects' # objects
        PROVE  sent' = MaxRetry + 1
    <3>1. CASE First
      <4> PICK n \in 0..Len(server), total \in Totals :
            Answer(0, n, total) /\ Loop(objects', total)
        BY <3>1 DEF First
      <4>1. matched' = total /\ sent' = sent + 1
        BY DEF Answer
      <4>2. retry = 0 /\ sent = 0
        BY <1>1, <3>1 DEF First, RequestInv
      <4>3. ~ (retry < MaxRetry)
        BY <2>2, <4>1 DEF Loop, Missing
      <4> QED BY <4>1, <4>2, <4>3, RetryAssumption
    <3>2. CASE Retry
      <4> PICK n \in 0..(matched - Len(objects)), total \in Totals :
            /\ Start + n <= Len(server)
            /\ Answer(Start, n, total)
            /\ n = 0 \/ Loop(objects', total)
        BY <3>2 DEF Retry
      <4>1. n \in Nat
        BY <1>1 DEF RequestInv
      <4>2. matched' = total /\ sent' = sent + 1 /\ (n = 0 => objects' = objects)
        BY <1>1, <4>1, AnswerFacts
      <4>3. retry \in 1..MaxRetry /\ sent = retry
        BY <1>1, <3>2 DEF Retry, RequestInv
      <4>4. ~ (retry < MaxRetry)
        BY <2>2, <4>2 DEF Loop, Missing
      <4> QED BY <4>2, <4>3, <4>4, RetryAssumption
    <3> QED BY <1>1, <2>2, <3>1, <3>2 DEF CollectNext, FirstFails, RetryFails
  <2> QED BY <2>1, <2>2
<1>2. ASSUME RequestInv, UNCHANGED collectVars PROVE Step
  BY <1>2, RetryAssumption DEF RequestInv, collectVars
<1>3. RequestInv /\ RequestInv' /\ [CollectNext]_collectVars => [Step]_collectVars
  BY <1>1
<1>4. CollectSpec => [][Step]_collectVars
  BY <1>3, RequestsBegin, RequestInductive, PTL DEF CollectSpec
<1> QED BY <1>4 DEF ShortOnlyIfRefused

-----------------------------------------------------------------------------
(* Browse and its cache (ContentDir).                                       *)

USE ReaderAssumption, TimeAssumption, DataAssumption, QuietAssumption

(* Every variable but the counts keeps its type.                            *)
ShapeInv ==
  /\ listLock \in Reader \cup {Nobody}
  /\ cacheLock \in Reader \cup {Nobody}
  /\ pc \in [Reader -> {"idle", "browse", "cp", "use", "drop", "free"}]
  /\ key \in [Reader -> Key \cup {NoKey}]
  /\ since \in [Reader -> Nat]
  /\ result \in [Reader -> Data \cup {Null}]
  /\ alive \subseteq Data
  /\ present \in BOOLEAN
  /\ now \in Nat /\ nextClean \in Nat
  /\ DOMAIN table \subseteq Key
  /\ \A k \in DOMAIN table : table[k] \in C!Entry
  /\ born \in [Data -> Nat]

(* A mutex has the owner that its protected code says.                      *)
LockInv ==
  \A r \in Reader :
    /\ pc[r] \in {"browse", "cp"} <=> listLock = r
    /\ pc[r] \in {"cp", "drop", "free"} <=> cacheLock = r

(* A lookup is for an object, of a device that is there, in an entry that   *)
(* stays in the table; a reader past it has a result until it destroys it.  *)
ReaderInv ==
  \A r \in Reader :
    /\ pc[r] \in {"browse", "cp"} => present /\ key[r] \in Key
    /\ pc[r] = "cp" => key[r] \in DOMAIN table
    /\ result[r] # Null <=> pc[r] \in {"use", "drop", "free"}

(* The cache owns live Children; what is freed has no reference; and what   *)
(* DestroyResult read stays true until it acts on it.                       *)
CountInv ==
  /\ refs \in [Data -> Nat]
  /\ present => Cached \subseteq alive
  /\ \A d \in Data \ alive : refs[d] = 0
  /\ OwnersCounted
  /\ \A r \in Reader :
       /\ pc[r] = "drop" => refs[result[r]] > 0
       /\ pc[r] = "free" => refs[result[r]] = 0

Protected == ShapeInv /\ LockInv /\ ReaderInv

IInv ==
  /\ Protected
  /\ present \/ Quiet => CountInv

-----------------------------------------------------------------------------
(* The users of an address are finitely many.                               *)
LEMMA UsersFacts ==
  ASSUME NEW d
  PROVE  /\ Cardinality(Users(d)) \in Nat
         /\ Users(d) # {} => Cardinality(Users(d)) > 0
         /\ Users(d) = {} => Cardinality(Users(d)) = 0
  <1>1. IsFiniteSet(Users(d))
    BY FS_Subset DEF Users
  <1>2. QED
    BY <1>1, FS_CardinalityType, FS_EmptySet

(* A reader without a result gets d.                                        *)
LEMMA UserAdded ==
  ASSUME ShapeInv, NEW r \in Reader, NEW d \in Data,
         result[r] = Null, result' = [result EXCEPT ![r] = d]
  PROVE  /\ Cardinality(Users(d))' = Cardinality(Users(d)) + 1
         /\ \A e \in Data \ {d} : Cardinality(Users(e))' = Cardinality(Users(e))
  <1>1. IsFiniteSet(Users(d)) /\ r \notin Users(d)
    BY FS_Subset DEF Users
  <1>2. Users(d)' = Users(d) \cup {r}
    BY DEF Users, ShapeInv
  <1>3. \A e \in Data \ {d} : Users(e)' = Users(e)
    BY DEF Users, ShapeInv
  <1>4. Cardinality(Users(d) \cup {r}) = Cardinality(Users(d)) + 1
    BY <1>1, FS_AddElement
  <1>5. QED
    BY <1>2, <1>3, <1>4

(* A reader gives up its result d.                                          *)
LEMMA UserRemoved ==
  ASSUME ShapeInv, NEW r \in Reader, NEW d \in Data,
         result[r] = d, result' = [result EXCEPT ![r] = Null]
  PROVE  /\ Cardinality(Users(d))' = Cardinality(Users(d)) - 1
         /\ \A e \in Data \ {d} : Cardinality(Users(e))' = Cardinality(Users(e))
  <1>1. IsFiniteSet(Users(d)) /\ r \in Users(d)
    BY FS_Subset DEF Users
  <1>2. Users(d)' = Users(d) \ {r}
    BY DEF Users, ShapeInv
  <1>3. \A e \in Data \ {d} : Users(e)' = Users(e)
    BY DEF Users, ShapeInv
  <1>4. Cardinality(Users(d) \ {r}) = Cardinality(Users(d)) - 1
    BY <1>1, FS_RemoveElement
  <1>5. QED
    BY <1>2, <1>3, <1>4

(* Cache_Get leaves an entry for k, and data only where it was.             *)
LEMMA LookupFacts ==
  ASSUME ShapeInv, NEW k \in Key, C!Lookup(k)
  PROVE  /\ k \in DOMAIN table'
         /\ DOMAIN table' \subseteq Key
         /\ \A j \in DOMAIN table' : table'[j] \in C!Entry
         /\ \A j \in DOMAIN table' :
              table'[j].data # Null => j \in DOMAIN table /\ table'[j] = table[j]
         /\ nextClean' \in Nat
  <1>1. C!NewEntry \in C!Entry /\ C!NewEntry.data = Null
        /\ C!NewEntry.rip = now + MaxAge /\ now \in Nat
    BY DEF C!NewEntry, C!Entry, ShapeInv
  <1>2. CASE C!Hit(k)
    BY <1>2 DEF C!Hit, ShapeInv
  <1> DEFINE t == C!Put(table, k, C!NewEntry)
  <1>3. /\ DOMAIN t = DOMAIN table \cup {k}
        /\ t[k] = C!NewEntry
        /\ \A j \in DOMAIN table \ {k} : t[j] = table[j]
    BY DEF C!Put
  <1> HIDE DEF t
  <1>4. CASE C!Expired(k)
    <2>1. table' = t /\ nextClean' = nextClean
      BY <1>4 DEF C!Expired, t
    <2>2. QED
      BY <2>1, <1>1, <1>3 DEF ShapeInv
  <1>5. CASE C!New(k)
    <2>1. C!ExpireEntries(t) /\ k \notin DOMAIN table
      BY <1>5 DEF C!New, t
    <2>2. /\ DOMAIN C!Remaining(t) \subseteq DOMAIN t
          /\ \A j \in DOMAIN C!Remaining(t) : C!Remaining(t)[j] = t[j]
          /\ \A j \in DOMAIN t : ~(now > t[j].rip) => j \in DOMAIN C!Remaining(t)
      BY DEF C!Remaining, C!Stale
    <2>3. k \in DOMAIN t /\ ~(now > t[k].rip)
      BY <1>1, <1>3
    <2>4. /\ k \in DOMAIN table' /\ DOMAIN table' \subseteq DOMAIN t
          /\ \A j \in DOMAIN table' : table'[j] = t[j]
          /\ nextClean' \in Nat
      BY <2>1, <2>2, <2>3 DEF C!ExpireEntries, ShapeInv
    <2>5. QED
      BY <2>4, <1>1, <1>3 DEF ShapeInv
  <1>6. QED
    BY <1>2, <1>4, <1>5 DEF C!Lookup

LEMMA Initial == Init => IInv
  <1> SUFFICES ASSUME Init PROVE IInv
    OBVIOUS
  <1>1. ShapeInv /\ LockInv /\ ReaderInv
    BY DEF Init, ShapeInv, LockInv, ReaderInv, C!Entry
  <1>2. CountInv
    BY DEF Init, CountInv, OwnersCounted, ResultUsable, Cached
  <1>3. QED
    BY <1>1, <1>2 DEF IInv, Protected

-----------------------------------------------------------------------------
(***************************************************************************)
(* What the mutexes protect, action by action.                             *)
(***************************************************************************)
LEMMA ProtectedBrowse ==
  ASSUME Protected, NEW r \in Reader, Browse(r)
  PROVE  Protected'
  BY DEF Protected, ShapeInv, LockInv, ReaderInv, Browse, Goto, cacheVars

LEMMA ProtectedCacheGet ==
  ASSUME Protected, NEW r \in Reader, CacheGet(r)
  PROVE  Protected'
  <1>1. /\ key[r] \in DOMAIN table'
        /\ DOMAIN table' \subseteq Key
        /\ \A j \in DOMAIN table' : table'[j] \in C!Entry
        /\ nextClean' \in Nat
    BY LookupFacts DEF CacheGet, Goto, Protected, ReaderInv
  <1>2. ShapeInv'
    BY <1>1 DEF Protected, ShapeInv, CacheGet, Goto, ReleaseCached
  <1>3. LockInv'
    BY DEF Protected, ShapeInv, LockInv, CacheGet, Goto
  <1>4. ReaderInv'
    BY <1>1 DEF Protected, ShapeInv, LockInv, ReaderInv, CacheGet, Goto
  <1>5. QED
    BY <1>2, <1>3, <1>4 DEF Protected

LEMMA ProtectedHit ==
  ASSUME Protected, NEW r \in Reader, Hit(r)
  PROVE  Protected'
  <1>1. /\ pc[r] = "cp" /\ key[r] \in DOMAIN table
        /\ table[key[r]].data \in Data
    BY DEF Hit, Goto, Protected, ShapeInv, ReaderInv, C!Entry
  <1>2. QED
    BY <1>1 DEF Protected, ShapeInv, LockInv, ReaderInv, Hit, Goto, Leave,
                cacheVars

(* What is stored is in the entry of the reader, which was empty.           *)
LEMMA StoreFacts ==
  ASSUME Protected, NEW r \in Reader, pc[r] = "cp",
         NEW d \in Data, C!Store(key[r], d, since[r])
  PROVE  /\ key[r] \in DOMAIN table
         /\ table[key[r]].data = Null
         /\ DOMAIN table' = DOMAIN table
         /\ \A j \in DOMAIN table' : table'[j] \in C!Entry
         /\ Cached' = Cached \cup {d}
         /\ born' \in [Data -> Nat]
  <1>1. key[r] \in DOMAIN table
    BY DEF Protected, ReaderInv
  <1>2. /\ table[key[r]].data = Null
        /\ DOMAIN table' = DOMAIN table
        /\ \A j \in DOMAIN table \ {key[r]} : table'[j] = table[j]
        /\ table'[key[r]] = [table[key[r]] EXCEPT !.data = d]
    BY <1>1 DEF C!Store
  <1>3. table'[key[r]] \in C!Entry /\ table'[key[r]].data = d
    BY <1>1, <1>2 DEF C!Entry, Protected, ShapeInv
  <1>4. \A j \in DOMAIN table' : table'[j] \in C!Entry
    BY <1>2, <1>3 DEF Protected, ShapeInv
  <1>5. Cached' = Cached \cup {d}
    <2>1. /\ DOMAIN table' = DOMAIN table /\ table[key[r]].data = Null
          /\ table'[key[r]].data = d
          /\ \A j \in DOMAIN table \ {key[r]} : table'[j].data = table[j].data
      BY <1>2, <1>3
    <2>2. \A e : e \in Cached' <=> e \in Cached \cup {d}
      BY <1>1, <2>1 DEF Cached
    <2>3. QED
      BY <2>2
  <1>6. born' \in [Data -> Nat]
    BY DEF C!Store, Protected, ShapeInv
  <1>7. QED
    BY <1>1, <1>2, <1>4, <1>5, <1>6

LEMMA ProtectedFetch ==
  ASSUME Protected, NEW r \in Reader, Fetch(r)
  PROVE  Protected'
  <1>1. PICK d \in Data \ alive :
          /\ C!Store(key[r], d, since[r])
          /\ alive' = alive \cup {d}
          /\ result' = [result EXCEPT ![r] = d]
    BY DEF Fetch
  <1>2. /\ DOMAIN table' = DOMAIN table
        /\ \A j \in DOMAIN table' : table'[j] \in C!Entry
        /\ born' \in [Data -> Nat]
    BY <1>1, StoreFacts DEF Fetch, Goto
  <1>3. QED
    BY <1>1, <1>2 DEF Protected, ShapeInv, LockInv, ReaderInv, Fetch, Goto, Leave

LEMMA ProtectedFetchFails ==
  ASSUME Protected, NEW r \in Reader, FetchFails(r)
  PROVE  Protected'
  BY DEF Protected, ShapeInv, LockInv, ReaderInv, FetchFails, Goto, Leave, cacheVars

LEMMA ProtectedDestroyStep ==
  ASSUME Protected, NEW r \in Reader, DestroyStep(r)
  PROVE  Protected'
  <1>1. CASE DestroyResult(r)
    BY <1>1 DEF Protected, ShapeInv, LockInv, ReaderInv, DestroyResult, cacheVars
  <1>2. CASE Drop(r)
    BY <1>2 DEF Protected, ShapeInv, LockInv, ReaderInv, Drop, Goto, cacheVars
  <1>3. CASE FreeLast(r)
    BY <1>3 DEF Protected, ShapeInv, LockInv, ReaderInv, FreeLast, Goto, cacheVars
  <1>4. QED
    BY <1>1, <1>2, <1>3 DEF DestroyStep

LEMMA ProtectedRemoveDevice ==
  ASSUME Protected, RemoveDevice
  PROVE  Protected'
  BY DEF Protected, ShapeInv, LockInv, ReaderInv, RemoveDevice, cacheVars

LEMMA ProtectedTick ==
  ASSUME Protected, Tick
  PROVE  Protected'
  BY DEF Protected, ShapeInv, LockInv, ReaderInv, Tick, cacheVars

-----------------------------------------------------------------------------
(***************************************************************************)
(* What the references count, action by action.                            *)
(***************************************************************************)
LEMMA CountBrowse ==
  ASSUME Protected, CountInv, NEW r \in Reader, Browse(r)
  PROVE  CountInv'
  BY DEF Protected, ShapeInv, CountInv, OwnersCounted, ResultUsable, Users,
         Cached, Browse, Goto, cacheVars

LEMMA CountCacheGet ==
  ASSUME Protected, CountInv, NEW r \in Reader, CacheGet(r)
  PROVE  CountInv'
  <1> DEFINE dropped == Cached \ Cached'
  <1>1. /\ alive' = alive \ {d \in dropped : refs[d] = 0}
        /\ refs' = [d \in Data |->
                      IF d \in dropped /\ refs[d] > 0 THEN refs[d] - 1 ELSE refs[d]]
        /\ pc[r] = "browse" /\ pc' = [pc EXCEPT ![r] = "cp"]
        /\ UNCHANGED <<result, present>>
        /\ cacheLock = Nobody
    BY DEF CacheGet, ReleaseCached, Goto, C!Released, C!Stored, Cached
  <1>2. present
    BY <1>1 DEF Protected, ReaderInv
  <1>3. Cached' \subseteq Cached
    BY LookupFacts DEF CacheGet, Goto, Protected, ReaderInv, Cached
  <1>4. \A d \in Data : Users(d)' = Users(d) /\ Cardinality(Users(d)) \in Nat
    BY <1>1, UsersFacts DEF Users
  <1>5. refs' \in [Data -> Nat]
    BY <1>1 DEF CountInv
  <1>6. Cached' \subseteq alive'
    BY <1>1, <1>2, <1>3 DEF CountInv
  <1>7. \A d \in Data \ alive' : refs'[d] = 0
    BY <1>1 DEF CountInv
  <1>8. \A q \in Reader : result'[q] # Null => result'[q] \in alive'
    <2> SUFFICES ASSUME NEW q \in Reader, result[q] # Null
                 PROVE  result[q] \in alive'
      BY <1>1
    <2>1. result[q] \in alive /\ result[q] \in Data
      BY DEF CountInv, OwnersCounted, ResultUsable, Protected, ShapeInv
    <2>2. Cardinality(Users(result[q])) > 0
      BY UsersFacts DEF Users
    <2>3. CASE result[q] \in dropped
      BY <1>1, <1>2, <1>4, <2>1, <2>2, <2>3 DEF CountInv, OwnersCounted
    <2>4. QED
      BY <1>1, <2>1, <2>3
  <1>9. ASSUME NEW d \in alive'
        PROVE  refs'[d] + 1 = Cardinality(Users(d))' + (IF d \in Cached' THEN 1 ELSE 0)
    <2>1. d \in alive /\ d \in Data /\ refs[d] \in Nat
      BY <1>1 DEF CountInv, Protected, ShapeInv
    <2>2. refs[d] + 1 = Cardinality(Users(d)) + (IF d \in Cached THEN 1 ELSE 0)
      BY <1>2, <2>1 DEF CountInv, OwnersCounted
    <2>3. CASE d \in dropped
      BY <1>1, <1>4, <2>1, <2>2, <2>3
    <2>4. CASE d \notin dropped
      BY <1>1, <1>3, <1>4, <2>1, <2>2, <2>4
    <2>5. QED
      BY <2>3, <2>4
  <1>10. \A q \in Reader : pc'[q] \notin {"drop", "free"}
    BY <1>1 DEF Protected, LockInv, ShapeInv
  <1>11. OwnersCounted'
    BY <1>8, <1>9, <1>2, <1>1 DEF OwnersCounted, ResultUsable
  <1>12. QED
    BY <1>5, <1>6, <1>7, <1>10, <1>11 DEF CountInv

LEMMA CountHit ==
  ASSUME Protected, CountInv, NEW r \in Reader, Hit(r)
  PROVE  CountInv'
  <1>1. PICK d \in Data : d = table[key[r]].data
    BY DEF Hit, Goto, Protected, ShapeInv, ReaderInv, C!Entry
  <1>2. /\ pc[r] = "cp" /\ pc' = [pc EXCEPT ![r] = "use"]
        /\ result' = [result EXCEPT ![r] = d]
        /\ refs' = [refs EXCEPT ![d] = @ + 1]
        /\ UNCHANGED <<alive, present, table>>
        /\ d # Null
    BY <1>1 DEF Hit, Goto, cacheVars
  <1>3. /\ present /\ result[r] = Null
        /\ d \in Cached /\ d \in Data /\ d \in alive
        /\ Cached' = Cached
    BY <1>1, <1>2 DEF Protected, ShapeInv, ReaderInv, Cached, CountInv
  <1>4. /\ Cardinality(Users(d))' = Cardinality(Users(d)) + 1
        /\ \A e \in Data \ {d} : Cardinality(Users(e))' = Cardinality(Users(e))
    BY <1>2, <1>3, UserAdded DEF Protected
  <1>5. \A e \in Data : Cardinality(Users(e)) \in Nat
    BY UsersFacts
  <1>6. \A q \in Reader \ {r} : pc[q] \notin {"drop", "free"}
    BY <1>2 DEF Protected, LockInv
  <1>7. /\ refs' \in [Data -> Nat]
        /\ Cached' \subseteq alive'
        /\ \A e \in Data \ alive' : refs'[e] = 0
        /\ ResultUsable'
    BY <1>2, <1>3 DEF CountInv, OwnersCounted, ResultUsable, Protected, ShapeInv
  <1>8. \A e \in alive' :
          refs'[e] + 1 = Cardinality(Users(e))' + (IF present' /\ e \in Cached' THEN 1 ELSE 0)
    BY <1>2, <1>3, <1>4, <1>5 DEF CountInv, OwnersCounted, Protected, ShapeInv
  <1>9. \A q \in Reader : pc'[q] \notin {"drop", "free"}
    BY <1>2, <1>6 DEF Protected, ShapeInv
  <1>10. QED
    BY <1>7, <1>8, <1>9 DEF CountInv, OwnersCounted

LEMMA CountFetch ==
  ASSUME Protected, CountInv, NEW r \in Reader, Fetch(r)
  PROVE  CountInv'
  <1>1. PICK d \in Data \ alive :
          /\ C!Store(key[r], d, since[r])
          /\ alive' = alive \cup {d}
          /\ refs' = [refs EXCEPT ![d] = 1]
          /\ result' = [result EXCEPT ![r] = d]
    BY DEF Fetch
  <1>2. pc[r] = "cp" /\ pc' = [pc EXCEPT ![r] = "use"] /\ present' = present
    BY DEF Fetch, Goto
  <1>3. /\ present /\ result[r] = Null
        /\ Cached' = Cached \cup {d} /\ Cached \subseteq alive
        /\ Users(d) = {}
    BY <1>1, <1>2, StoreFacts
       DEF Protected, ReaderInv, CountInv, OwnersCounted, ResultUsable, Users
  <1>4. /\ Cardinality(Users(d))' = Cardinality(Users(d)) + 1
        /\ \A e \in Data \ {d} : Cardinality(Users(e))' = Cardinality(Users(e))
    BY <1>1, <1>3, UserAdded DEF Protected
  <1>5. /\ \A e \in Data : Cardinality(Users(e)) \in Nat
        /\ Cardinality(Users(d)) = 0
    BY <1>3, UsersFacts
  <1>6. /\ refs' \in [Data -> Nat]
        /\ Cached' \subseteq alive'
        /\ \A e \in Data \ alive' : refs'[e] = 0
        /\ ResultUsable'
    BY <1>1, <1>3 DEF CountInv, OwnersCounted, ResultUsable, Protected, ShapeInv
  <1>7. ASSUME NEW e \in alive'
        PROVE  refs'[e] + 1 = Cardinality(Users(e))' + (IF present' /\ e \in Cached' THEN 1 ELSE 0)
    <2>1. CASE e = d
      BY <1>1, <1>2, <1>3, <1>4, <1>5, <2>1 DEF CountInv
    <2>2. CASE e # d
      <3>1. e \in alive /\ e \in Data /\ refs'[e] = refs[e]
        BY <1>1, <2>2 DEF Protected, ShapeInv, CountInv
      <3>2. refs[e] + 1 = Cardinality(Users(e)) + (IF present /\ e \in Cached THEN 1 ELSE 0)
        BY <3>1 DEF CountInv, OwnersCounted
      <3>3. QED
        BY <1>2, <1>3, <1>4, <2>2, <3>1, <3>2
    <2>3. QED
      BY <2>1, <2>2
  <1>8. \A q \in Reader : pc'[q] \notin {"drop", "free"}
    BY <1>2 DEF Protected, ShapeInv, LockInv
  <1>9. QED
    BY <1>6, <1>7, <1>8 DEF CountInv, OwnersCounted

LEMMA CountFetchFails ==
  ASSUME Protected, CountInv, NEW r \in Reader, FetchFails(r)
  PROVE  CountInv'
  BY DEF Protected, ShapeInv, CountInv, OwnersCounted, ResultUsable, Users,
         Cached, FetchFails, Goto, cacheVars

LEMMA CountDestroyResult ==
  ASSUME Protected, CountInv, NEW r \in Reader, DestroyResult(r)
  PROVE  CountInv'
  <1>1. result[r] \in Data
    BY DEF DestroyResult, Protected, ShapeInv, ReaderInv
  <1>2. OwnersCounted'
    BY DEF CountInv, OwnersCounted, ResultUsable, Users, Cached, DestroyResult, cacheVars
  <1>3. QED
    BY <1>1, <1>2 DEF Protected, ShapeInv, CountInv, Cached, DestroyResult, cacheVars

(* Another owner is left: the count was positive.                           *)
LEMMA CountDrop ==
  ASSUME Protected, CountInv, NEW r \in Reader, Drop(r)
  PROVE  CountInv'
  <1>1. PICK d \in Data : d = result[r]
    BY DEF Drop, FreeLast, Goto, Protected, ShapeInv, ReaderInv
  <1>2. /\ pc[r] = "drop" /\ pc' = [pc EXCEPT ![r] = "idle"]
        /\ result' = [result EXCEPT ![r] = Null]
        /\ refs' = [refs EXCEPT ![d] = @ - 1]
        /\ UNCHANGED <<alive, present, table>>
    BY <1>1 DEF Drop, Goto, cacheVars
  <1>3. /\ d \in Data /\ d \in alive /\ refs[d] > 0
        /\ Cached' = Cached
    BY <1>1, <1>2 DEF Protected, ShapeInv, ReaderInv, Cached, CountInv, OwnersCounted,
                ResultUsable
  <1>4. /\ Cardinality(Users(d))' = Cardinality(Users(d)) - 1
        /\ \A e \in Data \ {d} : Cardinality(Users(e))' = Cardinality(Users(e))
    BY <1>1, <1>2, <1>3, UserRemoved DEF Protected
  <1>5. \A e \in Data : Cardinality(Users(e)) \in Nat
    BY UsersFacts
  <1>6. /\ refs' \in [Data -> Nat]
        /\ present' => Cached' \subseteq alive'
        /\ \A e \in Data \ alive' : refs'[e] = 0
        /\ ResultUsable'
    BY <1>2, <1>3 DEF CountInv, OwnersCounted, ResultUsable, Protected, ShapeInv
  <1>7. \A e \in alive' :
          refs'[e] + 1 = Cardinality(Users(e))' + (IF present' /\ e \in Cached' THEN 1 ELSE 0)
    BY <1>2, <1>3, <1>4, <1>5 DEF CountInv, OwnersCounted, Protected, ShapeInv
  <1>8. \A q \in Reader : pc'[q] \notin {"drop", "free"}
    BY <1>2 DEF Protected, ShapeInv, LockInv
  <1>9. QED
    BY <1>6, <1>7, <1>8 DEF CountInv, OwnersCounted

(* The last owner: the count was zero, so that nobody else uses the result  *)
(* and the cache does not hold it.                                          *)
LEMMA CountFreeLast ==
  ASSUME Protected, CountInv, NEW r \in Reader, FreeLast(r)
  PROVE  CountInv'
  <1>1. PICK d \in Data : d = result[r]
    BY DEF Drop, FreeLast, Goto, Protected, ShapeInv, ReaderInv
  <1>2. /\ pc[r] = "free" /\ pc' = [pc EXCEPT ![r] = "idle"]
        /\ result' = [result EXCEPT ![r] = Null]
        /\ alive' = alive \ {d}
        /\ UNCHANGED <<refs, present, table>>
    BY <1>1 DEF FreeLast, Goto, cacheVars
  <1>3. /\ d \in Data /\ d \in alive /\ refs[d] = 0
        /\ Cached' = Cached
    BY <1>1, <1>2 DEF Protected, ShapeInv, ReaderInv, Cached, CountInv, OwnersCounted,
                ResultUsable
  <1>4. Cardinality(Users(d)) > 0 /\ Cardinality(Users(d)) \in Nat
    BY <1>1, UsersFacts DEF Users
  <1>5. /\ Cardinality(Users(d)) = 1
        /\ ~(present /\ d \in Cached)
    BY <1>3, <1>4 DEF CountInv, OwnersCounted
  <1>6. /\ Cardinality(Users(d))' = 0
        /\ \A e \in Data \ {d} : Cardinality(Users(e))' = Cardinality(Users(e))
    <2>1. /\ Cardinality(Users(d))' = Cardinality(Users(d)) - 1
          /\ \A e \in Data \ {d} : Cardinality(Users(e))' = Cardinality(Users(e))
      BY <1>1, <1>2, <1>3, UserRemoved DEF Protected
    <2>2. QED
      BY <1>5, <2>1
  <1>7. Users(d)' = {}
    <2>1. IsFiniteSet(Users(d)')
      BY FS_Subset DEF Users
    <2>2. QED
      BY <1>6, <2>1, FS_EmptySet
  <1>8. ResultUsable'
    BY <1>2, <1>7 DEF CountInv, OwnersCounted, ResultUsable, Users, Protected, ShapeInv
  <1>9. /\ refs' \in [Data -> Nat]
        /\ present' => Cached' \subseteq alive'
        /\ \A e \in Data \ alive' : refs'[e] = 0
    BY <1>2, <1>3, <1>5 DEF CountInv
  <1>10. \A e \in alive' :
          refs'[e] + 1 = Cardinality(Users(e))' + (IF present' /\ e \in Cached' THEN 1 ELSE 0)
    BY <1>2, <1>3, <1>6 DEF CountInv, OwnersCounted, Protected, ShapeInv
  <1>11. \A q \in Reader : pc'[q] \notin {"drop", "free"}
    BY <1>2 DEF Protected, ShapeInv, LockInv
  <1>12. QED
    BY <1>8, <1>9, <1>10, <1>11 DEF CountInv, OwnersCounted

(* No result is in use: the device owns everything alone and frees it.      *)
LEMMA CountRemoveDevice ==
  ASSUME Protected, CountInv, RemoveDevice, Quiet
  PROVE  CountInv'
  <1>1. /\ present /\ present' = FALSE
        /\ \A r \in Reader : result[r] = Null
        /\ alive' = {d \in alive : refs[d] >= Contexts}
        /\ refs' = [d \in Data |-> IF refs[d] >= Contexts THEN refs[d] - Contexts ELSE 0]
        /\ UNCHANGED <<pc, result, table>>
    BY DEF RemoveDevice, cacheVars
  <1>2. \A d \in alive : d \in Data /\ Users(d) = {} /\ Cardinality(Users(d)) = 0
    <2>1. \A d \in alive : d \in Data /\ Users(d) = {}
      BY <1>1 DEF Users, Protected, ShapeInv
    <2>2. QED
      BY <2>1, UsersFacts
  <1>3. \A d \in alive : refs[d] = 0
    BY <1>1, <1>2 DEF CountInv, OwnersCounted
  <1>4. alive' = {}
    BY <1>1, <1>3 DEF Contexts
  <1>5. refs' = [d \in Data |-> 0]
    BY <1>1, <1>3 DEF Contexts, CountInv
  <1>6. \A q \in Reader : pc[q] \notin {"drop", "free"}
    BY <1>1 DEF Protected, ReaderInv
  <1>7. OwnersCounted'
    BY <1>1, <1>4 DEF OwnersCounted, ResultUsable
  <1>8. QED
    BY <1>1, <1>4, <1>5, <1>6, <1>7 DEF CountInv

LEMMA CountTick ==
  ASSUME Protected, CountInv, Tick
  PROVE  CountInv'
  BY DEF CountInv, OwnersCounted, ResultUsable, Users, Cached, Tick, cacheVars

-----------------------------------------------------------------------------
LEMMA Inductive == IInv /\ [Next]_vars => IInv'
  <1> SUFFICES ASSUME IInv, [Next]_vars PROVE IInv'
    OBVIOUS
  <1>1. Protected
    BY DEF IInv
  <1>2. ASSUME NEW r \in Reader, Browse(r) PROVE IInv'
    BY <1>1, <1>2, ProtectedBrowse, CountBrowse DEF IInv, Browse
  <1>3. ASSUME NEW r \in Reader, CacheGet(r) PROVE IInv'
    BY <1>1, <1>3, ProtectedCacheGet, CountCacheGet DEF IInv, CacheGet
  <1>4. ASSUME NEW r \in Reader, Hit(r) PROVE IInv'
    BY <1>1, <1>4, ProtectedHit, CountHit DEF IInv, Hit
  <1>5. ASSUME NEW r \in Reader, Fetch(r) PROVE IInv'
    BY <1>1, <1>5, ProtectedFetch, CountFetch DEF IInv, Fetch
  <1>6. ASSUME NEW r \in Reader, FetchFails(r) PROVE IInv'
    BY <1>1, <1>6, ProtectedFetchFails, CountFetchFails DEF IInv, FetchFails
  <1>7. ASSUME NEW r \in Reader, DestroyStep(r) PROVE IInv'
    <2>1. Protected' /\ present' = present
      BY <1>1, <1>7, ProtectedDestroyStep DEF DestroyStep, DestroyResult, Drop, FreeLast
    <2>2. CountInv => CountInv'
      BY <1>1, <1>7, CountDestroyResult, CountDrop, CountFreeLast DEF DestroyStep
    <2>3. QED
      BY <2>1, <2>2 DEF IInv
  <1>8. CASE RemoveDevice
    BY <1>1, <1>8, ProtectedRemoveDevice, CountRemoveDevice DEF IInv, RemoveDevice
  <1>9. CASE Tick
    BY <1>1, <1>9, ProtectedTick, CountTick DEF IInv, Tick
  <1>10. CASE UNCHANGED vars
    BY <1>10 DEF IInv, Protected, ShapeInv, LockInv, ReaderInv, CountInv,
                OwnersCounted, ResultUsable, Users, Cached, vars, cacheVars
  <1>11. QED
    BY <1>2, <1>3, <1>4, <1>5, <1>6, <1>7, <1>8, <1>9, <1>10 DEF Next, BrowseStep

LEMMA Invariance == Spec => []IInv
  BY Initial, Inductive, PTL DEF Spec

(* Every variable keeps its type as long as no device leaves under a user.  *)
THEOREM TypeCorrect ==
  ASSUME Quiet
  PROVE  Spec => []TypeOK
  <1>1. IInv => TypeOK
    BY DEF IInv, Protected, ShapeInv, CountInv, TypeOK
  <1>2. QED
    BY <1>1, Invariance, PTL

(* Children belong to the results that use them and to the entry that holds *)
(* them, and are freed by the last of these owners.                         *)
THEOREM CountsOwners ==
  ASSUME Quiet
  PROVE  Spec => []OwnersCounted
  <1>1. IInv => OwnersCounted
    BY DEF IInv, CountInv
  <1>2. QED
    BY <1>1, Invariance, PTL

(* Until the device leaves, even with results in use, what a result refers  *)
(* to is allocated.                                                         *)
THEOREM UsableWhilePresent == Spec => [](present => ResultUsable)
  <1>1. IInv => (present => ResultUsable)
    BY DEF IInv, CountInv, OwnersCounted
  <1>2. QED
    BY <1>1, Invariance, PTL

-----------------------------------------------------------------------------
(***************************************************************************)
(* The cache is used as if by one thread.                                  *)
(***************************************************************************)
(* The reader that looks up is the only one.                                *)
LEMMA LookingFacts ==
  ASSUME Protected, NEW r \in Reader, pc[r] = "cp"
  PROVE  Looking = {r} /\ Slot = key[r] /\ Asked = since[r]
  <1>1. Looking = {r}
    BY DEF Looking, Protected, LockInv
  <1>2. QED
    BY <1>1 DEF Slot, Asked

LEMMA CacheUnchanged ==
  ASSUME Looking' = Looking, UNCHANGED <<now, cacheVars>>,
         \A r \in Looking : key'[r] = key[r] /\ since'[r] = since[r]
  PROVE  UNCHANGED C!vars
  <1>1. Slot' = Slot /\ Asked' = Asked
    BY DEF Slot, Asked
  <1>2. QED
    BY <1>1 DEF C!vars, C!cacheVars, cacheVars, Cached

LEMMA CacheGetIsGet ==
  ASSUME IInv, IInv', NEW r \in Reader, CacheGet(r)
  PROVE  C!Get(key[r])
  <1>1. Protected' /\ pc'[r] = "cp"
    BY DEF IInv, CacheGet, Goto, Protected, ShapeInv
  <1>2. Slot' = key'[r] /\ Asked' = since'[r]
    <2>1. Looking' = {r}
      BY <1>1 DEF Looking, Protected, LockInv
    <2>2. QED
      BY <2>1 DEF Slot, Asked
  <1>3. key'[r] = key[r] /\ since'[r] = now
    BY DEF CacheGet, IInv, Protected, ShapeInv
  <1>4. Cached' = Cached \ C!Released
    <2>1. Cached' \subseteq Cached
      BY LookupFacts DEF CacheGet, Goto, IInv, Protected, ReaderInv, Cached
    <2>2. QED
      BY <2>1 DEF C!Released, C!Stored, Cached
  <1>5. QED
    BY <1>2, <1>3, <1>4 DEF C!Get, CacheGet

LEMMA FetchIsSet ==
  ASSUME IInv, IInv', NEW r \in Reader, Fetch(r)
  PROVE  C!Set
  <1>1. PICK d \in Data \ alive : C!Store(key[r], d, since[r])
    BY DEF Fetch
  <1>2. /\ pc[r] = "cp" /\ pc' = [pc EXCEPT ![r] = "use"]
        /\ UNCHANGED <<now, nextClean>>
    BY DEF Fetch, Goto
  <1>3. Slot = key[r] /\ Asked = since[r] /\ Looking = {r} /\ Slot # NoKey
    BY <1>2, LookingFacts DEF IInv, Protected, ReaderInv
  <1>4. Looking' = {}
    BY <1>2, <1>3 DEF Looking, IInv, Protected, ShapeInv
  <1>5. Slot' = NoKey /\ Asked' = 0
    BY <1>4 DEF Slot, Asked
  <1>6. Cached' = Cached \cup {d} /\ d \in Data \ Cached
    BY <1>1, <1>2, StoreFacts DEF IInv, Protected, ReaderInv, CountInv
  <1>7. QED
    BY <1>1, <1>2, <1>3, <1>5, <1>6 DEF C!Set

LEMMA LookupEnds ==
  ASSUME IInv, NEW r \in Reader, Hit(r) \/ FetchFails(r)
  PROVE  C!Leave
  <1>1. /\ pc[r] = "cp" /\ pc' \in {[pc EXCEPT ![r] = "use"], [pc EXCEPT ![r] = "idle"]}
        /\ UNCHANGED <<now, cacheVars>>
    BY DEF Hit, FetchFails, Goto
  <1>2. Slot = key[r] /\ Looking = {r} /\ Slot # NoKey
    BY <1>1, LookingFacts DEF IInv, Protected, ReaderInv
  <1>3. Looking' = {}
    BY <1>1, <1>2 DEF Looking, IInv, Protected, ShapeInv
  <1>4. Slot' = NoKey /\ Asked' = 0
    BY <1>3 DEF Slot, Asked
  <1>5. QED
    BY <1>1, <1>2, <1>4 DEF C!Leave, cacheVars, Cached

(* No lookup of another thread comes between that of a thread and what it   *)
(* stores, whenever the device leaves: Browse implements the cache of one   *)
(* thread, step by step.                                                    *)
THEOREM CacheUsedAlone == Spec => UsesCacheAlone
  <1>1. Init => C!Init
    <2> SUFFICES ASSUME Init PROVE C!Init
      OBVIOUS
    <2>1. Looking = {} /\ Cached = {}
      BY DEF Init, Looking, Cached
    <2>2. QED
      BY <2>1 DEF Init, C!Init, Slot, Asked
  <1>2. IInv /\ IInv' /\ [Next]_vars => [C!Next]_(C!vars)
    <2> SUFFICES ASSUME IInv, IInv', [Next]_vars PROVE [C!Next]_(C!vars)
      OBVIOUS
    <2>1. Protected
      BY DEF IInv
    <2>2. ASSUME NEW r \in Reader, Browse(r) PROVE UNCHANGED C!vars
      BY <2>1, <2>2, CacheUnchanged
         DEF Browse, Goto, Looking, Protected, ShapeInv
    <2>3. ASSUME NEW r \in Reader, CacheGet(r) PROVE C!Next
      <3>1. key[r] \in Key
        BY <2>1, <2>3 DEF CacheGet, Goto, Protected, ReaderInv
      <3>2. QED
        BY <2>3, <3>1, CacheGetIsGet DEF C!Next
    <2>4. ASSUME NEW r \in Reader, Fetch(r) PROVE C!Next
      BY <2>4, FetchIsSet DEF C!Next
    <2>5. ASSUME NEW r \in Reader, Hit(r) \/ FetchFails(r) PROVE C!Next
      BY <2>5, LookupEnds DEF C!Next
    <2>6. ASSUME NEW r \in Reader, DestroyStep(r) PROVE UNCHANGED C!vars
      BY <2>1, <2>6, CacheUnchanged
         DEF DestroyStep, DestroyResult, Drop, FreeLast, Goto, Looking, Protected, ShapeInv
    <2>7. CASE RemoveDevice
      BY <2>7, CacheUnchanged DEF RemoveDevice, Looking
    <2>8. CASE Tick
      <3>1. Looking' = Looking /\ Slot' = Slot /\ Asked' = Asked
        BY <2>8 DEF Tick, Looking, Slot, Asked
      <3>2. QED
        BY <2>8, <3>1 DEF Tick, C!Next, C!Tick, C!cacheVars, cacheVars, Cached
    <2>9. CASE UNCHANGED vars
      BY <2>9, CacheUnchanged DEF vars, Looking
    <2>10. QED
      BY <2>2, <2>3, <2>4, <2>5, <2>6, <2>7, <2>8, <2>9 DEF Next, BrowseStep
  <1>3. QED
    BY <1>1, <1>2, Invariance, PTL DEF Spec, UsesCacheAlone, C!Spec

-----------------------------------------------------------------------------
(* What is proved of the cache holds of the cache as Browse uses it.        *)
CP == INSTANCE CacheProofs WITH slot <- Slot, asked <- Asked, alive <- Cached

(* However many threads browse, what a lookup finds was asked for at most   *)
(* MaxAge before.                                                           *)
BrowseFresh ==
  \A r \in Reader :
    MaxAge > 0 /\ pc[r] = "cp" /\ table[key[r]].data # Null =>
      since[r] - born[table[key[r]].data] <= MaxAge

THEOREM BrowsedFresh == Spec => []BrowseFresh
  <1>1. Spec => []C!ServedFresh
    <2>1. C!Init => CP!Init
      BY DEF C!Init, CP!Init
    <2>2. [C!Next]_(C!vars) => [CP!Next]_(CP!vars)
      <3>1. C!Next => CP!Next
        BY DEF C!Next, C!Get, C!Lookup, C!Hit, C!Expired, C!New, C!Valid,
               C!ExpireEntries, C!CleanDue, C!Remaining, C!Stale, C!Put,
               C!NewEntry, C!Released, C!Stored, C!Set, C!Store, C!Leave,
               C!Purge, C!Tick, C!cacheVars,
               CP!Next, CP!Get, CP!Lookup, CP!Hit, CP!Expired, CP!New, CP!Valid,
               CP!ExpireEntries, CP!CleanDue, CP!Remaining, CP!Stale, CP!Put,
               CP!NewEntry, CP!Released, CP!Stored, CP!Set, CP!Store, CP!Leave,
               CP!Purge, CP!Tick, CP!cacheVars
      <3>2. QED
        BY <3>1 DEF C!vars, CP!vars, C!cacheVars, CP!cacheVars
    <2>3. CP!ServedFresh => C!ServedFresh
      BY DEF CP!ServedFresh, C!ServedFresh
    <2>4. CP!Spec => []CP!ServedFresh
      BY CP!NeverTooOld
    <2>5. QED
      BY <2>1, <2>2, <2>3, <2>4, CacheUsedAlone, PTL
      DEF UsesCacheAlone, C!Spec, CP!Spec
  <1>2. IInv /\ C!ServedFresh => BrowseFresh
    BY LookingFacts DEF IInv, Protected, ReaderInv, C!ServedFresh, BrowseFresh
  <1>3. QED
    BY <1>1, <1>2, Invariance, PTL
=============================================================================
