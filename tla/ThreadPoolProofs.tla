-------------------------- MODULE ThreadPoolProofs --------------------------
(***************************************************************************)
(* The safety properties of the thread pool for all numbers of threads and *)
(* jobs.  The invariant says where each job is, which thread counts for    *)
(* which counter, and, as long as no two CreateWorker overlap and no thread *)
(* leaves during one (~crossed), that there is one thread at most between  *)
(* its creation and its start, and that its creator still waits for it.    *)
(***************************************************************************)
EXTENDS ThreadPool, FiniteSetTheorems, SequenceTheorems, TLAPS

USE ThreadsAssumption, JobsAssumption

Persistent == {w \in Worker : work[w].persistent}
Running    == {w \in Worker : work[w].pc = "running"}

(* What a thread is while it is in some place of its loop, and what a call  *)
(* of a thread is a call of.                                                *)
ThreadInv ==
  /\ \A w \in Worker :
       /\ work[w].persistent => work[w].pc \in {"running", "top"}
       /\ work[w].pc = "running" => work[w].job \in Job
       /\ call[w].pc \in {"idle", "add"}
       /\ call[w].pc = "add" => work[w].pc = "running"
  /\ call[Main].pc # "add"

(* No job is twice in the queues q.                                         *)
Sound(q) ==
  /\ q \in [Level -> Seq(Job)]
  /\ \A l \in Level : IsInjective(q[l])
  /\ \A l, m \in Level : l # m => ToSet(q[l]) \cap ToSet(q[m]) = {}

AllOf(q) == ToSet(q["high"]) \cup ToSet(q["med"]) \cup ToSet(q["low"])

(* A job that is held is in a queue, in the slot or run by one thread.      *)
JobInv ==
  /\ Sound(queue)
  /\ \A v, w \in Running : work[v].job = work[w].job => v = w
  /\ \A w \in Running : work[w].job # slot /\ work[w].job \notin AllOf(queue)
  /\ slot \notin AllOf(queue)
  /\ held = AllOf(queue) \cup {work[w].job : w \in Running} \cup ({slot} \ {NoJob})

(* The slot is filled by a call that waits until it is empty.               *)
SlotInv ==
  /\ slot # NoJob => call[Main].pc = "slot"
  /\ call[Main].pc = "lasting" => call[Main].job \in Lasting \ held

(* What is queued after the shutdown came after it, and when it is over, no *)
(* thread runs a job.                                                       *)
ShutdownInv ==
  /\ shutdown <=> call[Main].pc \in {"drain", "over"}
  /\ IF shutdown THEN AllOf(queue) \subseteq late ELSE late = {}
  /\ call[Main].pc = "over" => Running = {}

(* The one thread that is starting has the one CreateWorker waiting for it. *)
CreatorInv ==
  ~crossed =>
    /\ \A c, d \in InCreateWorker : c = d
    /\ \A v, w \in With("starting") : v = w
    /\ With("starting") # {} => \E c \in InCreateWorker : call[c].current = total + 1
    /\ Cardinality(Alive \cup With("starting")) <= MaxThreads

StartedInv ==
  call[Main].pc \notin {"init", "failed"} /\ ~shutdown => total >= MinThreads

IInv ==
  /\ TypeOK /\ CountsExact /\ ThreadInv /\ JobInv /\ SlotInv /\ ShutdownInv
  /\ CreatorInv /\ StartedInv

-----------------------------------------------------------------------------
(***************************************************************************)
(* The operators on queues.                                                *)
(***************************************************************************)
(* A set of naturals has a least member.                                    *)
LEMMA Least ==
  ASSUME NEW S \in SUBSET Nat, S # {}
  PROVE  \E i \in S : \A k \in S : i <= k
  <1>1. PICK i \in S : \A k \in S : ~(<<k, i>> \in OpToRel(<, Nat))
    BY NatLessThanWellFounded, WFMin
  <1>2. \A k \in S : ~(k < i)
    BY <1>1 DEF OpToRel
  <1>3. QED
    BY <1>2

LEMMA PrefixBounded ==
  ASSUME NEW s \in Seq(Job), NEW limit
  PROVE  Prefix(s, limit) \in 0..Len(s)
  <1> DEFINE fresh == {i \in DOMAIN s : age[s[i]] < limit}
             first == CHOOSE i \in fresh : \A k \in fresh : i <= k
  <1>1. fresh \subseteq 1..Len(s) /\ Len(s) \in Nat
    BY LenProperties
  <1>2. CASE fresh = {}
    BY <1>1, <1>2 DEF Prefix
  <1>3. CASE fresh # {}
    <2>1. first \in fresh
      <3>1. fresh \in SUBSET Nat
        BY <1>1
      <3>2. \E i \in fresh : \A k \in fresh : i <= k
        BY <1>3, <3>1, Least
      <3> HIDE DEF fresh
      <3>3. QED
        BY <3>2
    <2>2. first - 1 \in 0..Len(s)
      BY <1>1, <2>1
    <2>3. Prefix(s, limit) = first - 1
      BY <1>3 DEF Prefix
    <2>4. QED
      BY <2>2, <2>3
  <1>4. QED
    BY <1>2, <1>3

(* Cutting a queue in two keeps its jobs, each in one part.                 *)
LEMMA CutFacts ==
  ASSUME NEW s \in Seq(Job), IsInjective(s), NEW n \in 0..Len(s)
  PROVE  /\ Starved(s, n) \in Seq(Job) /\ Others(s, n) \in Seq(Job)
         /\ IsInjective(Starved(s, n)) /\ IsInjective(Others(s, n))
         /\ ToSet(Starved(s, n)) \cap ToSet(Others(s, n)) = {}
         /\ ToSet(Starved(s, n)) \cup ToSet(Others(s, n)) = ToSet(s)
  <1> DEFINE a == Starved(s, n)
             b == Others(s, n)
  <1>0. Len(s) \in Nat /\ n \in Nat /\ n <= Len(s) /\ DOMAIN s = 1..Len(s)
        /\ \A i \in 1..Len(s) : s[i] \in Job
    BY LenProperties
  <1>1. /\ a \in Seq(Job) /\ Len(a) = n /\ DOMAIN a = 1..n
        /\ \A i \in 1..n : a[i] = s[i]
    <2>1. /\ SubSeq(s, 1, n) \in Seq(Job)
          /\ Len(SubSeq(s, 1, n)) = IF 1 <= n THEN n - 1 + 1 ELSE 0
          /\ \A i \in 1..(n - 1 + 1) : SubSeq(s, 1, n)[i] = s[1 + i - 1]
      BY <1>0, SubSeqProperties
    <2>2. QED
      BY <1>0, <2>1, LenProperties DEF Starved
  <1>2. /\ b \in Seq(Job) /\ Len(b) = Len(s) - n /\ DOMAIN b = 1..(Len(s) - n)
        /\ \A i \in 1..(Len(s) - n) : b[i] = s[n + i]
    <2>1. /\ SubSeq(s, n + 1, Len(s)) \in Seq(Job)
          /\ Len(SubSeq(s, n + 1, Len(s))) = IF n + 1 <= Len(s) THEN Len(s) - (n + 1) + 1 ELSE 0
          /\ \A i \in 1..(Len(s) - (n + 1) + 1) : SubSeq(s, n + 1, Len(s))[i] = s[(n + 1) + i - 1]
      BY <1>0, SubSeqProperties
    <2>2. Len(s) - (n + 1) + 1 = Len(s) - n
      BY <1>0
    <2>3. \A i \in 1..(Len(s) - n) : (n + 1) + i - 1 = n + i
      BY <1>0
    <2>4. Len(SubSeq(s, n + 1, Len(s))) = Len(s) - n
      <3>1. CASE n + 1 <= Len(s)
        BY <2>1, <2>2, <3>1
      <3>2. CASE ~(n + 1 <= Len(s))
        <4>0. \A p, q \in Nat : p <= q /\ ~(p + 1 <= q) => p = q
          OBVIOUS
        <4>1. n = Len(s)
          BY <1>0, <3>2, <4>0
        <4>2. Len(SubSeq(s, n + 1, Len(s))) = 0 /\ Len(s) - n = 0
          BY <1>0, <2>1, <3>2, <4>1
        <4>3. QED
          BY <4>2
      <3>3. QED
        BY <3>1, <3>2
    <2>5. b \in Seq(Job) /\ Len(b) = Len(s) - n
      BY <2>1, <2>4 DEF Others
    <2>6. DOMAIN b = 1..(Len(s) - n)
      BY <2>5, LenProperties
    <2>7. \A i \in 1..(Len(s) - n) : b[i] = s[n + i]
      BY <2>1, <2>2, <2>3 DEF Others
    <2>8. QED
      BY <2>5, <2>6, <2>7
  <1> HIDE DEF a, b
  <1>10. \A i \in DOMAIN a : i \in DOMAIN s /\ i \in Int /\ i <= n /\ a[i] = s[i]
    BY <1>0, <1>1
  <1>11. \A i \in DOMAIN b : n + i \in DOMAIN s /\ i \in Int /\ i >= 1 /\ b[i] = s[n + i]
    BY <1>0, <1>2
  <1>3. IsInjective(a)
    BY <1>10 DEF IsInjective
  <1>4. IsInjective(b)
    <2>1. ASSUME NEW i \in DOMAIN b, NEW k \in DOMAIN b, b[i] = b[k] PROVE i = k
      <3>1. n + i = n + k
        BY <1>11, <2>1 DEF IsInjective
      <3>2. QED
        BY <1>0, <1>11, <3>1
    <2>2. QED
      BY <2>1 DEF IsInjective
  <1>5. ToSet(a) \cap ToSet(b) = {}
    <2>1. ASSUME NEW i \in DOMAIN a, NEW k \in DOMAIN b, a[i] = b[k] PROVE FALSE
      <3>1. i = n + k
        BY <1>10, <1>11, <2>1 DEF IsInjective
      <3>2. QED
        BY <1>0, <1>10, <1>11, <3>1
    <2>2. QED
      BY <2>1 DEF ToSet
  <1>6. ToSet(a) \cup ToSet(b) = ToSet(s)
    <2>1. ToSet(a) \subseteq ToSet(s) /\ ToSet(b) \subseteq ToSet(s)
      BY <1>10, <1>11 DEF ToSet
    <2>2. ASSUME NEW i \in 1..Len(s) PROVE s[i] \in ToSet(a) \cup ToSet(b)
      <3>1. CASE i <= n
        BY <1>0, <1>1, <3>1 DEF ToSet
      <3>2. CASE ~(i <= n)
        <4>1. i - n \in DOMAIN b /\ b[i - n] = s[i]
          BY <1>0, <1>2, <3>2
        <4>2. QED
          BY <4>1 DEF ToSet
      <3>3. QED
        BY <3>1, <3>2
    <2>3. QED
      BY <1>0, <2>1, <2>2 DEF ToSet
  <1>7. QED
    BY <1>1, <1>2, <1>3, <1>4, <1>5, <1>6 DEF a, b

(* So does joining two queues without a job in common.                      *)
LEMMA JoinFacts ==
  ASSUME NEW s \in Seq(Job), NEW t \in Seq(Job),
         IsInjective(s), IsInjective(t), ToSet(s) \cap ToSet(t) = {}
  PROVE  /\ s \o t \in Seq(Job)
         /\ IsInjective(s \o t)
         /\ ToSet(s \o t) = ToSet(s) \cup ToSet(t)
  <1> DEFINE u == s \o t
  <1>0. /\ Len(s) \in Nat /\ Len(t) \in Nat
        /\ DOMAIN s = 1..Len(s) /\ DOMAIN t = 1..Len(t)
    BY LenProperties
  <1>1. /\ u \in Seq(Job) /\ Len(u) = Len(s) + Len(t)
        /\ DOMAIN u = 1..(Len(s) + Len(t))
        /\ \A i \in 1..(Len(s) + Len(t)) : u[i] = IF i <= Len(s) THEN s[i] ELSE t[i - Len(s)]
    BY ConcatProperties, LenProperties
  <1> HIDE DEF u
  <1>2. \A i \in DOMAIN u :
          \/ i \in DOMAIN s /\ u[i] = s[i] /\ u[i] \in ToSet(s)
          \/ i - Len(s) \in DOMAIN t /\ i > Len(s) /\ u[i] = t[i - Len(s)] /\ u[i] \in ToSet(t)
    BY <1>0, <1>1 DEF ToSet
  <1>3. \A i \in DOMAIN s : i \in DOMAIN u /\ u[i] = s[i]
    BY <1>0, <1>1
  <1>4. \A i \in DOMAIN t : i + Len(s) \in DOMAIN u /\ u[i + Len(s)] = t[i]
    BY <1>0, <1>1
  <1>5. ToSet(u) = ToSet(s) \cup ToSet(t)
    <2>1. ToSet(u) \subseteq ToSet(s) \cup ToSet(t)
      BY <1>2 DEF ToSet
    <2>2. ToSet(s) \subseteq ToSet(u)
      BY <1>3 DEF ToSet
    <2>3. ToSet(t) \subseteq ToSet(u)
      BY <1>4 DEF ToSet
    <2>4. QED
      BY <2>1, <2>2, <2>3
  <1>6. IsInjective(u)
    <2> SUFFICES ASSUME NEW i \in DOMAIN u, NEW k \in DOMAIN u, u[i] = u[k]
                 PROVE  i = k
      BY DEF IsInjective
    <2>1. i \in Int /\ k \in Int
      BY <1>0, <1>1
    <2>2. CASE i \in DOMAIN s /\ u[i] = s[i] /\ u[i] \in ToSet(s)
      BY <1>2, <2>2 DEF IsInjective
    <2>3. CASE i - Len(s) \in DOMAIN t /\ i > Len(s) /\ u[i] = t[i - Len(s)] /\ u[i] \in ToSet(t)
      <3>1. k - Len(s) \in DOMAIN t /\ u[k] = t[k - Len(s)]
        BY <1>2, <2>3
      <3>2. i - Len(s) = k - Len(s)
        BY <2>3, <3>1 DEF IsInjective
      <3>3. QED
        BY <1>0, <2>1, <3>2
    <2>4. QED
      BY <1>2, <2>2, <2>3
  <1>7. QED
    BY <1>1, <1>5, <1>6 DEF u

LEMMA EmptyFacts ==
  /\ <<>> \in Seq(Job) /\ IsInjective(<<>>) /\ ToSet(<<>>) = {}
  /\ \A s \in Seq(Job) : s # <<>> <=> ToSet(s) # {}
  <1>1. <<>> \in Seq(Job) /\ IsInjective(<<>>) /\ ToSet(<<>>) = {}
    BY DEF IsInjective, ToSet
  <1>2. ASSUME NEW s \in Seq(Job), s # <<>> PROVE ToSet(s) # {}
    <2>1. Len(s) \in Nat \ {0} /\ DOMAIN s = 1..Len(s)
      BY <1>2, EmptySeq, LenProperties
    <2>2. 1 \in DOMAIN s
      BY <2>1
    <2>3. QED
      BY <2>2 DEF ToSet
  <1>3. QED
    BY <1>1, <1>2

(* The head of a queue is a job that is not in its tail.                    *)
LEMMA TailFacts ==
  ASSUME NEW s \in Seq(Job), IsInjective(s), s # <<>>
  PROVE  /\ Head(s) \in Job
         /\ Tail(s) \in Seq(Job) /\ IsInjective(Tail(s))
         /\ ToSet(Tail(s)) = ToSet(s) \ {Head(s)}
         /\ Head(s) \in ToSet(s)
  <1> DEFINE t == Tail(s)
  <1>0. Len(s) \in Nat \ {0} /\ DOMAIN s = 1..Len(s) /\ Head(s) = s[1]
    BY EmptySeq, LenProperties
  <1>1. /\ Head(s) \in Job /\ t \in Seq(Job) /\ Len(t) = Len(s) - 1
        /\ DOMAIN t = 1..(Len(s) - 1)
        /\ \A i \in 1..(Len(s) - 1) : t[i] = s[i + 1]
    BY HeadTailProperties, LenProperties
  <1> HIDE DEF t
  <1>2. IsInjective(t)
    <2>1. ASSUME NEW i \in DOMAIN t, NEW k \in DOMAIN t, t[i] = t[k] PROVE i = k
      <3>1. i + 1 \in DOMAIN s /\ k + 1 \in DOMAIN s /\ s[i + 1] = s[k + 1]
        BY <1>0, <1>1, <2>1
      <3>2. i + 1 = k + 1 /\ i \in Int /\ k \in Int
        BY <1>1, <3>1 DEF IsInjective
      <3>3. QED
        BY <3>2
    <2>2. QED
      BY <2>1 DEF IsInjective
  <1>3. Head(s) \in ToSet(s)
    BY <1>0 DEF ToSet
  <1>4. ToSet(t) \subseteq ToSet(s) \ {Head(s)}
    <2>1. ASSUME NEW i \in DOMAIN t PROVE t[i] \in ToSet(s) \ {Head(s)}
      <3>1. i + 1 \in DOMAIN s /\ i + 1 # 1 /\ 1 \in DOMAIN s /\ t[i] = s[i + 1]
        BY <1>0, <1>1
      <3>2. QED
        BY <1>0, <3>1 DEF ToSet, IsInjective
    <2>2. QED
      BY <2>1 DEF ToSet
  <1>5. ToSet(s) \ {Head(s)} \subseteq ToSet(t)
    <2>1. ASSUME NEW i \in DOMAIN s, s[i] # Head(s) PROVE s[i] \in ToSet(t)
      <3>1. i - 1 \in DOMAIN t /\ t[i - 1] = s[i]
        BY <1>0, <1>1, <2>1
      <3>2. QED
        BY <3>1 DEF ToSet
    <2>2. QED
      BY <2>1 DEF ToSet
  <1>6. QED
    BY <1>1, <1>2, <1>3, <1>4, <1>5 DEF t

LEMMA AppendFacts ==
  ASSUME NEW s \in Seq(Job), IsInjective(s), NEW j \in Job, j \notin ToSet(s)
  PROVE  /\ Append(s, j) \in Seq(Job) /\ IsInjective(Append(s, j))
         /\ ToSet(Append(s, j)) = ToSet(s) \cup {j}
  <1> DEFINE t == Append(s, j)
  <1>0. Len(s) \in Nat /\ DOMAIN s = 1..Len(s)
    BY LenProperties
  <1>1. /\ t \in Seq(Job) /\ DOMAIN t = 1..(Len(s) + 1)
        /\ \A i \in 1..Len(s) : t[i] = s[i]
        /\ t[Len(s) + 1] = j
    BY AppendProperties, LenProperties
  <1> HIDE DEF t
  <1>2. DOMAIN t = DOMAIN s \cup {Len(s) + 1} /\ Len(s) + 1 \notin DOMAIN s
    BY <1>0, <1>1
  <1>3. ToSet(t) = ToSet(s) \cup {j}
    BY <1>0, <1>1, <1>2 DEF ToSet
  <1>4. IsInjective(t)
    BY <1>0, <1>1, <1>2 DEF IsInjective, ToSet
  <1>5. QED
    BY <1>1, <1>3, <1>4 DEF t

(* Moving the starved jobs loses none and doubles none.                     *)
LEMMA BumpedFacts ==
  ASSUME Sound(queue)
  PROVE  Sound(Bumped) /\ AllOf(Bumped) = AllOf(queue)
  <1> DEFINE h == queue["high"]
             m == queue["med"]
             o == queue["low"]
             m1 == Starved(m, FromMed)
             m2 == Others(m, FromMed)
             o1 == Starved(o, FromLow)
             o2 == Others(o, FromLow)
  <1>1. /\ h \in Seq(Job) /\ m \in Seq(Job) /\ o \in Seq(Job)
        /\ IsInjective(h) /\ IsInjective(m) /\ IsInjective(o)
        /\ ToSet(h) \cap ToSet(m) = {} /\ ToSet(h) \cap ToSet(o) = {}
        /\ ToSet(m) \cap ToSet(o) = {}
    BY DEF Sound, Level
  <1>2. FromMed \in 0..Len(m) /\ FromLow \in 0..Len(o)
    BY <1>1, PrefixBounded DEF FromMed, FromLow
  <1> HIDE DEF h, m, o
  <1>3. /\ m1 \in Seq(Job) /\ m2 \in Seq(Job) /\ IsInjective(m1) /\ IsInjective(m2)
        /\ ToSet(m1) \cap ToSet(m2) = {} /\ ToSet(m1) \cup ToSet(m2) = ToSet(m)
    BY <1>1, <1>2, CutFacts
  <1>4. /\ o1 \in Seq(Job) /\ o2 \in Seq(Job) /\ IsInjective(o1) /\ IsInjective(o2)
        /\ ToSet(o1) \cap ToSet(o2) = {} /\ ToSet(o1) \cup ToSet(o2) = ToSet(o)
    BY <1>1, <1>2, CutFacts
  <1>5. Bumped = [high |-> h \o m1 \o (IF m2 = <<>> THEN o1 ELSE <<>>),
                  med  |-> IF m2 = <<>> THEN <<>> ELSE m2 \o o1,
                  low  |-> o2]
    BY DEF Bumped, h, m, o
  <1> HIDE DEF m1, m2, o1, o2
  <1>6. /\ h \o m1 \in Seq(Job) /\ IsInjective(h \o m1)
        /\ ToSet(h \o m1) = ToSet(h) \cup ToSet(m1)
    BY <1>1, <1>3, JoinFacts
  <1>7. CASE m2 = <<>>
    <2> DEFINE hm == h \o m1
               u == hm \o o1
    <2>1. hm \in Seq(Job) /\ IsInjective(hm) /\ ToSet(hm) = ToSet(h) \cup ToSet(m1)
      BY <1>6
    <2>2. Bumped = [high |-> u, med |-> <<>>, low |-> o2]
      BY <1>5, <1>7
    <2> HIDE DEF hm
    <2>3. u \in Seq(Job) /\ IsInjective(u) /\ ToSet(u) = ToSet(h) \cup ToSet(m1) \cup ToSet(o1)
      <3>1. ToSet(hm) \cap ToSet(o1) = {}
        BY <1>1, <1>3, <1>4, <2>1
      <3>2. QED
        BY <1>4, <2>1, <3>1, JoinFacts
    <2>4. /\ DOMAIN Bumped = Level /\ Bumped = [l \in Level |-> Bumped[l]]
          /\ Bumped["high"] = u /\ Bumped["med"] = <<>> /\ Bumped["low"] = o2
      BY <2>2 DEF Level
    <2> HIDE DEF u
    <2>5. Sound(Bumped)
      <3>1. \A l \in Level : Bumped[l] \in Seq(Job) /\ IsInjective(Bumped[l])
        BY <1>4, <2>3, <2>4, EmptyFacts DEF Level
      <3>2. Bumped \in [Level -> Seq(Job)]
        BY <2>4, <3>1
      <3>3. /\ ToSet(Bumped["high"]) \cap ToSet(Bumped["med"]) = {}
            /\ ToSet(Bumped["high"]) \cap ToSet(Bumped["low"]) = {}
            /\ ToSet(Bumped["med"]) \cap ToSet(Bumped["low"]) = {}
        BY <1>1, <1>3, <1>4, <2>3, <2>4, EmptyFacts
      <3>4. \A l, k \in Level : l # k => ToSet(Bumped[l]) \cap ToSet(Bumped[k]) = {}
        BY <3>3 DEF Level
      <3>5. QED
        BY <3>1, <3>2, <3>4 DEF Sound
    <2>6. AllOf(Bumped) = AllOf(queue)
      BY <1>1, <1>3, <1>4, <1>7, <2>3, <2>4, EmptyFacts DEF AllOf, h, m, o
    <2>7. QED
      BY <2>5, <2>6
  <1>8. CASE m2 # <<>>
    <2>1. /\ m2 \o o1 \in Seq(Job) /\ IsInjective(m2 \o o1)
          /\ ToSet(m2 \o o1) = ToSet(m2) \cup ToSet(o1)
      BY <1>1, <1>3, <1>4, JoinFacts
    <2>2. Bumped = [high |-> h \o m1, med |-> m2 \o o1, low |-> o2]
      BY <1>5, <1>6, <1>8, ConcatEmptySeq
    <2> DEFINE u == h \o m1
               v == m2 \o o1
    <2>3. /\ u \in Seq(Job) /\ IsInjective(u) /\ ToSet(u) = ToSet(h) \cup ToSet(m1)
          /\ v \in Seq(Job) /\ IsInjective(v) /\ ToSet(v) = ToSet(m2) \cup ToSet(o1)
      BY <1>6, <2>1
    <2>4. /\ DOMAIN Bumped = Level /\ Bumped = [l \in Level |-> Bumped[l]]
          /\ Bumped["high"] = u /\ Bumped["med"] = v /\ Bumped["low"] = o2
      BY <2>2 DEF Level
    <2> HIDE DEF u, v
    <2>5. Sound(Bumped)
      <3>1. \A l \in Level : Bumped[l] \in Seq(Job) /\ IsInjective(Bumped[l])
        BY <1>4, <2>3, <2>4 DEF Level
      <3>2. Bumped \in [Level -> Seq(Job)]
        BY <2>4, <3>1
      <3>3. /\ ToSet(Bumped["high"]) \cap ToSet(Bumped["med"]) = {}
            /\ ToSet(Bumped["high"]) \cap ToSet(Bumped["low"]) = {}
            /\ ToSet(Bumped["med"]) \cap ToSet(Bumped["low"]) = {}
        BY <1>1, <1>3, <1>4, <2>3, <2>4
      <3>4. \A l, k \in Level : l # k => ToSet(Bumped[l]) \cap ToSet(Bumped[k]) = {}
        BY <3>3 DEF Level
      <3>5. QED
        BY <3>1, <3>2, <3>4 DEF Sound
    <2>6. AllOf(Bumped) = AllOf(queue)
      BY <1>1, <1>3, <1>4, <2>3, <2>4 DEF AllOf, h, m, o
    <2>7. QED
      BY <2>5, <2>6
  <1>9. QED
    BY <1>7, <1>8

-----------------------------------------------------------------------------
(***************************************************************************)
(* What a step does to the counted sets.                                   *)
(***************************************************************************)
CallType == [pc : {"idle", "init", "failed", "add", "lasting", "slot", "drain", "over"},
             job : Job \cup {NoJob}, jobs : Nat, threads : Nat, current : Nat]
ThreadType == [pc : {"none", "starting", "top", "asleep", "awake", "timedout", "running"},
               job : Job \cup {NoJob}, persistent : BOOLEAN]

LEMMA Stamped ==
  ASSUME NEW r \in CallType, NEW x \in Nat
  PROVE  /\ [r EXCEPT !.current = x] \in CallType
         /\ [r EXCEPT !.current = x].pc = r.pc
         /\ [r EXCEPT !.current = x].job = r.job
         /\ [r EXCEPT !.current = x].current = x
  BY DEF CallType

LEMMA Moved ==
  ASSUME NEW t \in ThreadType,
         NEW p \in {"none", "starting", "top", "asleep", "awake", "timedout", "running"}
  PROVE  /\ [t EXCEPT !.pc = p] \in ThreadType
         /\ [t EXCEPT !.pc = p].pc = p
         /\ [t EXCEPT !.pc = p].job = t.job
         /\ [t EXCEPT !.pc = p].persistent = t.persistent
  BY DEF ThreadType

LEMMA Idle ==
  /\ NoCall \in CallType /\ NoCall.pc = "idle"
  /\ \A j \in Job : LET s == [[NoCall EXCEPT !.pc = "slot"] EXCEPT !.job = j]
                     IN  s \in CallType /\ s.pc = "slot"
  BY DEF NoCall, CallType

LEMMA Typed ==
  ASSUME TypeOK
  PROVE  work \in [Worker -> ThreadType] /\ call \in [Worker \cup {Main} -> CallType]
  BY DEF TypeOK, ThreadType, CallType

LEMMA Finite ==
  /\ IsFiniteSet(Alive) /\ IsFiniteSet(Persistent) /\ IsFiniteSet(With("starting"))
  /\ Cardinality(Alive) \in Nat /\ Cardinality(Persistent) \in Nat
  <1>1. Alive \in SUBSET Worker /\ Persistent \in SUBSET Worker
        /\ With("starting") \in SUBSET Worker
    BY DEF Alive, Persistent, With
  <1>2. QED
    BY <1>1, FS_Subset, FS_CardinalityType

(* The persistent threads are among those that count.                       *)
LEMMA Fewer ==
  ASSUME TypeOK, CountsExact, ThreadInv
  PROVE  persistents <= total /\ total - persistents \in Nat
  <1>1. Persistent \in SUBSET Alive
    BY DEF Persistent, Alive, ThreadInv
  <1>2. Cardinality(Persistent) <= Cardinality(Alive)
    BY <1>1, Finite, FS_Subset
  <1>3. persistents = Cardinality(Persistent) /\ total = Cardinality(Alive)
    BY DEF CountsExact, Persistent
  <1>4. QED
    BY <1>2, <1>3 DEF TypeOK

(* A step that no thread takes: sleepers wake up and a thread is created.   *)
Calm ==
  \A w \in Worker :
    /\ work'[w].job = work[w].job /\ work'[w].persistent = work[w].persistent
    /\ \/ work'[w].pc = work[w].pc
       \/ work[w].pc = "asleep" /\ work'[w].pc \in {"awake", "timedout"}
       \/ work[w].pc = "none" /\ work'[w].pc = "starting"

LEMMA CalmFacts ==
  ASSUME Calm
  PROVE  /\ Alive' = Alive /\ Persistent' = Persistent /\ Running' = Running
         /\ \A w \in Running : work'[w].job = work[w].job
  BY DEF Calm, Alive, Persistent, Running

LEMMA CalmCounts ==
  ASSUME CountsExact, Calm, UNCHANGED <<total, persistents>>
  PROVE  CountsExact'
  BY CalmFacts DEF CountsExact, Persistent

LEMMA CalmJobs ==
  ASSUME JobInv, Calm, UNCHANGED <<queue, slot, held>>
  PROVE  JobInv'
  <1>1. {work'[w].job : w \in Running'} = {work[w].job : w \in Running}
    BY CalmFacts
  <1>2. QED
    BY <1>1, CalmFacts DEF JobInv, Sound, AllOf

(* A step of a thread: only w changes.                                      *)
Becomes(w) == work'[w] \in ThreadType /\ work' = [work EXCEPT ![w] = work'[w]]

LEMMA ThreadStep ==
  ASSUME TypeOK, NEW w \in Worker, Becomes(w)
  PROVE  /\ work'[w].pc \in {"none", "starting"} => Alive' = Alive \ {w}
         /\ work'[w].pc \notin {"none", "starting"} => Alive' = Alive \cup {w}
         /\ work'[w].persistent => Persistent' = Persistent \cup {w}
         /\ ~work'[w].persistent => Persistent' = Persistent \ {w}
         /\ work'[w].pc = "running" => Running' = Running \cup {w}
         /\ work'[w].pc # "running" => Running' = Running \ {w}
         /\ work'[w].pc # "starting" => With("starting")' = With("starting") \ {w}
         /\ \A v \in Worker \ {w} : work'[v] = work[v]
         /\ work' \in [Worker -> ThreadType]
  <1>1. /\ \A v \in Worker \ {w} : work'[v] = work[v]
        /\ work' \in [Worker -> ThreadType]
    BY Typed DEF Becomes
  <1>2. /\ work'[w].pc \in {"none", "starting"} => Alive' = Alive \ {w}
        /\ work'[w].pc \notin {"none", "starting"} => Alive' = Alive \cup {w}
    BY <1>1 DEF Alive
  <1>3. /\ work'[w].persistent => Persistent' = Persistent \cup {w}
        /\ ~work'[w].persistent => Persistent' = Persistent \ {w}
    BY <1>1 DEF Persistent
  <1>4. /\ work'[w].pc = "running" => Running' = Running \cup {w}
        /\ work'[w].pc # "running" => Running' = Running \ {w}
    BY <1>1 DEF Running
  <1>5. work'[w].pc # "starting" => With("starting")' = With("starting") \ {w}
    BY <1>1 DEF With
  <1>6. QED
    BY <1>1, <1>2, <1>3, <1>4, <1>5

(* The counters follow.                                                     *)
LEMMA ThreadCounts ==
  ASSUME TypeOK, CountsExact, NEW w \in Worker, Becomes(w),
         total' = total + (IF work'[w].pc \in {"none", "starting"} THEN 0 ELSE 1)
                        - (IF w \in Alive THEN 1 ELSE 0),
         persistents' = persistents + (IF work'[w].persistent THEN 1 ELSE 0)
                        - (IF work[w].persistent THEN 1 ELSE 0)
  PROVE  CountsExact' /\ total' \in Nat /\ persistents' \in Nat
  <1> DEFINE P == Persistent
             Q == Alive
  <1>1. /\ Cardinality(Alive \cup {w}) = Cardinality(Alive) + (IF w \in Alive THEN 0 ELSE 1)
        /\ Cardinality(Alive \ {w}) = Cardinality(Alive) - (IF w \in Alive THEN 1 ELSE 0)
        /\ Cardinality(Persistent \cup {w}) = Cardinality(Persistent) + (IF w \in Persistent THEN 0 ELSE 1)
        /\ Cardinality(Persistent \ {w}) = Cardinality(Persistent) - (IF w \in Persistent THEN 1 ELSE 0)
    <2>1. \A S : IsFiniteSet(S) =>
            /\ Cardinality(S \cup {w}) = IF w \in S THEN Cardinality(S) ELSE Cardinality(S) + 1
            /\ Cardinality(S \ {w}) = IF w \in S THEN Cardinality(S) - 1 ELSE Cardinality(S)
      BY FS_AddElement, FS_RemoveElement
    <2>2. /\ Cardinality(Alive \cup {w}) = IF w \in Alive THEN Cardinality(Alive) ELSE Cardinality(Alive) + 1
          /\ Cardinality(Alive \ {w}) = IF w \in Alive THEN Cardinality(Alive) - 1 ELSE Cardinality(Alive)
      BY <2>1, Finite
    <2>3. /\ Cardinality(Persistent \cup {w}) = IF w \in Persistent THEN Cardinality(Persistent) ELSE Cardinality(Persistent) + 1
          /\ Cardinality(Persistent \ {w}) = IF w \in Persistent THEN Cardinality(Persistent) - 1 ELSE Cardinality(Persistent)
      BY <2>1, Finite
    <2>4. QED
      BY <2>2, <2>3, Finite
  <1>2. /\ total = Cardinality(Alive) /\ persistents = Cardinality(Persistent)
        /\ total \in Nat /\ persistents \in Nat
        /\ w \in Persistent <=> work[w].persistent
    BY DEF CountsExact, Persistent, TypeOK
  <1>3. /\ work'[w].pc \in {"none", "starting"} => Alive' = Alive \ {w}
        /\ work'[w].pc \notin {"none", "starting"} => Alive' = Alive \cup {w}
        /\ work'[w].persistent => Persistent' = Persistent \cup {w}
        /\ ~work'[w].persistent => Persistent' = Persistent \ {w}
    BY ThreadStep
  <1>4. total' = Cardinality(Alive')
    <2>1. CASE work'[w].pc \in {"none", "starting"}
      <3>1. Alive' = Alive \ {w}
        BY <1>3, <2>1, Zenon
      <3>2. QED
        BY <1>1, <1>2, <2>1, <3>1
    <2>2. CASE work'[w].pc \notin {"none", "starting"}
      <3>1. Alive' = Alive \cup {w}
        BY <1>3, <2>2, Zenon
      <3>2. QED
        BY <1>1, <1>2, <2>2, <3>1
    <2>3. QED
      BY <2>1, <2>2
  <1>5. persistents' = Cardinality(Persistent')
    <2>1. CASE work'[w].persistent
      <3>1. Persistent' = Persistent \cup {w}
        BY <1>3, <2>1, Zenon
      <3>2. QED
        BY <1>1, <1>2, <2>1, <3>1
    <2>2. CASE ~work'[w].persistent
      <3>1. Persistent' = Persistent \ {w}
        BY <1>3, <2>2, Zenon
      <3>2. QED
        BY <1>1, <1>2, <2>2, <3>1
    <2>3. QED
      BY <2>1, <2>2
  <1>6. Cardinality(Alive') \in Nat /\ Cardinality(Persistent') \in Nat
    <2>1. Alive' \in SUBSET Worker /\ Persistent' \in SUBSET Worker
      BY DEF Alive, Persistent
    <2>2. QED
      BY <2>1, FS_Subset, FS_CardinalityType
  <1>7. QED
    BY <1>4, <1>5, <1>6 DEF CountsExact, Persistent

-----------------------------------------------------------------------------
(***************************************************************************)
(* CreateWorker.                                                           *)
(***************************************************************************)
CreatorOf(c) == call[c].pc \in {"init", "add", "lasting"}

LEMMA CreateFacts ==
  ASSUME TypeOK, ThreadInv, NEW c \in Worker \cup {Main}, NEW r \in CallType,
         r.pc \in {"init", "add", "lasting"}, Create(c, r)
  PROVE  /\ Calm /\ work' \in [Worker -> ThreadType]
         /\ call' \in [Worker \cup {Main} -> CallType]
         /\ call'[c] = [r EXCEPT !.current = total + 1]
         /\ \A d \in (Worker \cup {Main}) \ {c} : call'[d] = call[d]
         /\ crossed' \in BOOLEAN
  <1>1. PICK w \in With("none") :
          /\ work' = [work EXCEPT ![w].pc = "starting"]
          /\ call' = [call EXCEPT ![c] = [r EXCEPT !.current = total + 1]]
          /\ crossed' = (crossed \/ With("starting") # {} \/ InCreateWorker \ {c} # {})
    BY DEF Create
  <1>2. w \in Worker /\ work[w].pc = "none"
    BY DEF With
  <1>3. Calm /\ work' \in [Worker -> ThreadType]
    <2>1. work \in [Worker -> ThreadType]
      BY DEF TypeOK, ThreadType
    <2> DEFINE t == [work[w] EXCEPT !.pc = "starting"]
    <2>2. /\ t \in ThreadType /\ t.pc = "starting"
          /\ t.job = work[w].job /\ t.persistent = work[w].persistent
      BY <1>2, <2>1, Moved
    <2>3. work' = [work EXCEPT ![w] = t]
      BY <1>1
    <2> HIDE DEF t
    <2>4. QED
      BY <1>2, <2>1, <2>2, <2>3 DEF Calm
  <1>4. [r EXCEPT !.current = total + 1] \in CallType
    <2>1. total + 1 \in Nat
      BY DEF TypeOK
    <2>2. QED
      BY <2>1, Stamped
  <1>5. call \in [Worker \cup {Main} -> CallType] /\ crossed \in BOOLEAN
    BY DEF TypeOK, CallType
  <1>6. crossed' \in BOOLEAN
    BY <1>1, <1>5
  <1>7. QED
    BY <1>1, <1>3, <1>4, <1>5, <1>6

LEMMA CreateCreator ==
  ASSUME TypeOK, ThreadInv, CountsExact, CreatorInv, NEW c \in Worker \cup {Main},
         NEW r \in CallType, r.pc \in {"init", "add", "lasting"}, Create(c, r),
         total < MaxThreads, total' = total
  PROVE  CreatorInv'
  <1> SUFFICES ASSUME ~crossed'
               PROVE  CreatorInv'
    BY DEF CreatorInv
  <1>1. PICK w \in With("none") :
          /\ work' = [work EXCEPT ![w].pc = "starting"]
          /\ call' = [call EXCEPT ![c] = [r EXCEPT !.current = total + 1]]
          /\ crossed' = (crossed \/ With("starting") # {} \/ InCreateWorker \ {c} # {})
    BY DEF Create
  <1>2. With("starting") = {} /\ InCreateWorker \subseteq {c}
    BY <1>1
  <1>3. With("starting")' = {w}
    BY <1>1, <1>2 DEF With, TypeOK
  <1>4. InCreateWorker' = {c} /\ call'[c].current = total + 1
    <2>1. /\ call'[c].pc = r.pc /\ call'[c].current = total + 1
          /\ \A d \in (Worker \cup {Main}) \ {c} : call'[d] = call[d]
          /\ DOMAIN call' = Worker \cup {Main} /\ DOMAIN call = Worker \cup {Main}
      BY <1>1 DEF TypeOK, CallType
    <2>2. QED
      BY <1>2, <2>1 DEF InCreateWorker
  <1>5. Alive' = Alive /\ w \in Worker /\ w \notin Alive
    BY <1>1, CreateFacts, CalmFacts DEF With, Alive
  <1>6. Cardinality(Alive \cup {w}) = total + 1
    BY <1>5, Finite, FS_AddElement DEF CountsExact
  <1>7. total + 1 <= MaxThreads
    BY DEF TypeOK
  <1>8. QED
    BY <1>3, <1>4, <1>5, <1>6, <1>7 DEF CreatorInv

(* A call in CreateWorker that has seen its thread, or any other call, ends: *)
(* no thread is left for which nobody waits.                                *)
LEMMA EndCreator ==
  ASSUME TypeOK, CreatorInv, NEW c \in Worker \cup {Main},
         c \in InCreateWorker => Created(c),
         Alive' = Alive, With("starting")' = With("starting"),
         NEW r \in CallType, r.pc \in {"idle", "slot", "failed"}, call' = [call EXCEPT ![c] = r],
         UNCHANGED <<total, crossed>>
  PROVE  CreatorInv'
  <1> SUFFICES ASSUME ~crossed
               PROVE  CreatorInv'
    BY DEF CreatorInv
  <1>1. /\ DOMAIN call' = Worker \cup {Main} /\ DOMAIN call = Worker \cup {Main}
        /\ call'[c].pc \in {"idle", "slot", "failed"}
        /\ \A d \in (Worker \cup {Main}) \ {c} : call'[d] = call[d]
    BY Typed
  <1>2. InCreateWorker' = InCreateWorker \ {c}
    BY <1>1 DEF InCreateWorker
  <1>3. With("starting") # {} => \E d \in InCreateWorker' : call'[d].current = total + 1
    <2> SUFFICES ASSUME With("starting") # {}
                 PROVE  \E d \in InCreateWorker' : call'[d].current = total + 1
      OBVIOUS
    <2>1. PICK d \in InCreateWorker : call[d].current = total + 1
      BY DEF CreatorInv
    <2>2. d \in Worker \cup {Main}
      BY <1>1 DEF InCreateWorker
    <2>3. d # c
      BY <2>1, <2>2 DEF Created, TypeOK
    <2>4. QED
      BY <1>1, <1>2, <2>1, <2>2, <2>3
  <1>4. QED
    BY <1>2, <1>3 DEF CreatorInv

LEMMA SameCreator ==
  ASSUME CreatorInv, Alive' = Alive, With("starting")' = With("starting"),
         InCreateWorker' = InCreateWorker,
         \A c \in InCreateWorker : call'[c] = call[c],
         UNCHANGED <<total, crossed>>
  PROVE  CreatorInv'
  BY DEF CreatorInv

-----------------------------------------------------------------------------
(***************************************************************************)
(* The steps of a thread.                                                  *)
(***************************************************************************)
LEMMA SameJobs ==
  ASSUME JobInv, Sound(queue)', AllOf(queue)' = AllOf(queue), Running' = Running,
         \A w \in Running : work'[w].job = work[w].job, UNCHANGED <<slot, held>>
  PROVE  JobInv'
  <1>1. {work'[w].job : w \in Running'} = {work[w].job : w \in Running}
    OBVIOUS
  <1>2. QED
    BY <1>1 DEF JobInv

LEMMA SameQueue ==
  ASSUME queue' = queue
  PROVE  Sound(queue)' = Sound(queue) /\ AllOf(queue)' = AllOf(queue)
  BY DEF Sound, AllOf

LEMMA StartStep ==
  ASSUME IInv, NEW w \in Worker, Start(w)
  PROVE  IInv'
  <1>0. /\ Becomes(w) /\ work'[w].pc = "top"
        /\ work'[w].job = work[w].job /\ work'[w].persistent = work[w].persistent
    <2> DEFINE t == [work[w] EXCEPT !.pc = "top"]
    <2>1. work' = [work EXCEPT ![w] = t]
      BY DEF Start
    <2>2. /\ t \in ThreadType /\ t.pc = "top"
          /\ t.job = work[w].job /\ t.persistent = work[w].persistent
      BY Typed, Moved DEF IInv
    <2> HIDE DEF t
    <2>3. work'[w] = t
      BY <2>1, Typed DEF IInv
    <2>4. QED
      BY <2>1, <2>2, <2>3 DEF Becomes
  <1>1. /\ work[w].pc = "starting"
        /\ total' = total + 1
        /\ UNCHANGED <<added, queue, slot, persistents, shutdown, age, call, stopped,
                       held, late, crossed>>
    BY <1>0 DEF Start
  <1>2. work[w].persistent \in BOOLEAN /\ ~work[w].persistent
    BY <1>1, Typed DEF IInv, ThreadInv, ThreadType
  <1>4. w \notin Alive /\ w \notin Running /\ w \notin Persistent /\ w \in With("starting")
    BY <1>1, <1>2 DEF Alive, Running, Persistent, With
  <1>5. /\ Alive' = Alive \cup {w} /\ Running' = Running
        /\ With("starting")' = With("starting") \ {w}
        /\ \A v \in Worker \ {w} : work'[v] = work[v]
        /\ work' \in [Worker -> ThreadType]
    <2>1. /\ work'[w].pc \notin {"none", "starting"} /\ work'[w].pc # "running"
          /\ work'[w].pc # "starting" /\ TypeOK /\ Becomes(w)
      BY <1>0 DEF IInv
    <2>2. /\ Alive' = Alive \cup {w} /\ Running' = Running \ {w}
          /\ With("starting")' = With("starting") \ {w}
          /\ \A v \in Worker \ {w} : work'[v] = work[v]
          /\ work' \in [Worker -> ThreadType]
      BY <2>1, ThreadStep, Zenon
    <2>3. Running \ {w} = Running
      BY <1>4
    <2>4. QED
      BY <2>2, <2>3, Zenon
  <1>6. CountsExact' /\ total' \in Nat /\ persistents' \in Nat
    <2>1. TypeOK /\ CountsExact /\ Becomes(w)
      BY <1>0 DEF IInv
    <2>2. total' = total + (IF work'[w].pc \in {"none", "starting"} THEN 0 ELSE 1)
                        - (IF w \in Alive THEN 1 ELSE 0)
      BY <1>0, <1>1, <1>4, <2>1 DEF TypeOK
    <2>3. persistents' = persistents + (IF work'[w].persistent THEN 1 ELSE 0)
                        - (IF work[w].persistent THEN 1 ELSE 0)
      BY <1>0, <1>1, <1>2, <2>1 DEF TypeOK
    <2>4. QED
      BY <2>1, <2>2, <2>3, ThreadCounts
  <1>7. TypeOK'
    BY <1>1, <1>5, <1>6 DEF IInv, TypeOK, ThreadType
  <1>8. ThreadInv'
    BY <1>0, <1>1, <1>2, <1>5 DEF IInv, ThreadInv
  <1>9. JobInv'
    BY <1>1, <1>4, <1>5, SameJobs, SameQueue DEF IInv, JobInv, Running
  <1>10. SlotInv' /\ ShutdownInv'
    BY <1>1, <1>5, SameQueue DEF IInv, SlotInv, ShutdownInv
  <1>11. CreatorInv'
    <2>1. Alive' \cup With("starting")' = Alive \cup With("starting")
      BY <1>4, <1>5
    <2>2. ~crossed => With("starting")' = {}
      BY <1>4, <1>5 DEF IInv, CreatorInv
    <2>3. InCreateWorker' = InCreateWorker
      BY <1>1 DEF InCreateWorker
    <2>4. QED
      BY <1>1, <2>1, <2>2, <2>3 DEF IInv, CreatorInv
  <1>12. StartedInv'
    BY <1>1 DEF IInv, StartedInv, TypeOK
  <1>13. QED
    BY <1>6, <1>7, <1>8, <1>9, <1>10, <1>11, <1>12 DEF IInv

(* At the top of its loop a thread counts, and runs nothing.                *)
LEMMA ReadyFacts ==
  ASSUME IInv, NEW w \in Worker, Ready(w)
  PROVE  /\ w \in Alive /\ w \notin Running /\ w \notin With("starting")
         /\ call[w].pc = "idle"
         /\ work[w].persistent \in BOOLEAN
         /\ Settled(w) = persistents + 0 - (IF work[w].persistent THEN 1 ELSE 0)
  BY DEF Ready, Alive, Running, With, Settled, IInv, TypeOK, ThreadInv

LEMMA SleepStep ==
  ASSUME IInv, NEW w \in Worker, Sleep(w)
  PROVE  IInv'
  <1>0. Becomes(w) /\ work'[w].pc = "asleep" /\ work'[w].persistent = FALSE
    <2> DEFINE t == [NoThread EXCEPT !.pc = "asleep"]
    <2>1. work' = [work EXCEPT ![w] = t]
      BY DEF Sleep
    <2>2. t \in ThreadType /\ t.pc = "asleep" /\ t.persistent = FALSE
      BY DEF NoThread, ThreadType
    <2> HIDE DEF t
    <2>3. work'[w] = t
      BY <2>1, Typed DEF IInv
    <2>4. QED
      BY <2>1, <2>2, <2>3 DEF Becomes
  <1>1. /\ Ready(w) /\ persistents' = Settled(w)
        /\ UNCHANGED <<added, queue, slot, total, shutdown, age, call, stopped, held,
                       late, crossed>>
    BY <1>0 DEF Sleep
  <1>3. /\ w \in Alive /\ w \notin Running /\ w \notin With("starting")
        /\ call[w].pc = "idle"
    BY <1>1, ReadyFacts
  <1>4. /\ Alive' = Alive /\ Running' = Running
        /\ With("starting")' = With("starting")
        /\ \A v \in Worker \ {w} : work'[v] = work[v]
        /\ work' \in [Worker -> ThreadType]
    <2>1. /\ work'[w].pc \notin {"none", "starting"} /\ work'[w].pc # "running"
          /\ work'[w].pc # "starting" /\ TypeOK /\ Becomes(w)
      BY <1>0 DEF IInv
    <2>2. /\ Alive' = Alive \cup {w} /\ Running' = Running \ {w}
          /\ With("starting")' = With("starting") \ {w}
          /\ \A v \in Worker \ {w} : work'[v] = work[v]
          /\ work' \in [Worker -> ThreadType]
      BY <2>1, ThreadStep, Zenon
    <2>3. Running \ {w} = Running /\ Alive \cup {w} = Alive
          /\ With("starting") \ {w} = With("starting")
      BY <1>3
    <2>4. QED
      BY <2>2, <2>3, Zenon
  <1>5. CountsExact' /\ total' \in Nat /\ persistents' \in Nat
    <2>1. persistents' = persistents + 0 - (IF work[w].persistent THEN 1 ELSE 0)
      BY <1>1, ReadyFacts
    <2>2. total' = total + 1 - 1
      BY <1>1 DEF IInv, TypeOK
    <2>3. QED
      BY <1>0, <1>3, <2>1, <2>2, ThreadCounts DEF IInv
  <1>6. TypeOK'
    BY <1>1, <1>4, <1>5 DEF IInv, TypeOK, ThreadType
  <1>7. ThreadInv'
    BY <1>0, <1>1, <1>3, <1>4 DEF IInv, ThreadInv
  <1>8. JobInv'
    BY <1>1, <1>3, <1>4, SameJobs, SameQueue DEF IInv, JobInv, Running
  <1>9. SlotInv' /\ ShutdownInv' /\ StartedInv'
    BY <1>1, <1>4, SameQueue DEF IInv, SlotInv, ShutdownInv, StartedInv
  <1>10. CreatorInv'
    BY <1>1, <1>4, SameCreator DEF IInv, InCreateWorker
  <1>11. QED
    BY <1>5, <1>6, <1>7, <1>8, <1>9, <1>10 DEF IInv

(* A thread leaves: if that is not during a CreateWorker, no thread is      *)
(* starting.                                                                *)
LEMMA LeaveStep ==
  ASSUME IInv, NEW w \in Worker, Die(w) \/ Leave(w)
  PROVE  IInv'
  <1>0. Becomes(w) /\ work'[w].pc = "none" /\ work'[w].persistent = FALSE
    <2>1. work' = [work EXCEPT ![w] = NoThread]
      BY DEF Die, Leave
    <2>2. NoThread \in ThreadType /\ NoThread.pc = "none" /\ NoThread.persistent = FALSE
      BY DEF NoThread, ThreadType
    <2>3. work'[w] = NoThread
      BY <2>1, Typed DEF IInv
    <2>4. QED
      BY <2>1, <2>2, <2>3 DEF Becomes
  <1>1. /\ Ready(w)
        /\ persistents' = Settled(w)
        /\ total' = total - 1
        /\ crossed' = (crossed \/ InCreateWorker # {})
        /\ UNCHANGED <<added, slot, shutdown, age, call, stopped, held, late>>
    BY <1>0 DEF Die, Leave
  <1>3. /\ w \in Alive /\ w \notin Running /\ w \notin With("starting")
        /\ call[w].pc = "idle"
    BY <1>1, ReadyFacts
  <1>4. /\ Alive' = Alive \ {w} /\ Running' = Running
        /\ With("starting")' = With("starting")
        /\ \A v \in Worker \ {w} : work'[v] = work[v]
        /\ work' \in [Worker -> ThreadType]
    <2>1. /\ work'[w].pc \in {"none", "starting"} /\ work'[w].pc # "running"
          /\ work'[w].pc # "starting" /\ TypeOK /\ Becomes(w)
      BY <1>0 DEF IInv
    <2>2. /\ Alive' = Alive \ {w} /\ Running' = Running \ {w}
          /\ With("starting")' = With("starting") \ {w}
          /\ \A v \in Worker \ {w} : work'[v] = work[v]
          /\ work' \in [Worker -> ThreadType]
      BY <2>1, ThreadStep, Zenon
    <2>3. Running \ {w} = Running /\ With("starting") \ {w} = With("starting")
      BY <1>3
    <2>4. QED
      BY <2>2, <2>3, Zenon
  <1>5. CountsExact' /\ total' \in Nat /\ persistents' \in Nat
    <2>1. persistents' = persistents + 0 - (IF work[w].persistent THEN 1 ELSE 0)
      BY <1>1, ReadyFacts
    <2>2. total' = total + 0 - 1
      BY <1>1 DEF IInv, TypeOK
    <2>3. QED
      BY <1>0, <1>3, <2>1, <2>2, ThreadCounts DEF IInv
  <1>6. Sound(queue)' /\ AllOf(queue)' = AllOf(queue)
    <2>1. queue' = queue \/ queue' = Bumped
      BY DEF Die, Leave
    <2>2. CASE queue' = queue
      BY <2>2, SameQueue DEF IInv, JobInv
    <2>3. CASE queue' = Bumped
      <3>1. Sound(Bumped) /\ AllOf(Bumped) = AllOf(queue)
        BY BumpedFacts DEF IInv, JobInv
      <3>2. QED
        BY <2>3, <3>1 DEF Sound, AllOf
    <2>4. QED
      BY <2>1, <2>2, <2>3
  <1>7. TypeOK'
    BY <1>1, <1>4, <1>5, <1>6 DEF IInv, TypeOK, ThreadType, Sound
  <1>8. ThreadInv'
    BY <1>0, <1>1, <1>3, <1>4 DEF IInv, ThreadInv
  <1>9. JobInv'
    BY <1>1, <1>3, <1>4, <1>6, SameJobs DEF IInv, Running
  <1>10. SlotInv' /\ ShutdownInv'
    BY <1>1, <1>4, <1>6 DEF IInv, SlotInv, ShutdownInv
  <1>11. StartedInv'
    <2>1. shutdown \/ total > MinThreads
      BY DEF Die, Leave, MayDie, IInv, TypeOK
    <2>2. QED
      BY <1>1, <2>1 DEF IInv, StartedInv, TypeOK
  <1>12. CreatorInv'
    <2> SUFFICES ASSUME ~crossed, InCreateWorker = {}
                 PROVE  CreatorInv'
      BY <1>1 DEF CreatorInv
    <2>1. With("starting") = {} /\ InCreateWorker' = {}
      BY <1>1 DEF IInv, CreatorInv, InCreateWorker
    <2>3. Cardinality(Alive') <= Cardinality(Alive) /\ Cardinality(Alive') \in Nat
      <3>1. Alive \ {w} \in SUBSET Alive
        OBVIOUS
      <3>2. Cardinality(Alive \ {w}) <= Cardinality(Alive)
        BY <3>1, Finite, FS_Subset
      <3>3. Cardinality(Alive \ {w}) \in Nat
        BY <3>1, Finite, FS_Subset, FS_CardinalityType
      <3>4. QED
        BY <1>4, <3>2, <3>3
    <2>4. Alive' \cup With("starting")' = Alive'
      BY <1>4, <2>1
    <2>5. With("starting")' = {}
      BY <1>4, <2>1
    <2>6. Cardinality(Alive') <= MaxThreads
      <3>1. Alive \cup With("starting") = Alive
        BY <2>1
      <3>2. Cardinality(Alive) <= MaxThreads
        BY <3>1 DEF IInv, CreatorInv
      <3>3. QED
        BY <2>3, <3>2, Finite
    <2>7. QED
      BY <2>1, <2>4, <2>5, <2>6 DEF CreatorInv
  <1>13. QED
    BY <1>5, <1>7, <1>8, <1>9, <1>10, <1>11, <1>12 DEF IInv

(* A thread takes a job.                                                    *)
LEMMA TakeFacts ==
  ASSUME IInv, NEW w \in Worker, Ready(w), NEW j \in Job, NEW b \in BOOLEAN, Take(w, j, b)
  PROVE  /\ Becomes(w) /\ work'[w].pc = "running"
         /\ work'[w].job = j /\ work'[w].persistent = b
         /\ Alive' = Alive /\ Running' = Running \cup {w} /\ w \notin Running
         /\ With("starting")' = With("starting")
         /\ \A v \in Worker \ {w} : work'[v] = work[v]
         /\ work' \in [Worker -> ThreadType]
         /\ age' \in [Job -> 0..2]
  <1> DEFINE t == [pc |-> "running", job |-> j, persistent |-> b]
  <1>1. work' = [work EXCEPT ![w] = t]
    BY DEF Take
  <1>2. t \in ThreadType /\ t.pc = "running" /\ t.job = j /\ t.persistent = b
    BY DEF ThreadType
  <1> HIDE DEF t
  <1>3. work'[w] = t
    BY <1>1, Typed DEF IInv
  <1>4. /\ Becomes(w) /\ TypeOK /\ work'[w].pc = "running"
        /\ work'[w].pc \notin {"none", "starting"} /\ work'[w].pc # "starting"
        /\ work'[w].job = j /\ work'[w].persistent = b
    BY <1>1, <1>2, <1>3 DEF Becomes, IInv
  <1>5. /\ Alive' = Alive \cup {w} /\ Running' = Running \cup {w}
        /\ With("starting")' = With("starting") \ {w}
        /\ \A v \in Worker \ {w} : work'[v] = work[v]
        /\ work' \in [Worker -> ThreadType]
    BY <1>4, ThreadStep, Zenon
  <1>6. w \notin Running /\ Alive \cup {w} = Alive /\ With("starting") \ {w} = With("starting")
    BY ReadyFacts
  <1>7. age' \in [Job -> 0..2]
    BY DEF Take, IInv, TypeOK
  <1>8. QED
    BY <1>4, <1>5, <1>6, <1>7, Zenon

(* It comes from the slot or from a queue, and is nowhere else afterwards.  *)
LEMMA TakenJobs ==
  ASSUME JobInv, ThreadInv, NEW w \in Worker, NEW j \in Job, w \notin Running,
         Running' = Running \cup {w}, work'[w].job = j,
         \A v \in Worker \ {w} : work'[v] = work[v],
         Sound(queue)', held' = held,
         \/ j = slot /\ slot' = NoJob /\ AllOf(queue)' = AllOf(queue)
         \/ j \in AllOf(queue) /\ slot' = slot /\ AllOf(queue)' = AllOf(queue) \ {j}
  PROVE  JobInv'
  <1>1. Running \subseteq Worker \ {w} /\ \A v \in Running : work'[v].job = work[v].job
    BY DEF Running
  <1>0. AllOf(queue) \subseteq Job
    <2>1. \A s \in Seq(Job) : ToSet(s) \subseteq Job
      BY LenProperties DEF ToSet
    <2>2. queue["high"] \in Seq(Job) /\ queue["med"] \in Seq(Job) /\ queue["low"] \in Seq(Job)
      BY DEF JobInv, Sound, Level
    <2>3. QED
      BY <2>1, <2>2 DEF AllOf
  <1>2. /\ \A v \in Running : work[v].job # j /\ work[v].job # slot'
        /\ slot' \notin AllOf(queue)' /\ j # slot'
        /\ j \notin AllOf(queue)' /\ AllOf(queue)' \subseteq AllOf(queue)
    <2>1. \A v \in Running : work[v].job # slot /\ work[v].job \notin AllOf(queue)
                              /\ work[v].job # NoJob
      BY DEF JobInv, ThreadInv, Running
    <2>2. slot \notin AllOf(queue) /\ NoJob \notin AllOf(queue) /\ j # NoJob
      BY <1>0 DEF JobInv
    <2>3. CASE j = slot /\ slot' = NoJob /\ AllOf(queue)' = AllOf(queue)
      BY <2>1, <2>2, <2>3
    <2>4. CASE j \in AllOf(queue) /\ slot' = slot /\ AllOf(queue)' = AllOf(queue) \ {j}
      BY <2>1, <2>2, <2>4
    <2>5. QED
      BY <2>3, <2>4
  <1>3. {work'[v].job : v \in Running'} = {work[v].job : v \in Running} \cup {j}
    BY <1>1
  <1>4. held' = AllOf(queue)' \cup {work'[v].job : v \in Running'} \cup ({slot'} \ {NoJob})
    BY <1>2, <1>3 DEF JobInv
  <1>5. \A v \in Running' : work'[v].job # slot' /\ work'[v].job \notin AllOf(queue)'
    BY <1>1, <1>2 DEF JobInv
  <1>6. \A u, v \in Running' : work'[u].job = work'[v].job => u = v
    BY <1>1, <1>2 DEF JobInv
  <1>7. QED
    BY <1>2, <1>4, <1>5, <1>6 DEF JobInv

LEMMA PickPersistentStep ==
  ASSUME IInv, NEW w \in Worker, PickPersistent(w)
  PROVE  IInv'
  <1>1. /\ Ready(w) /\ slot # NoJob /\ ~shutdown /\ slot' = NoJob
        /\ queue' = Bumped
        /\ persistents' = Settled(w) + 1
        /\ UNCHANGED <<added, total, shutdown, call, stopped, held, late, crossed>>
    BY DEF PickPersistent
  <1>2. PICK j \in Job : j = slot /\ Take(w, j, TRUE)
    BY <1>1 DEF PickPersistent, IInv, TypeOK
  <1>3. /\ Becomes(w) /\ work'[w].pc = "running"
        /\ work'[w].job = j /\ work'[w].persistent = TRUE
        /\ Alive' = Alive /\ Running' = Running \cup {w} /\ w \notin Running
        /\ With("starting")' = With("starting")
        /\ \A v \in Worker \ {w} : work'[v] = work[v]
        /\ work' \in [Worker -> ThreadType]
        /\ age' \in [Job -> 0..2]
    BY <1>1, <1>2, TakeFacts
  <1>4. Sound(queue)' /\ AllOf(queue)' = AllOf(queue)
    <2>1. Sound(Bumped) /\ AllOf(Bumped) = AllOf(queue)
      BY BumpedFacts DEF IInv, JobInv
    <2>2. QED
      BY <1>1, <2>1 DEF Sound, AllOf
  <1>5. /\ w \in Alive /\ call[w].pc = "idle" /\ work[w].persistent \in BOOLEAN
        /\ Settled(w) = persistents + 0 - (IF work[w].persistent THEN 1 ELSE 0)
    BY <1>1, ReadyFacts
  <1>6. CountsExact' /\ total' \in Nat /\ persistents' \in Nat
    <2>1. TypeOK /\ CountsExact
      BY DEF IInv
    <2>2. total' = total + (IF work'[w].pc \in {"none", "starting"} THEN 0 ELSE 1)
                        - (IF w \in Alive THEN 1 ELSE 0)
      BY <1>1, <1>3, <1>5, <2>1 DEF TypeOK
    <2>3. persistents' = persistents + (IF work'[w].persistent THEN 1 ELSE 0)
                        - (IF work[w].persistent THEN 1 ELSE 0)
      BY <1>1, <1>3, <1>5, <2>1 DEF TypeOK
    <2>4. QED
      BY <1>3, <2>1, <2>2, <2>3, ThreadCounts
  <1>7. TypeOK'
    BY <1>1, <1>3, <1>4, <1>6 DEF IInv, TypeOK, ThreadType, Sound
  <1>8. ThreadInv'
    BY <1>1, <1>3, <1>5 DEF IInv, ThreadInv
  <1>9. JobInv'
    BY <1>1, <1>2, <1>3, <1>4, TakenJobs DEF IInv
  <1>10. SlotInv' /\ StartedInv'
    BY <1>1 DEF IInv, SlotInv, StartedInv
  <1>11. ShutdownInv'
    BY <1>1 DEF IInv, ShutdownInv
  <1>12. CreatorInv'
    BY <1>1, <1>3, SameCreator DEF IInv, InCreateWorker
  <1>13. QED
    BY <1>6, <1>7, <1>8, <1>9, <1>10, <1>11, <1>12 DEF IInv

LEMMA PickStep ==
  ASSUME IInv, NEW w \in Worker, Pick(w)
  PROVE  IInv'
  <1> DEFINE OK(k) == /\ Bumped[k] # <<>>
                      /\ Bumped["high"] # <<>> => k = "high"
                      /\ Bumped["med"] # <<>> => k # "low"
             first == CHOOSE k \in Level : OK(k)
  <1>1. /\ Ready(w) /\ ~shutdown /\ slot = NoJob /\ Queued > 0
        /\ Take(w, Head(Bumped[first]), FALSE)
        /\ queue' = [Bumped EXCEPT ![first] = Tail(@)]
        /\ persistents' = Settled(w)
        /\ UNCHANGED <<added, slot, total, shutdown, call, stopped, held, late, crossed>>
    BY DEF Pick
  <1>2. Sound(Bumped) /\ AllOf(Bumped) = AllOf(queue)
    BY BumpedFacts DEF IInv, JobInv
  <1>3. \E k \in Level : OK(k)
    <2>1. \E l \in Level : queue[l] # <<>>
      <3> SUFFICES ASSUME \A l \in Level : queue[l] = <<>> PROVE FALSE
        OBVIOUS
      <3>1. Queued = 0
        <4>1. Len(<<>>) = 0
          OBVIOUS
        <4>2. Len(queue["high"]) = 0 /\ Len(queue["med"]) = 0 /\ Len(queue["low"]) = 0
          BY <4>1 DEF Level
        <4>3. QED
          BY <4>2 DEF Queued
      <3>2. QED
        BY <1>1, <3>1
    <2>2. AllOf(queue) # {}
      BY <2>1, EmptyFacts DEF AllOf, Level, IInv, JobInv, Sound
    <2>3. \E l \in Level : Bumped[l] # <<>>
      BY <1>2, <2>2, EmptyFacts DEF AllOf, Level
    <2>4. QED
      BY <2>3 DEF Level
  <1> HIDE DEF OK
  <1>4. first \in Level /\ OK(first)
    BY <1>3
  <1> HIDE DEF first
  <1>5. PICK l \in Level : l = first
    BY <1>4
  <1>6. Bumped[l] # <<>> /\ Bumped[l] \in Seq(Job) /\ IsInjective(Bumped[l])
    BY <1>2, <1>4, <1>5 DEF OK, Sound
  <1>7. /\ Head(Bumped[l]) \in Job
        /\ Tail(Bumped[l]) \in Seq(Job) /\ IsInjective(Tail(Bumped[l]))
        /\ ToSet(Tail(Bumped[l])) = ToSet(Bumped[l]) \ {Head(Bumped[l])}
        /\ Head(Bumped[l]) \in ToSet(Bumped[l])
    BY <1>6, TailFacts
  <1>8. PICK j \in Job : j = Head(Bumped[l])
    BY <1>7
  <1>9. queue' = [Bumped EXCEPT ![l] = Tail(Bumped[l])] /\ Take(w, j, FALSE)
    BY <1>1, <1>5, <1>8
  <1>10. /\ queue' \in [Level -> Seq(Job)]
         /\ queue'[l] = Tail(Bumped[l])
         /\ \A k \in Level \ {l} : queue'[k] = Bumped[k]
    BY <1>2, <1>7, <1>9 DEF Sound
  <1>11. \A k \in Level : ToSet(queue'[k]) = ToSet(Bumped[k]) \ {j}
    <2>1. \A k \in Level \ {l} : j \notin ToSet(Bumped[k])
      BY <1>2, <1>7, <1>8 DEF Sound
    <2>2. ASSUME NEW k \in Level \ {l} PROVE ToSet(queue'[k]) = ToSet(Bumped[k]) \ {j}
      <3>1. ToSet(Bumped[k]) \ {j} = ToSet(Bumped[k])
        BY <2>1
      <3>2. queue'[k] = Bumped[k]
        BY <1>10
      <3>3. QED
        BY <3>1, <3>2, Zenon
    <2>3. ToSet(queue'[l]) = ToSet(Bumped[l]) \ {j}
      BY <1>7, <1>8, <1>10, Zenon
    <2>4. QED
      BY <2>2, <2>3, Zenon
  <1>12. Sound(queue)'
    <2>1. \A k \in Level : IsInjective(queue'[k])
      BY <1>2, <1>7, <1>10 DEF Sound
    <2>2. \A k, m \in Level : k # m => ToSet(queue'[k]) \cap ToSet(queue'[m]) = {}
      <3>1. \A k, m \in Level : k # m => ToSet(Bumped[k]) \cap ToSet(Bumped[m]) = {}
        BY <1>2 DEF Sound
      <3>2. QED
        BY <1>11, <3>1
    <2>3. QED
      BY <1>10, <2>1, <2>2 DEF Sound
  <1>13. AllOf(queue)' = AllOf(queue) \ {j} /\ j \in AllOf(queue)
    <2>1. AllOf(queue)' = AllOf(Bumped) \ {j}
      BY <1>11 DEF AllOf, Level
    <2>2. j \in AllOf(Bumped)
      BY <1>7, <1>8 DEF AllOf, Level
    <2>3. QED
      BY <1>2, <2>1, <2>2
  <1>14. /\ Becomes(w) /\ work'[w].pc = "running"
         /\ work'[w].job = j /\ work'[w].persistent = FALSE
         /\ Alive' = Alive /\ Running' = Running \cup {w} /\ w \notin Running
         /\ With("starting")' = With("starting")
         /\ \A v \in Worker \ {w} : work'[v] = work[v]
         /\ work' \in [Worker -> ThreadType]
         /\ age' \in [Job -> 0..2]
    BY <1>1, <1>9, TakeFacts
  <1>15. /\ w \in Alive /\ call[w].pc = "idle" /\ work[w].persistent \in BOOLEAN
         /\ Settled(w) = persistents + 0 - (IF work[w].persistent THEN 1 ELSE 0)
    BY <1>1, ReadyFacts
  <1>16. CountsExact' /\ total' \in Nat /\ persistents' \in Nat
    <2>1. TypeOK /\ CountsExact
      BY DEF IInv
    <2>2. total' = total + (IF work'[w].pc \in {"none", "starting"} THEN 0 ELSE 1)
                        - (IF w \in Alive THEN 1 ELSE 0)
      BY <1>1, <1>14, <1>15, <2>1 DEF TypeOK
    <2>3. persistents' = persistents + (IF work'[w].persistent THEN 1 ELSE 0)
                        - (IF work[w].persistent THEN 1 ELSE 0)
      BY <1>1, <1>14, <1>15, <2>1 DEF TypeOK
    <2>4. QED
      BY <1>14, <2>1, <2>2, <2>3, ThreadCounts
  <1>17. TypeOK'
    BY <1>1, <1>10, <1>14, <1>16 DEF IInv, TypeOK, ThreadType
  <1>18. ThreadInv'
    BY <1>1, <1>14, <1>15 DEF IInv, ThreadInv
  <1>19. JobInv'
    BY <1>1, <1>12, <1>13, <1>14, TakenJobs DEF IInv
  <1>20. SlotInv' /\ StartedInv'
    BY <1>1 DEF IInv, SlotInv, StartedInv
  <1>21. ShutdownInv'
    BY <1>1 DEF IInv, ShutdownInv
  <1>22. CreatorInv'
    BY <1>1, <1>14, SameCreator DEF IInv, InCreateWorker
  <1>23. QED
    BY <1>16, <1>17, <1>18, <1>19, <1>20, <1>21, <1>22 DEF IInv

LEMMA ReturnStep ==
  ASSUME IInv, NEW w \in Worker, Return(w)
  PROVE  IInv'
  <1>1. /\ work[w].pc = "running" /\ call[w].pc = "idle"
        /\ held' = held \ {work[w].job}
        /\ late' = late \ {work[w].job}
        /\ added' = [added EXCEPT ![w] = {}]
        /\ UNCHANGED <<queue, slot, total, persistents, shutdown, age, call, stopped, crossed>>
    BY DEF Return
  <1>2. /\ Becomes(w) /\ work'[w].pc = "top" /\ work'[w].persistent = work[w].persistent
    <2> DEFINE t == [[work[w] EXCEPT !.pc = "top"] EXCEPT !.job = NoJob]
    <2>1. work' = [work EXCEPT ![w] = t]
      BY Typed DEF Return, IInv
    <2>2. t \in ThreadType /\ t.pc = "top" /\ t.persistent = work[w].persistent
      BY Typed DEF ThreadType, IInv
    <2> HIDE DEF t
    <2>3. work'[w] = t
      BY <2>1, Typed DEF IInv
    <2>4. QED
      BY <2>1, <2>2, <2>3 DEF Becomes
  <1>3. w \in Alive /\ w \in Running /\ w \notin With("starting") /\ work[w].job \in Job
    BY <1>1 DEF Alive, Running, With, IInv, ThreadInv
  <1>4. /\ Alive' = Alive /\ Running' = Running \ {w}
        /\ With("starting")' = With("starting")
        /\ \A v \in Worker \ {w} : work'[v] = work[v]
        /\ work' \in [Worker -> ThreadType]
    <2>1. /\ work'[w].pc \notin {"none", "starting"} /\ work'[w].pc # "running"
          /\ work'[w].pc # "starting" /\ TypeOK /\ Becomes(w)
      BY <1>2 DEF IInv
    <2>2. /\ Alive' = Alive \cup {w} /\ Running' = Running \ {w}
          /\ With("starting")' = With("starting") \ {w}
          /\ \A v \in Worker \ {w} : work'[v] = work[v]
          /\ work' \in [Worker -> ThreadType]
      BY <2>1, ThreadStep, Zenon
    <2>3. Alive \cup {w} = Alive /\ With("starting") \ {w} = With("starting")
      BY <1>3
    <2>4. QED
      BY <2>2, <2>3, Zenon
  <1>5. CountsExact' /\ total' \in Nat /\ persistents' \in Nat
    <2>1. TypeOK /\ CountsExact /\ work[w].persistent \in BOOLEAN
      BY Typed DEF IInv, ThreadType
    <2>2. total' = total + (IF work'[w].pc \in {"none", "starting"} THEN 0 ELSE 1)
                        - (IF w \in Alive THEN 1 ELSE 0)
      BY <1>1, <1>2, <1>3, <2>1 DEF TypeOK
    <2>3. persistents' = persistents + (IF work'[w].persistent THEN 1 ELSE 0)
                        - (IF work[w].persistent THEN 1 ELSE 0)
      BY <1>1, <1>2, <2>1 DEF TypeOK
    <2>4. QED
      BY <1>2, <2>1, <2>2, <2>3, ThreadCounts
  <1>6. TypeOK'
    BY <1>1, <1>4, <1>5 DEF IInv, TypeOK, ThreadType
  <1>7. ThreadInv'
    BY <1>1, <1>2, <1>4 DEF IInv, ThreadInv
  <1>8. JobInv'
    <2> DEFINE R == {work[v].job : v \in Running}
               R1 == {work'[v].job : v \in Running'}
               j == work[w].job
    <2>0. JobInv /\ Sound(queue)' /\ AllOf(queue)' = AllOf(queue)
      BY <1>1, SameQueue DEF IInv, JobInv
    <2>1. \A v \in Running' : v \in Running /\ work'[v].job = work[v].job /\ work[v].job # j
      BY <1>3, <1>4, <2>0 DEF JobInv, Running
    <2>2. R1 = R \ {j}
      BY <1>3, <1>4, <2>1
    <2>3. j \notin AllOf(queue) /\ j # slot /\ held = AllOf(queue) \cup R \cup ({slot} \ {NoJob})
      BY <1>3, <2>0 DEF JobInv
    <2>4. held' = AllOf(queue)' \cup R1 \cup ({slot'} \ {NoJob})
      <3> HIDE DEF R, R1, j
      <3>1. held' = held \ {j}
        BY <1>1 DEF j
      <3>2. QED
        BY <1>1, <2>0, <2>2, <2>3, <3>1
    <2>5. QED
      BY <1>1, <2>0, <2>1, <2>4 DEF JobInv
  <1>9. SlotInv' /\ StartedInv'
    BY <1>1 DEF IInv, SlotInv, StartedInv
  <1>10. ShutdownInv'
    <2>1. work[w].job \notin AllOf(queue)
      BY <1>3 DEF IInv, JobInv
    <2>2. AllOf(queue)' = AllOf(queue)
      BY <1>1, SameQueue
    <2>3. QED
      BY <1>1, <1>4, <2>1, <2>2 DEF IInv, ShutdownInv
  <1>11. CreatorInv'
    BY <1>1, <1>4, SameCreator DEF IInv, InCreateWorker
  <1>12. QED
    BY <1>5, <1>6, <1>7, <1>8, <1>9, <1>10, <1>11 DEF IInv
-----------------------------------------------------------------------------
(***************************************************************************)
(* The calls.                                                              *)
(***************************************************************************)
LEMMA SignalFacts ==
  ASSUME TypeOK, Signal
  PROVE  /\ Calm /\ work' \in [Worker -> ThreadType]
         /\ With("starting")' = With("starting")
  <1>1. CASE With("asleep") = {}
    <2>1. work' = work
      BY <1>1 DEF Signal
    <2>2. QED
      BY <2>1, Typed DEF Calm, With
  <1>2. CASE With("asleep") # {}
    <2>1. PICK s \in With("asleep") : work' = [work EXCEPT ![s].pc = "awake"]
      BY <1>2 DEF Signal
    <2> DEFINE t == [work[s] EXCEPT !.pc = "awake"]
    <2>2. s \in Worker /\ work[s].pc = "asleep" /\ work' = [work EXCEPT ![s] = t]
      BY <2>1 DEF With
    <2>3. /\ t \in ThreadType /\ t.pc = "awake"
          /\ t.job = work[s].job /\ t.persistent = work[s].persistent
      BY <2>2, Typed, Moved
    <2> HIDE DEF t
    <2>4. /\ work' \in [Worker -> ThreadType] /\ work'[s] = t
          /\ \A v \in Worker \ {s} : work'[v] = work[v]
      BY <2>2, <2>3, Typed
    <2>5. Calm
      BY <2>2, <2>3, <2>4 DEF Calm
    <2>6. With("starting")' = With("starting")
      BY <2>2, <2>3, <2>4 DEF With
    <2>7. QED
      BY <2>4, <2>5, <2>6
  <1>3. QED
    BY <1>1, <1>2

(* What no call can disturb without touching the counters.                  *)
LEMMA CalmThreads ==
  ASSUME ThreadInv, Calm,
         \A w \in Worker : /\ call'[w].pc \in {"idle", "add"}
                           /\ call'[w].pc = "add" => work[w].pc = "running",
         call'[Main].pc # "add"
  PROVE  ThreadInv'
  BY DEF Calm, ThreadInv

LEMMA CalmShutdown ==
  ASSUME ShutdownInv, StartedInv, Calm, UNCHANGED <<queue, total, shutdown, late>>,
         call'[Main].pc \in {"drain", "over"} <=> call[Main].pc \in {"drain", "over"},
         call'[Main].pc = "over" => call[Main].pc = "over" \/ Running = {},
         \/ call'[Main].pc \in {"init", "failed"}
         \/ call[Main].pc \notin {"init", "failed"}
         \/ total >= MinThreads
  PROVE  ShutdownInv' /\ StartedInv'
  <1>1. Running' = Running /\ AllOf(queue)' = AllOf(queue)
    BY CalmFacts, SameQueue
  <1>2. QED
    BY <1>1 DEF ShutdownInv, StartedInv

LEMMA AddWorkerFacts ==
  ASSUME TypeOK, ThreadInv, CountsExact, CreatorInv, NEW w \in Worker,
         NEW r \in CallType, r.pc = "add", work[w].pc = "running",
         w \in InCreateWorker => Created(w), AddWorker(w, r), total' = total
  PROVE  /\ Calm /\ work' \in [Worker -> ThreadType]
         /\ call' \in [Worker \cup {Main} -> CallType]
         /\ call'[w].pc \in {"idle", "add"}
         /\ \A d \in (Worker \cup {Main}) \ {w} : call'[d] = call[d]
         /\ crossed' \in BOOLEAN
         /\ CreatorInv' /\ ThreadInv' /\ call'[Main] = call[Main]
  <1>1. /\ Calm /\ work' \in [Worker -> ThreadType]
        /\ call' \in [Worker \cup {Main} -> CallType]
        /\ call'[w].pc \in {"idle", "add"}
        /\ \A d \in (Worker \cup {Main}) \ {w} : call'[d] = call[d]
        /\ crossed' \in BOOLEAN
        /\ CreatorInv'
    <2>1. CASE CanCreate /\ Create(w, r)
      <3>1. Create(w, r) /\ total < MaxThreads /\ w \in Worker \cup {Main}
            /\ r.pc \in {"init", "add", "lasting"}
        BY <2>1 DEF CanCreate, TypeOK
      <3>2. CreatorInv'
        BY <3>1, CreateCreator
      <3>3. /\ Calm /\ work' \in [Worker -> ThreadType]
            /\ call' \in [Worker \cup {Main} -> CallType]
            /\ call'[w] = [r EXCEPT !.current = total + 1]
            /\ \A d \in (Worker \cup {Main}) \ {w} : call'[d] = call[d]
            /\ crossed' \in BOOLEAN
        BY <3>1, CreateFacts
      <3>4. [r EXCEPT !.current = total + 1].pc = "add"
        BY DEF CallType
      <3>5. QED
        BY <3>2, <3>3, <3>4
    <2>2. CASE Signal /\ call' = [call EXCEPT ![w] = NoCall] /\ UNCHANGED crossed
      <3>1. Signal /\ call' = [call EXCEPT ![w] = NoCall] /\ UNCHANGED crossed
        BY <2>2
      <3>2. /\ Calm /\ work' \in [Worker -> ThreadType]
            /\ With("starting")' = With("starting")
        BY <3>1, SignalFacts
      <3>3. Alive' = Alive
        BY <3>2, CalmFacts
      <3>4. /\ call' \in [Worker \cup {Main} -> CallType] /\ call'[w].pc = "idle"
            /\ \A d \in (Worker \cup {Main}) \ {w} : call'[d] = call[d]
            /\ crossed' \in BOOLEAN
        BY <3>1, Idle, Typed DEF TypeOK
      <3>5. CreatorInv'
        <4>1. PICK q \in CallType : q = NoCall
          BY Idle
        <4>2. q.pc \in {"idle", "slot"} /\ call' = [call EXCEPT ![w] = q]
          BY <3>1, <4>1, Idle
        <4>3. QED
          BY <3>1, <3>2, <3>3, <4>2, EndCreator
      <3>6. QED
        BY <3>2, <3>4, <3>5
    <2>3. QED
      BY <2>1, <2>2 DEF AddWorker
  <1>2. call'[Main] = call[Main]
    BY <1>1, ThreadsAssumption
  <1>3. ThreadInv'
    BY <1>1, <1>2, CalmThreads DEF ThreadInv
  <1>4. QED
    BY <1>1, <1>2, <1>3

LEMMA AddMoreStep ==
  ASSUME IInv, NEW w \in Worker, AddMore(w)
  PROVE  IInv'
  <1>1. /\ call[w].pc = "add" /\ Created(w)
        /\ AddWorker(w, [call[w] EXCEPT !.threads = @ + 1])
        /\ UNCHANGED <<added, queue, slot, total, persistents, shutdown, age, stopped, held, late>>
    BY DEF AddMore
  <1>2. PICK r \in CallType : r.pc = "add" /\ AddWorker(w, r)
    <2>1. call[w] \in CallType
      BY Typed DEF IInv
    <2>2. /\ [call[w] EXCEPT !.threads = @ + 1] \in CallType
          /\ [call[w] EXCEPT !.threads = @ + 1].pc = "add"
      BY <1>1, <2>1 DEF CallType
    <2>3. QED
      BY <1>1, <2>2
  <1>3. /\ Calm /\ work' \in [Worker -> ThreadType]
        /\ call' \in [Worker \cup {Main} -> CallType]
        /\ crossed' \in BOOLEAN
        /\ CreatorInv' /\ ThreadInv' /\ call'[Main] = call[Main]
    <2>1. work[w].pc = "running"
      BY <1>1 DEF IInv, ThreadInv
    <2>2. QED
      BY <1>1, <1>2, <2>1, AddWorkerFacts DEF IInv
  <1>4. TypeOK'
    BY <1>1, <1>3 DEF IInv, TypeOK, ThreadType, CallType
  <1>5. CountsExact' /\ JobInv'
    BY <1>1, <1>3, CalmCounts, CalmJobs DEF IInv
  <1>6. SlotInv'
    BY <1>1, <1>3 DEF IInv, SlotInv
  <1>7. ShutdownInv' /\ StartedInv'
    BY <1>1, <1>3, CalmShutdown DEF IInv
  <1>8. QED
    BY <1>3, <1>4, <1>5, <1>6, <1>7 DEF IInv

(* A job that is not held is nowhere, and goes to the end of its queue.     *)
LEMMA AddedJob ==
  ASSUME JobInv, Calm, NEW j \in Job, j \notin held, UNCHANGED slot,
         queue' = [queue EXCEPT ![Priority[j]] = Append(@, j)],
         held' = held \cup {j}
  PROVE  JobInv' /\ AllOf(queue)' = AllOf(queue) \cup {j}
  <1>1. PICK p \in Level : p = Priority[j]
    BY JobsAssumption
  <1>2. queue' = [queue EXCEPT ![p] = Append(queue[p], j)] /\ queue \in [Level -> Seq(Job)]
    BY <1>1 DEF JobInv, Sound
  <1>3. /\ j \notin AllOf(queue) /\ j # slot /\ \A w \in Running : work[w].job # j
    BY JobsAssumption DEF JobInv
  <1>4. \A k \in Level : j \notin ToSet(queue[k])
    BY <1>3 DEF AllOf, Level
  <1>5. /\ Append(queue[p], j) \in Seq(Job) /\ IsInjective(Append(queue[p], j))
        /\ ToSet(Append(queue[p], j)) = ToSet(queue[p]) \cup {j}
    <2>1. queue[p] \in Seq(Job) /\ IsInjective(queue[p]) /\ j \notin ToSet(queue[p])
      BY <1>4 DEF JobInv, Sound
    <2>2. PICK s \in Seq(Job) : s = queue[p]
      BY <2>1
    <2>3. QED
      BY <2>1, <2>2, AppendFacts
  <1>6. /\ queue' \in [Level -> Seq(Job)]
        /\ queue'[p] = Append(queue[p], j)
        /\ \A k \in Level \ {p} : queue'[k] = queue[k]
    BY <1>2, <1>5
  <1>7. ToSet(queue'[p]) = ToSet(queue[p]) \cup {j}
        /\ \A k \in Level \ {p} : ToSet(queue'[k]) = ToSet(queue[k])
    BY <1>5, <1>6, Zenon
  <1>8. Sound(queue)'
    <2>1. \A k \in Level : IsInjective(queue'[k])
      BY <1>5, <1>6 DEF JobInv, Sound
    <2>2. \A k, m \in Level : k # m => ToSet(queue'[k]) \cap ToSet(queue'[m]) = {}
      <3>1. \A k, m \in Level : k # m => ToSet(queue[k]) \cap ToSet(queue[m]) = {}
        BY DEF JobInv, Sound
      <3>2. QED
        BY <1>4, <1>7, <3>1
    <2>3. QED
      BY <1>6, <2>1, <2>2 DEF Sound
  <1>9. AllOf(queue)' = AllOf(queue) \cup {j}
    BY <1>1, <1>7 DEF AllOf, Level
  <1>10. /\ Running' = Running /\ \A w \in Running : work'[w].job = work[w].job
    BY CalmFacts
  <1>11. {work'[w].job : w \in Running'} = {work[w].job : w \in Running}
    BY <1>10
  <1>12. held' = AllOf(queue)' \cup {work'[w].job : w \in Running'} \cup ({slot'} \ {NoJob})
    BY <1>9, <1>11 DEF JobInv
  <1>13. \A w \in Running' : work'[w].job # slot' /\ work'[w].job \notin AllOf(queue)'
    BY <1>3, <1>9, <1>10 DEF JobInv
  <1>14. \A v, w \in Running' : work'[v].job = work'[w].job => v = w
    BY <1>10 DEF JobInv
  <1>15. slot' \notin AllOf(queue)'
    BY <1>3, <1>9 DEF JobInv
  <1>16. QED
    BY <1>8, <1>9, <1>12, <1>13, <1>14, <1>15 DEF JobInv

LEMMA AddStep ==
  ASSUME IInv, NEW w \in Worker, NEW j \in Job, Add(w, j)
  PROVE  IInv'
  <1>1. /\ work[w].pc = "running" /\ call[w].pc = "idle"
        /\ j \in Adds[work[w].job]
        /\ j \notin held
        /\ queue' = [queue EXCEPT ![Priority[j]] = Append(@, j)]
        /\ held' = held \cup {j}
        /\ added' = IF work[w].persistent THEN added ELSE [added EXCEPT ![w] = @ \cup {j}]
        /\ late' = IF shutdown THEN late \cup {j} ELSE late
        /\ UNCHANGED <<slot, total, persistents, shutdown, age, stopped>>
    BY DEF Add
  <1>2. PICK r \in CallType : r.pc = "add" /\ AddWorker(w, r)
    <2> DEFINE n == Queued + 1
               m == total - persistents
               r == [NoCall EXCEPT !.pc = "add", !.job = j, !.jobs = n, !.threads = m]
    <2>1. m \in Nat
      BY Fewer DEF IInv
    <2>2. n \in Nat
      <3>1. queue["high"] \in Seq(Job) /\ queue["med"] \in Seq(Job) /\ queue["low"] \in Seq(Job)
        BY DEF IInv, TypeOK, Level
      <3>2. Len(queue["high"]) \in Nat /\ Len(queue["med"]) \in Nat /\ Len(queue["low"]) \in Nat
        BY <3>1, LenProperties
      <3>3. Queued \in Nat
        <4>1. \A a, b, c \in Nat : a + b + c \in Nat
          OBVIOUS
        <4>2. QED
          BY <3>2, <4>1, Zenon DEF Queued
      <3>4. QED
        BY <3>3
    <2>3. AddWorker(w, r)
      BY DEF Add
    <2> HIDE DEF n, m
    <2>4. r \in CallType /\ r.pc = "add"
      BY <2>1, <2>2 DEF CallType, NoCall
    <2>5. QED
      BY <2>3, <2>4
  <1>3. /\ Calm /\ work' \in [Worker -> ThreadType]
        /\ call' \in [Worker \cup {Main} -> CallType]
        /\ crossed' \in BOOLEAN
        /\ CreatorInv' /\ ThreadInv' /\ call'[Main] = call[Main]
    <2>1. w \notin InCreateWorker
      BY <1>1 DEF InCreateWorker
    <2>2. QED
      BY <1>1, <1>2, <2>1, AddWorkerFacts DEF IInv
  <1>4. JobInv' /\ AllOf(queue)' = AllOf(queue) \cup {j}
    BY <1>1, <1>3, AddedJob DEF IInv
  <1>5. TypeOK'
    <2>1. queue' \in [Level -> Seq(Job)]
      BY <1>4 DEF JobInv, Sound
    <2>2. added' \in [Worker -> SUBSET Job]
      BY <1>1 DEF IInv, TypeOK
    <2>3. late' \subseteq held' /\ held' \subseteq Job
      BY <1>1 DEF IInv, TypeOK
    <2>4. QED
      BY <1>1, <1>3, <2>1, <2>2, <2>3 DEF IInv, TypeOK, ThreadType, CallType
  <1>6. CountsExact'
    BY <1>1, <1>3, CalmCounts DEF IInv
  <1>7. SlotInv'
    <2>1. j \notin Lasting
      <3>1. work[w].job \in Job
        BY <1>1 DEF IInv, ThreadInv
      <3>2. QED
        BY <1>1, <3>1, JobsAssumption
    <2>2. QED
      BY <1>1, <1>3, <2>1 DEF IInv, SlotInv
  <1>8. ShutdownInv'
    <2>1. Running' = Running
      BY <1>3, CalmFacts
    <2>2. QED
      BY <1>1, <1>3, <1>4, <2>1 DEF IInv, ShutdownInv
  <1>9. StartedInv'
    BY <1>1, <1>3 DEF IInv, StartedInv
  <1>10. QED
    BY <1>3, <1>4, <1>5, <1>6, <1>7, <1>8, <1>9 DEF IInv

LEMMA PoolInitStep ==
  ASSUME IInv, PoolInit
  PROVE  IInv'
  <1>1. /\ call[Main].pc = "init" /\ Created(Main)
        /\ UNCHANGED <<added, queue, slot, total, persistents, shutdown, age, stopped, held, late>>
    BY DEF PoolInit
  <1>2. /\ Calm /\ work' \in [Worker -> ThreadType]
        /\ call' \in [Worker \cup {Main} -> CallType]
        /\ \A w \in Worker : call'[w] = call[w]
        /\ crossed' \in BOOLEAN /\ CreatorInv'
        /\ \/ call'[Main].pc \in {"init", "failed"}
           \/ call'[Main].pc = "idle" /\ total >= MinThreads
    <2>1. CASE total < MinThreads /\ Create(Main, call[Main])
      <3>1. PICK r \in CallType : r = call[Main] /\ Create(Main, r)
        BY <2>1, Typed DEF IInv
      <3>2. total < MaxThreads /\ r.pc \in {"init", "add", "lasting"} /\ r.pc = "init"
        BY <1>1, <2>1, <3>1, ThreadsAssumption DEF IInv, TypeOK
      <3>3. CreatorInv'
        BY <1>1, <3>1, <3>2, CreateCreator DEF IInv
      <3>4. /\ Calm /\ work' \in [Worker -> ThreadType]
            /\ call' \in [Worker \cup {Main} -> CallType]
            /\ call'[Main] = [r EXCEPT !.current = total + 1]
            /\ \A d \in (Worker \cup {Main}) \ {Main} : call'[d] = call[d]
            /\ crossed' \in BOOLEAN
        BY <3>1, <3>2, CreateFacts DEF IInv
      <3>5. [r EXCEPT !.current = total + 1].pc = "init"
        BY <3>2 DEF CallType
      <3>6. \A w \in Worker : w # Main
        BY ThreadsAssumption
      <3>7. QED
        BY <3>3, <3>4, <3>5, <3>6
    <2>2. CASE /\ call' = [call EXCEPT ![Main] =
                      [NoCall EXCEPT !.pc = IF total < MinThreads THEN "failed" ELSE "idle"]]
               /\ UNCHANGED <<work, crossed>>
      <3>1. UNCHANGED <<work, crossed>>
        BY <2>2
      <3>2. PICK r \in CallType : /\ call' = [call EXCEPT ![Main] = r]
                                 /\ r.pc = IF total < MinThreads THEN "failed" ELSE "idle"
        <4>1. PICK to : to = IF total < MinThreads THEN "failed" ELSE "idle"
          OBVIOUS
        <4>2. to \in {"failed", "idle"}
          BY <4>1
        <4>3. PICK q : q = [NoCall EXCEPT !.pc = to]
          OBVIOUS
        <4>4. q \in CallType /\ q.pc = to
          BY <4>2, <4>3 DEF NoCall, CallType
        <4>5. call' = [call EXCEPT ![Main] = q]
          BY <2>2, <4>1, <4>3
        <4>6. QED
          BY <4>1, <4>4, <4>5
      <3>3. /\ call' \in [Worker \cup {Main} -> CallType] /\ call'[Main].pc = r.pc
            /\ \A w \in Worker : call'[w] = call[w]
        BY <3>2, Typed, ThreadsAssumption DEF IInv
      <3>4. r.pc \in {"idle", "slot", "failed"}
        BY <3>2
      <3>5. Alive' = Alive /\ With("starting")' = With("starting")
        BY <3>1 DEF Alive, With
      <3>6. CreatorInv'
        BY <1>1, <3>1, <3>2, <3>4, <3>5, EndCreator DEF IInv
      <3>7. Calm /\ work' \in [Worker -> ThreadType] /\ crossed' \in BOOLEAN
        BY <3>1, Typed DEF Calm, IInv, TypeOK
      <3>8. r.pc = "failed" \/ (r.pc = "idle" /\ total >= MinThreads)
        <4>1. total \in Nat /\ MinThreads \in Nat
          BY ThreadsAssumption DEF IInv, TypeOK
        <4>2. r.pc = IF total < MinThreads THEN "failed" ELSE "idle"
          BY <3>2
        <4>3. CASE total < MinThreads
          <5>1. r.pc = "failed"
            BY <4>2, <4>3, Zenon
          <5>2. QED
            BY <5>1
        <4>4. CASE ~(total < MinThreads)
          <5>1. r.pc = "idle"
            BY <4>2, <4>4, Zenon
          <5>2. total >= MinThreads
            BY ONLY <4>1, <4>4
          <5>3. QED
            BY <5>1, <5>2
        <4>5. QED
          BY <4>3, <4>4
      <3>9. QED
        BY <3>3, <3>6, <3>7, <3>8
    <2>3. QED
      BY <2>1, <2>2 DEF PoolInit
  <1>3. TypeOK'
    BY <1>1, <1>2 DEF IInv, TypeOK, ThreadType, CallType
  <1>4. CountsExact' /\ JobInv'
    BY <1>1, <1>2, CalmCounts, CalmJobs DEF IInv
  <1>5. ThreadInv'
    BY <1>2, CalmThreads DEF IInv, ThreadInv
  <1>6. SlotInv'
    BY <1>1, <1>2 DEF IInv, SlotInv
  <1>7. ShutdownInv' /\ StartedInv'
    BY <1>1, <1>2, CalmShutdown DEF IInv
  <1>8. QED
    BY <1>2, <1>3, <1>4, <1>5, <1>6, <1>7 DEF IInv

LEMMA FillSlotStep ==
  ASSUME IInv, NEW j \in Job, j \notin held, slot = NoJob, FillSlot(j),
         call[Main].pc \in {"idle", "lasting"}, Main \in InCreateWorker => Created(Main),
         UNCHANGED <<added, queue, total, persistents, shutdown, age, stopped, late>>
  PROVE  IInv'
  <1>1. slot' = j /\ held' = held \cup {j} /\ Signal /\ UNCHANGED crossed
    BY DEF FillSlot
  <1>2. PICK r \in CallType : r.pc = "slot" /\ call' = [call EXCEPT ![Main] = r]
    <2>1. /\ [NoCall EXCEPT !.pc = "slot", !.job = j] \in CallType
          /\ [NoCall EXCEPT !.pc = "slot", !.job = j].pc = "slot"
      BY DEF NoCall, CallType
    <2>2. call' = [call EXCEPT ![Main] = [NoCall EXCEPT !.pc = "slot", !.job = j]]
      BY DEF FillSlot
    <2>3. QED
      BY <2>1, <2>2
  <1>3. /\ call' \in [Worker \cup {Main} -> CallType] /\ call'[Main].pc = "slot"
        /\ \A w \in Worker : call'[w] = call[w]
    BY <1>2, Typed, ThreadsAssumption DEF IInv
  <1>4. /\ Calm /\ work' \in [Worker -> ThreadType]
        /\ With("starting")' = With("starting")
    BY <1>1, SignalFacts DEF IInv
  <1>5. /\ Alive' = Alive /\ Running' = Running
        /\ \A w \in Running : work'[w].job = work[w].job
    BY <1>4, CalmFacts
  <1>6. TypeOK'
    BY <1>1, <1>3, <1>4 DEF IInv, TypeOK, ThreadType, CallType
  <1>7. CountsExact'
    BY <1>4, CalmCounts DEF IInv
  <1>8. ThreadInv'
    BY <1>3, <1>4, CalmThreads DEF IInv, ThreadInv
  <1>9. JobInv'
    <2>1. /\ Sound(queue)' /\ AllOf(queue)' = AllOf(queue)
      BY SameQueue DEF IInv, JobInv
    <2>2. {work'[w].job : w \in Running'} = {work[w].job : w \in Running}
      BY <1>5
    <2>3. held = AllOf(queue) \cup {work[w].job : w \in Running}
      BY DEF IInv, JobInv
    <2>4. j \notin AllOf(queue) /\ \A w \in Running : work[w].job # j
      BY <2>3
    <2>5. held' = AllOf(queue)' \cup {work'[w].job : w \in Running'} \cup ({slot'} \ {NoJob})
      BY <1>1, <2>1, <2>2, <2>3, JobsAssumption
    <2>6. \A v, w \in Running' : work'[v].job = work'[w].job => v = w
      BY <1>5 DEF IInv, JobInv
    <2>7. \A w \in Running' : work'[w].job # slot' /\ work'[w].job \notin AllOf(queue)'
      BY <1>1, <1>5, <2>1, <2>4 DEF IInv, JobInv
    <2>8. QED
      BY <1>1, <2>1, <2>4, <2>5, <2>6, <2>7 DEF JobInv
  <1>10. SlotInv'
    BY <1>1, <1>3 DEF SlotInv
  <1>11. ShutdownInv' /\ StartedInv'
    BY <1>3, <1>4, CalmShutdown DEF IInv
  <1>12. CreatorInv'
    <2>1. r.pc \in {"idle", "slot"}
      BY <1>2
    <2>2. QED
      BY <1>1, <1>2, <1>4, <1>5, <2>1, EndCreator DEF IInv
  <1>13. QED
    BY <1>6, <1>7, <1>8, <1>9, <1>10, <1>11, <1>12 DEF IInv

LEMMA AddPersistentStep ==
  ASSUME IInv, NEW j \in Job, AddPersistent(j)
  PROVE  IInv'
  <1>1. /\ call[Main].pc = "idle" /\ j \in Lasting \ held
        /\ UNCHANGED <<added, queue, total, persistents, shutdown, age, stopped, late>>
    BY DEF AddPersistent
  <1>2. slot = NoJob
    BY <1>1 DEF IInv, SlotInv
  <1>3. CASE /\ total < MaxThreads
             /\ Create(Main, [NoCall EXCEPT !.pc = "lasting", !.job = j])
             /\ UNCHANGED <<slot, held>>
    <2>1. PICK r \in CallType : r.pc = "lasting" /\ r.job = j /\ Create(Main, r)
      <3>1. /\ [NoCall EXCEPT !.pc = "lasting", !.job = j] \in CallType
            /\ [NoCall EXCEPT !.pc = "lasting", !.job = j].pc = "lasting"
            /\ [NoCall EXCEPT !.pc = "lasting", !.job = j].job = j
        BY DEF NoCall, CallType
      <3>2. QED
        BY <1>3, <3>1
    <2>2. UNCHANGED <<slot, held>>
      BY <1>3
    <2>3. r.pc \in {"init", "add", "lasting"}
      BY <2>1
    <2>4. /\ Calm /\ work' \in [Worker -> ThreadType]
          /\ call' \in [Worker \cup {Main} -> CallType]
          /\ call'[Main] = [r EXCEPT !.current = total + 1]
          /\ \A d \in (Worker \cup {Main}) \ {Main} : call'[d] = call[d]
          /\ crossed' \in BOOLEAN
      BY <2>1, <2>3, CreateFacts DEF IInv
    <2>5. /\ call'[Main].pc = "lasting" /\ call'[Main].job = j
          /\ \A w \in Worker : call'[w] = call[w]
      <3>1. /\ [r EXCEPT !.current = total + 1].pc = "lasting"
            /\ [r EXCEPT !.current = total + 1].job = j
        BY <2>1 DEF CallType
      <3>2. QED
        BY <2>4, <3>1, ThreadsAssumption
    <2>6. CreatorInv'
      BY <1>1, <1>3, <2>1, <2>3, CreateCreator DEF IInv
    <2>7. TypeOK'
      BY <1>1, <2>2, <2>4 DEF IInv, TypeOK, ThreadType, CallType
    <2>8. CountsExact' /\ JobInv'
      BY <1>1, <2>2, <2>4, CalmCounts, CalmJobs DEF IInv
    <2>9. ThreadInv'
      BY <2>4, <2>5, CalmThreads DEF IInv, ThreadInv
    <2>10. SlotInv'
      BY <1>1, <1>2, <2>2, <2>5 DEF SlotInv
    <2>11. ShutdownInv' /\ StartedInv'
      BY <1>1, <2>4, <2>5, CalmShutdown DEF IInv
    <2>12. QED
      BY <2>6, <2>7, <2>8, <2>9, <2>10, <2>11 DEF IInv
  <1>4. CASE FillSlot(j)
    <2>1. FillSlot(j) /\ Main \notin InCreateWorker
      BY <1>1, <1>4 DEF InCreateWorker
    <2>2. QED
      BY <1>1, <1>2, <2>1, FillSlotStep
  <1>5. QED
    BY <1>3, <1>4 DEF AddPersistent

LEMMA AddPersistentMoreStep ==
  ASSUME IInv, AddPersistentMore
  PROVE  IInv'
  <1>1. /\ call[Main].pc = "lasting" /\ Created(Main)
        /\ FillSlot(call[Main].job)
        /\ UNCHANGED <<added, queue, total, persistents, shutdown, age, stopped, late>>
    BY DEF AddPersistentMore
  <1>2. PICK j \in Job : FillSlot(j) /\ j \notin held
    BY <1>1, JobsAssumption DEF IInv, SlotInv
  <1>3. slot = NoJob
    BY <1>1 DEF IInv, SlotInv
  <1>4. QED
    BY <1>1, <1>2, <1>3, FillSlotStep

LEMMA PersistentTakenStep ==
  ASSUME IInv, PersistentTaken
  PROVE  IInv'
  <1>1. /\ call[Main].pc = "slot" /\ slot = NoJob
        /\ call' = [call EXCEPT ![Main] = NoCall]
        /\ UNCHANGED <<added, queue, slot, total, persistents, shutdown, age, work,
                       stopped, held, late, crossed>>
    BY DEF PersistentTaken
  <1>2. PICK r \in CallType : r = NoCall /\ r.pc \in {"idle", "slot"} /\ r.pc = "idle"
    BY Idle
  <1>3. /\ call' \in [Worker \cup {Main} -> CallType] /\ call'[Main].pc = "idle"
        /\ \A w \in Worker : call'[w] = call[w]
    BY <1>1, <1>2, Typed, ThreadsAssumption DEF IInv
  <1>4. /\ Calm /\ Alive' = Alive /\ With("starting")' = With("starting")
    BY <1>1 DEF Calm, Alive, With
  <1>5. CreatorInv'
    <2>1. Main \notin InCreateWorker
      BY <1>1 DEF InCreateWorker
    <2>2. QED
      BY <1>1, <1>2, <1>4, <2>1, EndCreator DEF IInv
  <1>6. TypeOK'
    BY <1>1, <1>3 DEF IInv, TypeOK, CallType
  <1>7. CountsExact' /\ JobInv'
    BY <1>1, <1>4, CalmCounts, CalmJobs DEF IInv
  <1>8. ThreadInv'
    BY <1>3, <1>4, CalmThreads DEF IInv, ThreadInv
  <1>9. SlotInv'
    BY <1>1, <1>3 DEF SlotInv
  <1>10. ShutdownInv' /\ StartedInv'
    BY <1>1, <1>3, <1>4, CalmShutdown DEF IInv
  <1>11. QED
    BY <1>5, <1>6, <1>7, <1>8, <1>9, <1>10 DEF IInv
(* The jobs that are freed are those of the queues: nothing is in the slot, *)
(* as the call that filled it has returned.                                 *)
LEMMA ShutdownStep ==
  ASSUME IInv, Shutdown \/ CleanUp
  PROVE  IInv'
  <1>0. call[Main].pc \in {"idle", "failed"} /\ ThreadPoolShutdown
    BY DEF Shutdown, CleanUp
  <1>1. /\ call[Main].pc \in {"idle", "failed"}
        /\ queue' = [l \in Level |-> <<>>] /\ slot' = NoJob /\ shutdown' = TRUE
        /\ held' = held \ Freed /\ age' = [j \in Job |-> 0]
        /\ UNCHANGED <<added, total, persistents, stopped, late, crossed>>
    BY <1>0 DEF ThreadPoolShutdown
  <1>2. slot = NoJob /\ ~shutdown /\ late = {}
    BY <1>1 DEF IInv, SlotInv, ShutdownInv
  <1>3. PICK r \in CallType : r.pc = "drain" /\ call' = [call EXCEPT ![Main] = r]
    <2>1. /\ [NoCall EXCEPT !.pc = "drain"] \in CallType
          /\ [NoCall EXCEPT !.pc = "drain"].pc = "drain"
      BY DEF NoCall, CallType
    <2>2. call' = [call EXCEPT ![Main] = [NoCall EXCEPT !.pc = "drain"]]
      BY <1>0 DEF ThreadPoolShutdown
    <2>3. QED
      BY <2>1, <2>2
  <1>4. /\ call' \in [Worker \cup {Main} -> CallType] /\ call'[Main].pc = "drain"
        /\ \A w \in Worker : call'[w] = call[w]
    BY <1>3, Typed, ThreadsAssumption DEF IInv
  <1>5. /\ work' \in [Worker -> ThreadType]
        /\ \A w \in Worker : /\ work'[w].job = work[w].job
                             /\ work'[w].persistent = work[w].persistent
                             /\ work'[w].pc = IF work[w].pc = "asleep" THEN "awake" ELSE work[w].pc
    <2>1. work' = [w \in Worker |-> IF work[w].pc = "asleep" THEN [work[w] EXCEPT !.pc = "awake"]
                                    ELSE work[w]]
      BY <1>0 DEF ThreadPoolShutdown
    <2>2. \A w \in Worker : work[w] \in ThreadType
      BY Typed DEF IInv
    <2>3. ASSUME NEW w \in Worker
          PROVE  /\ work'[w] \in ThreadType
                 /\ work'[w].job = work[w].job
                 /\ work'[w].persistent = work[w].persistent
                 /\ work'[w].pc = IF work[w].pc = "asleep" THEN "awake" ELSE work[w].pc
      <3>1. PICK t \in ThreadType : t = work[w]
        BY <2>2
      <3>2. work'[w] = IF t.pc = "asleep" THEN [t EXCEPT !.pc = "awake"] ELSE t
        BY <2>1, <3>1
      <3>3. CASE t.pc = "asleep"
        <4>1. /\ [t EXCEPT !.pc = "awake"] \in ThreadType
              /\ [t EXCEPT !.pc = "awake"].pc = "awake"
              /\ [t EXCEPT !.pc = "awake"].job = t.job
              /\ [t EXCEPT !.pc = "awake"].persistent = t.persistent
          BY Moved
        <4>2. PICK u \in ThreadType : u = [t EXCEPT !.pc = "awake"]
          BY <4>1
        <4>3. u.pc = "awake" /\ u.job = t.job /\ u.persistent = t.persistent /\ work'[w] = u
          BY <3>2, <3>3, <4>1, <4>2
        <4>4. QED
          BY <3>1, <3>3, <4>3
      <3>4. CASE t.pc # "asleep"
        BY <3>1, <3>2, <3>4
      <3>5. QED
        BY <3>3, <3>4
    <2>4. work' \in [Worker -> ThreadType]
      <3>1. DOMAIN work' = Worker /\ work' = [w \in Worker |-> work'[w]]
        BY <2>1
      <3>2. QED
        BY <2>3, <3>1
    <2>5. QED
      BY <2>3, <2>4
  <1>6. Calm /\ With("starting")' = With("starting")
    BY <1>5 DEF Calm, With
  <1>7. /\ Alive' = Alive /\ Running' = Running
        /\ \A w \in Running : work'[w].job = work[w].job
    BY <1>6, CalmFacts
  <1>8. Sound(queue)' /\ AllOf(queue)' = {}
    <2>1. \A l \in Level : queue'[l] = <<>>
      BY <1>1
    <2>2. Sound(queue)'
      BY <1>1, <2>1, EmptyFacts DEF Sound
    <2>3. AllOf(queue)' = {}
      BY <2>1, EmptyFacts DEF AllOf, Level
    <2>4. QED
      BY <2>2, <2>3
  <1>9. JobInv'
    <2>1. {work'[w].job : w \in Running'} = {work[w].job : w \in Running}
      BY <1>7
    <2>2. Freed = AllOf(queue)
      BY DEF Freed, AllOf, Level
    <2>3. held = AllOf(queue) \cup {work[w].job : w \in Running}
      BY <1>2 DEF IInv, JobInv
    <2>4. \A w \in Running : work[w].job \notin AllOf(queue) /\ work[w].job # NoJob
      BY JobsAssumption DEF IInv, JobInv, ThreadInv, Running
    <2>5. held' = AllOf(queue)' \cup {work'[w].job : w \in Running'} \cup ({slot'} \ {NoJob})
      BY <1>1, <1>8, <2>1, <2>2, <2>3, <2>4
    <2>6. \A v, w \in Running' : work'[v].job = work'[w].job => v = w
      BY <1>7 DEF IInv, JobInv
    <2>7. \A w \in Running' : work'[w].job # slot' /\ work'[w].job \notin AllOf(queue)'
      BY <1>1, <1>7, <1>8, <2>4
    <2>8. QED
      BY <1>8, <2>5, <2>6, <2>7 DEF JobInv
  <1>10. TypeOK'
    <2>1. late' \subseteq held' /\ held' \subseteq Job
      BY <1>1, <1>2 DEF IInv, TypeOK
    <2>2. queue' \in [Level -> Seq(Job)]
      BY <1>8 DEF Sound
    <2>3. QED
      BY <1>1, <1>4, <1>5, <2>1, <2>2 DEF IInv, TypeOK, ThreadType, CallType
  <1>11. CountsExact'
    BY <1>1, <1>6, CalmCounts DEF IInv
  <1>12. ThreadInv'
    BY <1>4, <1>6, CalmThreads DEF IInv, ThreadInv
  <1>13. SlotInv' /\ StartedInv'
    BY <1>1, <1>4 DEF SlotInv, StartedInv
  <1>14. ShutdownInv'
    BY <1>1, <1>4, <1>8 DEF ShutdownInv
  <1>15. CreatorInv'
    <2>1. InCreateWorker' = InCreateWorker /\ \A c \in InCreateWorker : call'[c] = call[c]
      <3>1. DOMAIN call = Worker \cup {Main} /\ DOMAIN call' = Worker \cup {Main}
        BY <1>4, Typed DEF IInv
      <3>2. QED
        BY <1>1, <1>4, <3>1 DEF InCreateWorker
    <2>2. QED
      BY <1>1, <1>6, <1>7, <2>1, SameCreator DEF IInv
  <1>16. QED
    BY <1>9, <1>10, <1>11, <1>12, <1>13, <1>14, <1>15 DEF IInv

(* No thread counts any more: none runs a job.                              *)
LEMMA ShutdownDoneStep ==
  ASSUME IInv, ShutdownDone
  PROVE  IInv'
  <1>1. /\ call[Main].pc = "drain" /\ total = 0
        /\ UNCHANGED <<added, queue, slot, total, persistents, shutdown, age, work,
                       stopped, held, late, crossed>>
    BY DEF ShutdownDone
  <1>2. PICK r \in CallType : r.pc = "over" /\ call' = [call EXCEPT ![Main] = r]
    <2>1. /\ [NoCall EXCEPT !.pc = "over"] \in CallType
          /\ [NoCall EXCEPT !.pc = "over"].pc = "over"
      BY DEF NoCall, CallType
    <2>2. call' = [call EXCEPT ![Main] = [NoCall EXCEPT !.pc = "over"]]
      BY DEF ShutdownDone
    <2>3. QED
      BY <2>1, <2>2
  <1>3. /\ call' \in [Worker \cup {Main} -> CallType] /\ call'[Main].pc = "over"
        /\ \A w \in Worker : call'[w] = call[w]
    BY <1>2, Typed, ThreadsAssumption DEF IInv
  <1>4. /\ Calm /\ Alive' = Alive /\ With("starting")' = With("starting")
    BY <1>1 DEF Calm, Alive, With
  <1>5. Running = {}
    <2>1. Alive = {}
      BY <1>1, Finite, FS_EmptySet DEF IInv, CountsExact
    <2>2. Running \subseteq Alive
      BY DEF Running, Alive
    <2>3. QED
      BY <2>1, <2>2
  <1>6. TypeOK'
    BY <1>1, <1>3 DEF IInv, TypeOK, CallType
  <1>7. CountsExact' /\ JobInv'
    BY <1>1, <1>4, CalmCounts, CalmJobs DEF IInv
  <1>8. ThreadInv'
    BY <1>3, <1>4, CalmThreads DEF IInv, ThreadInv
  <1>9. SlotInv'
    BY <1>1, <1>3 DEF IInv, SlotInv
  <1>10. ShutdownInv' /\ StartedInv'
    BY <1>1, <1>3, <1>4, <1>5, CalmShutdown DEF IInv
  <1>11. CreatorInv'
    <2>1. InCreateWorker' = InCreateWorker /\ \A c \in InCreateWorker : call'[c] = call[c]
      <3>1. DOMAIN call = Worker \cup {Main} /\ DOMAIN call' = Worker \cup {Main}
        BY <1>3, Typed DEF IInv
      <3>2. QED
        BY <1>1, <1>3, <3>1 DEF InCreateWorker
    <2>2. QED
      BY <1>1, <1>4, <2>1, SameCreator DEF IInv
  <1>12. QED
    BY <1>6, <1>7, <1>8, <1>9, <1>10, <1>11 DEF IInv

(* A sleeper's time runs out; time passes; the pool is told of the end.     *)
LEMMA TimeOutStep ==
  ASSUME IInv, NEW w \in Worker, TimeOut(w)
  PROVE  IInv'
  <1>1. /\ work[w].pc = "asleep" /\ work' = [work EXCEPT ![w].pc = "timedout"]
        /\ UNCHANGED <<added, queue, slot, total, persistents, shutdown, age, call,
                       stopped, held, late, crossed>>
    BY DEF TimeOut
  <1>2. /\ work' \in [Worker -> ThreadType] /\ Calm
        /\ With("starting")' = With("starting")
    <2> DEFINE t == [work[w] EXCEPT !.pc = "timedout"]
    <2>1. work' = [work EXCEPT ![w] = t]
      BY <1>1
    <2>2. /\ t \in ThreadType /\ t.pc = "timedout"
          /\ t.job = work[w].job /\ t.persistent = work[w].persistent
      BY Typed, Moved DEF IInv
    <2> HIDE DEF t
    <2>3. /\ work' \in [Worker -> ThreadType] /\ work'[w] = t
          /\ \A v \in Worker \ {w} : work'[v] = work[v]
      BY <2>1, <2>2, Typed DEF IInv
    <2>4. QED
      BY <1>1, <2>2, <2>3 DEF Calm, With
  <1>3. Alive' = Alive
    BY <1>2, CalmFacts
  <1>4. TypeOK'
    BY <1>1, <1>2 DEF IInv, TypeOK, ThreadType
  <1>5. CountsExact' /\ JobInv'
    BY <1>1, <1>2, CalmCounts, CalmJobs DEF IInv
  <1>6. ThreadInv'
    BY <1>1, <1>2, CalmThreads DEF IInv, ThreadInv
  <1>7. SlotInv'
    BY <1>1 DEF IInv, SlotInv
  <1>8. ShutdownInv' /\ StartedInv'
    BY <1>1, <1>2, CalmShutdown DEF IInv
  <1>9. CreatorInv'
    BY <1>1, <1>2, <1>3, SameCreator DEF IInv, InCreateWorker
  <1>10. QED
    BY <1>4, <1>5, <1>6, <1>7, <1>8, <1>9 DEF IInv

LEMMA UnseenStep ==
  ASSUME IInv, TypeOK', UNCHANGED <<queue, slot, total, persistents, shutdown, work, call,
                                    held, late, crossed>>
  PROVE  IInv'
  <1>1. Calm /\ Alive' = Alive /\ With("starting")' = With("starting")
    BY DEF Calm, Alive, With
  <1>2. CountsExact' /\ JobInv'
    BY <1>1, CalmCounts, CalmJobs DEF IInv
  <1>3. ThreadInv' /\ SlotInv'
    BY DEF IInv, ThreadInv, SlotInv
  <1>4. ShutdownInv' /\ StartedInv'
    BY <1>1, CalmShutdown DEF IInv
  <1>5. CreatorInv'
    BY <1>1, SameCreator DEF IInv, InCreateWorker
  <1>6. QED
    BY <1>2, <1>3, <1>4, <1>5 DEF IInv

LEMMA TickStep ==
  ASSUME IInv, NEW l \in Level, Tick(l)
  PROVE  IInv'
  <1>1. PICK i \in DOMAIN queue[l] :
          /\ age[queue[l][i]] < 2
          /\ age' = [age EXCEPT ![queue[l][i]] = @ + 1]
          /\ UNCHANGED <<added, queue, slot, total, persistents, shutdown, work, call,
                         stopped, held, late, crossed>>
    BY DEF Tick
  <1>2. PICK j \in Job : j = queue[l][i]
    <2>1. queue[l] \in Seq(Job)
      BY DEF IInv, TypeOK
    <2>2. QED
      BY <2>1, LenProperties
  <1>3. age' \in [Job -> 0..2]
    <2>1. age \in [Job -> 0..2] /\ age[j] < 2 /\ age' = [age EXCEPT ![j] = age[j] + 1]
      BY <1>1, <1>2 DEF IInv, TypeOK
    <2>2. age[j] + 1 \in 0..2
      BY <2>1
    <2>3. QED
      BY <2>1, <2>2
  <1>4. TypeOK'
    BY <1>1, <1>3 DEF IInv, TypeOK
  <1>5. QED
    BY <1>1, <1>4, UnseenStep

LEMMA StopStep ==
  ASSUME IInv, Stop \/ UNCHANGED vars
  PROVE  IInv'
  <1>1. TypeOK' /\ UNCHANGED <<queue, slot, total, persistents, shutdown, work, call,
                               held, late, crossed>>
    BY DEF Stop, vars, IInv, TypeOK
  <1>2. QED
    BY <1>1, UnseenStep

-----------------------------------------------------------------------------
LEMMA Initial ==
  ASSUME Init
  PROVE  IInv
  <1>1. /\ call = [c \in Worker \cup {Main} |->
                     IF c = Main THEN [NoCall EXCEPT !.pc = "init"] ELSE NoCall]
        /\ work = [w \in Worker |-> NoThread]
        /\ queue = [l \in Level |-> <<>>] /\ slot = NoJob /\ total = 0 /\ persistents = 0
        /\ held = {} /\ late = {} /\ ~shutdown /\ ~crossed
    BY DEF Init
  <1>2. /\ [NoCall EXCEPT !.pc = "init"] \in CallType /\ NoCall \in CallType
        /\ [NoCall EXCEPT !.pc = "init"].pc = "init" /\ NoCall.pc = "idle"
        /\ NoThread \in ThreadType /\ NoThread.pc = "none" /\ NoThread.persistent = FALSE
    BY DEF NoCall, CallType, NoThread, ThreadType
  <1>3. /\ call \in [Worker \cup {Main} -> CallType] /\ work \in [Worker -> ThreadType]
        /\ call[Main].pc = "init"
        /\ \A w \in Worker : call[w].pc = "idle" /\ work[w].pc = "none" /\ ~work[w].persistent
    BY <1>1, <1>2, ThreadsAssumption
  <1>4. queue \in [Level -> Seq(Job)]
    BY <1>1, EmptyFacts
  <1>5. TypeOK
    <2>1. age \in [Job -> 0..2] /\ added \in [Worker -> SUBSET Job]
      BY DEF Init
    <2>2. stopped \in BOOLEAN /\ shutdown \in BOOLEAN /\ crossed \in BOOLEAN
      BY DEF Init
    <2>3. call \in [Worker \cup {Main} ->
                      [pc : {"idle", "init", "failed", "add", "lasting", "slot", "drain", "over"},
                       job : Job \cup {NoJob}, jobs : Nat, threads : Nat, current : Nat]]
      BY <1>3 DEF CallType
    <2>4. work \in [Worker ->
                      [pc : {"none", "starting", "top", "asleep", "awake", "timedout", "running"},
                       job : Job \cup {NoJob}, persistent : BOOLEAN]]
      BY <1>3 DEF ThreadType
    <2>5. QED
      BY <1>1, <1>4, <2>1, <2>2, <2>3, <2>4 DEF TypeOK
  <1>6. Alive = {} /\ Persistent = {} /\ Running = {} /\ With("starting") = {}
    BY <1>3 DEF Alive, Persistent, Running, With
  <1>7. Cardinality({}) = 0
    BY FS_EmptySet
  <1>8. CountsExact
    <2>1. Cardinality(Alive) = 0 /\ Cardinality(Persistent) = 0
      BY <1>6, <1>7, Zenon
    <2>2. QED
      BY <1>1, <2>1 DEF CountsExact, Persistent
  <1>9. ThreadInv
    BY <1>3 DEF ThreadInv
  <1>10. Sound(queue) /\ AllOf(queue) = {}
    <2>1. \A l \in Level : queue[l] = <<>>
      BY <1>1
    <2>2. QED
      BY <1>4, <2>1, EmptyFacts DEF Sound, AllOf, Level
  <1>11. JobInv
    BY <1>1, <1>6, <1>10 DEF JobInv
  <1>12. SlotInv /\ ShutdownInv /\ StartedInv
    BY <1>1, <1>3 DEF SlotInv, ShutdownInv, StartedInv
  <1>13. CreatorInv
    <2>1. InCreateWorker = {Main}
      BY <1>3 DEF InCreateWorker
    <2>2. Cardinality(Alive \cup With("starting")) = 0
      <3>1. Alive \cup With("starting") = {}
        BY <1>6
      <3>2. QED
        BY <1>7, <3>1, Zenon
    <2>3. QED
      BY <1>6, <2>1, <2>2, ThreadsAssumption DEF CreatorInv
  <1>14. QED
    BY <1>5, <1>8, <1>9, <1>11, <1>12, <1>13 DEF IInv

LEMMA Inductive ==
  ASSUME IInv, [Next]_vars
  PROVE  IInv'
  <1>1. ASSUME NEW w \in Worker, Worked(w) PROVE IInv'
    BY <1>1, StartStep, SleepStep, LeaveStep, PickPersistentStep, PickStep, ReturnStep,
       AddMoreStep DEF Worked
  <1>2. ASSUME NEW w \in Worker, TimeOut(w) PROVE IInv'
    BY <1>2, TimeOutStep
  <1>3. ASSUME NEW w \in Worker, NEW j \in Job, Add(w, j) PROVE IInv'
    BY <1>3, AddStep
  <1>4. CASE Continued
    BY <1>4, PoolInitStep, ShutdownStep, AddPersistentMoreStep, PersistentTakenStep,
       ShutdownDoneStep DEF Continued
  <1>5. ASSUME NEW j \in Job, AddPersistent(j) PROVE IInv'
    BY <1>5, AddPersistentStep
  <1>6. CASE Stop \/ UNCHANGED vars
    BY <1>6, StopStep
  <1>7. CASE Shutdown \/ CleanUp
    BY <1>7, ShutdownStep
  <1>8. ASSUME NEW l \in Level, Tick(l) PROVE IInv'
    BY <1>8, TickStep
  <1>9. CASE Tick("med") \/ Tick("low")
    BY <1>8, <1>9 DEF Level
  <1>10. CASE Over
    BY <1>6, <1>10 DEF Over
  <1>11. QED
    BY <1>1, <1>2, <1>3, <1>4, <1>5, <1>6, <1>7, <1>9, <1>10 DEF Next

LEMMA Invariance == Spec => []IInv
  <1>1. Init => IInv
    BY Initial
  <1>2. IInv /\ [Next]_vars => IInv'
    BY Inductive
  <1>3. QED
    BY <1>1, <1>2, PTL DEF Spec

-----------------------------------------------------------------------------
(***************************************************************************)
(* The theorems.                                                           *)
(***************************************************************************)
(* The variables keep their types: in particular no counter of threads is  *)
(* ever decremented below zero.                                            *)
THEOREM TypeCorrect == Spec => []TypeOK
  <1>1. IInv => TypeOK
    BY DEF IInv
  <1>2. QED
    BY <1>1, Invariance, PTL

(* totalThreads and persistentThreads are the numbers of the threads that   *)
(* run the loop of WorkerThread and of those with a persistent job.         *)
THEOREM CountsAreExact == Spec => []CountsExact
  <1>1. IInv => CountsExact
    BY DEF IInv
  <1>2. QED
    BY <1>1, Invariance, PTL

LEMMA QueuePlaces ==
  ASSUME TypeOK, NEW l \in Level, NEW i \in DOMAIN queue[l]
  PROVE  i \in 1..Queued /\ i <= Len(queue[l])
  <1>1. \A k \in Level : queue[k] \in Seq(Job)
    BY DEF TypeOK
  <1>2. \A k \in Level : Len(queue[k]) \in Nat /\ DOMAIN queue[k] = 1..Len(queue[k])
    BY <1>1, LenProperties
  <1>3. Len(queue["high"]) \in Nat /\ Len(queue["med"]) \in Nat /\ Len(queue["low"]) \in Nat
    BY <1>2 DEF Level
  <1>4. \A a, b, c \in Nat : /\ a + b + c \in Nat /\ a <= a + b + c
                             /\ b <= a + b + c /\ c <= a + b + c
    OBVIOUS
  <1>5. /\ Queued \in Nat /\ Len(queue["high"]) <= Queued
        /\ Len(queue["med"]) <= Queued /\ Len(queue["low"]) <= Queued
    BY <1>3, <1>4, Zenon DEF Queued
  <1>6. Len(queue[l]) <= Queued
    BY <1>5 DEF Level
  <1>7. i \in 1..Len(queue[l])
    BY <1>2
  <1>8. QED
    BY <1>2, <1>5, <1>6, <1>7

LEMMA PlacesOf ==
  ASSUME IInv, NEW j \in Job
  PROVE  /\ j \in held => \E x : Places(j) = {x}
         /\ j \notin held => Places(j) = {}
  <1> DEFINE Q == {p \in Level \X (1..Queued) :
                     p[2] <= Len(queue[p[1]]) /\ queue[p[1]][p[2]] = j}
             W == {w \in Worker : work[w].pc = "running" /\ work[w].job = j}
             S == IF slot = j THEN {Main} ELSE {}
  <1>1. Places(j) = Q \cup W \cup S
    BY DEF Places
  <1>2. Q # {} <=> j \in AllOf(queue)
    <2>1. ASSUME NEW p \in Q PROVE j \in AllOf(queue)
      <3>1. p[1] \in Level /\ p[2] \in 1..Queued /\ p[2] <= Len(queue[p[1]])
            /\ queue[p[1]][p[2]] = j
        OBVIOUS
      <3>2. queue[p[1]] \in Seq(Job)
        BY <3>1 DEF IInv, TypeOK
      <3>3. p[2] \in DOMAIN queue[p[1]]
        BY <3>1, <3>2, LenProperties
      <3>4. QED
        BY <3>1, <3>3 DEF AllOf, ToSet, Level
    <2>2. ASSUME j \in AllOf(queue) PROVE Q # {}
      <3>1. PICK l \in Level : j \in ToSet(queue[l])
        BY <2>2 DEF AllOf, Level
      <3>2. PICK i \in DOMAIN queue[l] : queue[l][i] = j
        BY <3>1 DEF ToSet
      <3>3. i \in 1..Queued /\ i <= Len(queue[l])
        BY QueuePlaces DEF IInv
      <3>4. <<l, i>> \in Q
        BY <3>2, <3>3
      <3>5. QED
        BY <3>4
    <2>3. QED
      BY <2>1, <2>2
  <1>3. \A p, q \in Q : p = q
    <2> SUFFICES ASSUME NEW p \in Q, NEW q \in Q PROVE p = q
      OBVIOUS
    <2>1. /\ p[1] \in Level /\ p[2] \in 1..Queued /\ p[2] <= Len(queue[p[1]])
          /\ queue[p[1]][p[2]] = j /\ p = <<p[1], p[2]>>
      OBVIOUS
    <2>2. /\ q[1] \in Level /\ q[2] \in 1..Queued /\ q[2] <= Len(queue[q[1]])
          /\ queue[q[1]][q[2]] = j /\ q = <<q[1], q[2]>>
      OBVIOUS
    <2>3. queue[p[1]] \in Seq(Job) /\ queue[q[1]] \in Seq(Job)
      BY <2>1, <2>2 DEF IInv, TypeOK
    <2>4. p[2] \in DOMAIN queue[p[1]] /\ q[2] \in DOMAIN queue[q[1]]
      BY <2>1, <2>2, <2>3, LenProperties
    <2>5. j \in ToSet(queue[p[1]]) /\ j \in ToSet(queue[q[1]])
      BY <2>1, <2>2, <2>4 DEF ToSet
    <2>6. p[1] = q[1]
      BY <2>1, <2>2, <2>5 DEF IInv, JobInv, Sound
    <2>7. p[2] = q[2]
      BY <2>1, <2>2, <2>4, <2>6 DEF IInv, JobInv, Sound, IsInjective
    <2>8. QED
      BY <2>1, <2>2, <2>6, <2>7
  <1>4. W = {w \in Running : work[w].job = j}
    BY DEF Running
  <1>5. /\ \A v, w \in W : v = w
        /\ W # {} => Q = {} /\ S = {}
        /\ S # {} => Q = {} /\ W = {}
        /\ j \in held <=> Q # {} \/ W # {} \/ S # {}
    <2> HIDE DEF Q, W
    <2>1. \A v, w \in W : v = w
      BY <1>4 DEF IInv, JobInv
    <2>2. W # {} => j \notin AllOf(queue) /\ j # slot
      BY <1>4 DEF IInv, JobInv
    <2>3. j = slot => j \notin AllOf(queue) /\ W = {}
      BY <1>4 DEF IInv, JobInv
    <2>4. j \in held <=> j \in AllOf(queue) \/ W # {} \/ slot = j
      <3>1. j # NoJob /\ held = AllOf(queue) \cup {work[w].job : w \in Running} \cup ({slot} \ {NoJob})
        BY JobsAssumption DEF IInv, JobInv
      <3>2. j \in {work[w].job : w \in Running} <=> W # {}
        BY <1>4
      <3>3. QED
        BY <3>1, <3>2
    <2>5. QED
      BY <1>2, <2>1, <2>2, <2>3, <2>4
  <1> HIDE DEF Q, W
  <1>6. CASE Q # {}
    <2>1. PICK x \in Q : TRUE
      BY <1>6
    <2>2. Places(j) = {x}
      BY <1>1, <1>3, <1>5, <1>6, <2>1
    <2>3. QED
      BY <1>5, <1>6, <2>2
  <1>7. CASE W # {}
    <2>1. PICK x \in W : TRUE
      BY <1>7
    <2>2. Places(j) = {x}
      BY <1>1, <1>5, <1>7, <2>1
    <2>3. QED
      BY <1>5, <1>7, <2>2
  <1>8. CASE S # {}
    <2>1. Places(j) = {Main}
      BY <1>1, <1>5, <1>8
    <2>2. QED
      BY <1>5, <1>8, <2>1
  <1>9. CASE Q = {} /\ W = {} /\ S = {}
    BY <1>1, <1>5, <1>9
  <1>10. QED
    BY <1>6, <1>7, <1>8, <1>9

(* Each job that ThreadPoolAdd or ThreadPoolAddPersistent accepted is in    *)
(* one queue, once, or in the slot or run by one thread, until it has run   *)
(* or the shutdown has freed it: BumpPriority neither loses nor doubles it. *)
THEOREM JobsHeldOnce == Spec => []JobsOnce
  <1>1. IInv => JobsOnce
    <2> SUFFICES ASSUME IInv
                 PROVE  JobsOnce
      OBVIOUS
    <2>1. ASSUME NEW j \in Job PROVE Cardinality(Places(j)) = IF j \in held THEN 1 ELSE 0
      <3>1. CASE j \in held
        <4>1. PICK x : Places(j) = {x}
          BY <3>1, PlacesOf
        <4>2. Cardinality(Places(j)) = 1
          BY <4>1, FS_Singleton, Zenon
        <4>3. QED
          BY <3>1, <4>2
      <3>2. CASE j \notin held
        <4>1. Places(j) = {}
          BY <3>2, PlacesOf
        <4>2. Cardinality(Places(j)) = 0
          BY <4>1, FS_EmptySet, Zenon
        <4>3. QED
          BY <3>2, <4>2
      <3>3. QED
        BY <3>1, <3>2
    <2>2. call[Main].pc = "over" => held = late
      <3> SUFFICES ASSUME call[Main].pc = "over"
                   PROVE  held = late
        OBVIOUS
      <3>1. Running = {} /\ AllOf(queue) \subseteq late
        BY DEF IInv, ShutdownInv
      <3>2. slot = NoJob
        BY DEF IInv, SlotInv
      <3>3. held \subseteq late
        BY <3>1, <3>2 DEF IInv, JobInv
      <3>4. QED
        BY <3>3 DEF IInv, TypeOK
    <2>3. QED
      BY <2>1, <2>2 DEF JobsOnce
  <1>2. QED
    BY <1>1, Invariance, PTL

(* Between ThreadPoolInit, unless it fails, and the shutdown minThreads     *)
(* threads stay; and as long as no two CreateWorker overlap, there are      *)
(* maxThreads at most and none starts when ThreadPoolShutdown has destroyed *)
(* the mutex.                                                              *)
THEOREM ThreadLimits == Spec => []ThreadsBounded
  <1>1. IInv => ThreadsBounded
    <2> SUFFICES ASSUME IInv
                 PROVE  ThreadsBounded
      OBVIOUS
    <2>1. call[Main].pc \notin {"init", "failed"} /\ ~shutdown => total >= MinThreads
      BY DEF IInv, StartedInv
    <2>2. ~crossed => Cardinality(Alive \cup With("starting")) <= MaxThreads
      BY DEF IInv, CreatorInv
    <2>3. ~crossed /\ call[Main].pc = "over" => With("starting") = {}
      <3> SUFFICES ASSUME ~crossed, call[Main].pc = "over", With("starting") # {}
                   PROVE  FALSE
        OBVIOUS
      <3>1. PICK c \in InCreateWorker : TRUE
        BY DEF IInv, CreatorInv
      <3>2. c \in Worker /\ call[c].pc \in {"init", "add", "lasting"}
        BY <3>1, Typed DEF InCreateWorker, IInv
      <3>3. work[c].pc = "running"
        BY <3>2 DEF IInv, ThreadInv
      <3>4. QED
        BY <3>2, <3>3 DEF IInv, ShutdownInv, Running
    <2>4. QED
      BY <2>1, <2>2, <2>3 DEF ThreadsBounded
  <1>2. QED
    BY <1>1, Invariance, PTL
=============================================================================
