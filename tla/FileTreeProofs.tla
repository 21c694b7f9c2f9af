--------------------------- MODULE FileTreeProofs ---------------------------
(***************************************************************************)
(* The file system tree, for any tree, any paths and any number of threads. *)
(*                                                                         *)
(* First the history of searches (IInv): a walk that looked a word up and  *)
(* did not find it holds search_hist_mutex until the word is in the history *)
(* or the walk is over, and so does one whose criteria point into an entry. *)
(* Then what paths mean (JInv): a walk stands where the components it has  *)
(* taken lead, in the list of devices there is or, once a device has come  *)
(* or gone, in some list of them; and each entry of the history is what its *)
(* word leads to.                                                          *)
(***************************************************************************)
EXTENDS FileTree, SequenceTheorems, NaturalsInduction, WellFoundedInduction, TLAPS

USE HistAssumption, QueriesAssumption, ThreadAssumption

Pc == {"idle", "walk", "lock", "history", "call", "answer", "done"}
Rc == {"ok", "ENOENT", "ENOTDIR", "EINVAL", "ENOMEM"}

Fields == {"pc", "op", "path", "left", "at", "want", "from", "type", "rc", "listed", "calm"}

Wants == {"text", "metadata", "children", "caps", "vain", "browse", "search", "new"}

Asking(w) == w.pc \in {"call", "answer"}

(* What a walk is, whatever the others do: in particular it succeeds only at *)
(* the end of its path.                                                     *)
Sane(w) ==
  /\ DOMAIN w = Fields
  /\ w.pc \in Pc /\ w.rc \in Rc
  /\ w.path \in Seq(STRING) /\ w.left \in Seq(STRING) /\ Len(w.left) <= Len(w.path)
  /\ Asking(w) => w.want \in Wants
  /\ Asking(w) /\ w.want = "text" => w.left = <<>>
  /\ w.pc = "done" /\ w.rc = "ok" => w.left = <<>>

-----------------------------------------------------------------------------
(***************************************************************************)
(* The walks that the operators of the module make of a walk.              *)
(***************************************************************************)
LEMMA FinishFacts ==
  ASSUME NEW w, Sane(w), NEW rc \in Rc, rc = "ok" => w.left = <<>>
  PROVE  /\ Sane(Finish(w, rc)) /\ Finish(w, rc).pc = "done"
         /\ Finish(w, rc).rc = rc
  BY DEF Sane, Fields, Finish, Asking, Pc, Rc

LEMMA EndBodyFacts ==
  ASSUME NEW w, Sane(w)
  PROVE  Sane(EndBody(w)) /\ EndBody(w).pc = "done"
  BY FinishFacts DEF EndBody, Rc

LEMMA AskFacts ==
  ASSUME NEW w, Sane(w), NEW want \in Wants, want = "text" => w.left = <<>>
  PROVE  /\ Sane(Ask(w, want)) /\ Ask(w, want).pc = "call" /\ Ask(w, want).want = want
         /\ Ask(w, want).from = w.from
         /\ Ask(w, want).path = w.path /\ Ask(w, want).left = w.left
  BY DEF Sane, Fields, Ask, Asking, Pc, Rc, Wants

LEMMA DisturbedFacts ==
  ASSUME NEW w, Sane(w)
  PROVE  /\ Sane(Disturbed(w)) /\ Disturbed(w).pc = w.pc /\ Disturbed(w).from = w.from
         /\ Disturbed(w).path = w.path /\ Disturbed(w).left = w.left
  BY DEF Sane, Fields, Disturbed, Asking

LEMMA InFacts ==
  ASSUME NEW w, Sane(w), NEW kids, NEW searchable
  PROVE  /\ Sane(In(w, kids, searchable)) /\ In(w, kids, searchable).pc = "walk"
         /\ In(w, kids, searchable).from = w.from
  BY DEF Sane, Fields, In, Asking, Pc, Rc

LEMMA EnterDirFacts ==
  ASSUME NEW w, Sane(w), w.left # <<>>, NEW to
  PROVE  LET in == EnterDir(w, to)
         IN  /\ Sane(in) /\ in.pc \in {"walk", "call", "done"} /\ in.from = <<>>
             /\ in.pc = "call" => in.want = "browse"
  <1> DEFINE in == [w EXCEPT !.left = Tail(@), !.at = to, !.pc = "walk", !.type = "dir",
                             !.from = <<>>]
  <1>1. Tail(w.left) \in Seq(STRING) /\ Len(Tail(w.left)) = Len(w.left) - 1
        /\ Len(w.left) \in Nat /\ Len(w.path) \in Nat
    BY HeadTailProperties, LenProperties DEF Sane
  <1>2. /\ Sane(in) /\ in.pc = "walk" /\ in.from = <<>>
    BY <1>1 DEF Sane, Fields, Asking, Pc, Rc
  <1>3. EnterDir(w, to) = IF in.left = <<>> /\ w.op = "readlink" THEN Finish(in, "EINVAL")
                          ELSE IF to.kind = "browse" THEN Ask(in, "browse") ELSE in
    BY DEF EnterDir
  <1> HIDE DEF in
  <1>4. /\ Sane(Finish(in, "EINVAL")) /\ Finish(in, "EINVAL").pc = "done"
        /\ Finish(in, "EINVAL").from = <<>>
    BY <1>2, FinishFacts DEF Rc, Finish, Sane, Fields
  <1>5. /\ Sane(Ask(in, "browse")) /\ Ask(in, "browse").pc = "call"
        /\ Ask(in, "browse").want = "browse" /\ Ask(in, "browse").from = <<>>
    BY <1>2, AskFacts DEF Wants
  <1>6. QED
    BY <1>2, <1>3, <1>4, <1>5

LEMMA EnterFileFacts ==
  ASSUME NEW w, Sane(w), w.left # <<>>, NEW e
  PROVE  LET in == EnterFile(w, e)
         IN  /\ Sane(in) /\ in.pc \in {"call", "done"}
             /\ in.pc = "call" => in.from = w.from /\ in.want = "text"
  <1> DEFINE in == [w EXCEPT !.left = Tail(@), !.at = e.to, !.type = e.type]
  <1>1. Tail(w.left) \in Seq(STRING) /\ Len(Tail(w.left)) = Len(w.left) - 1
        /\ Len(w.left) \in Nat /\ Len(w.path) \in Nat
    BY HeadTailProperties, LenProperties DEF Sane
  <1>2. /\ DOMAIN in = Fields /\ in.from = w.from /\ in.pc = w.pc /\ in.rc = w.rc
        /\ in.path \in Seq(STRING) /\ in.left \in Seq(STRING) /\ Len(in.left) <= Len(in.path)
    BY <1>1 DEF Sane, Fields
  <1>3. EnterFile(w, e) = IF in.left # <<>> \/ w.op = "getdir" THEN Finish(in, "ENOTDIR")
                          ELSE IF w.op = "readlink" /\ e.type = "file" THEN Finish(in, "EINVAL")
                          ELSE IF e.to.kind = "text" THEN Ask(in, "text") ELSE Finish(in, "ok")
    BY DEF EnterFile
  <1> HIDE DEF in
  <1>4. ASSUME NEW rc \in Rc, rc = "ok" => in.left = <<>>
        PROVE  Sane(Finish(in, rc)) /\ Finish(in, rc).pc = "done"
    BY <1>2, <1>4 DEF Sane, Fields, Finish, Asking, Pc
  <1>5. in.left = <<>> => /\ Sane(Ask(in, "text")) /\ Ask(in, "text").pc = "call"
                          /\ Ask(in, "text").want = "text" /\ Ask(in, "text").from = w.from
    BY <1>2 DEF Sane, Fields, Ask, Asking, Pc, Rc, Wants
  <1>6. QED
    BY <1>3, <1>4, <1>5 DEF Rc

LEMMA EnterFacts ==
  ASSUME NEW w, Sane(w), w.left # <<>>, NEW e
  PROVE  LET in == Enter(w, e)
         IN  /\ Sane(in) /\ in.pc \in {"walk", "call", "done"}
             /\ in.from = <<>> \/ in.pc = "done" \/ in.from = w.from
             /\ in.pc = "call" => in.want \in {"browse", "text"}
  BY EnterDirFacts, EnterFileFacts DEF Enter

LEMMA AfterFacts ==
  ASSUME NEW w, Sane(w)
  PROVE  LET in == After(w)
         IN  /\ Sane(in) /\ in.pc \in {"lock", "call", "done"}
             /\ in.pc = "done" \/ in.from = w.from
             /\ in.pc = "call" => in.want = "metadata"
  <1>1. \/ After(w) = Ask(w, "metadata") \/ After(w) = [w EXCEPT !.pc = "lock"]
        \/ After(w) = EndBody(w)
    BY DEF After
  <1>2. /\ Sane([w EXCEPT !.pc = "lock"]) /\ [w EXCEPT !.pc = "lock"].pc = "lock"
        /\ [w EXCEPT !.pc = "lock"].from = w.from
    BY DEF Sane, Fields, Asking, Pc
  <1>3. CASE After(w) = Ask(w, "metadata")
    BY <1>3, AskFacts DEF Wants
  <1>4. CASE After(w) = [w EXCEPT !.pc = "lock"]
    BY <1>2, <1>4
  <1>5. CASE After(w) = EndBody(w)
    BY <1>5, EndBodyFacts
  <1>6. QED
    BY <1>1, <1>3, <1>4, <1>5

LEMMA ListFacts ==
  ASSUME NEW w, Sane(w), NEW es
  PROVE  Sane(List(w, es)) /\ List(w, es).from = w.from /\ List(w, es).pc = w.pc
  BY DEF List, Sane, Fields, Asking

(* What is stored in at is not looked at here.                              *)
LEMMA AtFacts ==
  ASSUME NEW w, Sane(w), NEW x
  PROVE  LET v == [w EXCEPT !.at = x]
         IN  /\ Sane(v) /\ v.pc = w.pc /\ v.from = w.from
             /\ v.path = w.path /\ v.left = w.left
  BY DEF Sane, Fields, Asking

-----------------------------------------------------------------------------
(***************************************************************************)
(* The invariant.                                                          *)
(***************************************************************************)
(* A part of criteria: a word, or a mark of Criterion, a string as well.    *)
Part == STRING \cup {"contains", "raw"}

Search == [parent : Seq(STRING), name : STRING, crit : Seq(Part)]

(* The walks for which the history must not change.                         *)
Holds(w) ==
  \/ w.pc = "history"
  \/ Asking(w) /\ w.want = "new"
  \/ w.pc \notin {"idle", "done"} /\ w.from # <<>>

Absent(path, name) == \A i \in DOMAIN hist : Key(hist[i]) # <<path, name>>
Present(key) == \E i \in DOMAIN hist : key = Key(hist[i])

Fits(w, t) ==
  /\ Sane(w)
  /\ w.pc = "idle" => owner # t
  /\ Holds(w) => owner = t
  /\ HistSize > 0 /\ w.pc \notin {"idle", "done"} /\ w.from # <<>> => Present(w.from)
  /\ Asking(w) /\ w.want = "new" => w.left # <<>> /\ Absent(Here(w), Head(w.left))

IInv ==
  /\ alive \subseteq Device /\ lister \in Thread \cup {Nobody}
  /\ owner \in Thread \cup {Nobody} /\ depth \in Nat /\ (depth = 0 <=> owner = Nobody)
  /\ hist \in Seq(Search) /\ HistoryExact
  /\ DOMAIN walk = Thread
  /\ \A t \in Thread : Fits(walk[t], t)

(* A walk goes on and the history stays what it is.                         *)
LEMMA Onward ==
  ASSUME IInv, NEW t \in Thread, NEW w, Sane(w), w.pc \notin {"idle", "history"},
         \/ w.pc = "done" \/ w.from = <<>>
         \/ w.from = walk[t].from /\ walk[t].pc \notin {"idle", "done"},
         Asking(w) => w.want # "new"
  PROVE  Fits(w, t)
  BY DEF IInv, Fits, Holds

LEMMA WalkStep ==
  ASSUME IInv, NEW t \in Thread, NEW w, Update(t, w), Fits(w, t),
         UNCHANGED <<alive, hist, owner, depth>>, lister' \in Thread \cup {Nobody}
  PROVE  IInv'
  <1>1. /\ DOMAIN walk' = Thread /\ walk'[t] = w
        /\ \A u \in Thread \ {t} : walk'[u] = walk[u]
    BY DEF Update, IInv
  <1>2. \A u \in Thread : Fits(walk[u], u)' <=> Fits(walk'[u], u)
    BY DEF Fits, Present, Absent, Here, Key
  <1>3. \A u \in Thread : Fits(walk'[u], u)
    BY <1>1 DEF IInv
  <1>4. HistoryExact'
    BY DEF IInv, HistoryExact, Key
  <1>5. QED
    BY <1>1, <1>2, <1>3, <1>4 DEF IInv

(* Whoever holds the mutex may change the history.                          *)
LEMMA OthersFit ==
  ASSUME IInv, NEW t \in Thread, NEW u \in Thread \ {t}, walk'[u] = walk[u],
         owner \in {Nobody, t}, owner' \in {Nobody, t}
  PROVE  Fits(walk[u], u)'
  <1>1. Sane(walk[u]) /\ ~Holds(walk[u])
    BY DEF IInv, Fits
  <1>2. owner' # u
    BY ThreadAssumption
  <1>3. QED
    BY <1>1, <1>2 DEF Fits, Holds

-----------------------------------------------------------------------------
(***************************************************************************)
(* The steps that leave the history and its mutex alone.                   *)
(***************************************************************************)
LEMMA QueryStep ==
  ASSUME IInv, NEW t \in Thread, Query(t)
  PROVE  IInv'
  <1>1. PICK q \in Queries[t] : Update(t, Begin(q))
    BY DEF Query
  <1>2. q.path \in Seq(STRING) /\ Len(q.path) \in Nat
    BY QueriesAssumption, LenProperties
  <1>3. PICK w : w = [Idle EXCEPT !.pc = "walk", !.op = q.op, !.path = q.path, !.left = q.path,
                                  !.type = "dir"]
    OBVIOUS
  <1>4. Sane(w) /\ w.pc = "walk" /\ w.from = <<>>
    BY <1>2, <1>3 DEF Idle, Sane, Fields, Asking, Pc, Rc
  <1>5. PICK v : v = Begin(q)
    OBVIOUS
  <1>6. v = w \/ v = Finish(w, "EINVAL")
    BY <1>3, <1>5 DEF Begin
  <1>7. Sane(v) /\ (v = w \/ v.pc = "done")
    BY <1>4, <1>6, FinishFacts DEF Rc
  <1>8. Fits(v, t)
    BY <1>4, <1>7, Onward DEF Asking
  <1>9. QED
    BY <1>1, <1>5, <1>8, WalkStep DEF Query, IInv

LEMMA StepStep ==
  ASSUME IInv, NEW t \in Thread, Step(t)
  PROVE  IInv'
  <1>1. PICK w : w = walk[t]
    OBVIOUS
  <1>2. PICK es : es = Entries(alive, w.at)
    OBVIOUS
  <1>3. w.pc = "walk" /\ Sane(w) /\ UNCHANGED <<alive, lister, hist, owner, depth>>
    BY <1>1 DEF Step, IInv, Fits
  <1>4. \/ w.left = <<>> /\ Update(t, After(List(w, es)))
        \/ Update(t, Finish(w, "ENOMEM"))
        \/ w.left # <<>> /\ Update(t, After(w))
        \/ w.left # <<>> /\ Update(t, Enter(w, FirstMatch(es, Head(w.left))))
    BY <1>1, <1>2 DEF Step
  <1>5. CASE w.left = <<>> /\ Update(t, After(List(w, es)))
    <2>1. PICK x : x = List(w, es)
      OBVIOUS
    <2>2. PICK v : v = After(x)
      OBVIOUS
    <2>3. Sane(x) /\ x.from = w.from
      BY <1>3, <2>1, ListFacts
    <2>4. /\ Sane(v) /\ v.pc \in {"lock", "call", "done"}
          /\ v.pc = "done" \/ v.from = x.from
          /\ v.pc = "call" => v.want = "metadata"
      BY <2>2, <2>3, AfterFacts
    <2>5. Fits(v, t)
      BY <1>1, <1>3, <2>3, <2>4, Onward DEF Asking
    <2>6. QED
      BY <1>3, <1>5, <2>1, <2>2, <2>5, WalkStep DEF IInv
  <1>6. CASE Update(t, Finish(w, "ENOMEM"))
    <2>1. PICK v : v = Finish(w, "ENOMEM")
      OBVIOUS
    <2>2. Sane(v) /\ v.pc = "done"
      BY <1>3, <2>1, FinishFacts DEF Rc
    <2>3. Fits(v, t)
      BY <2>2, Onward DEF Asking
    <2>4. QED
      BY <1>3, <1>6, <2>1, <2>3, WalkStep DEF IInv
  <1>7. CASE w.left # <<>> /\ Update(t, After(w))
    <2>1. PICK v : v = After(w)
      OBVIOUS
    <2>2. /\ Sane(v) /\ v.pc \in {"lock", "call", "done"}
          /\ v.pc = "done" \/ v.from = w.from
          /\ v.pc = "call" => v.want = "metadata"
      BY <1>3, <2>1, AfterFacts
    <2>3. Fits(v, t)
      BY <1>1, <1>3, <2>2, Onward DEF Asking
    <2>4. QED
      BY <1>3, <1>7, <2>1, <2>3, WalkStep DEF IInv
  <1>8. CASE w.left # <<>> /\ Update(t, Enter(w, FirstMatch(es, Head(w.left))))
    <2>1. PICK e : e = FirstMatch(es, Head(w.left))
      OBVIOUS
    <2>2. PICK v : v = Enter(w, e)
      OBVIOUS
    <2>3. /\ Sane(v) /\ v.pc \in {"walk", "call", "done"}
          /\ v.from = <<>> \/ v.pc = "done" \/ v.from = w.from
          /\ v.pc = "call" => v.want \in {"browse", "text"}
      BY <1>3, <1>8, <2>2, EnterFacts
    <2>4. Fits(v, t)
      BY <1>1, <1>3, <2>3, Onward DEF Asking
    <2>5. QED
      BY <1>3, <1>8, <2>1, <2>2, <2>4, WalkStep DEF IInv
  <1>9. QED
    BY <1>4, <1>5, <1>6, <1>7, <1>8

LEMMA ListLinksStep ==
  ASSUME IInv, NEW t \in Thread, ListLinks(t)
  PROVE  IInv'
  <1>1. PICK w : w = walk[t]
    OBVIOUS
  <1>2. w.pc = "history" /\ Sane(w) /\ UNCHANGED <<alive, lister, hist, owner, depth>>
    BY <1>1 DEF ListLinks, IInv, Fits
  <1>3. PICK es : Update(t, IF w.left = <<>> THEN EndBody(List(w, es))
                            ELSE IF Matches(es, Head(w.left)) = {} THEN EndBody(w)
                            ELSE EnterFile(w, FirstMatch(es, Head(w.left))))
    BY <1>1 DEF ListLinks
  <1>4. PICK e : e = FirstMatch(es, Head(w.left))
    OBVIOUS
  <1>5. PICK v : /\ Update(t, v)
                 /\ \/ v = EndBody(List(w, es)) \/ v = EndBody(w)
                    \/ w.left # <<>> /\ v = EnterFile(w, e)
    BY <1>3, <1>4
  <1>6. /\ Sane(v) /\ v.pc \in {"call", "done"}
        /\ v.pc = "call" => v.from = w.from /\ v.want = "text"
    <2>1. CASE v = EndBody(List(w, es))
      <3>1. PICK x : x = List(w, es)
        OBVIOUS
      <3>2. QED
        BY <1>2, <2>1, <3>1, ListFacts, EndBodyFacts
    <2>2. CASE v = EndBody(w)
      BY <1>2, <2>2, EndBodyFacts
    <2>3. CASE w.left # <<>> /\ v = EnterFile(w, e)
      BY <1>2, <2>3, EnterFileFacts
    <2>4. QED
      BY <1>5, <2>1, <2>2, <2>3
  <1>7. Fits(v, t)
    BY <1>1, <1>2, <1>6, Onward DEF Asking
  <1>8. QED
    BY <1>2, <1>5, <1>7, WalkStep DEF IInv

LEMMA LockListStep ==
  ASSUME IInv, NEW t \in Thread, LockList(t)
  PROVE  IInv'
  <1>1. PICK w : w = walk[t]
    OBVIOUS
  <1>2. PICK v : v = [w EXCEPT !.pc = "answer"]
    OBVIOUS
  <1>3. /\ w.pc = "call" /\ Fits(w, t) /\ lister' = t /\ Update(t, v)
        /\ UNCHANGED <<alive, hist, owner, depth>>
    BY <1>1, <1>2 DEF LockList, IInv
  <1>4. /\ Sane(v) /\ v.pc = "answer" /\ v.want = w.want /\ v.from = w.from
        /\ v.left = w.left /\ v.path = w.path
    BY <1>2, <1>3 DEF Fits, Sane, Fields, Asking, Pc
  <1>5. Fits(v, t)
    BY <1>3, <1>4 DEF Fits, Holds, Asking, Here
  <1>6. QED
    BY <1>3, <1>5, WalkStep

(* A question has no answer.                                                *)
LEMMA UnansweredFacts ==
  ASSUME NEW w, Sane(w)
  PROVE  /\ Sane(Unanswered(w)) /\ Unanswered(w).pc \in {"call", "done"}
         /\ Unanswered(w).pc = "done" \/ Unanswered(w).from = w.from
         /\ Unanswered(w).pc = "call" => Unanswered(w).want = "vain"
  <1>1. PICK x : x = Disturbed(w)
    OBVIOUS
  <1>2. Sane(x) /\ x.from = w.from
    BY <1>1, DisturbedFacts
  <1>3. CASE Unanswered(w) = EndBody(x)
    BY <1>2, <1>3, EndBodyFacts
  <1>4. CASE Unanswered(w) = Ask(x, "vain")
    BY <1>2, <1>4, AskFacts DEF Wants
  <1>5. QED
    BY <1>1, <1>3, <1>4 DEF Unanswered

(* What an answer, or none, makes of a walk.                                *)
Told(w, v) ==
  IF w.want = "caps"
  THEN v = In(w, w.at.kids, HasCaps) \/ v = In(Disturbed(w), w.at.kids, FALSE)
  ELSE (v = Answered(w) /\ w.want # "vain") \/ (v = Unanswered(w) /\ w.want # "text")

LEMMA AnswerStep ==
  ASSUME IInv, NEW t \in Thread, Answer(t) \/ AnswerCaps(t)
  PROVE  IInv'
  <1>1. PICK w : w = walk[t]
    OBVIOUS
  <1>2. PICK v : Update(t, v) /\ Told(w, v)
    BY <1>1 DEF Answer, AnswerCaps, Told
  <1>3. /\ w.pc = "answer" /\ w.want # "new" /\ Fits(w, t) /\ Sane(w) /\ w.want \in Wants
        /\ lister' = Nobody /\ Update(t, v) /\ UNCHANGED <<alive, hist, owner, depth>>
    BY <1>1, <1>2 DEF Answer, AnswerCaps, IInv, Fits, Sane, Asking
  <1>4. ASSUME NEW kids, NEW searchable
        PROVE  /\ Sane(In(w, kids, searchable)) /\ In(w, kids, searchable).pc = "walk"
               /\ In(w, kids, searchable).from = w.from
    BY <1>3, InFacts
  <1>5. ASSUME v = Unanswered(w)
        PROVE  /\ Sane(v) /\ v.pc \in {"call", "done"}
               /\ v.pc = "done" \/ v.from = w.from
               /\ v.pc = "call" => v.want # "new"
    BY <1>3, <1>5, UnansweredFacts
  <1>6. ASSUME NEW x, x = w \/ x = [w EXCEPT !.at.kids = Kids[Root]], NEW want \in {"children", "caps"}
        PROVE  /\ Sane(Ask(x, want)) /\ Ask(x, want).pc = "call" /\ Ask(x, want).want = want
               /\ Ask(x, want).from = w.from
    <2>1. Sane(x) /\ x.from = w.from
      <3>1. CASE x = [w EXCEPT !.at.kids = Kids[Root]]
        <4>1. x = [w EXCEPT !.at = [w.at EXCEPT !.kids = Kids[Root]]]
          BY <3>1
        <4>2. QED
          BY <1>3, <4>1, AtFacts
      <3>2. QED
        BY <1>3, <1>6, <3>1
    <2>2. QED
      BY <2>1, AskFacts DEF Wants
  <1>7. /\ Sane(v) /\ v.pc \in {"walk", "call", "done"}
        /\ v.pc = "done" \/ v.from = w.from
        /\ v.pc = "call" => v.want # "new"
    <2>1. CASE w.want = "caps"
      <3>1. PICK x : x = Disturbed(w)
        OBVIOUS
      <3>2. Sane(x) /\ x.from = w.from
        BY <1>3, <3>1, DisturbedFacts
      <3>3. CASE v = In(w, w.at.kids, HasCaps)
        BY <1>4, <3>3
      <3>4. CASE v = In(x, w.at.kids, FALSE)
        <4>1. PICK kids, no : kids = w.at.kids /\ no = FALSE
          OBVIOUS
        <4>2. v = In(x, kids, no)
          BY <3>4, <4>1
        <4>3. Sane(v) /\ v.pc = "walk" /\ v.from = x.from
          BY ONLY <3>2, <4>2, InFacts
        <4>4. QED
          BY <3>2, <4>3
      <3>5. QED
        BY <1>2, <2>1, <3>1, <3>3, <3>4 DEF Told
    <2>2. CASE w.want = "search" /\ v = Answered(w)
      BY <1>4, <2>2 DEF Answered, SearchAgain
    <2>3. CASE w.want = "text" /\ v = Answered(w)
      <3>1. w.left = <<>>
        BY <1>3, <2>3 DEF Sane, Asking
      <3>2. v = Finish(w, "ok")
        BY <2>3 DEF Answered
      <3>3. QED
        BY <1>3, <3>1, <3>2, FinishFacts DEF Rc
    <2>4. CASE w.want = "metadata" /\ v = Answered(w)
      BY <1>6, <2>4 DEF Answered
    <2>5. CASE w.want = "children" /\ v = Answered(w)
      <3>1. v = IF AsksCaps THEN Ask([w EXCEPT !.at.kids = Kids[Root]], "caps")
                ELSE In(w, Kids[Root], HistSize > 0)
        BY <2>5 DEF Answered
      <3>2. QED
        BY <1>4, <1>6, <3>1
    <2>6. CASE w.want = "browse" /\ v = Answered(w)
      BY <1>4, <2>6 DEF Answered
    <2>7. QED
      BY <1>2, <1>3, <1>5, <2>1, <2>2, <2>3, <2>4, <2>5, <2>6 DEF Wants, Told
  <1>8. Fits(v, t)
    BY <1>1, <1>3, <1>7, Onward DEF Asking
  <1>9. QED
    BY <1>3, <1>8, WalkStep

LEMMA ReturnStep ==
  ASSUME IInv, NEW t \in Thread, Return(t)
  PROVE  IInv'
  <1>1. PICK w : w = Idle
    OBVIOUS
  <1>2. Sane(w) /\ w.pc = "idle" /\ w.from = <<>>
    BY <1>1 DEF Idle, Sane, Fields, Asking, Pc, Rc
  <1>3. /\ owner # t /\ Update(t, w) /\ UNCHANGED <<alive, lister, hist, owner, depth>>
    BY <1>1 DEF Return
  <1>4. Fits(w, t)
    BY <1>2, <1>3 DEF Fits, Holds, Asking
  <1>5. QED
    BY <1>3, <1>4, WalkStep DEF IInv

LEMMA ListChangesStep ==
  ASSUME IInv, ListChanges
  PROVE  IInv'
  <1>1. /\ UNCHANGED <<lister, hist, owner, depth>> /\ alive' \subseteq Device
        /\ walk' = [t \in Thread |-> IF walk[t].pc = "idle" THEN walk[t]
                                     ELSE [walk[t] EXCEPT !.calm = FALSE]]
    BY DEF ListChanges, IInv
  <1>2. ASSUME NEW t \in Thread PROVE Fits(walk[t], t)'
    <2>1. PICK w : w = walk[t]
      OBVIOUS
    <2>2. PICK v : v = IF w.pc = "idle" THEN w ELSE [w EXCEPT !.calm = FALSE]
      OBVIOUS
    <2>3. Fits(w, t) /\ walk'[t] = v
      BY <1>1, <2>1, <2>2 DEF IInv
    <2>4. /\ Sane(v) /\ v.pc = w.pc /\ v.want = w.want /\ v.from = w.from
          /\ v.left = w.left /\ v.path = w.path
      BY <2>2, <2>3 DEF Fits, Sane, Fields, Asking
    <2>5. Fits(v, t)
      BY <2>3, <2>4 DEF Fits, Holds, Asking, Here
    <2>6. QED
      BY <1>1, <2>3, <2>5 DEF Fits, Present, Absent, Here, Key
  <1>3. DOMAIN walk' = Thread
    BY <1>1
  <1>4. HistoryExact'
    BY <1>1 DEF IInv, HistoryExact, Key
  <1>5. QED
    BY <1>1, <1>2, <1>3, <1>4 DEF IInv

-----------------------------------------------------------------------------
(***************************************************************************)
(* The mutex of the history.                                               *)
(***************************************************************************)
LEMMA LockHistoryStep ==
  ASSUME IInv, NEW t \in Thread, LockHistory(t)
  PROVE  IInv'
  <1>1. PICK w : w = walk[t]
    OBVIOUS
  <1>2. PICK v : v = [w EXCEPT !.pc = "history"]
    OBVIOUS
  <1>3. /\ w.pc = "lock" /\ Fits(w, t) /\ Update(t, v)
        /\ owner \in {Nobody, t} /\ owner' = t /\ depth' = depth + 1
        /\ UNCHANGED <<alive, lister, hist>>
    BY <1>1, <1>2 DEF LockHistory, IInv
  <1>4. /\ Sane(v) /\ v.pc = "history" /\ v.from = w.from
    BY <1>2, <1>3 DEF Fits, Sane, Fields, Asking, Pc
  <1>5. /\ DOMAIN walk' = Thread /\ walk'[t] = v
        /\ \A u \in Thread \ {t} : walk'[u] = walk[u]
    BY <1>3 DEF Update, IInv
  <1>6. Fits(walk[t], t)'
    BY <1>3, <1>4, <1>5 DEF Fits, Holds, Asking, Present, Key
  <1>7. \A u \in Thread \ {t} : Fits(walk[u], u)'
    BY <1>3, <1>5, OthersFit
  <1>8. depth' \in Nat /\ depth' # 0 /\ owner' # Nobody /\ owner' \in Thread
    BY <1>3, ThreadAssumption DEF IInv
  <1>9. HistoryExact'
    BY <1>3 DEF IInv, HistoryExact, Key
  <1>10. QED
    BY <1>3, <1>5, <1>6, <1>7, <1>8, <1>9 DEF IInv

LEMMA UnlockStep ==
  ASSUME IInv, NEW t \in Thread, Unlock(t)
  PROVE  IInv'
  <1>1. /\ walk[t].pc = "done" /\ owner = t /\ depth' = depth - 1
        /\ owner' = IF depth = 1 THEN Nobody ELSE t
        /\ UNCHANGED <<alive, lister, hist, walk>>
    BY DEF Unlock
  <1>2. depth' \in Nat /\ (depth' = 0 <=> owner' = Nobody) /\ owner' \in Thread \cup {Nobody}
    BY <1>1, ThreadAssumption DEF IInv
  <1>3. Fits(walk[t], t)'
    BY <1>1 DEF IInv, Fits, Holds, Asking
  <1>4. \A u \in Thread \ {t} : Fits(walk[u], u)'
    BY <1>1, OthersFit
  <1>5. HistoryExact'
    BY <1>1 DEF IInv, HistoryExact, Key
  <1>6. QED
    BY <1>1, <1>2, <1>3, <1>4, <1>5 DEF IInv

(* A set of naturals has a least member.                                    *)
LEMMA Least ==
  ASSUME NEW S \in SUBSET Nat, S # {}
  PROVE  \E i \in S : \A k \in S : i <= k
  <1>1. PICK i \in S : \A k \in S : ~(<<k, i>> \in OpToRel(<, Nat))
    BY NatLessThanWellFounded, WFMin
  <1>2. \A k \in S : ~(k < i)
    BY <1>1 DEF OpToRel
  <1>3. QED
    BY <1>2

(* A word is found among the searches made here, or it is none of them.     *)
LEMMA RecallStep ==
  ASSUME IInv, NEW t \in Thread, Recall(t)
  PROVE  IInv'
  <1> DEFINE Named(w) == {i \in Known(w) : w.left # <<>> /\ hist[i].name = Head(w.left)}
             First(w) == CHOOSE i \in Named(w) : \A j \in Named(w) : i <= j
             In1(w) == EnterDir(w, [w.at EXCEPT !.crit = @ \o hist[First(w)].crit])
             Listed(w) == [w EXCEPT !.listed = @ \cup {<<hist[i].name, "dir">> : i \in Known(w)}]
             Cases(w) ==
               \/ w.left = <<>> /\ Update(t, EndBody(Listed(w)))
               \/ Update(t, Finish(w, "ENOMEM"))
               \/ /\ Named(w) # {}
                  /\ Update(t, IF In1(w).pc = "done" THEN In1(w)
                               ELSE [Ask(In1(w), "search") EXCEPT
                                       !.from = IF w.at.crit = <<>> THEN Key(hist[First(w)])
                                                ELSE <<>>])
               \/ /\ w.left # <<>> /\ Named(w) = {}
                  /\ Update(t, Ask([w EXCEPT !.at.crit = @ \o Criterion(Head(w.left))], "new"))
  <1>1. Cases(walk[t])
    BY Zenon DEF Recall
  <1>2. PICK w : w = walk[t] /\ Cases(w)
    <2> HIDE DEF Cases
    <2>1. QED
      BY <1>1
  <1> DEFINE named == Named(w)
             first == First(w)
             in == In1(w)
             listed == Listed(w)
             key == IF w.at.crit = <<>> THEN Key(hist[first]) ELSE <<>>
  <1>3. /\ w.pc = "history" /\ Fits(w, t) /\ Sane(w) /\ owner = t
        /\ UNCHANGED <<alive, lister, hist, owner, depth>>
    <2> HIDE DEF Cases
    <2>1. QED
      BY <1>2 DEF Recall, IInv, Fits, Holds
  <1>4. \/ w.left = <<>> /\ Update(t, EndBody(listed))
        \/ Update(t, Finish(w, "ENOMEM"))
        \/ /\ named # {}
           /\ Update(t, IF in.pc = "done" THEN in
                        ELSE [Ask(in, "search") EXCEPT !.from = key])
        \/ /\ w.left # <<>> /\ named = {}
           /\ Update(t, Ask([w EXCEPT !.at.crit = @ \o Criterion(Head(w.left))], "new"))
    BY <1>2, Zenon
  <1>5. CASE w.left = <<>> /\ Update(t, EndBody(listed))
    <2>1. PICK x : x = listed
      OBVIOUS
    <2>2. Sane(x)
      BY <1>3, <2>1 DEF Sane, Fields, Asking
    <2>3. PICK v : v = EndBody(x)
      OBVIOUS
    <2>4. Sane(v) /\ v.pc = "done"
      BY <2>2, <2>3, EndBodyFacts
    <2>5. Fits(v, t)
      BY <2>4, Onward DEF Asking
    <2>6. QED
      BY <1>3, <1>5, <2>1, <2>3, <2>5, WalkStep DEF IInv
  <1>6. CASE Update(t, Finish(w, "ENOMEM"))
    <2>1. PICK v : v = Finish(w, "ENOMEM")
      OBVIOUS
    <2>2. Sane(v) /\ v.pc = "done"
      BY <1>3, <2>1, FinishFacts DEF Rc
    <2>3. Fits(v, t)
      BY <2>2, Onward DEF Asking
    <2>4. QED
      BY <1>3, <1>6, <2>1, <2>3, WalkStep DEF IInv
  <1>7. ASSUME named # {},
               Update(t, IF in.pc = "done" THEN in
                         ELSE [Ask(in, "search") EXCEPT !.from = key])
        PROVE  IInv'
    <2>1. first \in named
      <3>1. Named(w) \in SUBSET Nat /\ Named(w) # {}
        <4>1. hist \in Seq(Search)
          BY DEF IInv
        <4>2. DOMAIN hist \subseteq Nat
          BY <4>1, LenProperties
        <4>3. Named(w) \subseteq DOMAIN hist
          BY DEF Known
        <4>4. QED
          BY <1>7, <4>2, <4>3
      <3>2. \E i \in Named(w) : \A k \in Named(w) : i <= k
        BY <3>1, Least
      <3>3. First(w) \in Named(w)
        <4> HIDE DEF Named
        <4>1. QED
          BY <3>2
      <3>4. QED
        BY <3>3
    <2>2. first \in DOMAIN hist /\ w.left # <<>>
      BY <2>1 DEF Known
    <2>3. PICK x : x = in
      OBVIOUS
    <2>4. Sane(x) /\ x.pc \in {"walk", "call", "done"} /\ x.from = <<>>
      BY <1>3, <2>2, <2>3, EnterDirFacts
    <2>5. PICK from : from = key
      <3> HIDE DEF key
      <3>1. QED
        OBVIOUS
    <2>6. Present(from) \/ from = <<>>
      <3>1. key = Key(hist[first]) \/ key = <<>>
        OBVIOUS
      <3> HIDE DEF key, first
      <3>2. QED
        BY <2>2, <2>5, <3>1 DEF Present
    <2>7. PICK y : y = Ask(x, "search")
      OBVIOUS
    <2>8. Sane(y) /\ y.pc = "call" /\ y.want = "search"
      BY <2>4, <2>7, AskFacts DEF Wants
    <2>9. PICK v : v = IF x.pc = "done" THEN x ELSE [y EXCEPT !.from = from]
      OBVIOUS
    <2>10. Update(t, v)
      <3> HIDE DEF in, key
      <3>1. v = IF in.pc = "done" THEN in ELSE [Ask(in, "search") EXCEPT !.from = key]
        BY <2>3, <2>5, <2>7, <2>9, Zenon
      <3>2. QED
        BY <1>7, <3>1, Zenon
    <2>11. Fits(v, t)
      <3>1. CASE x.pc = "done"
        BY <2>4, <2>9, <3>1, Onward DEF Asking
      <3>2. CASE x.pc # "done"
        <4>1. /\ Sane(v) /\ v.pc = "call" /\ v.want = "search" /\ v.from = from
          BY <2>8, <2>9, <3>2 DEF Sane, Fields, Asking
        <4>2. QED
          BY <1>3, <2>6, <4>1 DEF Fits, Holds, Asking
      <3>3. QED
        BY <3>1, <3>2
    <2>12. QED
      BY <1>3, <2>10, <2>11, WalkStep DEF IInv
  <1>8. CASE /\ w.left # <<>> /\ named = {}
             /\ Update(t, Ask([w EXCEPT !.at.crit = @ \o Criterion(Head(w.left))], "new"))
    <2>1. PICK at : at = [w.at EXCEPT !.crit = @ \o Criterion(Head(w.left))]
      OBVIOUS
    <2>2. PICK x : x = [w EXCEPT !.at = at]
      OBVIOUS
    <2>3. PICK v : v = Ask(x, "new")
      OBVIOUS
    <2>4. Update(t, v)
      <3>1. x = [w EXCEPT !.at.crit = @ \o Criterion(Head(w.left))]
        BY <2>1, <2>2
      <3>2. QED
        BY <1>8, <2>3, <3>1
    <2>5. /\ Sane(x) /\ x.pc = w.pc /\ x.from = w.from
          /\ x.path = w.path /\ x.left = w.left
      BY <1>3, <2>2, AtFacts
    <2>6. /\ Sane(v) /\ v.pc = "call" /\ v.want = "new" /\ v.from = w.from
          /\ v.path = w.path /\ v.left = w.left
      BY <2>3, <2>5, AskFacts DEF Wants
    <2>7. Absent(Here(w), Head(w.left))
      BY <1>8 DEF Absent, Known, Key
    <2>8. Fits(v, t)
      BY <1>3, <1>8, <2>6, <2>7 DEF Fits, Holds, Asking, Here
    <2>9. QED
      BY <1>3, <2>4, <2>8, WalkStep DEF IInv
  <1>9. QED
    BY <1>4, <1>5, <1>6, <1>7, <1>8

(* A new search that is not there yet is put at the end.                    *)
LEMMA RememberFacts ==
  ASSUME hist \in Seq(Search), HistoryExact, NEW h \in Search,
         h.crit = Criterion(h.name), Absent(h.parent, h.name), hist' = Remember(h)
  PROVE  /\ hist' \in Seq(Search) /\ HistoryExact'
         /\ HistSize > 0 => Present(Key(h))'
  <1> DEFINE longer == Append(hist, h)
             n == Len(hist)
  <1>1. n \in Nat /\ DOMAIN hist = 1..n /\ n <= HistSize
    BY LenProperties DEF HistoryExact
  <1>2. /\ longer \in Seq(Search) /\ Len(longer) = n + 1 /\ DOMAIN longer = 1..(n + 1)
        /\ \A i \in 1..n : longer[i] = hist[i]
        /\ longer[n + 1] = h
    BY <1>1, AppendProperties, LenProperties
  <1>3. hist' = IF Len(longer) > HistSize THEN Tail(longer) ELSE longer
    BY DEF Remember
  <1> HIDE DEF longer, n
  <1>4. \A i \in 1..(n + 1) : longer[i].crit = Criterion(longer[i].name)
    <2>1. \A i \in 1..n : hist[i].crit = Criterion(hist[i].name)
      BY <1>1 DEF HistoryExact
    <2>2. \A i \in 1..(n + 1) : i \in 1..n \/ i = n + 1
      BY <1>1
    <2>3. QED
      BY <1>2, <2>1, <2>2
  <1>5. \A i, j \in 1..(n + 1) : i # j => Key(longer[i]) # Key(longer[j])
    <2>1. \A i, j \in 1..n : i # j => Key(hist[i]) # Key(hist[j])
      BY <1>1 DEF HistoryExact
    <2>2. \A i \in 1..n : Key(hist[i]) # Key(h)
      BY <1>1 DEF Absent, Key
    <2>3. \A i \in 1..(n + 1) : i \in 1..n \/ i = n + 1
      BY <1>1
    <2>4. QED
      BY <1>2, <2>1, <2>2, <2>3
  <1>6. CASE Len(longer) > HistSize
    <2>1. longer # <<>>
      BY <1>1, <1>2, EmptySeq
    <2>2. /\ hist' \in Seq(Search) /\ Len(hist') = n /\ DOMAIN hist' = 1..n
          /\ \A i \in 1..n : hist'[i] = longer[i + 1]
      BY <1>1, <1>2, <1>3, <1>6, <2>1, HeadTailProperties, LenProperties
    <2>3. \A i \in 1..n : i + 1 \in 1..(n + 1) /\ i \in Int
      BY <1>1
    <2>4. \A i \in 1..n : hist'[i].crit = Criterion(hist'[i].name)
      BY <1>4, <2>2, <2>3
    <2>5. \A i, j \in 1..n : i # j => Key(hist'[i]) # Key(hist'[j])
      <3>1. \A i, j \in Int : i # j => i + 1 # j + 1
        OBVIOUS
      <3>2. QED
        BY <1>5, <2>2, <2>3, <3>1
    <2>6. HistoryExact'
      BY <1>1, <2>2, <2>4, <2>5 DEF HistoryExact, Key
    <2>7. HistSize > 0 => Present(Key(h))'
      <3>1. HistSize > 0 => n \in 1..n /\ hist'[n] = h
        BY <1>1, <1>2, <1>6, <2>2, HistAssumption
      <3>2. QED
        BY <2>2, <3>1 DEF Present, Key
    <2>8. QED
      BY <2>2, <2>6, <2>7
  <1>7. CASE ~(Len(longer) > HistSize)
    <2>1. hist' = longer /\ Len(longer) <= HistSize
      BY <1>1, <1>2, <1>3, <1>7, HistAssumption
    <2>2. HistoryExact'
      BY <1>2, <1>4, <1>5, <2>1 DEF HistoryExact, Key
    <2>3. Present(Key(h))'
      <3>1. n + 1 \in DOMAIN longer
        BY <1>1, <1>2
      <3>2. QED
        BY <1>2, <2>1, <3>1 DEF Present, Key
    <2>4. QED
      BY <1>2, <2>1, <2>2, <2>3
  <1>8. QED
    BY <1>6, <1>7

LEMMA AnswerNewStep ==
  ASSUME IInv, NEW t \in Thread, AnswerNew(t)
  PROVE  IInv'
  <1> DEFINE Found(w) == Hits(w.at.obj, w.at.crit)
             New(w) == [parent |-> Here(w), name |-> Head(w.left), crit |-> Criterion(Head(w.left))]
             Copied(w) == Len(w.at.crit) > Len(Criterion(Head(w.left)))
             Entered(w) == EnterDir(w, w.at)
             Cases(w) ==
               \/ /\ w.at.dev \in alive /\ Found(w) # <<>>
                  /\ hist' = Remember(New(w))
                  /\ Update(t, IF Entered(w).pc = "done" THEN Entered(w)
                               ELSE [In(Entered(w), Found(w), TRUE) EXCEPT
                                       !.from = IF Copied(w) THEN <<>> ELSE Key(New(w))])
               \/ w.at.dev \in alive /\ Found(w) = <<>> /\ Update(t, EndBody(w)) /\ UNCHANGED hist
               \/ Update(t, Unanswered(w)) /\ UNCHANGED hist
  <1>1. Cases(walk[t])
    BY Zenon DEF AnswerNew
  <1>2. PICK w : w = walk[t] /\ Cases(w)
    <2> HIDE DEF Cases
    <2>1. QED
      BY <1>1
  <1>3. /\ w.pc = "answer" /\ w.want = "new" /\ Fits(w, t) /\ Sane(w)
        /\ lister' = Nobody /\ UNCHANGED <<alive, owner, depth>>
    <2> HIDE DEF Cases
    <2>1. QED
      BY <1>2 DEF AnswerNew, IInv, Fits
  <1>4. owner = t /\ w.left # <<>> /\ Absent(Here(w), Head(w.left))
    BY <1>3 DEF Fits, Holds, Asking
  <1>5. CASE (Update(t, EndBody(w)) \/ Update(t, Unanswered(w))) /\ UNCHANGED hist
    <2>1. PICK v : Update(t, v) /\ (v = EndBody(w) \/ v = Unanswered(w))
      BY <1>5
    <2>2. Sane(v) /\ v.pc \in {"call", "done"} /\ (v.pc = "call" => v.want = "vain" /\ v.from = w.from)
      BY <1>3, <2>1, EndBodyFacts, UnansweredFacts
    <2>3. Fits(v, t)
      BY <1>2, <1>3, <2>2, Onward DEF Asking
    <2>4. QED
      BY <1>3, <1>5, <2>1, <2>3, WalkStep
  <1>6. ASSUME hist' = Remember(New(w)),
               Update(t, IF Entered(w).pc = "done" THEN Entered(w)
                         ELSE [In(Entered(w), Found(w), TRUE) EXCEPT
                                 !.from = IF Copied(w) THEN <<>> ELSE Key(New(w))])
        PROVE  IInv'
    <2>1. New(w) \in Search
      <3>1. Len(w.path) \in Nat /\ Len(w.left) \in Nat /\ Len(w.left) <= Len(w.path)
            /\ w.path \in Seq(STRING) /\ Head(w.left) \in STRING
        BY <1>3, <1>4, LenProperties, HeadTailProperties DEF Sane
      <3>2. Here(w) \in Seq(STRING)
        <4>1. \A i \in 1..(Len(w.path) - Len(w.left)) : i \in 1..Len(w.path)
          BY <3>1
        <4>2. Len(w.path) - Len(w.left) \in 0..Len(w.path)
          <5>1. \A a, b \in Nat : b <= a => a - b \in 0..a
            OBVIOUS
          <5>2. QED
            BY <3>1, <5>1, Zenon
        <4>3. QED
          BY <3>1, <4>2, SubSeqProperties DEF Here
      <3>3. Criterion(Head(w.left)) \in Seq(Part)
        <4>1. \A a, b \in Part : <<a, b>> \in Seq(Part)
          OBVIOUS
        <4>2. Head(w.left) \in Part /\ "contains" \in Part /\ "raw" \in Part
          BY <3>1 DEF Part
        <4>3. QED
          BY <4>1, <4>2, Zenon DEF Criterion
      <3>4. QED
        BY <3>1, <3>2, <3>3 DEF Search
    <2>2. PICK h \in Search : h = New(w)
      BY <2>1
    <2>3. h.parent = Here(w) /\ h.name = Head(w.left) /\ h.crit = Criterion(h.name)
      BY <2>2
    <2>4. hist' = Remember(h)
      BY <1>6, <2>2
    <2>5. /\ hist' \in Seq(Search) /\ HistoryExact'
          /\ HistSize > 0 => Present(Key(h))'
      BY <1>4, <2>3, <2>4, RememberFacts DEF IInv
    <2>6. PICK x : x = Entered(w)
      OBVIOUS
    <2>7. Sane(x) /\ x.pc \in {"walk", "call", "done"}
      BY <1>3, <1>4, <2>6, EnterDirFacts
    <2>8. PICK found : found = Found(w)
      <3> HIDE DEF Found
      <3>1. QED
        OBVIOUS
    <2>9. PICK y : y = In(x, found, TRUE)
      OBVIOUS
    <2>10. Sane(y) /\ y.pc = "walk"
      BY <2>7, <2>9, InFacts
    <2>11. PICK from : from = IF Copied(w) THEN <<>> ELSE Key(h)
      <3> HIDE DEF Copied
      <3>1. CASE Copied(w)
        BY <3>1
      <3>2. CASE ~Copied(w)
        BY <3>2
      <3>3. QED
        BY <3>1, <3>2
    <2>12. from = <<>> \/ from = Key(h)
      <3> HIDE DEF Copied
      <3>1. QED
        BY <2>11
    <2>13. PICK v : v = IF x.pc = "done" THEN x ELSE [y EXCEPT !.from = from]
      OBVIOUS
    <2>14. Update(t, v)
      <3>1. v = IF Entered(w).pc = "done" THEN Entered(w)
                ELSE [In(Entered(w), Found(w), TRUE) EXCEPT
                        !.from = IF Copied(w) THEN <<>> ELSE Key(New(w))]
        <4> HIDE DEF Entered, Found, Copied, New
        <4>1. QED
          BY <2>2, <2>6, <2>8, <2>9, <2>11, <2>13, Zenon
      <3>2. QED
        BY <1>6, <3>1, Zenon
    <2>15. /\ Sane(v) /\ v.pc \in {"walk", "done"}
           /\ v.pc = "done" \/ v.from = from
      <3>1. CASE x.pc = "done"
        BY <2>7, <2>13, <3>1
      <3>2. CASE x.pc # "done"
        BY <2>10, <2>13, <3>2 DEF Sane, Fields, Asking
      <3>3. QED
        BY <3>1, <3>2
    <2>16. /\ DOMAIN walk' = Thread /\ walk'[t] = v
           /\ \A u \in Thread \ {t} : walk'[u] = walk[u]
      BY <2>14 DEF Update, IInv
    <2>17. Fits(walk[t], t)'
      BY <1>3, <1>4, <2>5, <2>12, <2>15, <2>16 DEF Fits, Holds, Asking, Present
    <2>18. \A u \in Thread \ {t} : Fits(walk[u], u)'
      BY <1>3, <1>4, <2>16, OthersFit
    <2>19. QED
      BY <1>3, <2>5, <2>16, <2>17, <2>18 DEF IInv
  <1>7. QED
    BY <1>2, <1>5, <1>6
-----------------------------------------------------------------------------
LEMMA Initial ==
  ASSUME Init
  PROVE  IInv
  <1>1. Sane(Idle) /\ Idle.pc = "idle" /\ Idle.from = <<>>
    BY DEF Idle, Sane, Fields, Asking, Pc, Rc
  <1>2. owner = Nobody /\ depth = 0 /\ hist = <<>> /\ alive = Device /\ lister = Nobody
        /\ walk = [t \in Thread |-> Idle]
    BY DEF Init
  <1>3. \A t \in Thread : Fits(walk[t], t)
    BY <1>1, <1>2, ThreadAssumption DEF Fits, Holds, Asking
  <1>4. hist \in Seq(Search) /\ Len(hist) = 0 /\ DOMAIN hist = {}
    BY <1>2
  <1>5. HistoryExact
    BY <1>4, HistAssumption DEF HistoryExact
  <1>6. QED
    BY <1>2, <1>3, <1>4, <1>5 DEF IInv

LEMMA Inductive ==
  ASSUME IInv, [Next]_vars
  PROVE  IInv'
  <1>1. ASSUME NEW t \in Thread, Query(t) PROVE IInv'
    BY <1>1, QueryStep
  <1>2. ASSUME NEW t \in Thread, Walks(t) PROVE IInv'
    BY <1>2, StepStep, LockHistoryStep, RecallStep, ListLinksStep, LockListStep,
       AnswerStep, AnswerNewStep, UnlockStep, ReturnStep DEF Walks
  <1>3. CASE ListChanges
    BY <1>3, ListChangesStep
  <1>4. CASE UNCHANGED vars
    <2>1. UNCHANGED <<alive, lister, hist, owner, depth, walk>>
      BY <1>4 DEF vars
    <2>2. \A t \in Thread : Fits(walk[t], t)' <=> Fits(walk[t], t)
      BY <2>1 DEF Fits, Present, Absent, Here, Key
    <2>3. HistoryExact'
      BY <2>1 DEF IInv, HistoryExact, Key
    <2>4. QED
      BY <2>1, <2>2, <2>3 DEF IInv
  <1>5. QED
    BY <1>1, <1>2, <1>3, <1>4 DEF Next

LEMMA Invariance == Spec => []IInv
  <1>1. Init => IInv
    BY Initial
  <1>2. IInv /\ [Next]_vars => IInv'
    BY Inductive
  <1>3. QED
    BY <1>1, <1>2, PTL DEF Spec

-----------------------------------------------------------------------------
(***************************************************************************)
(* The theorems.                                                           *)
(***************************************************************************)
(* The variables keep their types, and search_hist_mutex is free exactly    *)
(* when it has been unlocked as often as it was locked.                     *)
THEOREM TypeCorrect == Spec => [](TypeOK /\ (depth = 0 <=> owner = Nobody))
  <1>1. IInv => TypeOK /\ (depth = 0 <=> owner = Nobody)
    BY DEF IInv, TypeOK, Fits, Sane, Pc, Rc, HistoryExact
  <1>2. QED
    BY <1>1, Invariance, PTL

(* No search is twice in the history, which never exceeds its size, though  *)
(* BrowseSearchDir asks the server between the look-up of a word and its    *)
(* addition.                                                                *)
THEOREM HistoryIsExact == Spec => []HistoryExact
  <1>1. IInv => HistoryExact
    BY DEF IInv
  <1>2. QED
    BY <1>1, Invariance, PTL

(* No walk uses criteria in an entry that has left the history and is freed. *)
(* (Without a history no directory of searches is ever listed.)             *)
THEOREM CriteriaNotFreed ==
  ASSUME HistSize > 0
  PROVE  Spec => []CriteriaAlive
  <1>1. IInv => CriteriaAlive
    BY DEF IInv, Fits, CriteriaAlive, Present
  <1>2. QED
    BY <1>1, Invariance, PTL

(* An operation that has come back does not keep the mutex of the history.  *)
ReturnedWithout == \A t \in Thread : walk[t].pc = "idle" => owner # t

THEOREM MutexReleased == Spec => []ReturnedWithout
  <1>1. IInv => ReturnedWithout
    BY DEF IInv, Fits, ReturnedWithout
  <1>2. QED
    BY <1>1, Invariance, PTL

(* No operation succeeds before the end of its path.                        *)
WholePath == \A t \in Thread : walk[t].pc = "done" /\ walk[t].rc = "ok" => walk[t].left = <<>>

THEOREM NoEarlySuccess == Spec => []WholePath
  <1>1. IInv => WholePath
    BY DEF IInv, Fits, Sane, WholePath
  <1>2. QED
    BY <1>1, Invariance, PTL

-----------------------------------------------------------------------------
(***************************************************************************)
(* Where paths lead: the tree as a function of a path, and the invariant    *)
(* that compares each walk with it.                                        *)
(***************************************************************************)
USE TreeAssumption

(* Induction, as the set of counterexamples.                                *)
LEMMA NoCounterexample ==
  ASSUME NEW T \in SUBSET Nat, 0 \notin T, \A n \in Nat : n + 1 \in T => n \in T
  PROVE  T = {}
  <1>1. SUFFICES ASSUME T # {} PROVE FALSE
    OBVIOUS
  <1>2. PICK i \in T : \A k \in T : i <= k
    BY <1>1, Least
  <1>3. i # 0 /\ i - 1 \in Nat /\ (i - 1) + 1 = i
    BY <1>2
  <1>4. i - 1 \in T
    BY <1>3
  <1>5. QED
    BY <1>2, <1>3, <1>4

Top == Dir("", At("root", Nobody))

LEMMA TrailIs ==
  ASSUME NEW S, NEW X, NEW path \in Seq(X)
  PROVE  LET trail == Trail(S, path)
         IN  /\ trail[0] = Top
             /\ \A n \in 1..Len(path) : trail[n] = Through(S, trail[n - 1], path[n])
  <1> DEFINE Def(f, n) == [k \in 0..n |-> IF k = 0 THEN Top ELSE Through(S, f[k - 1], path[k])]
             T == {n \in Nat : ~\E f : f = Def(f, n)}
  <1>1. 0 \notin T
    <2>1. PICK f : f = [k \in 0..0 |-> Top]
      OBVIOUS
    <2>2. f = Def(f, 0)
      BY <2>1
    <2>3. QED
      BY <2>2
  <1>2. ASSUME NEW n \in Nat, n \notin T
        PROVE  n + 1 \notin T
    <2>1. PICK f : f = Def(f, n)
      BY <1>2
    <2>2. PICK g : g = [k \in 0..(n + 1) |-> IF k = n + 1 THEN Through(S, f[n], path[n + 1]) ELSE f[k]]
      OBVIOUS
    <2>3. \A k \in 0..(n + 1) : g[k] = IF k = 0 THEN Top ELSE Through(S, g[k - 1], path[k])
      <3>1. \A k \in 0..n : g[k] = f[k]
        BY <2>2
      <3>2. \A k \in 0..n : f[k] = IF k = 0 THEN Top ELSE Through(S, f[k - 1], path[k])
        BY <2>1
      <3>3. TAKE k \in 0..(n + 1)
      <3>4. CASE k = n + 1
        <4>1. g[k] = Through(S, f[n], path[k]) /\ k # 0 /\ k - 1 = n /\ n \in 0..n
          BY <2>2, <3>4
        <4>2. g[k - 1] = f[n]
          BY <3>1, <4>1
        <4>3. QED
          BY <4>1, <4>2
      <3>5. CASE k \in 0..n
        <4>1. k = 0 \/ (k # 0 /\ k - 1 \in 0..n)
          BY <3>5
        <4>2. QED
          BY <3>1, <3>2, <3>5, <4>1
      <3>6. QED
        BY <3>4, <3>5
    <2>4. g = Def(g, n + 1)
      BY <2>2, <2>3
    <2>5. QED
      BY <2>4
  <1>3. T = {}
    <2> HIDE DEF T
    <2>1. T \in SUBSET Nat
      BY DEF T
    <2>2. QED
      BY <1>1, <1>2, <2>1, NoCounterexample
  <1>4. Len(path) \in Nat
    BY LenProperties
  <1>5. \E f : f = Def(f, Len(path))
    BY <1>3, <1>4
  <1>6. Trail(S, path) = CHOOSE f : f = Def(f, Len(path))
    BY DEF Trail, Top
  <1>7. PICK f : f = Trail(S, path)
    OBVIOUS
  <1>8. f = Def(f, Len(path))
    BY <1>5, <1>6, <1>7
  <1>9. QED
    <2>1. 0 \in 0..Len(path) /\ \A n \in 1..Len(path) : n \in 0..Len(path) /\ n # 0
      BY <1>4
    <2>2. QED
      BY <1>7, <1>8, <2>1


(* Two paths mean the same as far as they are the same.                     *)
LEMMA TrailPrefix ==
  ASSUME NEW S, NEW X, NEW p \in Seq(X), NEW q \in Seq(X), NEW m \in Nat,
         m <= Len(p), m <= Len(q), \A i \in 1..m : p[i] = q[i]
  PROVE  \A k \in 0..m : Trail(S, p)[k] = Trail(S, q)[k]
  <1> DEFINE T == {k \in 0..m : Trail(S, p)[k] # Trail(S, q)[k]}
  <1>1. Len(p) \in Nat /\ Len(q) \in Nat
    BY LenProperties
  <1>2. T \in SUBSET Nat
    OBVIOUS
  <1>3. 0 \notin T
    BY TrailIs
  <1>4. ASSUME NEW n \in Nat, n + 1 \in T
        PROVE  n \in T
    <2>1. n + 1 \in 1..m /\ n \in 0..m /\ (n + 1) - 1 = n
      BY <1>4
    <2>2. n + 1 \in 1..Len(p) /\ n + 1 \in 1..Len(q)
      BY <1>1, <2>1
    <2>3. /\ Trail(S, p)[n + 1] = Through(S, Trail(S, p)[n], p[n + 1])
          /\ Trail(S, q)[n + 1] = Through(S, Trail(S, q)[n], q[n + 1])
      BY <2>1, <2>2, TrailIs
    <2>4. p[n + 1] = q[n + 1]
      BY <2>1
    <2>5. Trail(S, p)[n] # Trail(S, q)[n]
      BY <1>4, <2>3, <2>4
    <2>6. QED
      BY <2>1, <2>5
  <1>5. T = {}
    <2> HIDE DEF T
    <2>1. QED
      BY <1>2, <1>3, <1>4, NoCounterexample
  <1>6. QED
    BY <1>5

(* Once a path leads nowhere, or through a file, it does so to its end.     *)
LEMMA DeadEnd ==
  ASSUME NEW S, NEW X, NEW path \in Seq(X), NEW k \in 0..Len(path)
  PROVE  /\ Trail(S, path)[k].type = "none" => Meaning(S, path) = "none"
         /\ Trail(S, path)[k].type \in {"file", "link"} /\ k < Len(path)
              => Meaning(S, path) = "notdir"
  <1>1. Len(path) \in Nat /\ k \in Nat
    BY LenProperties
  <1> DEFINE e(n) == Trail(S, path)[n]
             T(x) == {n \in Nat : k + n <= Len(path) /\ e(k + n).type # x}
  <1>2. \A n \in Nat : k + (n + 1) <= Len(path)
          => /\ k + n <= Len(path)
             /\ e(k + (n + 1)) = Through(S, e(k + n), path[k + (n + 1)])
    <2>1. TAKE n \in Nat
    <2>2. HAVE k + (n + 1) <= Len(path)
    <2>3. k + (n + 1) \in 1..Len(path) /\ (k + (n + 1)) - 1 = k + n /\ k + n <= Len(path)
      BY <1>1, <2>2
    <2>4. QED
      BY <2>3, TrailIs
  <1>3. ASSUME e(k).type = "none" PROVE T("none") = {}
    <2>1. \A n \in Nat : n + 1 \in T("none") => n \in T("none")
      <3>1. TAKE n \in Nat
      <3>2. HAVE n + 1 \in T("none")
      <3>3. k + (n + 1) <= Len(path) /\ e(k + (n + 1)).type # "none"
        BY <3>2
      <3>4. k + n <= Len(path) /\ e(k + (n + 1)) = Through(S, e(k + n), path[k + (n + 1)])
        BY <1>2, <3>3
      <3>5. e(k + n).type # "none"
        BY <3>3, <3>4 DEF Through
      <3>6. QED
        BY <3>4, <3>5
    <2>2. 0 \notin T("none")
      BY <1>1, <1>3
    <2> HIDE DEF T
    <2>3. T("none") \in SUBSET Nat
      BY DEF T
    <2>4. QED
      BY <2>1, <2>2, <2>3, NoCounterexample
  <1>4. ASSUME e(k).type \in {"file", "link"}
        PROVE  \A n \in Nat : k + (n + 1) <= Len(path) => e(k + (n + 1)).type = "notdir"
    <2> DEFINE U == {n \in Nat : k + (n + 1) <= Len(path) /\ e(k + (n + 1)).type # "notdir"}
    <2>1. \A n \in Nat : n + 1 \in U => n \in U
      <3>1. TAKE n \in Nat
      <3>2. HAVE n + 1 \in U
      <3>3. k + ((n + 1) + 1) <= Len(path) /\ e(k + ((n + 1) + 1)).type # "notdir"
        BY <3>2
      <3>4. /\ k + (n + 1) <= Len(path)
            /\ e(k + ((n + 1) + 1)) = Through(S, e(k + (n + 1)), path[k + ((n + 1) + 1)])
        <4>1. PICK m \in Nat : m = n + 1
          OBVIOUS
        <4>2. k + (m + 1) <= Len(path)
          BY <3>3, <4>1
        <4>3. k + m <= Len(path) /\ e(k + (m + 1)) = Through(S, e(k + m), path[k + (m + 1)])
          <5> HIDE DEF e
          <5>1. QED
            BY <1>2, <4>2
        <4> HIDE DEF e
        <4>4. QED
          BY <4>1, <4>3
      <3>5. e(k + (n + 1)).type # "notdir"
        BY <3>3, <3>4 DEF Through
      <3>6. QED
        BY <3>4, <3>5
    <2>2. 0 \notin U
      <3>1. SUFFICES ASSUME k + (0 + 1) <= Len(path) PROVE e(k + (0 + 1)).type = "notdir"
        OBVIOUS
      <3>2. e(k + (0 + 1)) = Through(S, e(k + 0), path[k + (0 + 1)])
        BY <1>2, <3>1
      <3>3. e(k + 0) = e(k)
        BY <1>1
      <3>4. QED
        BY <1>4, <3>2, <3>3 DEF Through
    <2> HIDE DEF U
    <2>3. U \in SUBSET Nat
      BY DEF U
    <2>4. U = {}
      BY <2>1, <2>2, <2>3, NoCounterexample
    <2>5. QED
      BY <2>4 DEF U
  <1>5. PICK d \in Nat : k + d = Len(path)
    <2>1. \A n \in Nat : k <= n => n - k \in Nat /\ k + (n - k) = n
      BY <1>1
    <2>2. k <= Len(path)
      BY <1>1
    <2>3. Len(path) - k \in Nat /\ k + (Len(path) - k) = Len(path)
      BY <1>1, <2>1, <2>2, Zenon
    <2>4. QED
      BY <2>3, Zenon
  <1>6. e(k).type = "none" => Meaning(S, path) = "none"
    <2>1. HAVE e(k).type = "none"
    <2>2. T("none") = {}
      BY <1>3, <2>1
    <2>3. e(k + d).type = "none"
      <3>1. k + d <= Len(path)
        BY <1>1, <1>5
      <3>2. \A n \in Nat : k + n <= Len(path) => e(k + n).type = "none"
        BY <2>2
      <3> HIDE DEF e
      <3>3. QED
        BY <3>1, <3>2
    <2>4. QED
      BY <1>5, <2>3 DEF Meaning
  <1>7. e(k).type \in {"file", "link"} /\ k < Len(path) => Meaning(S, path) = "notdir"
    <2>1. HAVE e(k).type \in {"file", "link"} /\ k < Len(path)
    <2>2. PICK n \in Nat : n + 1 = d
      <3>1. d - 1 \in Nat /\ (d - 1) + 1 = d
        BY <1>1, <1>5, <2>1
      <3>2. QED
        BY <3>1
    <2>3. k + (n + 1) <= Len(path)
      BY <1>1, <1>5, <2>2
    <2>4. e(k + (n + 1)).type = "notdir"
      <3> HIDE DEF e
      <3>1. QED
        BY <1>4, <2>1, <2>3
    <2>5. QED
      BY <1>5, <2>2, <2>4 DEF Meaning
  <1>8. QED
    BY <1>6, <1>7

(* The members of a sequence that are in a set are just that.               *)
LEMMA AmongIs ==
  ASSUME NEW X, NEW s \in Seq(X), NEW keep
  PROVE  Among(s, keep) \in Seq(keep \cap X)
  <1> DEFINE Next1(f, k) == IF s[k] \in keep THEN Append(f[k - 1], s[k]) ELSE f[k - 1]
             Def(f, n) == [k \in 0..n |-> IF k = 0 THEN <<>> ELSE Next1(f, k)]
             T == {n \in Nat : ~\E f : f = Def(f, n)}
  <1>1. 0 \notin T
    <2>1. PICK f : f = [k \in 0..0 |-> <<>>]
      OBVIOUS
    <2>2. f = Def(f, 0)
      BY <2>1
    <2>3. QED
      BY <2>2
  <1>2. ASSUME NEW n \in Nat, n \notin T
        PROVE  n + 1 \notin T
    <2>1. PICK f : f = Def(f, n)
      BY <1>2
    <2>2. PICK v : v = IF s[n + 1] \in keep THEN Append(f[n], s[n + 1]) ELSE f[n]
      OBVIOUS
    <2>3. PICK g : g = [k \in 0..(n + 1) |-> IF k = n + 1 THEN v ELSE f[k]]
      OBVIOUS
    <2>4. \A k \in 0..(n + 1) : g[k] = IF k = 0 THEN <<>> ELSE Next1(g, k)
      <3>1. \A k \in 0..n : g[k] = f[k]
        BY <2>3
      <3>2. \A k \in 0..n : f[k] = IF k = 0 THEN <<>> ELSE Next1(f, k)
        BY <2>1
      <3>3. TAKE k \in 0..(n + 1)
      <3>4. CASE k = n + 1
        <4>1. g[k] = v /\ k # 0 /\ k - 1 = n /\ n \in 0..n
          BY <2>3, <3>4
        <4>2. g[k - 1] = f[n]
          BY <3>1, <4>1
        <4>3. QED
          BY <2>2, <3>4, <4>1, <4>2
      <3>5. CASE k \in 0..n
        <4>1. k = 0 \/ (k # 0 /\ k - 1 \in 0..n)
          BY <3>5
        <4>2. QED
          BY <3>1, <3>2, <3>5, <4>1
      <3>6. QED
        BY <3>4, <3>5
    <2>5. g = Def(g, n + 1)
      BY <2>3, <2>4
    <2>6. QED
      BY <2>5
  <1>3. T = {}
    <2> HIDE DEF T
    <2>1. T \in SUBSET Nat
      BY DEF T
    <2>2. QED
      BY <1>1, <1>2, <2>1, NoCounterexample
  <1>4. Len(s) \in Nat
    BY LenProperties
  <1>5. PICK f : f = Def(f, Len(s)) /\ Among(s, keep) = f[Len(s)]
    <2>1. \E f : f = Def(f, Len(s))
      BY <1>3, <1>4
    <2>2. Among(s, keep) = (CHOOSE f : f = Def(f, Len(s)))[Len(s)]
      BY DEF Among
    <2>3. QED
      BY <2>1, <2>2
  <1>6. /\ f[0] = <<>>
        /\ \A n \in Nat : n + 1 <= Len(s)
             => /\ n + 1 \in DOMAIN s
                /\ s[n + 1] \in X
                /\ s[n + 1] \in keep => f[n + 1] = Append(f[n], s[n + 1])
                /\ s[n + 1] \notin keep => f[n + 1] = f[n]
    <2>1. f[0] = <<>>
      BY <1>4, <1>5
    <2>2. ASSUME NEW n \in Nat, n + 1 <= Len(s)
          PROVE  /\ n + 1 \in DOMAIN s
                 /\ s[n + 1] \in X
                 /\ s[n + 1] \in keep => f[n + 1] = Append(f[n], s[n + 1])
                 /\ s[n + 1] \notin keep => f[n + 1] = f[n]
      <3>1. n + 1 \in 0..Len(s) /\ n + 1 # 0 /\ (n + 1) - 1 = n /\ n + 1 \in 1..Len(s)
        BY <1>4, <2>2
      <3>2. f[n + 1] = Next1(f, n + 1)
        BY <1>5, <3>1
      <3>3. n + 1 \in DOMAIN s /\ s[n + 1] \in X
        BY <3>1, LenProperties
      <3>4. QED
        BY <3>1, <3>2, <3>3
    <2>3. QED
      BY <2>1, <2>2
  <1> HIDE DEF T, Def, Next1
  <1> DEFINE Y == keep \cap X
             U == {n \in Nat : n <= Len(s) /\ f[n] \notin Seq(Y)}
  <1>7. 0 \notin U
    <2>1. <<>> \in Seq(Y)
      OBVIOUS
    <2>2. QED
      BY <1>6, <2>1
  <1>8. ASSUME NEW n \in Nat, n + 1 \in U PROVE n \in U
    <2>1. n + 1 <= Len(s) /\ f[n + 1] \notin Seq(Y) /\ n <= Len(s)
      BY <1>4, <1>8
    <2>2. SUFFICES ASSUME f[n] \in Seq(Y) PROVE FALSE
      BY <2>1
    <2>3. CASE s[n + 1] \in keep
      <3>1. PICK a \in Seq(Y) : a = f[n]
        BY <2>2
      <3>2. PICK x \in Y : x = s[n + 1]
        BY <1>6, <2>1, <2>3
      <3>3. f[n + 1] = Append(a, x)
        BY <1>6, <2>1, <2>3, <3>1, <3>2
      <3>4. Append(a, x) \in Seq(Y)
        BY AppendProperties
      <3>5. QED
        BY <2>1, <3>3, <3>4
    <2>4. CASE s[n + 1] \notin keep
      BY <1>6, <2>1, <2>2, <2>4
    <2>5. QED
      BY <2>3, <2>4
  <1>9. U = {}
    <2> HIDE DEF U
    <2>1. U \in SUBSET Nat
      BY DEF U
    <2>2. QED
      BY <1>7, <1>8, <2>1, NoCounterexample
  <1>10. f[Len(s)] \in Seq(Y)
    <2>1. Len(s) <= Len(s)
      BY <1>4
    <2>2. QED
      BY <1>4, <1>9, <2>1
  <1>11. QED
    BY <1>5, <1>10

-----------------------------------------------------------------------------
(***************************************************************************)
(* The first entry that matches.                                           *)
(***************************************************************************)
LEMMA FirstIs ==
  ASSUME NEW E, NEW es \in Seq(E), NEW name
  PROVE  /\ Matches(es, name) # {} =>
              /\ FirstMatch(es, name) \in E /\ FirstMatch(es, name).name = name
              /\ \E i \in Matches(es, name) : /\ FirstMatch(es, name) = es[i]
                                              /\ \A j \in Matches(es, name) : i <= j
         /\ \A i \in Matches(es, name) :
              (\A j \in Matches(es, name) : i <= j) => FirstMatch(es, name) = es[i]
  <1>1. DOMAIN es \in SUBSET Nat /\ \A i \in DOMAIN es : es[i] \in E
    BY LenProperties
  <1>2. Matches(es, name) \in SUBSET Nat /\ Matches(es, name) \subseteq DOMAIN es
        /\ \A i \in Matches(es, name) : es[i].name = name
    BY <1>1 DEF Matches
  <1>3. PICK M : M = Matches(es, name)
    OBVIOUS
  <1>4. FirstMatch(es, name) = es[CHOOSE i \in M : \A j \in M : i <= j]
    BY <1>3 DEF FirstMatch
  <1>5. \A i, k \in M : (\A j \in M : i <= j) /\ (\A j \in M : k <= j) => i = k
    BY <1>2, <1>3
  <1>6. M # {} => \E i \in M : \A j \in M : i <= j
    BY <1>2, <1>3, Least
  <1>7. QED
    <2>1. PICK f : f = CHOOSE i \in M : \A j \in M : i <= j
      OBVIOUS
    <2>2. (\E i \in M : \A j \in M : i <= j) => f \in M /\ \A j \in M : f <= j
      BY <2>1
    <2>3. FirstMatch(es, name) = es[f]
      BY <1>4, <2>1
    <2>4. M # {} => f \in M /\ \A j \in M : f <= j
      BY <1>6, <2>2
    <2>5. QED
      BY <1>1, <1>2, <1>3, <1>5, <2>3, <2>4

(* Of two lists of entries, one after the other.                            *)
LEMMA FirstOfBoth ==
  ASSUME NEW E, NEW a \in Seq(E), NEW F, NEW b \in Seq(F), NEW name
  PROVE  /\ Matches(a, name) # {} => /\ Matches(a \o b, name) # {}
                                     /\ FirstMatch(a \o b, name) = FirstMatch(a, name)
         /\ Matches(a, name) = {} =>
              /\ Matches(a \o b, name) = {} <=> Matches(b, name) = {}
              /\ Matches(b, name) # {} => FirstMatch(a \o b, name) = FirstMatch(b, name)
  <1>1. PICK G : G = E \cup F
    OBVIOUS
  <1>2. PICK m \in Nat, n \in Nat : m = Len(a) /\ n = Len(b)
    BY LenProperties
  <1>3. a \in Seq(G) /\ b \in Seq(G) /\ DOMAIN a = 1..m /\ DOMAIN b = 1..n
    BY <1>1, <1>2, LenProperties
  <1>4. PICK c : c = a \o b
    OBVIOUS
  <1>5. /\ c \in Seq(G) /\ DOMAIN c = 1..(m + n)
        /\ \A i \in 1..m : c[i] = a[i]
        /\ \A i \in 1..n : c[m + i] = b[i]
    <2>1. c \in Seq(G) /\ Len(c) = m + n
      BY <1>2, <1>3, <1>4, ConcatProperties
    <2>2. DOMAIN c = 1..(m + n)
      BY <2>1, LenProperties
    <2>3. \A i \in 1..(m + n) : c[i] = IF i <= m THEN a[i] ELSE b[i - m]
      BY <1>2, <1>3, <1>4, ConcatProperties
    <2>4. \A i \in 1..m : i \in 1..(m + n) /\ i <= m
      OBVIOUS
    <2>5. \A i \in 1..n : m + i \in 1..(m + n) /\ ~(m + i <= m) /\ (m + i) - m = i
      OBVIOUS
    <2>6. QED
      BY <2>1, <2>2, <2>3, <2>4, <2>5
  <1>6. /\ \A i \in 1..m : i \in Matches(c, name) <=> i \in Matches(a, name)
        /\ \A i \in 1..n : m + i \in Matches(c, name) <=> i \in Matches(b, name)
        /\ Matches(a, name) \subseteq 1..m /\ Matches(b, name) \subseteq 1..n
        /\ Matches(c, name) \subseteq 1..(m + n)
    <2>1. \A i \in 1..m : i \in 1..(m + n)
      OBVIOUS
    <2>2. \A i \in 1..n : m + i \in 1..(m + n)
      OBVIOUS
    <2>3. QED
      BY <1>3, <1>5, <2>1, <2>2 DEF Matches
  <1>7. \A k \in 1..(m + n) : k \in 1..m \/ \E i \in 1..n : k = m + i
    <2>1. \A k \in 1..(m + n) : k \in 1..m \/ (k - m \in 1..n /\ k = m + (k - m))
      OBVIOUS
    <2>2. QED
      BY <2>1
  <1>8. ASSUME Matches(a, name) # {}
        PROVE  Matches(c, name) # {} /\ FirstMatch(c, name) = FirstMatch(a, name)
    <2>1. PICK i \in Matches(a, name) : FirstMatch(a, name) = a[i] /\ \A j \in Matches(a, name) : i <= j
      BY <1>8, FirstIs
    <2>2. i \in 1..m /\ i \in Matches(c, name) /\ c[i] = a[i]
      BY <1>5, <1>6
    <2>3. \A j \in Matches(c, name) : i <= j
      <3>1. TAKE j \in Matches(c, name)
      <3>2. CASE j \in 1..m
        BY <1>6, <2>1, <3>2
      <3>3. CASE \E k \in 1..n : j = m + k
        BY <2>2, <3>3
      <3>4. QED
        BY <1>6, <1>7, <3>2, <3>3
    <2>4. QED
      BY <1>5, <2>1, <2>2, <2>3, FirstIs
  <1>9. ASSUME Matches(a, name) = {}
        PROVE  /\ Matches(c, name) = {} <=> Matches(b, name) = {}
               /\ Matches(b, name) # {} => FirstMatch(c, name) = FirstMatch(b, name)
    <2>1. \A k \in Matches(c, name) : \E i \in Matches(b, name) : k = m + i
      BY <1>6, <1>7, <1>9
    <2>2. \A i \in Matches(b, name) : m + i \in Matches(c, name)
      BY <1>6
    <2>3. ASSUME Matches(b, name) # {} PROVE FirstMatch(c, name) = FirstMatch(b, name)
      <3>1. PICK i \in Matches(b, name) : FirstMatch(b, name) = b[i] /\ \A j \in Matches(b, name) : i <= j
        BY <2>3, FirstIs
      <3>2. i \in 1..n /\ m + i \in Matches(c, name) /\ c[m + i] = b[i]
        BY <1>5, <1>6
      <3>3. \A j \in Matches(c, name) : m + i <= j
        <4>1. TAKE j \in Matches(c, name)
        <4>2. PICK k \in Matches(b, name) : j = m + k
          BY <2>1
        <4>3. i <= k /\ k \in 1..n
          BY <1>6, <3>1
        <4>4. QED
          BY <3>2, <4>2, <4>3
      <3>4. FirstMatch(c, name) = c[m + i]
        BY <1>5, <3>2, <3>3, FirstIs
      <3>5. QED
        BY <3>1, <3>2, <3>4
    <2>4. QED
      BY <2>1, <2>2, <2>3
  <1>10. QED
    BY <1>4, <1>8, <1>9

-----------------------------------------------------------------------------
(***************************************************************************)
(* What the directories of the tree are made of.                           *)
(***************************************************************************)
(* An answer to Search is a list of objects.                                *)
HitsAreObjects == \A o, c : Hits(o, c) \in Seq(Object)

(* A place, as far as its entries depend on it.                             *)
IsPlace(p) ==
  /\ p = Place(p.kind, p.dev, p.obj, p.kids, p.crit, p.searchable)
  /\ p.obj \in Object /\ p.kids \in Seq(Object)

(* The places of a device, whose entries do not depend on the list.         *)
Born == {"device", "browse", "kids", "metadata", "search"}

(* Where the directories of a directory are.                                *)
Below(S, p, name, to) ==
  CASE p.kind = "root"  -> (to = At("device", name) /\ name \in S) \/ to = At("debug", Nobody)
    [] p.kind = "debug" -> \/ to = At("status", name)
                           \/ to = At("history", Nobody) /\ name = "search_history"
    [] p.kind = "kids"  -> /\ to.kind \in {"browse", "metadata", "search"} /\ to.dev = p.dev
                           /\ to.searchable => p.searchable
                           /\ to.kind = "search" => to.searchable
    [] OTHER            -> FALSE

EntryOf(S, p, e) ==
  /\ e = [name |-> e.name, type |-> e.type, to |-> e.to]
  /\ e.type \in {"dir", "file", "link"} /\ IsPlace(e.to)
  /\ e.type = "dir" => Below(S, p, e.name, e.to)
  /\ e.type = "file" => e.to.kind \in {"plain", "text"}
  /\ e.type = "link" => e.to.kind = "plain"

Catalogue(S, p, es) == \E E : es \in Seq(E) /\ \A e \in E : EntryOf(S, p, e)

LEMMA AtIsPlace ==
  ASSUME NEW kind, NEW dev
  PROVE  /\ IsPlace(At(kind, dev)) /\ At(kind, dev).kind = kind /\ At(kind, dev).dev = dev
         /\ At(kind, dev).kids = <<>> /\ At(kind, dev).crit = <<>> /\ ~At(kind, dev).searchable
         /\ At(kind, dev).obj = Root
  <1>1. <<>> \in Seq(Object)
    OBVIOUS
  <1>2. QED
    BY <1>1 DEF At, Place, IsPlace

LEMMA KidsPlaceFacts ==
  ASSUME NEW p, IsPlace(p), NEW kids \in Seq(Object), NEW searchable
  PROVE  LET q == KidsPlace(p, kids, searchable)
         IN  /\ IsPlace(q) /\ q.kind = "kids" /\ q.dev = p.dev /\ q.obj = p.obj
             /\ q.kids = kids /\ q.crit = p.crit /\ q.searchable = searchable
  <1>1. PICK q : q = KidsPlace(p, kids, searchable)
    OBVIOUS
  <1>2. PICK r : r = Place(p.kind, p.dev, p.obj, p.kids, p.crit, p.searchable)
    OBVIOUS
  <1>3. r = p /\ p.obj \in Object
    BY <1>2 DEF IsPlace
  <1>4. q = Place(q.kind, q.dev, q.obj, q.kids, q.crit, q.searchable)
    <2>1. q = KidsPlace(r, kids, searchable)
      BY <1>1, <1>3
    <2>2. QED
      BY <1>2, <2>1 DEF KidsPlace, Place
  <1>5. /\ q.kind = "kids" /\ q.dev = p.dev /\ q.obj = p.obj
        /\ q.kids = kids /\ q.crit = p.crit /\ q.searchable = searchable
    BY <1>1, <1>2, <1>3 DEF KidsPlace, Place
  <1>6. QED
    BY <1>1, <1>3, <1>4, <1>5 DEF IsPlace

LEMMA OpenedFacts ==
  ASSUME NEW p, IsPlace(p)
  PROVE  /\ IsPlace(Opened(p)) /\ Opened(p).dev = p.dev
         /\ p.kind \in {"device", "browse"} => Opened(p).kind = "kids"
         /\ p.kind = "browse" => Opened(p).searchable = p.searchable
         /\ p.kind \notin {"device", "browse"} => Opened(p) = p
  <1>1. Kids[Root] \in Seq(Object) /\ Kids[p.obj] \in Seq(Object)
    BY TreeAssumption DEF IsPlace
  <1>2. PICK b : b = (HistSize > 0 /\ (IsSearchable[Root] => HasCaps))
    OBVIOUS
  <1>3. CASE p.kind = "device"
    <2>1. Opened(p) = KidsPlace(p, Kids[Root], b)
      BY <1>2, <1>3 DEF Opened
    <2>2. QED
      BY <1>1, <1>3, <2>1, KidsPlaceFacts
  <1>4. CASE p.kind = "browse"
    <2>1. Opened(p) = KidsPlace(p, Kids[p.obj], p.searchable)
      BY <1>4 DEF Opened
    <2>2. QED
      BY <1>1, <1>4, <2>1, KidsPlaceFacts
  <1>5. CASE p.kind \notin {"device", "browse"}
    BY <1>5 DEF Opened
  <1>6. QED
    BY <1>3, <1>4, <1>5

LEMMA CatalogueOne ==
  ASSUME NEW S, NEW p, NEW e, EntryOf(S, p, e)
  PROVE  Catalogue(S, p, <<e>>)
  <1>1. PICK E : E = {e}
    OBVIOUS
  <1>2. PICK es : es = <<e>>
    OBVIOUS
  <1>3. es \in Seq(E) /\ \A x \in E : EntryOf(S, p, x)
    BY <1>1, <1>2
  <1>4. QED
    BY <1>2, <1>3 DEF Catalogue

LEMMA CatalogueNone ==
  ASSUME NEW S, NEW p
  PROVE  Catalogue(S, p, <<>>)
  <1>1. PICK E : E = {}
    OBVIOUS
  <1>2. <<>> \in Seq(E) /\ \A x \in E : EntryOf(S, p, x)
    BY <1>1
  <1>3. QED
    BY <1>2 DEF Catalogue

LEMMA CatalogueBoth ==
  ASSUME NEW S, NEW p, NEW a, NEW b, Catalogue(S, p, a), Catalogue(S, p, b)
  PROVE  Catalogue(S, p, a \o b)
  <1>1. PICK E : a \in Seq(E) /\ \A e \in E : EntryOf(S, p, e)
    BY DEF Catalogue
  <1>2. PICK F : b \in Seq(F) /\ \A e \in F : EntryOf(S, p, e)
    BY DEF Catalogue
  <1>3. PICK G : G = E \cup F
    OBVIOUS
  <1>4. a \in Seq(G) /\ b \in Seq(G) /\ \A e \in G : EntryOf(S, p, e)
    BY <1>1, <1>2, <1>3
  <1>5. a \o b \in Seq(G)
    BY <1>4, ConcatProperties
  <1>6. QED
    BY <1>4, <1>5 DEF Catalogue

LEMMA FileIsEntry ==
  ASSUME NEW S, NEW p, NEW name, NEW kind \in {"plain", "text"}
  PROVE  EntryOf(S, p, File(name, kind))
  BY AtIsPlace DEF EntryOf, File

LEMMA NamesAre ==
  ASSUME NEW S
  PROVE  Names(S) \in Seq(S \cap STRING)
  <1>1. PICK X : X = STRING
    OBVIOUS
  <1>2. PICK s \in Seq(X) : s = Devices
    BY <1>1, TreeAssumption
  <1>3. Among(s, S) \in Seq(S \cap X)
    BY AmongIs
  <1>4. QED
    BY <1>1, <1>2, <1>3 DEF Names

LEMMA RootEntriesAre ==
  ASSUME NEW S, NEW p, p.kind = "root"
  PROVE  Catalogue(S, p, RootEntries(S))
  <1> DEFINE DirOf(d) == Dir(d, At("device", d))
             middle == [i \in DOMAIN Names(S) |-> DirOf(Names(S)[i])]
             last == IF ShowDebug THEN <<Dir(".debug", At("debug", Nobody))>> ELSE <<>>
  <1>1. EntryOf(S, p, Dir(".debug", At("debug", Nobody)))
    BY AtIsPlace DEF EntryOf, Dir, Below
  <1>2. \A d \in S : EntryOf(S, p, DirOf(d))
    BY AtIsPlace DEF EntryOf, Dir, Below
  <1>3. Catalogue(S, p, middle)
    <2>1. PICK names \in Seq(S) : names = Names(S)
      <3>1. PICK X : X = S \cap STRING
        OBVIOUS
      <3>2. X \subseteq S /\ Names(S) \in Seq(X)
        BY <3>1, NamesAre
      <3>3. QED
        BY <3>2
    <2>2. PICK E : E = {DirOf(d) : d \in S}
      OBVIOUS
    <2>3. Len(names) \in Nat /\ DOMAIN names = 1..Len(names)
          /\ \A i \in DOMAIN names : names[i] \in S
      BY LenProperties
    <2>4. [i \in DOMAIN names |-> DirOf(names[i])] \in Seq(E)
      <3>1. \A i \in 1..Len(names) : DirOf(names[i]) \in E
        BY <2>2, <2>3
      <3> HIDE DEF DirOf
      <3>2. QED
        BY <2>3, <3>1
    <2>5. \A e \in E : EntryOf(S, p, e)
      <3> HIDE DEF DirOf
      <3>1. QED
        BY <1>2, <2>2
    <2>6. QED
      BY <2>1, <2>4, <2>5 DEF Catalogue
  <1>4. Catalogue(S, p, last)
    BY <1>1, CatalogueOne, CatalogueNone
  <1>5. Catalogue(S, p, <<File("devices", "plain")>>)
    BY FileIsEntry, CatalogueOne
  <1>6. RootEntries(S) = <<File("devices", "plain")>> \o middle \o last
    BY DEF RootEntries
  <1> HIDE DEF middle, last
  <1>7. QED
    BY <1>3, <1>4, <1>5, <1>6, CatalogueBoth

LEMMA DebugEntriesAre ==
  ASSUME NEW S, NEW p, p.kind = "debug"
  PROVE  Catalogue(S, p, DebugEntries(S))
  <1> DEFINE DirOf(d) == Dir(d, At("status", d))
             first == <<File("versions", "plain")>>
             middle == [i \in DOMAIN Names(S) |-> DirOf(Names(S)[i])]
             links == IF HistSize > 0 THEN <<Dir("search_history", At("history", Nobody))>> ELSE <<>>
             last == <<File("uname", "plain"), File("talloc_total", "plain"),
                       File("talloc_report", "plain"), File("talloc_report_full", "plain")>>
  <1>1. EntryOf(S, p, Dir("search_history", At("history", Nobody)))
    BY AtIsPlace DEF EntryOf, Dir, Below
  <1>2. \A d \in S : EntryOf(S, p, DirOf(d))
    BY AtIsPlace DEF EntryOf, Dir, Below
  <1>3. Catalogue(S, p, middle)
    <2>1. PICK names \in Seq(S) : names = Names(S)
      <3>1. PICK X : X = S \cap STRING
        OBVIOUS
      <3>2. X \subseteq S /\ Names(S) \in Seq(X)
        BY <3>1, NamesAre
      <3>3. QED
        BY <3>2
    <2>2. PICK E : E = {DirOf(d) : d \in S}
      OBVIOUS
    <2>3. Len(names) \in Nat /\ DOMAIN names = 1..Len(names)
          /\ \A i \in DOMAIN names : names[i] \in S
      BY LenProperties
    <2>4. [i \in DOMAIN names |-> DirOf(names[i])] \in Seq(E)
      <3>1. \A i \in 1..Len(names) : DirOf(names[i]) \in E
        BY <2>2, <2>3
      <3> HIDE DEF DirOf
      <3>2. QED
        BY <2>3, <3>1
    <2>5. \A e \in E : EntryOf(S, p, e)
      <3> HIDE DEF DirOf
      <3>1. QED
        BY <1>2, <2>2
    <2>6. QED
      BY <2>1, <2>4, <2>5 DEF Catalogue
  <1>4. Catalogue(S, p, links)
    BY <1>1, CatalogueOne, CatalogueNone
  <1>5. Catalogue(S, p, first)
    BY FileIsEntry, CatalogueOne
  <1>6. Catalogue(S, p, last)
    <2>1. PICK E : E = {File("uname", "plain"), File("talloc_total", "plain"),
                        File("talloc_report", "plain"), File("talloc_report_full", "plain")}
      OBVIOUS
    <2>2. \A name : EntryOf(S, p, File(name, "plain"))
      BY FileIsEntry
    <2>3. \A e \in E : EntryOf(S, p, e)
      BY <2>1, <2>2
    <2>4. \A a, b, c, d \in E : <<a, b, c, d>> \in Seq(E)
      OBVIOUS
    <2>5. last \in Seq(E)
      BY <2>1, <2>4
    <2>6. QED
      BY <2>3, <2>5 DEF Catalogue
  <1>7. DebugEntries(S) = first \o middle \o links \o last
    BY DEF DebugEntries
  <1> HIDE DEF first, middle, links, last
  <1>8. QED
    BY <1>3, <1>4, <1>5, <1>6, <1>7, CatalogueBoth

LEMMA KidEntriesAre ==
  ASSUME NEW S, NEW p, IsPlace(p), p.kind = "kids"
  PROVE  Catalogue(S, p, KidEntries(p))
  <1> DEFINE Seen == {o \in Visible : \E i \in DOMAIN p.kids : o = p.kids[i]}
  <1>1. Seen \subseteq Object
    BY DEF Visible
  <1>2. \A o \in Seen : EntryOf(S, p, KidEntry(p, o))
    <2>1. TAKE o \in Seen
    <2>2. CASE IsContainer[o]
      <3>1. PICK to : to = Place("browse", p.dev, o, <<>>, <<>>, p.searchable /\ p.crit = <<>>)
        OBVIOUS
      <3>2. <<>> \in Seq(Object)
        OBVIOUS
      <3>3. IsPlace(to) /\ to.kind = "browse" /\ to.dev = p.dev /\ (to.searchable => p.searchable)
        BY <1>1, <3>1, <3>2 DEF IsPlace, Place
      <3>4. KidEntry(p, o) = Dir(NameOf[o], to)
        BY <2>2, <3>1 DEF KidEntry
      <3>5. QED
        BY <2>2, <3>3, <3>4 DEF EntryOf, Dir, Below
    <2>3. CASE ~IsContainer[o]
      <3>1. KidEntry(p, o) = File(NameOf[o], "plain")
        BY <2>3 DEF KidEntry
      <3>2. QED
        BY <3>1, FileIsEntry
    <2>4. QED
      BY <2>2, <2>3
  <1>3. PICK shown \in Seq(Seen) : shown = Shown(p.kids)
    <2>1. PICK X : X = {p.kids[i] : i \in DOMAIN p.kids}
      OBVIOUS
    <2>2. p.kids \in Seq(X)
      <3>1. PICK kids \in Seq(Object) : kids = p.kids
        BY DEF IsPlace
      <3>2. PICK n \in Nat : n = Len(kids)
        BY LenProperties
      <3>3. DOMAIN kids = 1..n /\ kids = [i \in 1..n |-> kids[i]]
        BY <3>2, LenProperties
      <3>4. \A i \in 1..n : kids[i] \in X
        BY <2>1, <3>1, <3>3
      <3>5. [i \in 1..n |-> kids[i]] \in Seq(X)
        BY <3>4
      <3>6. QED
        BY <3>1, <3>3, <3>5
    <2>3. Shown(p.kids) \in Seq(Visible \cap X)
      BY <2>2, AmongIs DEF Shown
    <2>4. Visible \cap X = Seen
      BY <2>1
    <2>5. QED
      BY <2>3, <2>4
  <1> HIDE DEF Seen
  <1>4. KidEntries(p) = [i \in DOMAIN shown |-> KidEntry(p, shown[i])]
    BY <1>3 DEF KidEntries
  <1>5. PICK E : E = {KidEntry(p, o) : o \in Seen}
    OBVIOUS
  <1>6. Len(shown) \in Nat /\ DOMAIN shown = 1..Len(shown)
        /\ \A i \in DOMAIN shown : shown[i] \in Seen
    BY LenProperties
  <1>7. KidEntries(p) \in Seq(E)
    <2>1. \A i \in 1..Len(shown) : KidEntry(p, shown[i]) \in E
      BY <1>5, <1>6
    <2>2. QED
      BY <1>4, <1>6, <2>1
  <1>8. \A e \in E : EntryOf(S, p, e)
    BY <1>2, <1>5
  <1>9. QED
    BY <1>7, <1>8 DEF Catalogue

LEMMA MetadataEntriesAre ==
  ASSUME NEW S, NEW p, IsPlace(p), p.kind = "metadata"
  PROVE  Catalogue(S, p, MetadataEntries(p))
  <1>1. PICK kids \in Seq(Object) : kids = p.kids
    BY DEF IsPlace
  <1>2. PICK E : E = {File(MetaName[o], "plain") : o \in Object}
    OBVIOUS
  <1>3. Len(kids) \in Nat /\ DOMAIN kids = 1..Len(kids)
        /\ \A i \in DOMAIN kids : kids[i] \in Object
    BY LenProperties
  <1>4. MetadataEntries(p) = [i \in DOMAIN kids |-> File(MetaName[kids[i]], "plain")]
    BY <1>1 DEF MetadataEntries
  <1>5. MetadataEntries(p) \in Seq(E)
    <2>1. \A i \in 1..Len(kids) : File(MetaName[kids[i]], "plain") \in E
      BY <1>2, <1>3
    <2>2. QED
      BY <1>3, <1>4, <2>1
  <1>6. \A e \in E : EntryOf(S, p, e)
    <2>1. \A name : EntryOf(S, p, File(name, "plain"))
      BY FileIsEntry
    <2>2. QED
      BY <1>2, <2>1
  <1>7. QED
    BY <1>5, <1>6 DEF Catalogue

LEMMA BrowseChildrenAre ==
  ASSUME NEW S, NEW p, IsPlace(p), p.kind = "kids"
  PROVE  Catalogue(S, p, BrowseChildren(p))
  <1> DEFINE kept == IF ShowMetadata /\ p.kids # <<>>
                     THEN <<Dir(".metadata", [p EXCEPT !.kind = "metadata"])>> ELSE <<>>
  <1>1. Catalogue(S, p, kept)
    <2>1. PICK to : to = [p EXCEPT !.kind = "metadata"]
      OBVIOUS
    <2>2. IsPlace(to) /\ to.kind = "metadata" /\ to.dev = p.dev /\ to.searchable = p.searchable
      BY <2>1 DEF IsPlace, Place
    <2>3. EntryOf(S, p, Dir(".metadata", to))
      BY <2>2 DEF EntryOf, Dir, Below
    <2>4. QED
      BY <2>1, <2>3, CatalogueOne, CatalogueNone
  <1>2. Catalogue(S, p, SearchDirs(p))
    <2>1. CASE ~(p.searchable /\ IsSearchable[p.obj])
      <3>1. SearchDirs(p) = <<>>
        BY <2>1 DEF SearchDirs
      <3>2. QED
        BY <3>1, CatalogueNone
    <2>2. CASE p.searchable /\ IsSearchable[p.obj] /\ p.crit = <<>>
      <3>1. PICK to : to = [p EXCEPT !.kind = "search"]
        OBVIOUS
      <3>2. IsPlace(to) /\ to.kind = "search" /\ to.dev = p.dev /\ to.searchable
        BY <2>2, <3>1 DEF IsPlace, Place
      <3>3. EntryOf(S, p, Dir("_search", to))
        BY <2>2, <3>2 DEF EntryOf, Dir, Below
      <3>4. SearchDirs(p) = <<Dir("_search", to)>>
        BY <2>2, <3>1 DEF SearchDirs
      <3>5. QED
        BY <3>3, <3>4, CatalogueOne
    <2>3. CASE p.searchable /\ IsSearchable[p.obj] /\ p.crit # <<>>
      <3>1. PICK both : both = [p EXCEPT !.kind = "search", !.crit = Append(@, "and")]
        OBVIOUS
      <3>2. PICK any : any = [p EXCEPT !.kind = "search", !.crit = Append(@, "or")]
        OBVIOUS
      <3>3. /\ IsPlace(both) /\ both.kind = "search" /\ both.dev = p.dev /\ both.searchable
            /\ IsPlace(any) /\ any.kind = "search" /\ any.dev = p.dev /\ any.searchable
        BY <2>3, <3>1, <3>2 DEF IsPlace, Place
      <3>4. PICK x, y : x = Dir("_and", both) /\ y = Dir("_or", any)
        OBVIOUS
      <3>5. EntryOf(S, p, x) /\ EntryOf(S, p, y)
        BY <2>3, <3>3, <3>4 DEF EntryOf, Dir, Below
      <3>6. SearchDirs(p) = <<x, y>>
        BY <2>3, <3>1, <3>2, <3>4 DEF SearchDirs
      <3>7. PICK E : E = {x, y}
        OBVIOUS
      <3>8. PICK es : es = <<x, y>>
        OBVIOUS
      <3>9. es \in Seq(E) /\ \A e \in E : EntryOf(S, p, e)
        BY <3>5, <3>7, <3>8
      <3>10. QED
        BY <3>6, <3>8, <3>9 DEF Catalogue
    <2>4. QED
      BY <2>1, <2>2, <2>3
  <1>3. BrowseChildren(p) = KidEntries(p) \o kept \o SearchDirs(p)
    BY DEF BrowseChildren
  <1>4. PICK a, b, c : a = KidEntries(p) /\ b = kept /\ c = SearchDirs(p)
    OBVIOUS
  <1>5. BrowseChildren(p) = (a \o b) \o c
    BY <1>3, <1>4
  <1> HIDE DEF kept
  <1>6. Catalogue(S, p, a) /\ Catalogue(S, p, b) /\ Catalogue(S, p, c)
    BY <1>1, <1>2, <1>4, KidEntriesAre
  <1>7. Catalogue(S, p, a \o b)
    BY <1>6, CatalogueBoth
  <1>8. Catalogue(S, p, (a \o b) \o c)
    BY <1>6, <1>7, CatalogueBoth
  <1>9. QED
    BY <1>5, <1>8

LEMMA EntriesAre ==
  ASSUME NEW S, NEW p, p.kind \in Born => IsPlace(p)
  PROVE  Catalogue(S, p, Entries(S, p))
  <1>1. ASSUME p.kind = "device"
        PROVE  Catalogue(S, p, DeviceEntries)
    <2>1. EntryOf(S, p, Link(".status"))
      BY <1>1, AtIsPlace DEF EntryOf, Link
    <2>2. QED
      BY <2>1, CatalogueOne, CatalogueNone DEF DeviceEntries
  <1>2. ASSUME p.kind \in {"search", "status"}
        PROVE  \A x, y : /\ Catalogue(S, p, <<File(x, "plain"), File(y, "text")>>)
                         /\ Catalogue(S, p, <<File(x, "text"), File(y, "text")>>)
    <2> TAKE x, y
    <2>1. PICK E : E = {File(x, "plain"), File(x, "text"), File(y, "text")}
      OBVIOUS
    <2>2. EntryOf(S, p, File(x, "plain")) /\ EntryOf(S, p, File(x, "text"))
          /\ EntryOf(S, p, File(y, "text"))
      BY FileIsEntry
    <2>3. \A e \in E : EntryOf(S, p, e)
      BY <2>1, <2>2
    <2>4. \A a, b \in E : <<a, b>> \in Seq(E)
      OBVIOUS
    <2>5. QED
      BY <2>1, <2>3, <2>4 DEF Catalogue
  <1>3. CASE p.kind \in {"root", "debug", "kids", "metadata"}
    BY <1>3, RootEntriesAre, DebugEntriesAre, BrowseChildrenAre, MetadataEntriesAre DEF Entries, Born
  <1>4. CASE p.kind = "device"
    BY <1>1, <1>4 DEF Entries
  <1>5. CASE p.kind = "search"
    <2>1. PICK x, y : x = "search_help.txt" /\ y = "search_capabilities"
      OBVIOUS
    <2>2. Catalogue(S, p, <<File(x, "plain"), File(y, "text")>>)
      BY <1>2, <1>5
    <2>3. QED
      BY <1>5, <2>1, <2>2 DEF Entries
  <1>6. CASE p.kind = "status"
    <2>1. PICK x, y : x = "status" /\ y = "device_description.xml"
      OBVIOUS
    <2>2. Catalogue(S, p, <<File(x, "text"), File(y, "text")>>)
      BY <1>2, <1>6
    <2>3. QED
      BY <1>6, <2>1, <2>2 DEF Entries
  <1>7. CASE p.kind \notin {"root", "debug", "kids", "metadata", "device", "search", "status"}
    BY <1>7, CatalogueNone DEF Entries
  <1>8. QED
    BY <1>3, <1>4, <1>7, <1>5, <1>6

-----------------------------------------------------------------------------
(***************************************************************************)
(* What a component leads to.                                              *)
(***************************************************************************)
Met(e) == IF e.to.kind = "browse" THEN [e EXCEPT !.to = Opened(@)] ELSE e

LEMMA MetFacts ==
  ASSUME NEW S, NEW p, NEW e, EntryOf(S, p, e)
  PROVE  /\ Met(e).name = e.name /\ Met(e).type = e.type
         /\ Met(e).to = Opened(e.to) \/ e.to.kind # "browse"
         /\ e.to.kind # "browse" => Met(e) = e
         /\ IsPlace(Met(e).to) /\ Met(e).to.kind # "browse"
  <1>1. IsPlace(e.to) /\ e = [name |-> e.name, type |-> e.type, to |-> e.to]
    BY DEF EntryOf
  <1>2. CASE e.to.kind = "browse"
    <2>1. PICK q : q = Opened(e.to)
      OBVIOUS
    <2>2. IsPlace(q) /\ q.kind = "kids"
      BY <1>1, <1>2, <2>1, OpenedFacts
    <2>3. Met(e) = [e EXCEPT !.to = q]
      BY <1>2, <2>1 DEF Met
    <2>4. Met(e).name = e.name /\ Met(e).type = e.type /\ Met(e).to = q
      BY <1>1, <2>3
    <2>5. QED
      BY <1>2, <2>1, <2>2, <2>4
  <1>3. CASE e.to.kind # "browse"
    BY <1>1, <1>3 DEF Met
  <1>4. QED
    BY <1>2, <1>3

(* Only the root and .debug depend on the list of devices.                  *)
LEMMA EntriesSame ==
  ASSUME NEW S, NEW R, NEW p, p.kind \notin {"root", "debug"}
  PROVE  Entries(S, p) = Entries(R, p)
  BY DEF Entries

LEMMA ContentAre ==
  ASSUME NEW S, NEW p, IsPlace(p)
  PROVE  \E E : /\ Content(S, p) \in Seq(E)
                /\ \A e \in E : \/ EntryOf(S, p, e)
                                \/ p.kind = "device" /\ EntryOf(S, Opened(p), e)
  <1>1. PICK E : Entries(S, p) \in Seq(E) /\ \A e \in E : EntryOf(S, p, e)
    BY EntriesAre DEF Catalogue
  <1>2. PICK q : q = Opened(p)
    OBVIOUS
  <1>3. PICK F : Entries(S, q) \in Seq(F) /\ \A e \in F : EntryOf(S, q, e)
    BY <1>2, OpenedFacts, EntriesAre DEF Catalogue
  <1>4. CASE p.kind = "device"
    <2>1. PICK G : G = E \cup F
      OBVIOUS
    <2>2. PICK a \in Seq(G), b \in Seq(G) : a = Entries(S, p) /\ b = Entries(S, q)
      BY <1>1, <1>3, <2>1
    <2>3. a \o b \in Seq(G)
      BY ConcatProperties
    <2>4. Content(S, p) = a \o b
      BY <1>2, <1>4, <2>2 DEF Content
    <2>5. \A e \in G : EntryOf(S, p, e) \/ EntryOf(S, q, e)
      BY <1>1, <1>3, <2>1
    <2>6. QED
      BY <1>2, <1>4, <2>3, <2>4, <2>5
  <1>5. CASE p.kind # "device"
    <2>1. Content(S, p) = Entries(S, p)
      BY <1>5 DEF Content
    <2>2. QED
      BY <1>1, <2>1
  <1>6. QED
    BY <1>4, <1>5

(* What a word under a directory of searches leads to.                      *)
Result(p, crit) == KidsPlace([p EXCEPT !.crit = @ \o crit], Hits(p.obj, p.crit \o crit), TRUE)

LEMMA ResultFacts ==
  ASSUME HitsAreObjects, NEW p, IsPlace(p), NEW crit
  PROVE  /\ IsPlace([p EXCEPT !.crit = @ \o crit])
         /\ [p EXCEPT !.crit = @ \o crit].crit = p.crit \o crit
         /\ [p EXCEPT !.crit = @ \o crit].kind = p.kind /\ [p EXCEPT !.crit = @ \o crit].obj = p.obj
         /\ [p EXCEPT !.crit = @ \o crit].dev = p.dev
         /\ [p EXCEPT !.crit = @ \o crit].searchable = p.searchable
         /\ IsPlace(Result(p, crit)) /\ Result(p, crit).kind = "kids"
         /\ Result(p, crit).dev = p.dev
  <1>1. PICK q : q = [p EXCEPT !.crit = @ \o crit]
    OBVIOUS
  <1>2. /\ IsPlace(q) /\ q.crit = p.crit \o crit /\ q.kind = p.kind /\ q.obj = p.obj
        /\ q.dev = p.dev /\ q.searchable = p.searchable
    BY <1>1 DEF IsPlace, Place
  <1>3. PICK hits \in Seq(Object) : hits = Hits(p.obj, p.crit \o crit)
    BY DEF HitsAreObjects
  <1>4. Result(p, crit) = KidsPlace(q, hits, TRUE)
    BY <1>1, <1>3 DEF Result
  <1>5. PICK yes : yes = TRUE
    OBVIOUS
  <1>6. LET r == KidsPlace(q, hits, yes) IN IsPlace(r) /\ r.kind = "kids" /\ r.dev = q.dev
    BY <1>2, <1>3, KidsPlaceFacts
  <1>7. Result(p, crit) = KidsPlace(q, hits, yes)
    BY <1>4, <1>5
  <1>8. QED
    BY <1>1, <1>2, <1>6, <1>7

LEMMA ChildIs ==
  ASSUME HitsAreObjects, NEW S, NEW p, IsPlace(p), NEW name
  PROVE  /\ Matches(Content(S, p), name) # {}
              => Child(S, p, name) = Met(FirstMatch(Content(S, p), name))
         /\ Matches(Content(S, p), name) = {}
              => \/ Child(S, p, name) = [name |-> name, type |-> "none", to |-> p]
                 \/ /\ p.kind = "search"
                    /\ Child(S, p, name) = Dir(name, Result(p, Criterion(name)))
         /\ Matches(Content(S, p), name) = {} /\ p.kind = "search"
              => IF Hits(p.obj, p.crit \o Criterion(name)) = <<>>
                 THEN Child(S, p, name) = [name |-> name, type |-> "none", to |-> p]
                 ELSE Child(S, p, name) = Dir(name, Result(p, Criterion(name)))
  <1>1. PICK es : es = IF p.kind = "search" THEN Content(S, p) \o Searched(p, name) ELSE Content(S, p)
    OBVIOUS
  <1>2. Child(S, p, name) = IF Matches(es, name) = {} THEN [name |-> name, type |-> "none", to |-> p]
                            ELSE Met(FirstMatch(es, name))
    BY <1>1 DEF Child, Met
  <1>3. CASE p.kind # "search"
    BY <1>1, <1>2, <1>3
  <1>4. CASE p.kind = "search"
    <2>1. PICK E : Content(S, p) \in Seq(E)
      BY ContentAre
    <2>2. PICK a \in Seq(E) : a = Content(S, p)
      BY <2>1
    <2>3. PICK d : d = Dir(name, Result(p, Criterion(name)))
      OBVIOUS
    <2>4. PICK F : F = {d}
      OBVIOUS
    <2>5. PICK none \in Seq(F), one \in Seq(F) : none = <<>> /\ one = <<d>>
      <3>1. <<>> \in Seq(F)
        OBVIOUS
      <3>2. \A x \in F : <<x>> \in Seq(F)
        OBVIOUS
      <3>3. <<d>> \in Seq(F)
        BY <2>4, <3>2
      <3>4. QED
        BY <3>1, <3>3
    <2>6. d.name = name /\ Met(d) = d
      <3>1. Result(p, Criterion(name)).kind = "kids"
        BY ResultFacts
      <3>2. QED
        BY <2>3, <3>1 DEF Met, Dir
    <2>7. /\ Matches(none, name) = {} /\ Matches(one, name) # {} /\ FirstMatch(one, name) = d
      <3>1. Matches(none, name) = {}
        BY <2>5 DEF Matches
      <3>2. Matches(one, name) = {1}
        BY <2>5, <2>6 DEF Matches
      <3>3. FirstMatch(one, name) \in F
        BY <3>2, FirstIs
      <3>4. QED
        BY <2>4, <3>1, <3>2, <3>3
    <2>8. PICK b \in {none, one} : b = Searched(p, name)
      <3>1. PICK crit : crit = p.crit \o Criterion(name)
        OBVIOUS
      <3>2. [p EXCEPT !.crit = crit] = [p EXCEPT !.crit = @ \o Criterion(name)]
        BY <3>1
      <3>3. Searched(p, name) = IF Hits(p.obj, crit) = <<>> THEN <<>>
                                ELSE <<Dir(name, KidsPlace([p EXCEPT !.crit = crit], Hits(p.obj, crit), TRUE))>>
        BY <3>1 DEF Searched
      <3>4. d = Dir(name, KidsPlace([p EXCEPT !.crit = crit], Hits(p.obj, crit), TRUE))
        BY <2>3, <3>1, <3>2 DEF Result
      <3>5. QED
        BY <2>5, <3>3, <3>4
    <2>9. b = IF Hits(p.obj, p.crit \o Criterion(name)) = <<>> THEN none ELSE one
      <3>1. PICK crit : crit = p.crit \o Criterion(name)
        OBVIOUS
      <3>2. Searched(p, name) = <<>> <=> Hits(p.obj, crit) = <<>>
        BY <3>1 DEF Searched
      <3>3. none # one
        BY <2>7
      <3>4. QED
        BY <2>5, <2>8, <3>1, <3>2, <3>3
    <2>10. es = a \o b /\ b \in Seq(F)
      BY <1>1, <1>4, <2>2, <2>8
    <2>11. /\ Matches(a, name) # {} => Matches(es, name) # {} /\ FirstMatch(es, name) = FirstMatch(a, name)
           /\ Matches(a, name) = {} =>
                /\ Matches(es, name) = {} <=> Matches(b, name) = {}
                /\ Matches(b, name) # {} => FirstMatch(es, name) = FirstMatch(b, name)
      <3>1. b \in Seq(F)
        BY <2>10
      <3>2. PICK c : c = a \o b
        OBVIOUS
      <3>3. /\ Matches(a, name) # {} => Matches(c, name) # {} /\ FirstMatch(c, name) = FirstMatch(a, name)
            /\ Matches(a, name) = {} =>
                 /\ Matches(c, name) = {} <=> Matches(b, name) = {}
                 /\ Matches(b, name) # {} => FirstMatch(c, name) = FirstMatch(b, name)
        <4>1. Matches(a, name) # {} => Matches(a \o b, name) # {} /\ FirstMatch(a \o b, name) = FirstMatch(a, name)
          BY <2>2, <3>1, FirstOfBoth
        <4>2. Matches(a, name) = {} =>
                 /\ Matches(a \o b, name) = {} <=> Matches(b, name) = {}
                 /\ Matches(b, name) # {} => FirstMatch(a \o b, name) = FirstMatch(b, name)
          BY ONLY <2>2, <3>1, FirstOfBoth
        <4>3. QED
          BY <3>2, <4>1, <4>2
      <3>4. QED
        BY <2>10, <3>2, <3>3
    <2>12. QED
      BY <1>2, <1>4, <2>2, <2>3, <2>6, <2>7, <2>9, <2>11
  <1>5. QED
    BY <1>3, <1>4

(* The functions of a device list .status, ask the server, then go on with  *)
(* the children of its root; every other directory is listed at once.       *)
LEMMA ContentFound ==
  ASSUME NEW S, NEW p, IsPlace(p), NEW name, NEW q,
         \/ q = p
         \/ p.kind = "device" /\ q = Opened(p) /\ Matches(DeviceEntries, name) = {}
  PROVE  /\ Matches(Entries(S, q), name) # {}
              => /\ Matches(Content(S, p), name) # {}
                 /\ FirstMatch(Content(S, p), name) = FirstMatch(Entries(S, q), name)
                 /\ EntryOf(S, q, FirstMatch(Entries(S, q), name))
                 /\ FirstMatch(Entries(S, q), name).name = name
         /\ Matches(Entries(S, q), name) = {} /\ q.kind # "device"
              => Matches(Content(S, p), name) = {}
  <1>1. IsPlace(q)
    BY OpenedFacts
  <1>2. PICK E : Entries(S, q) \in Seq(E) /\ \A e \in E : EntryOf(S, q, e)
    BY <1>1, EntriesAre DEF Catalogue
  <1>3. Matches(Entries(S, q), name) # {} => /\ EntryOf(S, q, FirstMatch(Entries(S, q), name))
                                             /\ FirstMatch(Entries(S, q), name).name = name
    BY <1>2, FirstIs
  <1>4. CASE p.kind # "device"
    BY <1>3, <1>4 DEF Content
  <1>5. CASE p.kind = "device"
    <2>1. PICK F : Entries(S, p) \in Seq(F)
      BY EntriesAre DEF Catalogue
    <2>2. PICK G : Entries(S, Opened(p)) \in Seq(G)
      BY OpenedFacts, EntriesAre DEF Catalogue
    <2>3. PICK a \in Seq(F) : a = Entries(S, p)
      BY <2>1
    <2>4. PICK b \in Seq(G) : b = Entries(S, Opened(p))
      BY <2>2
    <2>5. Content(S, p) = a \o b
      BY <1>5, <2>3, <2>4 DEF Content
    <2>6. /\ Matches(a, name) # {} => Matches(a \o b, name) # {} /\ FirstMatch(a \o b, name) = FirstMatch(a, name)
          /\ Matches(a, name) = {} =>
               /\ Matches(a \o b, name) = {} <=> Matches(b, name) = {}
               /\ Matches(b, name) # {} => FirstMatch(a \o b, name) = FirstMatch(b, name)
      BY ONLY <2>3, <2>4, FirstOfBoth
    <2>7. a = DeviceEntries
      BY <1>5, <2>3 DEF Entries
    <2>8. CASE q = p
      BY <1>3, <1>5, <2>3, <2>5, <2>6, <2>8
    <2>9. CASE q = Opened(p) /\ Matches(DeviceEntries, name) = {}
      BY <1>3, <2>4, <2>5, <2>6, <2>7, <2>9
    <2>10. QED
      BY <2>8, <2>9
  <1>6. QED
    BY <1>4, <1>5

(* Where a component leads below a directory.                               *)
LeadsTo(S, p, name, c) ==
  /\ p.kind = "root" => \/ c.to = At("device", name) /\ name \in S /\ c.name = name
                        \/ c.to = At("debug", Nobody)
  /\ p.kind = "debug" => \/ c.to = At("status", name)
                         \/ c.to = At("history", Nobody) /\ name = "search_history"
  /\ p.kind \in Born => c.to.kind \in {"kids", "metadata", "search"} /\ c.to.dev = p.dev
  /\ p.kind \in Born \cup {"root", "debug"}

LEMMA ChildShape ==
  ASSUME HitsAreObjects, NEW S, NEW p, IsPlace(p), NEW name, NEW c, c = Child(S, p, name)
  PROVE  /\ c.type \in {"dir", "file", "link", "none"}
         /\ IsPlace(c.to)
         /\ c.type = "dir" => LeadsTo(S, p, name, c)
  <1>1. PICK E : /\ Content(S, p) \in Seq(E)
                 /\ \A e \in E : EntryOf(S, p, e) \/ (p.kind = "device" /\ EntryOf(S, Opened(p), e))
    BY ContentAre
  <1>2. CASE Matches(Content(S, p), name) # {}
    <2>1. PICK e \in E : e = FirstMatch(Content(S, p), name) /\ e.name = name
      BY <1>1, <1>2, FirstIs
    <2>2. c = Met(e)
      BY <1>2, <2>1, ChildIs
    <2>3. PICK q : /\ EntryOf(S, q, e) /\ IsPlace(q) /\ q.dev = p.dev
                   /\ q = p \/ (p.kind = "device" /\ q.kind = "kids")
      <3>1. CASE EntryOf(S, p, e)
        BY <3>1
      <3>2. CASE p.kind = "device" /\ EntryOf(S, Opened(p), e)
        BY <3>2, OpenedFacts
      <3>3. QED
        BY <1>1, <3>1, <3>2
    <2>4. /\ c.name = name /\ c.type = e.type /\ IsPlace(c.to)
          /\ e.to.kind = "browse" => c.to = Opened(e.to)
          /\ e.to.kind # "browse" => c = e
      BY <2>1, <2>2, <2>3, MetFacts
    <2>5. /\ e.type \in {"dir", "file", "link"} /\ IsPlace(e.to)
          /\ e.type = "dir" => Below(S, q, name, e.to)
      BY <2>1, <2>3 DEF EntryOf
    <2>6. e.to.kind = "browse" => c.to.dev = e.to.dev /\ c.to.kind = "kids"
      BY <2>4, <2>5, OpenedFacts
    <2>7. ASSUME c.type = "dir" PROVE LeadsTo(S, p, name, c)
      <3>1. Below(S, q, name, e.to)
        BY <2>4, <2>5, <2>7
      <3>2. CASE q = p /\ p.kind = "root"
        <4>1. (e.to = At("device", name) /\ name \in S) \/ e.to = At("debug", Nobody)
          BY <3>1, <3>2 DEF Below
        <4>2. e.to.kind # "browse"
          BY <4>1, AtIsPlace
        <4>3. QED
          BY <2>4, <3>2, <4>1, <4>2 DEF LeadsTo, Born
      <3>3. CASE q = p /\ p.kind = "debug"
        <4>1. e.to = At("status", name) \/ (e.to = At("history", Nobody) /\ name = "search_history")
          BY <3>1, <3>3 DEF Below
        <4>2. e.to.kind # "browse"
          BY <4>1, AtIsPlace
        <4>3. QED
          BY <2>4, <3>3, <4>1, <4>2 DEF LeadsTo, Born
      <3>4. CASE q.kind = "kids"
        <4>1. e.to.kind \in {"browse", "metadata", "search"} /\ e.to.dev = q.dev
          BY <3>1, <3>4 DEF Below
        <4>2. p.kind \in {"kids", "device"}
          BY <2>3, <3>4
        <4>3. QED
          BY <2>3, <2>4, <2>6, <4>1, <4>2 DEF LeadsTo, Born
      <3>5. QED
        BY <2>3, <3>1, <3>2, <3>3, <3>4 DEF Below
    <2>8. QED
      BY <2>4, <2>5, <2>7
  <1>3. CASE Matches(Content(S, p), name) = {}
    <2>1. CASE c = [name |-> name, type |-> "none", to |-> p]
      BY <2>1
    <2>2. CASE p.kind = "search" /\ c = Dir(name, Result(p, Criterion(name)))
      <3>1. PICK r : r = Result(p, Criterion(name))
        OBVIOUS
      <3>2. IsPlace(r) /\ r.kind = "kids" /\ r.dev = p.dev
        BY <3>1, ResultFacts
      <3>3. c.type = "dir" /\ c.to = r
        BY <2>2, <3>1 DEF Dir
      <3>4. QED
        BY <2>2, <3>2, <3>3 DEF LeadsTo, Born
    <2>3. QED
      BY <1>3, <2>1, <2>2, ChildIs
  <1>4. QED
    BY <1>2, <1>3

LEMMA ChildFields ==
  ASSUME HitsAreObjects, NEW S, NEW p, IsPlace(p), NEW name, NEW c, c = Child(S, p, name)
  PROVE  c = [name |-> c.name, type |-> c.type, to |-> c.to]
  <1>1. CASE Matches(Content(S, p), name) # {}
    <2>1. PICK E : /\ Content(S, p) \in Seq(E)
                   /\ \A e \in E : EntryOf(S, p, e) \/ (p.kind = "device" /\ EntryOf(S, Opened(p), e))
      BY ContentAre
    <2>2. PICK e \in E : e = FirstMatch(Content(S, p), name)
      BY <1>1, <2>1, FirstIs
    <2>3. e = [name |-> e.name, type |-> e.type, to |-> e.to]
      BY <2>1, <2>2 DEF EntryOf
    <2>4. c = Met(e)
      BY <1>1, <2>2, ChildIs
    <2>5. PICK to : to = Opened(e.to)
      OBVIOUS
    <2>6. c = e \/ c = [e EXCEPT !.to = to]
      BY <2>4, <2>5 DEF Met
    <2>7. QED
      BY <2>3, <2>6
  <1>2. CASE Matches(Content(S, p), name) = {}
    <2>1. PICK r : r = Result(p, Criterion(name))
      OBVIOUS
    <2>2. c = [name |-> name, type |-> "none", to |-> p] \/ c = [name |-> name, type |-> "dir", to |-> r]
      BY <1>2, <2>1, ChildIs DEF Dir
    <2>3. QED
      BY <2>2
  <1>3. QED
    BY <1>1, <1>2

LEMMA ChildSame ==
  ASSUME NEW S, NEW R, NEW p, IsPlace(p), p.kind \notin {"root", "debug"}, NEW name
  PROVE  Content(S, p) = Content(R, p) /\ Child(S, p, name) = Child(R, p, name)
  <1>1. Entries(S, p) = Entries(R, p)
    BY EntriesSame
  <1>2. p.kind = "device" => Entries(S, Opened(p)) = Entries(R, Opened(p))
    BY OpenedFacts, EntriesSame
  <1>3. Content(S, p) = Content(R, p)
    BY <1>1, <1>2 DEF Content
  <1>4. QED
    BY <1>3 DEF Child

-----------------------------------------------------------------------------
(***************************************************************************)
(* Where a path leads, as far as its length and the devices tell.          *)
(***************************************************************************)
Shape(S, path, k, e) ==
  /\ e.type \in {"dir", "file", "link", "none", "notdir"}
  /\ e.type = "dir" =>
       /\ IsPlace(e.to) /\ e.to.kind \in Born \cup {"root", "debug", "status", "history"}
       /\ e.to.kind # "browse"
       /\ (e.to.kind = "root") <=> (k = 0)
       /\ e.to.kind \in Born => e.to.dev \in S
       /\ e.to.kind = "debug" => k = 1
       /\ e.to.kind = "history" => k = 2 /\ path[2] = "search_history"

LEMMA TrailShape ==
  ASSUME HitsAreObjects, NEW S, NEW X, NEW path \in Seq(X), NEW k \in 0..Len(path)
  PROVE  Shape(S, path, k, Trail(S, path)[k])
  <1> DEFINE e(n) == Trail(S, path)[n]
             T == {n \in Nat : n <= Len(path) /\ ~Shape(S, path, n, e(n))}
  <1>1. Len(path) \in Nat
    BY LenProperties
  <1>2. 0 \notin T
    <2>1. e(0) = Top
      BY TrailIs
    <2>2. Top.type = "dir" /\ Top.to = At("root", Nobody)
      BY DEF Top, Dir
    <2>3. IsPlace(Top.to) /\ Top.to.kind = "root"
      BY <2>2, AtIsPlace
    <2>4. Shape(S, path, 0, Top)
      BY <2>2, <2>3 DEF Shape, Born
    <2>5. QED
      BY <2>1, <2>4
  <1>3. ASSUME NEW n \in Nat, n + 1 \in T PROVE n \in T
    <2>1. n + 1 <= Len(path) /\ ~Shape(S, path, n + 1, e(n + 1)) /\ n <= Len(path)
      BY <1>1, <1>3
    <2>2. SUFFICES ASSUME Shape(S, path, n, e(n)) PROVE FALSE
      BY <2>1
    <2>3. e(n + 1) = Through(S, e(n), path[n + 1])
      <3>1. n + 1 \in 1..Len(path) /\ (n + 1) - 1 = n
        BY <1>1, <2>1
      <3>2. QED
        BY <3>1, TrailIs
    <2>4. PICK d, c, name : d = e(n) /\ c = e(n + 1) /\ name = path[n + 1]
      OBVIOUS
    <2>5. Shape(S, path, n, d) /\ c = Through(S, d, name)
      BY <2>2, <2>3, <2>4
    <2>6. CASE d.type # "dir"
      <3>1. c.type \in {"none", "notdir"}
        BY <2>5, <2>6 DEF Through
      <3>2. Shape(S, path, n + 1, c)
        BY <3>1 DEF Shape
      <3>3. QED
        BY <2>1, <2>4, <3>2
    <2>7. CASE d.type = "dir"
      <3>1. PICK p : p = d.to
        OBVIOUS
      <3>2. c = Child(S, p, name)
        BY <2>5, <2>7, <3>1 DEF Through
      <3>3. /\ IsPlace(p)
            /\ (p.kind = "root") <=> (n = 0)
            /\ p.kind \in Born => p.dev \in S
            /\ p.kind = "debug" => n = 1
        BY <2>5, <2>7, <3>1 DEF Shape
      <3>4. /\ c.type \in {"dir", "file", "link", "none"}
            /\ IsPlace(c.to)
            /\ c.type = "dir" => LeadsTo(S, p, name, c)
        BY <3>2, <3>3, ChildShape
      <3>5. n + 1 # 0 /\ (n = 0 => n + 1 = 1) /\ (n = 1 => n + 1 = 2)
        OBVIOUS
      <3>6. ASSUME c.type = "dir" PROVE Shape(S, path, n + 1, c)
        <4>1. CASE p.kind = "root" /\ c.to = At("device", name) /\ name \in S
          BY <3>3, <3>4, <3>5, <3>6, <4>1, AtIsPlace DEF Shape, Born
        <4>2. CASE p.kind = "root" /\ c.to = At("debug", Nobody)
          BY <3>3, <3>4, <3>5, <3>6, <4>2, AtIsPlace DEF Shape, Born
        <4>3. CASE p.kind = "debug" /\ c.to = At("status", name)
          BY <3>4, <3>5, <3>6, <4>3, AtIsPlace DEF Shape, Born
        <4>4. CASE p.kind = "debug" /\ c.to = At("history", Nobody) /\ name = "search_history"
          <5>1. n + 1 = 2 /\ path[2] = "search_history"
            BY <2>4, <3>3, <3>5, <4>4
          <5>2. QED
            BY <3>4, <3>6, <4>4, <5>1, AtIsPlace DEF Shape, Born
        <4>5. CASE p.kind \in Born
          BY <3>3, <3>4, <3>5, <3>6, <4>5 DEF LeadsTo, Shape, Born
        <4>6. QED
          BY <3>4, <3>6, <4>1, <4>2, <4>3, <4>4, <4>5 DEF LeadsTo
      <3>7. c.type # "dir" => Shape(S, path, n + 1, c)
        BY <3>4 DEF Shape
      <3>8. QED
        BY <2>1, <2>4, <3>6, <3>7
    <2>8. QED
      BY <2>6, <2>7
  <1>4. T = {}
    <2> HIDE DEF T
    <2>1. T \in SUBSET Nat
      BY DEF T
    <2>2. QED
      BY <1>2, <1>3, <2>1, NoCounterexample
  <1>5. k \in Nat /\ k <= Len(path)
    BY <1>1
  <1>6. QED
    BY <1>4, <1>5

(* A path into a device means the same for every list that leads there.     *)
LEMMA TrailSame ==
  ASSUME HitsAreObjects, NEW S, NEW R, NEW X, NEW path \in Seq(X), NEW k \in 0..Len(path),
         Trail(S, path)[k].type = "dir", Trail(S, path)[k].to.kind \in Born,
         Trail(R, path)[k].type = "dir", Trail(R, path)[k].to.kind \in Born
  PROVE  Trail(S, path)[k] = Trail(R, path)[k]
  <1> DEFINE Inside(Q, n) == Trail(Q, path)[n].type = "dir" /\ Trail(Q, path)[n].to.kind \in Born
             T == {n \in Nat : /\ n + 1 <= Len(path) /\ Inside(S, n + 1) /\ Inside(R, n + 1)
                               /\ Trail(S, path)[n + 1] # Trail(R, path)[n + 1]}
  <1>1. Len(path) \in Nat
    BY LenProperties
  <1>2. \A n \in Nat : n + 1 <= Len(path) => n \in 0..Len(path) /\ n + 1 \in 1..Len(path) /\ (n + 1) - 1 = n
    BY <1>1
  <1>3. ASSUME NEW n \in Nat, n + 1 <= Len(path), NEW Q
        PROVE  /\ Shape(Q, path, n, Trail(Q, path)[n])
               /\ Trail(Q, path)[n + 1] = Through(Q, Trail(Q, path)[n], path[n + 1])
    <2>1. n \in 0..Len(path) /\ n + 1 \in 1..Len(path) /\ (n + 1) - 1 = n
      BY <1>2, <1>3
    <2>2. Shape(Q, path, n, Trail(Q, path)[n])
      BY <2>1, TrailShape
    <2>3. Trail(Q, path)[n + 1] = Through(Q, Trail(Q, path)[n], path[n + 1])
      BY <2>1, TrailIs
    <2>4. QED
      BY <2>2, <2>3
  <1>4. 0 \notin T
    <2>1. SUFFICES ASSUME 0 + 1 <= Len(path), Inside(S, 0 + 1), Inside(R, 0 + 1)
                   PROVE  Trail(S, path)[0 + 1] = Trail(R, path)[0 + 1]
      OBVIOUS
    <2>2. ASSUME NEW Q, Inside(Q, 0 + 1)
          PROVE  Trail(Q, path)[0 + 1] = Child(Q, Top.to, path[0 + 1])
      <3>1. Trail(Q, path)[0] = Top
        BY TrailIs
      <3>2. Trail(Q, path)[0 + 1] = Through(Q, Top, path[0 + 1])
        BY <1>3, <2>1, <3>1
      <3>3. Top.type = "dir"
        BY DEF Top, Dir
      <3>4. QED
        BY <3>2, <3>3 DEF Through
    <2>3. IsPlace(Top.to) /\ Top.to.kind = "root"
      <3>1. Top.to = At("root", Nobody)
        BY DEF Top, Dir
      <3>2. QED
        BY <3>1, AtIsPlace
    <2>4. ASSUME NEW Q, Inside(Q, 0 + 1)
          PROVE  Trail(Q, path)[0 + 1] = Dir(path[0 + 1], At("device", path[0 + 1]))
      <3>1. PICK c, name : c = Trail(Q, path)[0 + 1] /\ name = path[0 + 1]
        OBVIOUS
      <3>2. c = Child(Q, Top.to, name) /\ c.type = "dir" /\ c.to.kind \in Born
        BY <2>2, <2>4, <3>1
      <3>3. (c.to = At("device", name) /\ c.name = name) \/ c.to = At("debug", Nobody)
        BY <2>3, <3>2, ChildShape DEF LeadsTo
      <3>4. c.to = At("device", name) /\ c.name = name
        BY <3>2, <3>3, AtIsPlace DEF Born
      <3>5. c = [name |-> c.name, type |-> c.type, to |-> c.to]
        BY <2>3, <3>2, ChildFields
      <3>6. QED
        BY <3>1, <3>2, <3>4, <3>5 DEF Dir
    <2>5. QED
      BY <2>1, <2>4
  <1>5. ASSUME NEW n \in Nat, n + 1 \in T PROVE n \in T
    <2>1. /\ (n + 1) + 1 <= Len(path) /\ Inside(S, (n + 1) + 1) /\ Inside(R, (n + 1) + 1)
          /\ Trail(S, path)[(n + 1) + 1] # Trail(R, path)[(n + 1) + 1] /\ n + 1 <= Len(path)
      BY <1>1, <1>5
    <2>2. PICK m \in Nat : m = n + 1 /\ m # 0
      OBVIOUS
    <2>3. PICK name : name = path[m + 1]
      OBVIOUS
    <2>4. ASSUME NEW Q, Inside(Q, m + 1)
          PROVE  /\ Inside(Q, m) /\ IsPlace(Trail(Q, path)[m].to)
                 /\ Trail(Q, path)[m + 1] = Child(Q, Trail(Q, path)[m].to, name)
      <3>1. PICK d, c : d = Trail(Q, path)[m] /\ c = Trail(Q, path)[m + 1]
        OBVIOUS
      <3>2. Shape(Q, path, m, d) /\ c = Through(Q, d, name) /\ c.type = "dir" /\ c.to.kind \in Born
        BY <1>3, <2>1, <2>2, <2>3, <2>4, <3>1
      <3>3. d.type = "dir"
        BY <3>2 DEF Through
      <3>4. c = Child(Q, d.to, name)
        BY <3>2, <3>3 DEF Through
      <3>5. IsPlace(d.to) /\ d.to.kind # "root"
        BY <2>2, <3>2, <3>3 DEF Shape
      <3>6. d.to.kind \in Born
        <4>1. /\ d.to.kind = "debug" => c.to.kind \notin Born
              /\ d.to.kind \in Born \cup {"root", "debug"}
          BY <3>2, <3>4, <3>5, ChildShape, AtIsPlace DEF LeadsTo, Born
        <4>2. QED
          BY <3>2, <3>5, <4>1
      <3>7. QED
        BY <3>1, <3>3, <3>4, <3>5, <3>6
    <2>5. Inside(S, m) /\ Inside(R, m) /\ IsPlace(Trail(S, path)[m].to)
      BY <2>1, <2>2, <2>4
    <2>6. Trail(S, path)[m] # Trail(R, path)[m]
      <3>1. SUFFICES ASSUME Trail(S, path)[m] = Trail(R, path)[m] PROVE FALSE
        OBVIOUS
      <3>2. PICK p : p = Trail(S, path)[m].to
        OBVIOUS
      <3>3. Trail(S, path)[m + 1] = Child(S, p, name) /\ Trail(R, path)[m + 1] = Child(R, p, name)
        BY <2>1, <2>2, <2>4, <3>1, <3>2
      <3>4. Child(S, p, name) = Child(R, p, name)
        <4>1. IsPlace(p) /\ p.kind \notin {"root", "debug"}
          BY <2>5, <3>2 DEF Born
        <4>2. Content(S, p) = Content(R, p) /\ Child(S, p, name) = Child(R, p, name)
          BY ONLY <4>1, ChildSame
        <4>3. QED
          BY <4>2
      <3>5. QED
        BY <2>1, <2>2, <3>3, <3>4
    <2>7. QED
      BY <2>1, <2>2, <2>5, <2>6
  <1>6. T = {}
    <2> HIDE DEF T
    <2>1. T \in SUBSET Nat
      BY DEF T
    <2>2. QED
      BY <1>4, <1>5, <2>1, NoCounterexample
  <1>7. k # 0
    <2>1. Shape(S, path, k, Trail(S, path)[k])
      BY TrailShape
    <2>2. QED
      BY <2>1 DEF Shape, Born
  <1>8. PICK n \in Nat : n + 1 = k
    <2>1. k - 1 \in Nat /\ (k - 1) + 1 = k
      BY <1>1, <1>7
    <2>2. QED
      BY <2>1
  <1>9. n + 1 <= Len(path)
    BY <1>1, <1>8
  <1>10. QED
    BY <1>6, <1>8, <1>9
-----------------------------------------------------------------------------
(***************************************************************************)
(* The invariant: a walk is where its path leads, in the list of devices   *)
(* there is or, once a device has come or gone, in some list of them.       *)
(***************************************************************************)
(* A device, and what can still lead to its searches.                       *)
Searching(p) == p.kind = "device" \/ (p.kind \in Born /\ p.searchable)

(* How many components a walk has taken, and where they lead.               *)
Taken(w) == Len(w.path) - Len(w.left)
Reached(S, w) == Trail(S, w.path)[Taken(w)]

OnPath(w) == \A i \in 1..Len(w.left) : w.left[i] = w.path[Taken(w) + i]

(* Nothing in es is what the walk looks for, or all of it is listed.        *)
Passed(w, es) ==
  IF w.left = <<>> THEN \A i \in DOMAIN es : <<es[i].name, es[i].type>> \in w.listed
  ELSE Matches(es, Head(w.left)) = {}

(* Where a walk is, compared with where its path leads.                     *)
Walking(w, p) ==
  \/ w.at = p
  \/ p.kind = "device" /\ w.at = Opened(p) /\ Passed(w, DeviceEntries)

Waiting(S, w, p) ==
  w.at = p /\ p.kind \in {"search", "history"} /\ Passed(w, Entries(S, p))

Questioning(S, w, p) ==
  /\ w.want \in {"metadata", "children"}
       => w.at = p /\ p.kind = "device" /\ Passed(w, DeviceEntries)
  /\ w.want = "caps"
       => /\ w.at = [p EXCEPT !.kids = Kids[Root]] /\ p.kind = "device" /\ Passed(w, DeviceEntries)
          /\ HistSize > 0 /\ IsSearchable[Root]
  /\ w.want = "browse" => w.at.kind = "browse" /\ p = Opened(w.at)
  /\ w.want = "search"
       => w.at.kind = "search" /\ p = KidsPlace(w.at, Hits(w.at.obj, w.at.crit), TRUE)
  /\ w.want = "new"
       => /\ w.at = [p EXCEPT !.crit = @ \o Criterion(Head(w.left))] /\ p.kind = "search"
          /\ w.left # <<>> /\ Passed(w, Entries(S, p))

Stands(S, w) ==
  IF Asking(w) /\ w.want = "text"
  THEN Reached(S, w).type = "file" /\ w.op \notin {"getdir", "readlink"}
  ELSE /\ Reached(S, w).type = "dir"
       /\ w.pc = "walk" => Walking(w, Reached(S, w).to)
       /\ w.pc \in {"lock", "history"} => Waiting(S, w, Reached(S, w).to)
       /\ Asking(w) => Questioning(S, w, Reached(S, w).to)

(* What a name leads to is listed, if the name is.                          *)
Lists(S, w) ==
  w.at.kind # "history"
    => \A x \in w.listed :
         /\ Reached(S, w).type = "dir"
         /\ <<x[1], Child(S, Reached(S, w).to, x[1]).type>> \in w.listed

Ended(A, w) ==
  \/ w.rc = "ENOMEM" \/ OfHistory(w.path)
  \/ w.rc = Outcome(w.op, Meaning(A, w.path))

Follows(A, w, S) ==
  /\ w.calm => S = A
  /\ (w.calm \/ w.at.kind = "root" \/ Searching(w.at)) => Stands(S, w)

Tracks(A, w) ==
  w.pc # "idle" =>
    /\ OnPath(w)
    /\ w.left # <<>> => w.listed = {}
    /\ w.calm => Lists(A, w)
    /\ w.pc = "done" /\ w.calm => Ended(A, w)
    /\ w.pc # "done" =>
         /\ IsPlace(w.at)
         /\ w.at.kind = "search" => w.at.searchable
         /\ Asking(w) => \/ w.want = "text"
                         \/ w.want = "browse" /\ w.at.kind = "browse"
                         \/ Searching(w.at)
         /\ w.left = <<>> => w.op # "readlink"
         /\ \E S \in SUBSET Device : Follows(A, w, S)

(* What the history remembers was found, wherever its parent is a directory *)
(* of searches.                                                             *)
Remembered(h) ==
  \A S \in SUBSET Device :
    LET e == Trail(S, h.parent)[Len(h.parent)]
    IN e.type = "dir" /\ e.to.kind = "search"
         => Child(S, e.to, h.name) = Dir(h.name, Result(e.to, h.crit))

JInv ==
  /\ \A t \in Thread : Tracks(alive, walk[t])
  /\ \A i \in DOMAIN hist : Remembered(hist[i])

-----------------------------------------------------------------------------
(***************************************************************************)
(* What the steps of a walk change.                                        *)
(***************************************************************************)
(* The path, what is left of it, and what is asked of it.                   *)
Same(v, w) ==
  /\ v.path = w.path /\ v.left = w.left /\ v.op = w.op
  /\ v.calm = w.calm /\ v.listed = w.listed

LEMMA FinishIs ==
  ASSUME NEW w, DOMAIN w = Fields, NEW rc, NEW v, v = Finish(w, rc)
  PROVE  Same(v, w) /\ v.pc = "done" /\ v.rc = rc /\ v.at = w.at
  BY DEF Finish, Same, Fields

LEMMA EndBodyIs ==
  ASSUME NEW w, DOMAIN w = Fields, NEW v, v = EndBody(w)
  PROVE  /\ Same(v, w) /\ v.pc = "done" /\ v.at = w.at
         /\ v.rc = IF w.left = <<>> THEN "ok" ELSE "ENOENT"
  BY FinishIs DEF EndBody

LEMMA AskIs ==
  ASSUME NEW w, DOMAIN w = Fields, NEW want, NEW v, v = Ask(w, want)
  PROVE  Same(v, w) /\ v.pc = "call" /\ v.want = want /\ v.at = w.at
  BY DEF Ask, Same, Fields

LEMMA InIs ==
  ASSUME NEW w, DOMAIN w = Fields, NEW kids, NEW searchable, NEW v, v = In(w, kids, searchable)
  PROVE  Same(v, w) /\ v.pc = "walk" /\ v.at = KidsPlace(w.at, kids, searchable)
  BY DEF In, KidsPlace, Same, Fields

LEMMA OnPathFacts ==
  ASSUME NEW w, Sane(w), OnPath(w)
  PROVE  /\ Len(w.path) \in Nat /\ Taken(w) \in 0..Len(w.path)
         /\ w.left = <<>> <=> Taken(w) = Len(w.path)
         /\ w.left # <<>> => /\ Taken(w) + 1 \in 1..Len(w.path)
                             /\ w.path[Taken(w) + 1] = Head(w.left)
  <1>1. PICK m \in Nat, n \in Nat : m = Len(w.path) /\ n = Len(w.left)
    BY LenProperties DEF Sane
  <1>2. n <= m /\ Taken(w) = m - n
    BY <1>1 DEF Sane, Taken
  <1>3. w.left = <<>> <=> n = 0
    BY <1>1, EmptySeq DEF Sane
  <1>4. w.left # <<>> => w.left[1] = w.path[Taken(w) + 1] /\ Head(w.left) = w.left[1]
    <2>1. HAVE w.left # <<>>
    <2>2. 1 \in 1..Len(w.left)
      BY <1>1, <1>3, <2>1
    <2>3. w.left[1] = w.path[Taken(w) + 1]
      BY <2>2 DEF OnPath
    <2>4. Head(w.left) = w.left[1]
      BY <2>1, HeadTailProperties DEF Sane
    <2>5. QED
      BY <2>3, <2>4
  <1>5. m - n \in 0..m /\ (n = 0 <=> m - n = m) /\ (n # 0 => (m - n) + 1 \in 1..m)
    BY <1>2
  <1>6. QED
    BY <1>1, <1>2, <1>3, <1>4, <1>5

(* One component of the path is taken.                                      *)
LEMMA Taking ==
  ASSUME NEW w, Sane(w), OnPath(w), w.left # <<>>, NEW v, v.path = w.path, v.left = Tail(w.left)
  PROVE  /\ OnPath(v) /\ Taken(v) = Taken(w) + 1
         /\ v.left = <<>> <=> Taken(v) = Len(w.path)
         /\ \A S : Reached(S, v) = Through(S, Reached(S, w), Head(w.left))
  <1>1. /\ Len(w.path) \in Nat /\ Taken(w) \in 0..Len(w.path)
        /\ Taken(w) + 1 \in 1..Len(w.path) /\ w.path[Taken(w) + 1] = Head(w.left)
    BY OnPathFacts
  <1>2. PICK m \in Nat, n \in Nat : m = Len(w.path) /\ n = Len(w.left)
    BY LenProperties DEF Sane
  <1>3. PICK tail \in Seq(STRING) : /\ tail = Tail(w.left) /\ Len(tail) = n - 1 /\ Len(tail) \in Nat
                                    /\ \A i \in 1..(n - 1) : tail[i] = w.left[i + 1]
    <2>1. /\ Tail(w.left) \in Seq(STRING) /\ Len(Tail(w.left)) = Len(w.left) - 1
          /\ \A i \in 1..Len(Tail(w.left)) : Tail(w.left)[i] = w.left[i + 1]
      BY HeadTailProperties DEF Sane
    <2>2. Len(Tail(w.left)) \in Nat
      BY <2>1, LenProperties
    <2>3. QED
      BY <1>2, <2>1, <2>2
  <1>4. Taken(w) = m - n /\ Taken(v) = m - (n - 1) /\ Taken(v) = Taken(w) + 1
    <2>1. Taken(w) = m - n /\ Taken(v) = m - (n - 1)
      BY <1>2, <1>3 DEF Taken
    <2>2. m - (n - 1) = (m - n) + 1
      OBVIOUS
    <2>3. QED
      BY <2>1, <2>2
  <1>5. OnPath(v)
    <2>1. \A i \in 1..(n - 1) : i + 1 \in 1..n /\ (m - n) + (i + 1) = (m - (n - 1)) + i
      OBVIOUS
    <2>2. \A i \in 1..n : w.left[i] = w.path[(m - n) + i]
      BY <1>2, <1>4 DEF OnPath
    <2>3. \A i \in 1..(n - 1) : tail[i] = w.path[(m - (n - 1)) + i]
      BY <1>3, <2>1, <2>2
    <2>4. QED
      BY <1>3, <1>4, <2>3 DEF OnPath
  <1>6. v.left = <<>> <=> Taken(v) = Len(w.path)
    <2>1. v.left = <<>> <=> n - 1 = 0
      BY <1>3, EmptySeq
    <2>2. n - 1 = 0 <=> m - (n - 1) = m
      OBVIOUS
    <2>3. QED
      BY <1>2, <1>4, <2>1, <2>2
  <1>7. ASSUME NEW S PROVE Reached(S, v) = Through(S, Reached(S, w), Head(w.left))
    <2>1. (Taken(w) + 1) - 1 = Taken(w)
      BY <1>1
    <2>2. Trail(S, w.path)[Taken(w) + 1] = Through(S, Trail(S, w.path)[Taken(w)], w.path[Taken(w) + 1])
      BY <1>1, <2>1, TrailIs DEF Sane
    <2>3. QED
      BY <1>1, <1>4, <2>2 DEF Reached
  <1>8. QED
    BY <1>4, <1>5, <1>6, <1>7

LEMMA EnterDirIs ==
  ASSUME NEW w, Sane(w), OnPath(w), w.left # <<>>, NEW to, NEW v, v = EnterDir(w, to)
  PROVE  /\ v.path = w.path /\ v.left = Tail(w.left) /\ v.op = w.op /\ v.calm = w.calm
         /\ v.listed = w.listed /\ v.at = to /\ v.pc \in {"walk", "call", "done"}
         /\ v.pc = "walk" => to.kind # "browse"
         /\ v.pc = "call" => to.kind = "browse" /\ v.want = "browse"
         /\ v.pc # "done" /\ v.left = <<>> => v.op # "readlink"
         /\ v.pc = "done" => v.left = <<>> /\ v.op = "readlink" /\ v.rc = "EINVAL"
  <1>1. PICK in : in = [w EXCEPT !.left = Tail(@), !.at = to, !.pc = "walk", !.type = "dir",
                                 !.from = <<>>]
    OBVIOUS
  <1>2. v = IF in.left = <<>> /\ w.op = "readlink" THEN Finish(in, "EINVAL")
            ELSE IF to.kind = "browse" THEN Ask(in, "browse") ELSE in
    BY <1>1 DEF EnterDir
  <1>3. /\ DOMAIN in = Fields /\ in.path = w.path /\ in.left = Tail(w.left) /\ in.op = w.op
        /\ in.calm = w.calm /\ in.listed = w.listed /\ in.at = to /\ in.pc = "walk"
    BY <1>1 DEF Sane, Fields
  <1>4. CASE in.left = <<>> /\ w.op = "readlink"
    <2>1. v = Finish(in, "EINVAL")
      BY <1>2, <1>4
    <2>2. Same(v, in) /\ v.pc = "done" /\ v.rc = "EINVAL" /\ v.at = in.at
      BY <1>3, <2>1, FinishIs
    <2>3. QED
      BY <1>3, <1>4, <2>2 DEF Same
  <1>5. CASE ~(in.left = <<>> /\ w.op = "readlink") /\ to.kind = "browse"
    <2>1. v = Ask(in, "browse")
      BY <1>2, <1>5
    <2>2. Same(v, in) /\ v.pc = "call" /\ v.want = "browse" /\ v.at = in.at
      BY <1>3, <2>1, AskIs
    <2>3. QED
      BY <1>3, <1>5, <2>2 DEF Same
  <1>6. CASE ~(in.left = <<>> /\ w.op = "readlink") /\ to.kind # "browse"
    BY <1>2, <1>3, <1>6
  <1>7. QED
    BY <1>4, <1>5, <1>6

LEMMA EnterFileIs ==
  ASSUME NEW w, Sane(w), OnPath(w), w.left # <<>>, NEW e, NEW v, v = EnterFile(w, e)
  PROVE  /\ v.path = w.path /\ v.left = Tail(w.left) /\ v.op = w.op /\ v.calm = w.calm
         /\ v.listed = w.listed /\ v.at = e.to /\ v.pc \in {"call", "done"}
         /\ v.pc = "call" => /\ v.want = "text" /\ e.to.kind = "text" /\ v.left = <<>>
                             /\ v.op # "getdir" /\ (e.type = "file" => v.op # "readlink")
         /\ v.pc = "done" => v.rc = IF v.left # <<>> \/ v.op = "getdir" THEN "ENOTDIR"
                                    ELSE IF v.op = "readlink" /\ e.type = "file" THEN "EINVAL"
                                    ELSE "ok"
  <1>1. PICK in : in = [w EXCEPT !.left = Tail(@), !.at = e.to, !.type = e.type]
    OBVIOUS
  <1>2. v = IF in.left # <<>> \/ w.op = "getdir" THEN Finish(in, "ENOTDIR")
            ELSE IF w.op = "readlink" /\ e.type = "file" THEN Finish(in, "EINVAL")
            ELSE IF e.to.kind = "text" THEN Ask(in, "text") ELSE Finish(in, "ok")
    BY <1>1 DEF EnterFile
  <1>3. /\ DOMAIN in = Fields /\ in.path = w.path /\ in.left = Tail(w.left) /\ in.op = w.op
        /\ in.calm = w.calm /\ in.listed = w.listed /\ in.at = e.to
    BY <1>1 DEF Sane, Fields
  <1>4. ASSUME NEW rc, v = Finish(in, rc)
        PROVE  Same(v, in) /\ v.pc = "done" /\ v.rc = rc /\ v.at = in.at
    BY <1>3, <1>4, FinishIs
  <1>5. ASSUME v = Ask(in, "text")
        PROVE  Same(v, in) /\ v.pc = "call" /\ v.want = "text" /\ v.at = in.at
    BY <1>3, <1>5, AskIs
  <1>6. CASE in.left # <<>> \/ w.op = "getdir"
    <2>1. v = Finish(in, "ENOTDIR")
      BY <1>2, <1>6
    <2>2. Same(v, in) /\ v.pc = "done" /\ v.rc = "ENOTDIR" /\ v.at = in.at
      BY <1>4, <2>1
    <2>3. QED
      BY <1>3, <1>6, <2>2 DEF Same
  <1>7. CASE ~(in.left # <<>> \/ w.op = "getdir") /\ w.op = "readlink" /\ e.type = "file"
    <2>1. v = Finish(in, "EINVAL")
      BY <1>2, <1>7
    <2>2. Same(v, in) /\ v.pc = "done" /\ v.rc = "EINVAL" /\ v.at = in.at
      BY <1>4, <2>1
    <2>3. QED
      BY <1>3, <1>7, <2>2 DEF Same
  <1>8. CASE /\ ~(in.left # <<>> \/ w.op = "getdir") /\ ~(w.op = "readlink" /\ e.type = "file")
             /\ e.to.kind = "text"
    BY <1>2, <1>3, <1>5, <1>8 DEF Same
  <1>9. CASE /\ ~(in.left # <<>> \/ w.op = "getdir") /\ ~(w.op = "readlink" /\ e.type = "file")
             /\ e.to.kind # "text"
    <2>1. v = Finish(in, "ok")
      BY <1>2, <1>9
    <2>2. Same(v, in) /\ v.pc = "done" /\ v.rc = "ok" /\ v.at = in.at
      BY <1>4, <2>1
    <2>3. QED
      BY <1>3, <1>9, <2>2 DEF Same
  <1>10. QED
    BY <1>6, <1>7, <1>8, <1>9
(* The end of a path, and what it means.                                    *)
LEMMA DirEnds ==
  ASSUME NEW w, Sane(w), OnPath(w), w.left = <<>>, NEW S, Reached(S, w).type = "dir"
  PROVE  /\ Meaning(S, w.path) = "dir"
         /\ w.op = "readlink" => Outcome(w.op, Meaning(S, w.path)) = "EINVAL"
         /\ w.op # "readlink" => Outcome(w.op, Meaning(S, w.path)) = "ok"
  <1>1. Meaning(S, w.path) = "dir"
    BY OnPathFacts DEF Reached, Meaning
  <1>2. QED
    BY <1>1 DEF Outcome

(* The body of a directory ends, and nothing in it is the next component.   *)
LEMMA BodyEnds ==
  ASSUME NEW w, Sane(w), OnPath(w), NEW S, Reached(S, w).type = "dir",
         w.left = <<>> => w.op # "readlink",
         w.left # <<>> => Child(S, Reached(S, w).to, Head(w.left)).type = "none",
         NEW v, v = EndBody(w)
  PROVE  v.rc = Outcome(v.op, Meaning(S, v.path))
  <1>1. /\ v.path = w.path /\ v.op = w.op
        /\ v.rc = IF w.left = <<>> THEN "ok" ELSE "ENOENT"
    BY EndBodyIs DEF Sane, Same
  <1>2. CASE w.left = <<>>
    BY <1>1, <1>2, DirEnds
  <1>3. CASE w.left # <<>>
    <2>1. Len(w.path) \in Nat /\ Taken(w) + 1 \in 1..Len(w.path) /\ Taken(w) \in Nat
          /\ w.path[Taken(w) + 1] = Head(w.left)
      BY <1>3, OnPathFacts
    <2>2. (Taken(w) + 1) - 1 = Taken(w) /\ Taken(w) + 1 \in 0..Len(w.path)
      BY <2>1
    <2>3. Trail(S, w.path)[Taken(w) + 1] = Through(S, Trail(S, w.path)[Taken(w)], w.path[Taken(w) + 1])
      BY <2>1, <2>2, TrailIs DEF Sane
    <2>4. Trail(S, w.path)[Taken(w) + 1].type = "none"
      BY <1>3, <2>1, <2>3 DEF Reached, Through
    <2>5. Meaning(S, w.path) = "none"
      BY <2>2, <2>4, DeadEnd DEF Sane
    <2>6. QED
      BY <1>1, <1>3, <2>5 DEF Outcome
  <1>4. QED
    BY <1>2, <1>3

(* A directory is entered.                                                  *)
LEMMA DirEntered ==
  ASSUME NEW w, Sane(w), OnPath(w), w.left # <<>>, NEW to, NEW v, v = EnterDir(w, to),
         NEW S, Reached(S, w).type = "dir",
         NEW c, c = Child(S, Reached(S, w).to, Head(w.left)), c.type = "dir"
  PROVE  /\ Reached(S, v) = c
         /\ v.pc = "done" => v.rc = Outcome(v.op, Meaning(S, v.path))
  <1>1. /\ v.path = w.path /\ v.left = Tail(w.left)
        /\ v.pc = "done" => v.left = <<>> /\ v.op = "readlink" /\ v.rc = "EINVAL"
    BY EnterDirIs
  <1>2. /\ Reached(S, v) = Through(S, Reached(S, w), Head(w.left))
        /\ v.left = <<>> <=> Taken(v) = Len(w.path)
    BY <1>1, Taking
  <1>3. Reached(S, v) = c
    BY <1>2 DEF Through
  <1>4. v.left = <<>> => Meaning(S, v.path) = "dir"
    BY <1>1, <1>2, <1>3 DEF Reached, Meaning
  <1>5. QED
    BY <1>1, <1>3, <1>4 DEF Outcome

(* A file or a link is entered.                                             *)
LEMMA FileEntered ==
  ASSUME NEW w, Sane(w), OnPath(w), w.left # <<>>, NEW e, NEW v, v = EnterFile(w, e),
         e.type \in {"file", "link"}, e.type = "link" => e.to.kind # "text",
         NEW S, Reached(S, w).type = "dir",
         NEW c, c = Child(S, Reached(S, w).to, Head(w.left)), c.type = e.type
  PROVE  /\ v.pc = "call" => Reached(S, v).type = "file" /\ v.op \notin {"getdir", "readlink"}
         /\ v.pc = "done" => v.rc = Outcome(v.op, Meaning(S, v.path))
  <1>1. /\ v.path = w.path /\ v.left = Tail(w.left)
        /\ v.pc = "call" => /\ e.to.kind = "text" /\ v.op # "getdir"
                            /\ (e.type = "file" => v.op # "readlink")
        /\ v.pc = "done" => v.rc = IF v.left # <<>> \/ v.op = "getdir" THEN "ENOTDIR"
                                   ELSE IF v.op = "readlink" /\ e.type = "file" THEN "EINVAL"
                                   ELSE "ok"
    BY EnterFileIs
  <1>2. /\ Reached(S, v) = Through(S, Reached(S, w), Head(w.left))
        /\ v.left = <<>> <=> Taken(v) = Len(w.path)
        /\ Taken(v) = Taken(w) + 1
    BY <1>1, Taking
  <1>3. Reached(S, v) = c
    BY <1>2 DEF Through
  <1>4. v.left = <<>> => Meaning(S, v.path) = e.type
    BY <1>1, <1>2, <1>3 DEF Reached, Meaning
  <1>5. v.left # <<>> => Meaning(S, v.path) = "notdir"
    <2>1. Len(w.path) \in Nat /\ Taken(w) + 1 \in 1..Len(w.path)
      BY OnPathFacts
    <2>2. Taken(v) \in 0..Len(w.path) /\ (Taken(v) # Len(w.path) => Taken(v) < Len(w.path))
      BY <1>2, <2>1
    <2>3. Trail(S, w.path)[Taken(v)].type \in {"file", "link"}
      BY <1>1, <1>3 DEF Reached
    <2>4. QED
      BY <1>1, <1>2, <2>2, <2>3, DeadEnd DEF Sane
  <1>6. QED
    BY <1>1, <1>3, <1>4, <1>5 DEF Outcome

(* What does not depend on where a walk stands.                             *)
LEMMA SameReached ==
  ASSUME NEW v, NEW w, Same(v, w)
  PROVE  /\ OnPath(v) <=> OnPath(w)
         /\ \A S : Reached(S, v) = Reached(S, w)
         /\ \A es : Passed(v, es) <=> Passed(w, es)
         /\ \A S : (v.at.kind = "history" <=> w.at.kind = "history") => (Lists(S, v) <=> Lists(S, w))
  <1>1. Taken(v) = Taken(w)
    BY DEF Same, Taken
  <1>2. \A S : Reached(S, v) = Reached(S, w)
    BY <1>1 DEF Same, Reached
  <1>3. OnPath(v) <=> OnPath(w)
    BY <1>1 DEF Same, OnPath
  <1>4. \A es : Passed(v, es) <=> Passed(w, es)
    BY DEF Same, Passed
  <1>5. ASSUME NEW S, v.at.kind = "history" <=> w.at.kind = "history"
        PROVE  Lists(S, v) <=> Lists(S, w)
    BY <1>2, <1>5 DEF Same, Lists
  <1>6. QED
    BY <1>2, <1>3, <1>4, <1>5

(* A walk that is over.                                                     *)
LEMMA EndTracks ==
  ASSUME NEW A, NEW w, Sane(w), w.pc \notin {"idle", "done"}, Tracks(A, w),
         NEW v, Same(v, w), v.pc = "done", v.at = w.at,
         w.calm => Ended(A, v)
  PROVE  Tracks(A, v)
  <1>1. OnPath(v) /\ (w.calm => Lists(A, v))
    BY SameReached DEF Tracks
  <1>2. QED
    BY <1>1 DEF Tracks, Same

(* An entry that matches is entered.                                        *)
LEMMA EnterTracks ==
  ASSUME NEW A, NEW w, Sane(w), w.pc = "walk", Tracks(A, w), w.left # <<>>,
         NEW e, EntryOf(A, w.at, e), e.name = Head(w.left),
         NEW S \in SUBSET Device, w.calm => S = A,
         (w.calm \/ w.at.kind = "root" \/ Searching(w.at))
           => Reached(S, w).type = "dir" /\ Child(S, Reached(S, w).to, Head(w.left)) = Met(e),
         NEW v, v = Enter(w, e)
  PROVE  Tracks(A, v)
  <1>1. OnPath(w) /\ w.listed = {} /\ IsPlace(w.at)
    BY DEF Tracks
  <1>2. /\ e.type \in {"dir", "file", "link"} /\ IsPlace(e.to)
        /\ e.type = "dir" => Below(A, w.at, e.name, e.to)
        /\ e.type = "file" => e.to.kind \in {"plain", "text"}
        /\ e.type = "link" => e.to.kind = "plain"
    BY DEF EntryOf
  <1>3. /\ Met(e).type = e.type /\ (e.to.kind = "browse" => Met(e).to = Opened(e.to))
        /\ e.to.kind # "browse" => Met(e) = e
    BY MetFacts
  <1>4. CASE e.type = "dir"
    <2>1. v = EnterDir(w, e.to)
      BY <1>4 DEF Enter
    <2>2. /\ v.path = w.path /\ v.left = Tail(w.left) /\ v.op = w.op /\ v.calm = w.calm
          /\ v.listed = w.listed /\ v.at = e.to /\ v.pc \in {"walk", "call", "done"}
          /\ v.pc = "walk" => e.to.kind # "browse"
          /\ v.pc = "call" => e.to.kind = "browse" /\ v.want = "browse"
          /\ v.pc # "done" /\ v.left = <<>> => v.op # "readlink"
      <3>1. PICK to : to = e.to
        OBVIOUS
      <3>2. v = EnterDir(w, to)
        BY <2>1, <3>1
      <3>3. /\ v.path = w.path /\ v.left = Tail(w.left) /\ v.op = w.op /\ v.calm = w.calm
            /\ v.listed = w.listed /\ v.at = to /\ v.pc \in {"walk", "call", "done"}
            /\ v.pc = "walk" => to.kind # "browse"
            /\ v.pc = "call" => to.kind = "browse" /\ v.want = "browse"
            /\ v.pc # "done" /\ v.left = <<>> => v.op # "readlink"
        BY ONLY <1>1, <3>2, Sane(w), w.left # <<>>, EnterDirIs
      <3>4. QED
        BY <3>1, <3>3
    <2>3. OnPath(v)
      BY <1>1, <2>2, Taking
    <2>4. (w.calm \/ w.at.kind = "root" \/ Searching(w.at)) =>
             /\ Reached(S, v) = Met(e)
             /\ v.pc = "done" => v.rc = Outcome(v.op, Meaning(S, v.path))
      <3>1. HAVE w.calm \/ w.at.kind = "root" \/ Searching(w.at)
      <3>2. PICK c : c = Met(e)
        OBVIOUS
      <3>3. Reached(S, w).type = "dir" /\ c = Child(S, Reached(S, w).to, Head(w.left)) /\ c.type = "dir"
        BY <1>3, <1>4, <3>1, <3>2
      <3>4. /\ Reached(S, v) = c
            /\ v.pc = "done" => v.rc = Outcome(v.op, Meaning(S, v.path))
        BY <1>1, <2>1, <3>3, DirEntered
      <3>5. QED
        BY <3>2, <3>4
    <2>5. /\ e.to.kind # "root" /\ (e.to.kind = "search" => e.to.searchable)
          /\ Searching(e.to) => w.at.kind = "root" \/ Searching(w.at)
      <3>1. Below(A, w.at, e.name, e.to)
        BY <1>2, <1>4
      <3>2. CASE w.at.kind = "root"
        BY <3>1, <3>2, AtIsPlace DEF Below
      <3>3. CASE w.at.kind = "debug"
        BY <3>1, <3>3, AtIsPlace DEF Below, Searching, Born
      <3>4. CASE w.at.kind = "kids"
        BY <3>1, <3>4 DEF Below, Searching, Born
      <3>5. QED
        BY <3>1, <3>2, <3>3, <3>4 DEF Below
    <2>6. v.calm => Lists(A, v)
      BY <1>1, <2>2 DEF Lists
    <2>7. v.pc = "done" /\ v.calm => Ended(A, v)
      BY <2>2, <2>4 DEF Ended
    <2>8. v.pc # "done" => Follows(A, v, S)
      <3>1. SUFFICES ASSUME v.pc # "done", v.calm \/ v.at.kind = "root" \/ Searching(v.at)
                     PROVE  Stands(S, v)
        BY <2>2 DEF Follows
      <3>2. Reached(S, v) = Met(e) /\ Met(e).type = "dir"
        BY <1>3, <1>4, <2>2, <2>4, <2>5, <3>1
      <3>3. CASE v.pc = "walk"
        BY <1>3, <2>2, <3>2, <3>3 DEF Stands, Walking, Asking
      <3>4. CASE v.pc = "call"
        BY <1>3, <2>2, <3>2, <3>4 DEF Stands, Questioning, Asking
      <3>5. QED
        BY <2>2, <3>1, <3>3, <3>4
    <2>9. QED
      BY <1>1, <1>2, <2>2, <2>3, <2>5, <2>6, <2>7, <2>8 DEF Tracks, Asking
  <1>5. CASE e.type \in {"file", "link"}
    <2>1. v = EnterFile(w, e)
      BY <1>5 DEF Enter
    <2>2. /\ v.path = w.path /\ v.left = Tail(w.left) /\ v.op = w.op /\ v.calm = w.calm
          /\ v.listed = w.listed /\ v.at = e.to /\ v.pc \in {"call", "done"}
          /\ v.pc = "call" => /\ v.want = "text" /\ e.to.kind = "text" /\ v.left = <<>>
                              /\ v.op # "getdir" /\ (e.type = "file" => v.op # "readlink")
      <3>1. PICK d : d = e
        OBVIOUS
      <3>2. v = EnterFile(w, d)
        BY <2>1, <3>1
      <3>3. /\ v.path = w.path /\ v.left = Tail(w.left) /\ v.op = w.op /\ v.calm = w.calm
            /\ v.listed = w.listed /\ v.at = d.to /\ v.pc \in {"call", "done"}
            /\ v.pc = "call" => /\ v.want = "text" /\ d.to.kind = "text" /\ v.left = <<>>
                                /\ v.op # "getdir" /\ (d.type = "file" => v.op # "readlink")
        BY ONLY <1>1, <3>2, Sane(w), w.left # <<>>, EnterFileIs
      <3>4. QED
        BY <3>1, <3>3
    <2>3. OnPath(v)
      BY <1>1, <2>2, Taking
    <2>4. (w.calm \/ w.at.kind = "root" \/ Searching(w.at)) =>
             /\ v.pc = "call" => Reached(S, v).type = "file" /\ v.op \notin {"getdir", "readlink"}
             /\ v.pc = "done" => v.rc = Outcome(v.op, Meaning(S, v.path))
      <3>1. HAVE w.calm \/ w.at.kind = "root" \/ Searching(w.at)
      <3>2. PICK c : c = Met(e)
        OBVIOUS
      <3>3. Reached(S, w).type = "dir" /\ c = Child(S, Reached(S, w).to, Head(w.left)) /\ c.type = e.type
        BY <1>3, <3>1, <3>2
      <3>4. e.type = "link" => e.to.kind # "text"
        BY <1>2
      <3>5. PICK d : d = e
        OBVIOUS
      <3>6. /\ v = EnterFile(w, d) /\ d.type \in {"file", "link"}
            /\ d.type = "link" => d.to.kind # "text"
        BY <1>5, <2>1, <3>4, <3>5
      <3>7. c.type = d.type /\ Reached(S, w).type = "dir" /\ c = Child(S, Reached(S, w).to, Head(w.left))
        BY <3>3, <3>5
      <3>8. QED
        BY ONLY <1>1, <3>6, <3>7, Sane(w), w.left # <<>>, FileEntered
    <2>5. v.at.kind \in {"plain", "text"}
      BY <1>2, <1>5, <2>2
    <2>6. v.calm => Lists(A, v)
      BY <1>1, <2>2 DEF Lists
    <2>7. v.pc = "done" /\ v.calm => Ended(A, v)
      BY <2>2, <2>4 DEF Ended
    <2>8. v.pc # "done" => Follows(A, v, S)
      BY <2>2, <2>4, <2>5 DEF Follows, Stands, Asking, Searching, Born
    <2>9. v.pc # "done" => v.op # "readlink"
      BY <1>2, <1>5, <2>2
    <2>10. QED
      BY <1>1, <1>2, <2>2, <2>3, <2>5, <2>6, <2>7, <2>8, <2>9 DEF Tracks, Asking
  <1>6. QED
    BY <1>2, <1>4, <1>5
-----------------------------------------------------------------------------
(***************************************************************************)
(* One directory.                                                          *)
(***************************************************************************)
LEMMA ReachedShape ==
  ASSUME HitsAreObjects, NEW w, Sane(w), OnPath(w), NEW S
  PROVE  Shape(S, w.path, Taken(w), Reached(S, w))
  BY OnPathFacts, TrailShape DEF Sane, Reached

(* The list a walk agrees with has the entries the walk sees.               *)
LEMMA StepView ==
  ASSUME HitsAreObjects, NEW A \in SUBSET Device, NEW w, Sane(w), w.pc = "walk", Tracks(A, w)
  PROVE  \E S \in SUBSET Device :
           /\ w.calm => S = A
           /\ (w.calm \/ w.at.kind = "root" \/ Searching(w.at))
                => /\ Stands(S, w) /\ Reached(S, w).type = "dir" /\ Walking(w, Reached(S, w).to)
                   /\ IsPlace(Reached(S, w).to)
                   /\ Entries(S, w.at) = Entries(A, w.at)
  <1>1. PICK S \in SUBSET Device : Follows(A, w, S)
    BY DEF Tracks
  <1>2. OnPath(w)
    BY DEF Tracks
  <1>3. ASSUME NEW R, Stands(R, w)
        PROVE  /\ Reached(R, w).type = "dir" /\ Walking(w, Reached(R, w).to)
               /\ IsPlace(Reached(R, w).to)
               /\ Reached(R, w).to.kind = "root" => Taken(w) = 0
    <2>1. Reached(R, w).type = "dir" /\ Walking(w, Reached(R, w).to)
      BY <1>3 DEF Stands, Asking
    <2>2. Shape(R, w.path, Taken(w), Reached(R, w))
      BY <1>2, ReachedShape
    <2>3. QED
      BY <2>1, <2>2 DEF Shape
  <1>4. CASE w.calm
    BY <1>1, <1>3, <1>4 DEF Follows
  <1>5. CASE ~w.calm /\ w.at.kind = "root"
    <2>1. Stands(S, w)
      BY <1>1, <1>5 DEF Follows
    <2>2. w.at = Reached(S, w).to
      BY <1>3, <1>5, <2>1, OpenedFacts DEF Walking
    <2>3. Taken(w) = 0
      BY <1>3, <1>5, <2>1, <2>2
    <2>4. Reached(A, w) = Reached(S, w)
      BY <2>3, TrailIs DEF Reached, Sane
    <2>5. Stands(A, w)
      BY <2>1, <2>4 DEF Stands, Asking
    <2>6. QED
      BY <1>3, <1>5, <2>5
  <1>6. CASE ~w.calm /\ w.at.kind # "root"
    <2>1. Searching(w.at) => Entries(S, w.at) = Entries(A, w.at)
      BY EntriesSame DEF Searching, Born
    <2>2. QED
      BY <1>1, <1>3, <1>6, <2>1 DEF Follows
  <1>7. QED
    BY <1>4, <1>5, <1>6

(* What follows the entries of a directory, if none of them is wanted.      *)
LEMMA AfterTracks ==
  ASSUME HitsAreObjects, NEW A \in SUBSET Device, NEW w, Sane(w), w.pc = "walk", Tracks(A, w),
         Passed(w, Entries(A, w.at)), NEW v, v = After(w)
  PROVE  Tracks(A, v)
  <1>1. PICK S \in SUBSET Device :
           /\ w.calm => S = A
           /\ (w.calm \/ w.at.kind = "root" \/ Searching(w.at))
                => /\ Stands(S, w) /\ Reached(S, w).type = "dir" /\ Walking(w, Reached(S, w).to)
                   /\ IsPlace(Reached(S, w).to)
                   /\ Entries(S, w.at) = Entries(A, w.at)
    BY StepView
  <1>2. /\ OnPath(w) /\ IsPlace(w.at) /\ DOMAIN w = Fields
        /\ w.left # <<>> => w.listed = {}
        /\ w.calm => Lists(A, w)
        /\ w.at.kind = "search" => w.at.searchable
        /\ w.left = <<>> => w.op # "readlink"
    BY DEF Tracks, Sane
  <1>3. ASSUME Same(v, w), v.at = w.at, v.pc \notin {"idle", "done"},
               Asking(v) => Searching(v.at), Follows(A, v, S)
        PROVE  Tracks(A, v)
    <2>1. OnPath(v) /\ (w.calm => Lists(A, v))
      BY <1>2, <1>3, SameReached
    <2>2. QED
      BY <1>2, <1>3, <2>1 DEF Tracks, Same
  <1>4. CASE w.at.kind = "device"
    <2>1. v = Ask(w, "metadata")
      BY <1>4 DEF After
    <2>2. Same(v, w) /\ v.pc = "call" /\ v.want = "metadata" /\ v.at = w.at
      BY <1>2, <2>1, AskIs
    <2>3. Searching(w.at)
      BY <1>4 DEF Searching
    <2>4. PICK p : p = Reached(S, w).to
      OBVIOUS
    <2>5. Reached(S, w).type = "dir" /\ w.at = p
      <3>1. Reached(S, w).type = "dir" /\ Walking(w, p) /\ IsPlace(p)
        BY <1>1, <2>3, <2>4
      <3>2. p.kind = "device" => Opened(p).kind = "kids"
        BY <3>1, OpenedFacts
      <3>3. QED
        BY <1>4, <3>1, <3>2 DEF Walking
    <2>6. Passed(w, DeviceEntries)
      BY <1>4 DEF Entries
    <2>7. Reached(S, v) = Reached(S, w) /\ Passed(v, DeviceEntries)
      BY <2>2, <2>6, SameReached
    <2>8. Questioning(S, v, p)
      BY <1>4, <2>2, <2>5, <2>7 DEF Questioning
    <2>9. Follows(A, v, S)
      BY <1>1, <2>2, <2>4, <2>5, <2>7, <2>8 DEF Follows, Stands, Asking, Same
    <2>10. QED
      BY <1>3, <2>2, <2>3, <2>9
  <1>5. CASE w.at.kind \in {"search", "history"}
    <2>1. v = [w EXCEPT !.pc = "lock"]
      BY <1>5 DEF After
    <2>2. Same(v, w) /\ v.pc = "lock" /\ v.at = w.at
      BY <1>2, <2>1 DEF Same, Fields
    <2>3. Follows(A, v, S)
      <3>1. SUFFICES ASSUME v.calm \/ v.at.kind = "root" \/ Searching(v.at)
                     PROVE  Stands(S, v)
        BY <1>1, <2>2 DEF Follows, Same
      <3>2. PICK p : p = Reached(S, w).to
        OBVIOUS
      <3>3. Reached(S, w).type = "dir" /\ Walking(w, p) /\ IsPlace(p) /\ Entries(S, w.at) = Entries(A, w.at)
        BY <1>1, <2>2, <3>1, <3>2 DEF Same
      <3>4. w.at = p
        <4>1. p.kind = "device" => Opened(p).kind = "kids"
          BY <3>3, OpenedFacts
        <4>2. QED
          BY <1>5, <3>3, <4>1 DEF Walking
      <3>5. Passed(v, Entries(S, p)) /\ Reached(S, v) = Reached(S, w)
        BY <2>2, <3>3, <3>4, SameReached
      <3>6. Waiting(S, v, p)
        BY <1>5, <2>2, <3>4, <3>5 DEF Waiting
      <3>7. QED
        BY <2>2, <3>2, <3>3, <3>5, <3>6 DEF Stands, Asking
    <2>4. QED
      BY <1>3, <2>2, <2>3 DEF Asking
  <1>6. CASE w.at.kind \notin {"device", "search", "history"}
    <2>1. v = EndBody(w)
      BY <1>6 DEF After
    <2>2. Same(v, w) /\ v.pc = "done" /\ v.at = w.at
      BY <1>2, <2>1, EndBodyIs
    <2>3. ASSUME w.calm PROVE Ended(A, v)
      <3>1. PICK p : p = Reached(A, w).to
        OBVIOUS
      <3>2. Reached(A, w).type = "dir" /\ Walking(w, p) /\ IsPlace(p)
        BY <1>1, <2>3, <3>1
      <3>3. w.left # <<>> => Child(A, p, Head(w.left)).type = "none"
        <4>1. HAVE w.left # <<>>
        <4>2. PICK name, q : name = Head(w.left) /\ q = w.at
          OBVIOUS
        <4>3. Matches(Entries(A, q), name) = {}
          BY <4>1, <4>2 DEF Passed
        <4>4. \/ q = p
              \/ p.kind = "device" /\ q = Opened(p) /\ Matches(DeviceEntries, name) = {}
          BY <3>2, <4>1, <4>2 DEF Walking, Passed
        <4>5. q.kind # "device"
          BY <1>6, <4>2
        <4>6. Matches(Content(A, p), name) = {}
          BY ONLY <3>2, <4>3, <4>4, <4>5, ContentFound
        <4>7. p.kind # "search"
          BY <1>6, <4>2, <4>4
        <4>8. PICK c : c = Child(A, p, name)
          OBVIOUS
        <4>9. c = [name |-> name, type |-> "none", to |-> p]
          BY ONLY HitsAreObjects, <3>2, <4>6, <4>7, <4>8, ChildIs
        <4>10. QED
          BY <4>2, <4>8, <4>9
      <3>4. v.rc = Outcome(v.op, Meaning(A, v.path))
        BY <1>2, <2>1, <3>1, <3>2, <3>3, BodyEnds
      <3>5. QED
        BY <3>4 DEF Ended
    <2>4. QED
      BY <2>2, <2>3, EndTracks
  <1>7. QED
    BY <1>4, <1>5, <1>6

(* What the first entry of its name leads to is one of the entries.         *)
LEMMA FirstListed ==
  ASSUME HitsAreObjects, NEW S, NEW p, IsPlace(p), NEW name, NEW q,
         \/ q = p
         \/ p.kind = "device" /\ q = Opened(p) /\ Matches(DeviceEntries, name) = {},
         NEW es, es = Entries(S, q), Matches(es, name) # {}
  PROVE  \E i \in DOMAIN es : es[i].name = name /\ Child(S, p, name).type = es[i].type
  <1>1. IsPlace(q)
    BY OpenedFacts
  <1>2. PICK E : es \in Seq(E) /\ \A e \in E : EntryOf(S, q, e)
    BY <1>1, EntriesAre DEF Catalogue
  <1>3. PICK e : e = FirstMatch(es, name)
    OBVIOUS
  <1>4. e \in E /\ e.name = name /\ \E i \in Matches(es, name) : e = es[i]
    BY <1>2, <1>3, FirstIs
  <1>5. PICK i \in DOMAIN es : e = es[i]
    BY <1>4 DEF Matches
  <1>6. /\ Matches(Content(S, p), name) # {}
        /\ FirstMatch(Content(S, p), name) = e
    BY <1>3, ContentFound
  <1>7. Child(S, p, name) = Met(e)
    BY <1>6, ChildIs
  <1>8. Met(e).type = e.type
    BY <1>2, <1>4, MetFacts
  <1>9. QED
    BY <1>4, <1>5, <1>7, <1>8

(* A directory at the end of the path is listed.                            *)
LEMMA ListTracks ==
  ASSUME HitsAreObjects, NEW A \in SUBSET Device, NEW w, Sane(w), w.pc = "walk", Tracks(A, w),
         w.left = <<>>, NEW es, es = Entries(A, w.at), NEW v, v = List(w, es)
  PROVE  Tracks(A, v) /\ v.pc = "walk" /\ v.left = <<>> /\ v.at = w.at /\ Passed(v, es)
  <1>1. PICK more : more = {<<e.name, e.type>> : e \in ToSet(es)}
    OBVIOUS
  <1>2. v = [w EXCEPT !.listed = @ \cup more]
    BY <1>1 DEF List
  <1>3. /\ v.path = w.path /\ v.left = w.left /\ v.op = w.op /\ v.calm = w.calm /\ v.pc = w.pc
        /\ v.at = w.at /\ v.listed = w.listed \cup more
    BY <1>2 DEF Sane, Fields
  <1>4. Taken(v) = Taken(w) /\ (OnPath(v) <=> OnPath(w))
    BY <1>3 DEF Taken, OnPath
  <1>5. \A S : Reached(S, v) = Reached(S, w)
    BY <1>3, <1>4 DEF Reached
  <1>6. \A i \in DOMAIN es : <<es[i].name, es[i].type>> \in more
    BY <1>1 DEF ToSet
  <1>7. Passed(v, es)
    BY <1>3, <1>6 DEF Passed
  <1>8. Passed(w, DeviceEntries) => Passed(v, DeviceEntries)
    BY <1>3 DEF Passed
  <1>9. \A S : Stands(S, w) => Stands(S, v)
    BY <1>3, <1>5, <1>8 DEF Stands, Walking, Asking
  <1>10. \A S : Follows(A, w, S) => Follows(A, v, S)
    BY <1>3, <1>9 DEF Follows
  <1>11. v.calm => Lists(A, v)
    <2>1. SUFFICES ASSUME w.calm, w.at.kind # "history", NEW x \in w.listed \cup more
                   PROVE  /\ Reached(A, w).type = "dir"
                          /\ <<x[1], Child(A, Reached(A, w).to, x[1]).type>> \in w.listed \cup more
      BY <1>3, <1>5 DEF Lists
    <2>2. CASE x \in w.listed
      BY <2>1, <2>2 DEF Tracks, Lists
    <2>3. CASE x \in more
      <3>1. PICK S \in SUBSET Device :
              /\ w.calm => S = A
              /\ (w.calm \/ w.at.kind = "root" \/ Searching(w.at))
                   => /\ Stands(S, w) /\ Reached(S, w).type = "dir" /\ Walking(w, Reached(S, w).to)
                      /\ IsPlace(Reached(S, w).to)
                      /\ Entries(S, w.at) = Entries(A, w.at)
        BY StepView
      <3>2. PICK p, q : p = Reached(A, w).to /\ q = w.at
        OBVIOUS
      <3>3. Reached(A, w).type = "dir" /\ Walking(w, p) /\ IsPlace(p)
        BY <2>1, <3>1, <3>2
      <3>4. PICK i \in DOMAIN es : x = <<es[i].name, es[i].type>>
        BY <1>1, <2>3 DEF ToSet
      <3>5. PICK name : name = es[i].name /\ x[1] = name
        BY <3>4
      <3>6. Matches(es, name) # {}
        BY <3>4, <3>5 DEF Matches
      <3>7. CASE q = p \/ (p.kind = "device" /\ q = Opened(p) /\ Matches(DeviceEntries, name) = {})
        <4>1. PICK j \in DOMAIN es : es[j].name = name /\ Child(A, p, name).type = es[j].type
          BY ONLY HitsAreObjects, <3>2, <3>3, <3>6, <3>7, es = Entries(A, w.at), FirstListed
        <4>2. QED
          BY <1>6, <3>2, <3>3, <3>5, <4>1
      <3>8. CASE p.kind = "device" /\ Passed(w, DeviceEntries) /\ Matches(DeviceEntries, name) # {}
        <4>1. PICK ds : ds = DeviceEntries /\ ds = Entries(A, p)
          BY <3>8 DEF Entries
        <4>2. PICK j \in DOMAIN ds : ds[j].name = name /\ Child(A, p, name).type = ds[j].type
          <5>1. Matches(ds, name) # {}
            BY <3>8, <4>1
          <5>2. QED
            BY ONLY HitsAreObjects, <3>3, <4>1, <5>1, FirstListed
        <4>3. <<ds[j].name, ds[j].type>> \in w.listed
          BY <3>8, <4>1, <4>2 DEF Passed
        <4>4. QED
          BY <3>2, <3>3, <3>5, <4>2, <4>3
      <3>9. QED
        BY <3>2, <3>3, <3>7, <3>8 DEF Walking
    <2>4. QED
      BY <2>1, <2>2, <2>3
  <1>12. QED
    BY <1>3, <1>4, <1>7, <1>10, <1>11 DEF Tracks, Asking
-----------------------------------------------------------------------------
(***************************************************************************)
(* The steps keep the invariant.                                           *)
(***************************************************************************)
LEMMA WalkTracks ==
  ASSUME IInv, JInv, NEW t \in Thread, NEW v, Update(t, v), Tracks(alive, v),
         alive' = alive, hist' = hist
  PROVE  JInv'
  <1>1. /\ walk'[t] = v /\ \A u \in Thread \ {t} : walk'[u] = walk[u]
    BY DEF Update, IInv
  <1>2. \A u \in Thread : Tracks(alive, walk'[u])
    BY <1>1 DEF JInv
  <1>3. \A i \in DOMAIN hist : Remembered(hist[i])
    BY DEF JInv
  <1>4. QED
    BY <1>2, <1>3 DEF JInv

(* The next component is an entry of the directory.                         *)
LEMMA MatchTracks ==
  ASSUME HitsAreObjects, NEW A \in SUBSET Device, NEW w, Sane(w), w.pc = "walk", Tracks(A, w),
         w.left # <<>>, NEW es, es = Entries(A, w.at), Matches(es, Head(w.left)) # {},
         NEW e, e = FirstMatch(es, Head(w.left)), NEW v, v = Enter(w, e)
  PROVE  Tracks(A, v)
  <1>1. PICK S \in SUBSET Device :
           /\ w.calm => S = A
           /\ (w.calm \/ w.at.kind = "root" \/ Searching(w.at))
                => /\ Stands(S, w) /\ Reached(S, w).type = "dir" /\ Walking(w, Reached(S, w).to)
                   /\ IsPlace(Reached(S, w).to)
                   /\ Entries(S, w.at) = Entries(A, w.at)
    BY StepView
  <1>2. PICK name : name = Head(w.left)
    OBVIOUS
  <1>3. IsPlace(w.at)
    BY DEF Tracks
  <1>4. EntryOf(A, w.at, e) /\ e.name = name
    <2>1. PICK E : es \in Seq(E) /\ \A x \in E : EntryOf(A, w.at, x)
      BY <1>3, EntriesAre DEF Catalogue
    <2>2. QED
      BY <1>2, <2>1, FirstIs
  <1>5. (w.calm \/ w.at.kind = "root" \/ Searching(w.at))
           => Reached(S, w).type = "dir" /\ Child(S, Reached(S, w).to, Head(w.left)) = Met(e)
    <2>1. HAVE w.calm \/ w.at.kind = "root" \/ Searching(w.at)
    <2>2. PICK p, q : p = Reached(S, w).to /\ q = w.at
      OBVIOUS
    <2>3. /\ Reached(S, w).type = "dir" /\ IsPlace(p) /\ Entries(S, q) = es
          /\ \/ q = p
             \/ p.kind = "device" /\ q = Opened(p) /\ Matches(DeviceEntries, name) = {}
      BY <1>1, <1>2, <2>1, <2>2 DEF Walking, Passed
    <2>4. Matches(Entries(S, q), name) # {}
      BY <1>2, <2>3
    <2>5. /\ Matches(Content(S, p), name) # {}
          /\ FirstMatch(Content(S, p), name) = FirstMatch(Entries(S, q), name)
      BY ONLY <2>3, <2>4, ContentFound
    <2>6. Child(S, p, name) = Met(FirstMatch(Content(S, p), name))
      BY ONLY HitsAreObjects, <2>3, <2>5, ChildIs
    <2>7. QED
      BY <1>2, <2>2, <2>3, <2>5, <2>6
  <1>6. QED
    BY <1>1, <1>2, <1>4, <1>5, EnterTracks

LEMMA StepJ ==
  ASSUME HitsAreObjects, IInv, JInv, NEW t \in Thread, Step(t)
  PROVE  JInv'
  <1>1. PICK w : w = walk[t]
    OBVIOUS
  <1>2. PICK es : es = Entries(alive, w.at)
    OBVIOUS
  <1>3. /\ w.pc = "walk" /\ Sane(w) /\ alive' = alive /\ hist' = hist
        /\ alive \in SUBSET Device /\ Tracks(alive, w)
    BY <1>1 DEF Step, IInv, Fits, JInv
  <1>4. \/ w.left = <<>> /\ Update(t, After(List(w, es)))
        \/ Update(t, Finish(w, "ENOMEM"))
        \/ w.left # <<>> /\ Matches(es, Head(w.left)) = {} /\ Update(t, After(w))
        \/ /\ w.left # <<>> /\ Matches(es, Head(w.left)) # {}
           /\ Update(t, Enter(w, FirstMatch(es, Head(w.left))))
    BY <1>1, <1>2 DEF Step
  <1>5. CASE w.left = <<>> /\ Update(t, After(List(w, es)))
    <2>1. PICK x : x = List(w, es)
      OBVIOUS
    <2>2. PICK v : v = After(x)
      OBVIOUS
    <2>3. Sane(x)
      BY <1>3, <2>1, ListFacts
    <2>4. Tracks(alive, x) /\ x.pc = "walk" /\ x.left = <<>> /\ x.at = w.at /\ Passed(x, es)
      BY <1>2, <1>3, <1>5, <2>1, ListTracks
    <2>5. Passed(x, Entries(alive, x.at))
      BY <1>2, <2>4
    <2>6. Tracks(alive, v)
      BY <1>3, <2>2, <2>3, <2>4, <2>5, AfterTracks
    <2>7. QED
      BY <1>3, <1>5, <2>1, <2>2, <2>6, WalkTracks
  <1>6. CASE Update(t, Finish(w, "ENOMEM"))
    <2>1. PICK v : v = Finish(w, "ENOMEM")
      OBVIOUS
    <2>2. PICK rc : rc = "ENOMEM"
      OBVIOUS
    <2>3. Same(v, w) /\ v.pc = "done" /\ v.rc = rc /\ v.at = w.at
      BY <1>3, <2>1, <2>2, FinishIs DEF Sane
    <2>4. Ended(alive, v)
      BY <2>2, <2>3 DEF Ended
    <2>5. Tracks(alive, v)
      BY <1>3, <2>3, <2>4, EndTracks
    <2>6. QED
      BY <1>3, <1>6, <2>1, <2>5, WalkTracks
  <1>7. CASE w.left # <<>> /\ Matches(es, Head(w.left)) = {} /\ Update(t, After(w))
    <2>1. PICK v : v = After(w)
      OBVIOUS
    <2>2. Passed(w, Entries(alive, w.at))
      BY <1>2, <1>7 DEF Passed
    <2>3. Tracks(alive, v)
      BY <1>3, <2>1, <2>2, AfterTracks
    <2>4. QED
      BY <1>3, <1>7, <2>1, <2>3, WalkTracks
  <1>8. CASE /\ w.left # <<>> /\ Matches(es, Head(w.left)) # {}
             /\ Update(t, Enter(w, FirstMatch(es, Head(w.left))))
    <2>1. PICK e : e = FirstMatch(es, Head(w.left))
      OBVIOUS
    <2>2. PICK v : v = Enter(w, e)
      OBVIOUS
    <2>3. Tracks(alive, v)
      BY <1>2, <1>3, <1>8, <2>1, <2>2, MatchTracks
    <2>4. QED
      BY <1>3, <1>8, <2>1, <2>2, <2>3, WalkTracks
  <1>9. QED
    BY <1>4, <1>5, <1>6, <1>7, <1>8
LEMMA QueryJ ==
  ASSUME IInv, JInv, NEW t \in Thread, Query(t)
  PROVE  JInv'
  <1>1. PICK q \in Queries[t] : Update(t, Begin(q))
    BY DEF Query
  <1>2. alive' = alive /\ hist' = hist /\ alive \in SUBSET Device
    BY DEF Query, IInv
  <1>3. q.path \in Seq(STRING) /\ Len(q.path) \in Nat
    BY QueriesAssumption, LenProperties
  <1>4. PICK w : w = [Idle EXCEPT !.pc = "walk", !.op = q.op, !.path = q.path, !.left = q.path,
                                  !.type = "dir"]
    OBVIOUS
  <1>5. /\ Sane(w) /\ w.pc = "walk" /\ w.path = q.path /\ w.left = q.path /\ w.op = q.op
        /\ w.listed = {} /\ w.calm /\ w.at = At("root", Nobody)
    BY <1>3, <1>4 DEF Idle, Sane, Fields, Asking, Pc, Rc
  <1>6. Taken(w) = 0
    BY <1>3, <1>5 DEF Taken
  <1>7. OnPath(w)
    <2>1. \A i \in 1..Len(q.path) : 0 + i = i
      BY <1>3
    <2>2. QED
      BY <1>5, <1>6, <2>1 DEF OnPath
  <1>8. Reached(alive, w).type = "dir" /\ Reached(alive, w).to = w.at
    <2>1. Reached(alive, w) = Top
      BY <1>3, <1>5, <1>6, TrailIs DEF Reached
    <2>2. PICK at, name : at = w.at /\ name = ""
      OBVIOUS
    <2>3. PICK r : r = Reached(alive, w)
      OBVIOUS
    <2>4. r = [name |-> name, type |-> "dir", to |-> at]
      BY <1>5, <2>1, <2>2, <2>3 DEF Top, Dir
    <2>5. r.type = "dir" /\ r.to = at
      BY <2>4
    <2>6. QED
      BY <2>2, <2>3, <2>5
  <1>9. IsPlace(w.at) /\ w.at.kind = "root"
    BY <1>5, AtIsPlace
  <1>10. PICK v : v = Begin(q)
    OBVIOUS
  <1>11. CASE q.path = <<>> /\ q.op = "readlink"
    <2>1. v = Finish(w, "EINVAL")
      BY <1>4, <1>10, <1>11 DEF Begin
    <2>2. Same(v, w) /\ v.pc = "done" /\ v.rc = "EINVAL" /\ v.at = w.at
      BY <1>5, <2>1, FinishIs DEF Sane
    <2>3. Outcome(w.op, Meaning(alive, w.path)) = "EINVAL"
      BY <1>5, <1>7, <1>8, <1>11, DirEnds
    <2>4. OnPath(v)
      BY <1>7, <2>2, SameReached
    <2>5. QED
      BY <1>1, <1>2, <1>5, <1>10, <2>2, <2>3, <2>4, WalkTracks DEF Tracks, Same, Ended, Lists
  <1>12. CASE ~(q.path = <<>> /\ q.op = "readlink")
    <2>1. v = w
      BY <1>4, <1>10, <1>12 DEF Begin
    <2>2. Follows(alive, w, alive)
      BY <1>5, <1>8 DEF Follows, Stands, Walking, Asking
    <2>3. Tracks(alive, w)
      BY <1>2, <1>5, <1>7, <1>9, <1>12, <2>2 DEF Tracks, Lists, Asking
    <2>4. QED
      BY <1>1, <1>2, <1>10, <2>1, <2>3, WalkTracks
  <1>13. QED
    BY <1>11, <1>12

LEMMA LockJ ==
  ASSUME IInv, JInv, NEW t \in Thread, LockHistory(t) \/ LockList(t)
  PROVE  JInv'
  <1>1. PICK w : w = walk[t]
    OBVIOUS
  <1>2. PICK v : v = [w EXCEPT !.pc = IF w.pc = "lock" THEN "history" ELSE "answer"]
    OBVIOUS
  <1>3. w.pc \in {"lock", "call"} /\ Update(t, v) /\ alive' = alive /\ hist' = hist
    BY <1>1, <1>2 DEF LockHistory, LockList
  <1>4. Sane(w) /\ Tracks(alive, w)
    BY <1>1 DEF IInv, Fits, JInv
  <1>5. /\ Same(v, w) /\ v.at = w.at /\ v.want = w.want
        /\ v.pc = IF w.pc = "lock" THEN "history" ELSE "answer"
    BY <1>2, <1>4 DEF Sane, Same, Fields
  <1>6. OnPath(v) /\ (w.calm => Lists(alive, v))
    BY <1>3, <1>4, <1>5, SameReached DEF Tracks
  <1>7. ASSUME NEW S, Stands(S, w) PROVE Stands(S, v)
    <2>1. PICK p : p = Reached(S, w).to
      OBVIOUS
    <2>2. Reached(S, v) = Reached(S, w) /\ (\A es : Passed(v, es) <=> Passed(w, es))
      BY <1>5, SameReached
    <2>3. Waiting(S, w, p) => Waiting(S, v, p)
      BY <1>5, <2>2 DEF Waiting
    <2>4. Questioning(S, w, p) => Questioning(S, v, p)
      BY <1>5, <2>2 DEF Questioning, Same
    <2>5. QED
      BY <1>3, <1>5, <1>7, <2>1, <2>2, <2>3, <2>4 DEF Stands, Asking, Same
  <1>8. \A S : Follows(alive, w, S) => Follows(alive, v, S)
    BY <1>5, <1>7 DEF Follows, Same
  <1>9. Tracks(alive, v)
    BY <1>3, <1>4, <1>5, <1>6, <1>8 DEF Tracks, Asking, Same
  <1>10. QED
    BY <1>3, <1>9, WalkTracks

LEMMA ReturnJ ==
  ASSUME IInv, JInv, NEW t \in Thread, Unlock(t) \/ Return(t)
  PROVE  JInv'
  <1>1. CASE Unlock(t)
    BY <1>1 DEF Unlock, JInv
  <1>2. CASE Return(t)
    <2>1. PICK v : v = Idle
      OBVIOUS
    <2>2. Tracks(alive, v)
      BY <2>1 DEF Tracks, Idle
    <2>3. QED
      BY <1>2, <2>1, <2>2, WalkTracks DEF Return
  <1>3. QED
    BY <1>1, <1>2

(* A walk that is disturbed is still somewhere.                             *)
LEMMA DisturbedTracks ==
  ASSUME NEW A, NEW B, NEW w, Sane(w), w.pc # "idle", Tracks(A, w),
         NEW v, v = [w EXCEPT !.calm = FALSE]
  PROVE  /\ Tracks(B, v) /\ v.pc = w.pc /\ v.at = w.at /\ v.want = w.want /\ ~v.calm
         /\ DOMAIN v = Fields
  <1>1. /\ v.path = w.path /\ v.left = w.left /\ v.op = w.op /\ v.pc = w.pc /\ v.at = w.at
        /\ v.want = w.want /\ v.listed = w.listed /\ ~v.calm /\ DOMAIN v = Fields
    BY DEF Sane, Fields
  <1>2. Taken(v) = Taken(w)
    BY <1>1 DEF Taken
  <1>3. \A S : Reached(S, v) = Reached(S, w)
    BY <1>1, <1>2 DEF Reached
  <1>4. \A es : Passed(v, es) <=> Passed(w, es)
    BY <1>1 DEF Passed
  <1>5. \A S, p : Questioning(S, w, p) => Questioning(S, v, p)
    BY <1>1, <1>4 DEF Questioning
  <1>6. \A S, p : Waiting(S, w, p) => Waiting(S, v, p)
    BY <1>1, <1>4 DEF Waiting
  <1>7. \A S, p : Walking(w, p) => Walking(v, p)
    BY <1>1, <1>4 DEF Walking
  <1>8. \A S : Stands(S, w) => Stands(S, v)
    BY <1>1, <1>3, <1>5, <1>6, <1>7 DEF Stands, Asking
  <1>9. \A S : Follows(A, w, S) => Follows(B, v, S)
    BY <1>1, <1>8 DEF Follows
  <1>10. OnPath(w) <=> OnPath(v)
    BY <1>1, <1>2 DEF OnPath
  <1>11. QED
    BY <1>1, <1>9, <1>10 DEF Tracks, Asking

LEMMA ListChangesJ ==
  ASSUME IInv, JInv, ListChanges
  PROVE  JInv'
  <1>1. /\ hist' = hist
        /\ walk' = [t \in Thread |-> IF walk[t].pc = "idle" THEN walk[t]
                                     ELSE [walk[t] EXCEPT !.calm = FALSE]]
    BY DEF ListChanges
  <1>2. ASSUME NEW t \in Thread, NEW A PROVE Tracks(A, walk'[t])
    <2>1. PICK w : w = walk[t]
      OBVIOUS
    <2>2. PICK v : v = IF w.pc = "idle" THEN w ELSE [w EXCEPT !.calm = FALSE]
      OBVIOUS
    <2>3. Sane(w) /\ Tracks(alive, w) /\ walk'[t] = v
      BY <1>1, <2>1, <2>2 DEF IInv, Fits, JInv
    <2>4. CASE w.pc = "idle"
      BY <2>2, <2>3, <2>4 DEF Tracks
    <2>5. CASE w.pc # "idle"
      BY <2>2, <2>3, <2>5, DisturbedTracks
    <2>6. QED
      BY <2>3, <2>4, <2>5
  <1>3. \A i \in DOMAIN hist : Remembered(hist[i])
    BY DEF JInv
  <1>4. QED
    BY <1>1, <1>2, <1>3 DEF JInv
LEMMA ListLinksJ ==
  ASSUME HitsAreObjects, IInv, JInv, NEW t \in Thread, ListLinks(t)
  PROVE  JInv'
  <1>1. PICK w : w = walk[t]
    OBVIOUS
  <1>2. PICK es : es = [i \in DOMAIN hist |-> Link(ToString(Key(hist[i])))]
    OBVIOUS
  <1>3. PICK e : e = FirstMatch(es, Head(w.left))
    OBVIOUS
  <1>4. PICK v : v = IF w.left = <<>> THEN EndBody(List(w, es))
                     ELSE IF Matches(es, Head(w.left)) = {} THEN EndBody(w)
                     ELSE EnterFile(w, e)
    OBVIOUS
  <1>5. /\ w.pc = "history" /\ w.at.kind = "history" /\ Sane(w) /\ Tracks(alive, w)
        /\ Update(t, v) /\ alive' = alive /\ hist' = hist /\ hist \in Seq(Search)
    BY <1>1, <1>2, <1>3, <1>4 DEF ListLinks, IInv, Fits, JInv
  <1>6. /\ OnPath(w) /\ (w.left # <<>> => w.listed = {}) /\ (w.left = <<>> => w.op # "readlink")
    BY <1>5 DEF Tracks
  <1>7. ASSUME w.calm
        PROVE  Reached(alive, w).type = "dir" /\ (w.left # <<>> => OfHistory(w.path))
    <2>1. Stands(alive, w)
      BY <1>5, <1>7 DEF Tracks, Follows
    <2>2. Reached(alive, w).type = "dir" /\ Reached(alive, w).to = w.at
      BY <1>5, <2>1 DEF Stands, Asking, Waiting
    <2>3. Shape(alive, w.path, Taken(w), Reached(alive, w))
      BY <1>5, <1>6, ReachedShape
    <2>4. Taken(w) = 2 /\ w.path[2] = "search_history"
      BY <1>5, <2>2, <2>3 DEF Shape
    <2>5. w.left # <<>> => Taken(w) + 1 \in 1..Len(w.path) /\ Len(w.path) \in Nat
      BY <1>5, <1>6, OnPathFacts
    <2>6. QED
      BY <2>2, <2>4, <2>5 DEF OfHistory
  <1>8. CASE w.left = <<>>
    <2>1. PICK more : more = {<<x.name, x.type>> : x \in ToSet(es)}
      OBVIOUS
    <2>2. PICK x : x = List(w, es)
      OBVIOUS
    <2>3. x = [w EXCEPT !.listed = @ \cup more]
      BY <2>1, <2>2 DEF List
    <2>4. /\ x.path = w.path /\ x.left = w.left /\ x.op = w.op /\ x.calm = w.calm /\ x.at = w.at
      BY <1>5, <2>3 DEF Sane, Fields
    <2>5. Sane(x)
      BY <1>5, <2>2, ListFacts
    <2>6. Taken(x) = Taken(w)
      BY <2>4 DEF Taken
    <2>7. OnPath(x) /\ Reached(alive, x) = Reached(alive, w)
      BY <1>6, <2>4, <2>6 DEF OnPath, Reached
    <2>8. v = EndBody(x)
      BY <1>4, <1>8, <2>2
    <2>9. Same(v, x) /\ v.pc = "done" /\ v.at = x.at
      BY <2>5, <2>8, EndBodyIs DEF Sane
    <2>10. OnPath(v)
      BY <2>7, <2>9, SameReached
    <2>11. w.calm => Ended(alive, v)
      <3>1. HAVE w.calm
      <3>2. Reached(alive, x).type = "dir" /\ x.left = <<>> /\ x.op # "readlink"
        BY <1>6, <1>7, <1>8, <2>4, <2>7, <3>1
      <3>3. v.rc = Outcome(v.op, Meaning(alive, v.path))
        BY <2>5, <2>7, <2>8, <3>2, BodyEnds
      <3>4. QED
        BY <3>3 DEF Ended
    <2>12. Tracks(alive, v)
      BY <1>5, <1>8, <2>4, <2>9, <2>10, <2>11 DEF Tracks, Same, Lists
    <2>13. QED
      BY <1>5, <2>12, WalkTracks
  <1>9. CASE w.left # <<>> /\ Matches(es, Head(w.left)) = {}
    <2>1. v = EndBody(w)
      BY <1>4, <1>9
    <2>2. Same(v, w) /\ v.pc = "done" /\ v.at = w.at
      BY <1>5, <2>1, EndBodyIs DEF Sane
    <2>3. w.calm => Ended(alive, v)
      BY <1>7, <1>9, <2>2 DEF Ended, Same
    <2>4. Tracks(alive, v)
      BY <1>5, <2>2, <2>3, EndTracks
    <2>5. QED
      BY <1>5, <2>4, WalkTracks
  <1>10. CASE w.left # <<>> /\ Matches(es, Head(w.left)) # {}
    <2>1. e.to.kind = "plain"
      <3>1. PICK E : E = {x \in {es[i] : i \in DOMAIN es} : x.to = At("plain", Nobody)}
        OBVIOUS
      <3>2. DOMAIN es = DOMAIN hist /\ \A i \in DOMAIN es : es[i].to = At("plain", Nobody)
        BY <1>2 DEF Link
      <3>3. es \in Seq(E)
        <4>1. PICK n \in Nat : DOMAIN hist = 1..n
          BY <1>5, LenProperties
        <4>2. es \in [1..n -> E]
          BY <1>2, <3>1, <3>2, <4>1
        <4>3. [1..n -> E] \subseteq Seq(E)
          BY SeqDef
        <4>4. QED
          BY <4>2, <4>3
      <3>4. e \in E
        BY <1>3, <1>10, <3>3, FirstIs
      <3>5. QED
        BY <3>1, <3>4, AtIsPlace
    <2>2. v = EnterFile(w, e)
      BY <1>4, <1>10
    <2>3. /\ v.path = w.path /\ v.left = Tail(w.left) /\ v.calm = w.calm
          /\ v.listed = w.listed /\ v.pc \in {"call", "done"}
          /\ v.pc = "call" => e.to.kind = "text"
      BY <1>5, <1>6, <1>10, <2>2, EnterFileIs
    <2>4. OnPath(v)
      BY <1>5, <1>6, <1>10, <2>3, Taking
    <2>5. v.pc = "done" /\ (v.calm => Ended(alive, v)) /\ v.listed = {}
      BY <1>6, <1>7, <1>10, <2>1, <2>3 DEF Ended
    <2>6. Tracks(alive, v)
      BY <2>4, <2>5 DEF Tracks, Lists
    <2>7. QED
      BY <1>5, <2>6, WalkTracks
  <1>11. QED
    BY <1>8, <1>9, <1>10
-----------------------------------------------------------------------------
(***************************************************************************)
(* The searches of the history.                                            *)
(***************************************************************************)
LEMMA HereIs ==
  ASSUME NEW w, Sane(w), OnPath(w)
  PROVE  /\ Here(w) \in Seq(STRING) /\ Len(Here(w)) = Taken(w) /\ Taken(w) \in Nat
         /\ \A S : Trail(S, Here(w))[Len(Here(w))] = Reached(S, w)
  <1>1. PICK m \in Nat, n \in Nat, p \in Seq(STRING) : m = Len(p) /\ n = Taken(w) /\ n <= m /\ p = w.path
    <2>1. Len(w.path) \in Nat /\ Taken(w) \in 0..Len(w.path) /\ w.path \in Seq(STRING)
      BY OnPathFacts DEF Sane
    <2>2. Taken(w) \in Nat /\ Taken(w) <= Len(w.path)
      BY <2>1
    <2>3. QED
      BY <2>1, <2>2
  <1>2. PICK h : h = SubSeq(p, 1, n)
    OBVIOUS
  <1>3. Here(w) = h
    BY <1>1, <1>2 DEF Here, Taken
  <1>4. \A i \in 1..n : i \in 1..m
    BY <1>1
  <1>5. /\ h \in Seq(STRING) /\ Len(h) = n /\ \A i \in 1..n : h[i] = p[i]
    <2>1. \A i \in 1..n : p[i] \in STRING
      BY <1>1, <1>4, LenProperties
    <2>2. n \in 0..Len(p)
      BY <1>1
    <2>3. \A i \in 1..n : (1 + i) - 1 = i
      OBVIOUS
    <2>4. n = 0 \/ n - 1 + 1 = n
      OBVIOUS
    <2>5. QED
      BY <1>1, <1>2, <1>4, <2>1, <2>2, <2>3, SubSeqProperties
  <1>6. ASSUME NEW S PROVE Trail(S, h)[n] = Trail(S, p)[n]
    <2>1. \A k \in 0..n : Trail(S, h)[k] = Trail(S, p)[k]
      BY ONLY <1>1, <1>5, TrailPrefix
    <2>2. QED
      BY <2>1
  <1>7. QED
    BY <1>1, <1>3, <1>5, <1>6 DEF Reached

LEMMA Recalled ==
  ASSUME NEW w, Sane(w), OnPath(w), NEW S \in SUBSET Device, NEW h, Remembered(h), h.parent = Here(w),
         NEW p, p = Reached(S, w).to, Reached(S, w).type = "dir", p.kind = "search"
  PROVE  Child(S, p, h.name) = Dir(h.name, Result(p, h.crit))
  <1>1. Trail(S, h.parent)[Len(h.parent)] = Reached(S, w)
    BY HereIs
  <1>2. QED
    BY <1>1 DEF Remembered

LEMMA Narrowed ==
  ASSUME HitsAreObjects, NEW p, IsPlace(p), NEW crit, NEW to, to = [p EXCEPT !.crit = @ \o crit]
  PROVE  /\ IsPlace(to) /\ to.kind = p.kind /\ to.searchable = p.searchable /\ to.dev = p.dev
         /\ to.obj = p.obj /\ to.crit = p.crit \o crit
         /\ Result(p, crit) = KidsPlace(to, Hits(to.obj, to.crit), TRUE)
  <1>1. /\ IsPlace([p EXCEPT !.crit = @ \o crit])
        /\ [p EXCEPT !.crit = @ \o crit].crit = p.crit \o crit
        /\ [p EXCEPT !.crit = @ \o crit].kind = p.kind /\ [p EXCEPT !.crit = @ \o crit].obj = p.obj
        /\ [p EXCEPT !.crit = @ \o crit].dev = p.dev
        /\ [p EXCEPT !.crit = @ \o crit].searchable = p.searchable
    BY ONLY HitsAreObjects, IsPlace(p), ResultFacts
  <1>2. to.obj = p.obj /\ to.crit = p.crit \o crit
    BY <1>1
  <1>3. QED
    BY <1>1, <1>2 DEF Result

(* A walk in a directory of searches, whatever happens to the list.         *)
LEMMA SearchView ==
  ASSUME NEW A \in SUBSET Device, NEW w, Sane(w), w.pc = "history", w.at.kind = "search", Tracks(A, w)
  PROVE  /\ OnPath(w) /\ IsPlace(w.at) /\ w.at.searchable /\ Searching(w.at)
         /\ \E S \in SUBSET Device :
              /\ w.calm => S = A
              /\ Reached(S, w).type = "dir" /\ Reached(S, w).to = w.at
              /\ Passed(w, Entries(S, w.at))
  <1>1. OnPath(w) /\ IsPlace(w.at) /\ w.at.searchable
    BY DEF Tracks
  <1>2. Searching(w.at)
    BY <1>1 DEF Searching, Born
  <1>3. PICK S \in SUBSET Device : Follows(A, w, S)
    BY DEF Tracks
  <1>4. Stands(S, w) /\ (w.calm => S = A)
    BY <1>2, <1>3 DEF Follows
  <1>5. Reached(S, w).type = "dir" /\ Waiting(S, w, Reached(S, w).to)
    BY <1>4 DEF Stands, Asking
  <1>6. QED
    BY <1>1, <1>2, <1>4, <1>5 DEF Waiting

(* The searches made in this directory are listed.                          *)
LEMMA SearchesListed ==
  ASSUME HitsAreObjects, NEW A \in SUBSET Device,
         NEW w, Sane(w), w.pc = "history", w.at.kind = "search", Tracks(A, w), w.left = <<>>,
         NEW H, \A h \in H : Remembered(h) /\ h.parent = Here(w),
         NEW x, x = [w EXCEPT !.listed = @ \cup {<<h.name, "dir">> : h \in H}],
         NEW v, v = EndBody(x)
  PROVE  Tracks(A, v)
  <1>1. PICK more : more = {<<h.name, "dir">> : h \in H}
    OBVIOUS
  <1>2. /\ x.path = w.path /\ x.left = w.left /\ x.op = w.op /\ x.calm = w.calm /\ x.at = w.at
        /\ x.listed = w.listed \cup more
    BY <1>1 DEF Sane, Fields
  <1>3. Sane(x)
    BY <1>1 DEF Sane, Fields, Asking
  <1>4. Taken(x) = Taken(w)
    BY <1>2 DEF Taken
  <1>5. /\ OnPath(w) /\ (w.calm => Lists(A, w)) /\ w.op # "readlink"
        /\ w.calm => Reached(A, w).type = "dir" /\ Reached(A, w).to = w.at
    BY SearchView DEF Tracks
  <1>6. OnPath(x) /\ Reached(A, x) = Reached(A, w)
    BY <1>2, <1>4, <1>5 DEF OnPath, Reached
  <1>7. Same(v, x) /\ v.pc = "done" /\ v.at = x.at
    BY <1>3, EndBodyIs DEF Sane
  <1>8. OnPath(v)
    BY <1>6, <1>7, SameReached
  <1>9. w.calm => Ended(A, v)
    <2>1. HAVE w.calm
    <2>2. Reached(A, x).type = "dir" /\ x.left = <<>> /\ x.op # "readlink"
      BY <1>2, <1>5, <1>6, <2>1
    <2>3. v.rc = Outcome(v.op, Meaning(A, v.path))
      BY ONLY <1>3, <1>6, <2>2, v = EndBody(x), BodyEnds
    <2>4. QED
      BY <2>3 DEF Ended
  <1>10. w.calm => Lists(A, v)
    <2>1. SUFFICES ASSUME w.calm, NEW y \in w.listed \cup more
                   PROVE  /\ Reached(A, w).type = "dir"
                          /\ <<y[1], Child(A, Reached(A, w).to, y[1]).type>> \in w.listed \cup more
      <3>1. Reached(A, v) = Reached(A, w)
        BY <1>6, <1>7, SameReached
      <3>2. QED
        BY <1>2, <1>7, <3>1 DEF Lists, Same
    <2>2. CASE y \in w.listed
      BY <1>5, <2>1, <2>2 DEF Lists
    <2>3. CASE y \in more
      <3>1. PICK h \in H : y = <<h.name, "dir">>
        BY <1>1, <2>3
      <3>2. PICK p : p = w.at
        OBVIOUS
      <3>3. Child(A, p, h.name) = Dir(h.name, Result(p, h.crit))
        <4>1. /\ Remembered(h) /\ h.parent = Here(w) /\ A \in SUBSET Device /\ Sane(w) /\ OnPath(w)
              /\ p = Reached(A, w).to /\ Reached(A, w).type = "dir" /\ p.kind = "search"
          BY <1>5, <2>1, <3>2
        <4>2. QED
          BY ONLY <4>1, Recalled
      <3>4. <<y[1], Child(A, p, y[1]).type>> = y
        <4>1. PICK name, to : name = h.name /\ to = Result(p, h.crit)
          OBVIOUS
        <4>2. Dir(name, to).type = "dir"
          BY DEF Dir
        <4>3. Child(A, p, name).type = "dir"
          BY <3>3, <4>1, <4>2
        <4>4. QED
          BY <3>1, <4>1, <4>3
      <3>5. QED
        BY <1>5, <2>1, <2>3, <3>2, <3>4
    <2>4. QED
      BY <2>1, <2>2, <2>3
  <1>11. QED
    BY <1>2, <1>7, <1>8, <1>9, <1>10 DEF Tracks, Same

(* A search of the history is made again.                                   *)
LEMMA SearchRecalled ==
  ASSUME HitsAreObjects, NEW A \in SUBSET Device,
         NEW w, Sane(w), w.pc = "history", w.at.kind = "search", Tracks(A, w), w.left # <<>>,
         NEW h, Remembered(h), h.parent = Here(w), h.name = Head(w.left),
         NEW in, in = EnterDir(w, [w.at EXCEPT !.crit = @ \o h.crit]),
         NEW from, NEW v, v = IF in.pc = "done" THEN in ELSE [Ask(in, "search") EXCEPT !.from = from]
  PROVE  Tracks(A, v)
  <1>1. /\ OnPath(w) /\ IsPlace(w.at) /\ w.at.searchable /\ w.listed = {}
    BY SearchView DEF Tracks
  <1>2. PICK S \in SUBSET Device :
          /\ w.calm => S = A
          /\ Reached(S, w).type = "dir" /\ Reached(S, w).to = w.at
    BY SearchView
  <1>3. PICK p, crit, to : p = w.at /\ crit = h.crit /\ to = [p EXCEPT !.crit = @ \o crit]
    OBVIOUS
  <1>4. /\ IsPlace(to) /\ to.kind = "search" /\ to.searchable
        /\ Result(p, crit) = KidsPlace(to, Hits(to.obj, to.crit), TRUE)
    <2>1. IsPlace(p) /\ p.kind = "search" /\ p.searchable /\ to = [p EXCEPT !.crit = @ \o crit]
      BY <1>1, <1>3
    <2>2. IsPlace(to) /\ to.kind = p.kind /\ to.searchable = p.searchable
      BY ONLY HitsAreObjects, <2>1, Narrowed
    <2>3. Result(p, crit) = KidsPlace(to, Hits(to.obj, to.crit), TRUE)
      <3>1. to.obj = p.obj /\ to.crit = p.crit \o crit
        BY ONLY HitsAreObjects, <2>1, Narrowed
      <3>2. QED
        BY <2>1, <3>1 DEF Result
    <2>4. QED
      BY <2>1, <2>2, <2>3
  <1>5. PICK c : c = Child(S, Reached(S, w).to, Head(w.left))
    OBVIOUS
  <1>6. c.type = "dir" /\ c.to = Result(p, crit)
    <2>1. Child(S, p, h.name) = Dir(h.name, Result(p, h.crit))
      <3>1. /\ Remembered(h) /\ h.parent = Here(w) /\ Sane(w) /\ OnPath(w)
            /\ p = Reached(S, w).to /\ Reached(S, w).type = "dir" /\ p.kind = "search"
        BY <1>1, <1>2, <1>3
      <3>2. QED
        BY ONLY <3>1, Recalled
    <2>2. PICK name, r : name = h.name /\ r = Result(p, crit)
      OBVIOUS
    <2>3. c = [name |-> name, type |-> "dir", to |-> r]
      BY <1>2, <1>3, <1>5, <2>1, <2>2 DEF Dir
    <2>4. c.type = "dir" /\ c.to = r
      BY <2>3
    <2>5. QED
      BY <2>2, <2>4
  <1>7. in = EnterDir(w, to)
    BY <1>3
  <1>8. /\ in.path = w.path /\ in.left = Tail(w.left) /\ in.op = w.op /\ in.calm = w.calm
        /\ in.listed = w.listed /\ in.at = to /\ in.pc \in {"walk", "call", "done"}
        /\ in.pc # "done" /\ in.left = <<>> => in.op # "readlink"
    BY ONLY <1>1, <1>7, Sane(w), w.left # <<>>, EnterDirIs
  <1>9. DOMAIN in = Fields
    <2>1. Sane(in)
      BY ONLY <1>7, Sane(w), w.left # <<>>, EnterDirFacts
    <2>2. QED
      BY <2>1 DEF Sane
  <1>10. Reached(S, in) = c /\ (in.pc = "done" => in.rc = Outcome(in.op, Meaning(S, in.path)))
    BY ONLY <1>1, <1>2, <1>5, <1>6, <1>7, Sane(w), w.left # <<>>, DirEntered
  <1>11. OnPath(in)
    BY <1>1, <1>8, Taking
  <1>12. CASE in.pc = "done"
    BY <1>1, <1>2, <1>8, <1>10, <1>11, <1>12 DEF Tracks, Lists, Ended
  <1>13. CASE in.pc # "done"
    <2>1. PICK x : x = Ask(in, "search")
      OBVIOUS
    <2>2. PICK want : want = "search"
      OBVIOUS
    <2>3. Same(x, in) /\ x.pc = "call" /\ x.want = want /\ x.at = to
      BY <1>8, <1>9, <2>1, <2>2, AskIs
    <2>4. v = [x EXCEPT !.from = from]
      BY <1>13, <2>1
    <2>5. DOMAIN x = Fields
      BY <1>9, <2>1 DEF Ask
    <2>6. Same(v, in) /\ v.pc = "call" /\ v.want = want /\ v.at = to
      BY <2>3, <2>4, <2>5 DEF Same, Fields
    <2>7. OnPath(v) /\ Reached(S, v) = c
      <3>1. (OnPath(v) <=> OnPath(in)) /\ Reached(S, v) = Reached(S, in)
        BY ONLY <2>6, SameReached
      <3>2. QED
        BY <1>10, <1>11, <3>1
    <2>8. c.to = KidsPlace(to, Hits(to.obj, to.crit), TRUE)
      BY <1>4, <1>6
    <2>9. Questioning(S, v, c.to)
      BY <1>4, <2>2, <2>6, <2>8 DEF Questioning
    <2>10. Stands(S, v)
      BY <1>6, <2>2, <2>6, <2>7, <2>9 DEF Stands, Asking
    <2>11. Searching(v.at)
      BY <1>4, <2>6 DEF Searching, Born
    <2>12. Follows(A, v, S)
      BY <1>2, <1>8, <2>6, <2>10 DEF Follows, Same
    <2>13. QED
      BY <1>1, <1>4, <1>8, <1>13, <2>6, <2>7, <2>11, <2>12 DEF Tracks, Same, Asking, Lists
  <1>14. QED
    BY <1>12, <1>13

(* A new word is asked for.                                                 *)
LEMMA WordAsked ==
  ASSUME HitsAreObjects, NEW A \in SUBSET Device,
         NEW w, Sane(w), w.pc = "history", w.at.kind = "search", Tracks(A, w), w.left # <<>>,
         NEW v, v = Ask([w EXCEPT !.at.crit = @ \o Criterion(Head(w.left))], "new")
  PROVE  Tracks(A, v)
  <1>1. /\ OnPath(w) /\ IsPlace(w.at) /\ w.at.searchable /\ w.listed = {}
    BY SearchView DEF Tracks
  <1>2. PICK S \in SUBSET Device :
          /\ w.calm => S = A
          /\ Reached(S, w).type = "dir" /\ Reached(S, w).to = w.at
          /\ Passed(w, Entries(S, w.at))
    BY SearchView
  <1>3. PICK p, crit, at : p = w.at /\ crit = Criterion(Head(w.left)) /\ at = [p EXCEPT !.crit = @ \o crit]
    OBVIOUS
  <1>4. /\ IsPlace(at) /\ at.kind = "search" /\ at.searchable
    <2>1. IsPlace(p) /\ p.kind = "search" /\ p.searchable /\ at = [p EXCEPT !.crit = @ \o crit]
      BY <1>1, <1>3
    <2>2. /\ IsPlace(at) /\ at.kind = p.kind /\ at.searchable = p.searchable
      BY ONLY HitsAreObjects, <2>1, Narrowed
    <2>3. QED
      BY <2>1, <2>2
  <1>5. PICK x : x = [w EXCEPT !.at = at]
    OBVIOUS
  <1>6. DOMAIN x = Fields /\ Same(x, w) /\ x.at = at
    BY <1>5 DEF Sane, Fields, Same
  <1>7. v = Ask(x, "new")
    BY <1>3, <1>5
  <1>8. PICK want : want = "new"
    OBVIOUS
  <1>9. Same(v, x) /\ v.pc = "call" /\ v.want = want /\ v.at = at
    BY <1>6, <1>7, <1>8, AskIs
  <1>10. Same(v, w)
    BY <1>6, <1>9 DEF Same
  <1>11. OnPath(v) /\ Reached(S, v) = Reached(S, w) /\ Passed(v, Entries(S, p))
    BY <1>1, <1>2, <1>3, <1>10, SameReached
  <1>12. Questioning(S, v, p)
    BY <1>3, <1>8, <1>9, <1>10, <1>11 DEF Questioning, Same
  <1>13. Stands(S, v)
    BY <1>2, <1>3, <1>8, <1>9, <1>11, <1>12 DEF Stands, Asking
  <1>14. Searching(v.at)
    BY <1>4, <1>9 DEF Searching, Born
  <1>15. Follows(A, v, S)
    BY <1>2, <1>10, <1>13 DEF Follows, Same
  <1>16. QED
    BY <1>1, <1>4, <1>9, <1>10, <1>11, <1>14, <1>15 DEF Tracks, Same, Asking, Lists
LEMMA RecallJ ==
  ASSUME HitsAreObjects, IInv, JInv, NEW t \in Thread, Recall(t)
  PROVE  JInv'
  <1> DEFINE Named(w) == {i \in Known(w) : w.left # <<>> /\ hist[i].name = Head(w.left)}
             First(w) == CHOOSE i \in Named(w) : \A j \in Named(w) : i <= j
             In1(w) == EnterDir(w, [w.at EXCEPT !.crit = @ \o hist[First(w)].crit])
             Listed(w) == [w EXCEPT !.listed = @ \cup {<<hist[i].name, "dir">> : i \in Known(w)}]
             Cases(w) ==
               \/ w.left = <<>> /\ Update(t, EndBody(Listed(w)))
               \/ Update(t, Finish(w, "ENOMEM"))
               \/ /\ Named(w) # {}
                  /\ Update(t, IF In1(w).pc = "done" THEN In1(w)
                               ELSE [Ask(In1(w), "search") EXCEPT
                                       !.from = IF w.at.crit = <<>> THEN Key(hist[First(w)])
                                                ELSE <<>>])
               \/ /\ w.left # <<>> /\ Named(w) = {}
                  /\ Update(t, Ask([w EXCEPT !.at.crit = @ \o Criterion(Head(w.left))], "new"))
  <1>1. Cases(walk[t])
    BY Zenon DEF Recall
  <1>2. PICK w : w = walk[t] /\ Cases(w)
    <2> HIDE DEF Cases
    <2>1. QED
      BY <1>1
  <1>3. /\ w.pc = "history" /\ w.at.kind = "search" /\ Sane(w) /\ Tracks(alive, w)
        /\ alive' = alive /\ hist' = hist /\ alive \in SUBSET Device
    <2> HIDE DEF Cases
    <2>1. QED
      BY <1>2 DEF Recall, IInv, Fits, JInv
  <1>4. CASE w.left = <<>> /\ Update(t, EndBody(Listed(w)))
    <2>1. PICK H : H = {hist[i] : i \in Known(w)}
      OBVIOUS
    <2>2. \A h \in H : Remembered(h) /\ h.parent = Here(w)
      BY <2>1 DEF JInv, Known
    <2>3. PICK x : x = Listed(w)
      OBVIOUS
    <2>4. x = [w EXCEPT !.listed = @ \cup {<<h.name, "dir">> : h \in H}]
      <3>1. {<<h.name, "dir">> : h \in H} = {<<hist[i].name, "dir">> : i \in Known(w)}
        BY <2>1
      <3>2. QED
        BY <2>3, <3>1
    <2>5. PICK v : v = EndBody(x)
      OBVIOUS
    <2>6. Tracks(alive, v)
      BY ONLY HitsAreObjects, <1>3, <1>4, <2>2, <2>4, <2>5, SearchesListed
    <2>7. QED
      BY <1>3, <1>4, <2>3, <2>5, <2>6, WalkTracks
  <1>5. CASE Update(t, Finish(w, "ENOMEM"))
    <2>1. PICK v, rc : v = Finish(w, "ENOMEM") /\ rc = "ENOMEM"
      OBVIOUS
    <2>2. Same(v, w) /\ v.pc = "done" /\ v.rc = rc /\ v.at = w.at
      BY <1>3, <2>1, FinishIs DEF Sane
    <2>3. Ended(alive, v)
      BY <2>1, <2>2 DEF Ended
    <2>4. Tracks(alive, v)
      BY <1>3, <2>2, <2>3, EndTracks
    <2>5. QED
      BY <1>3, <1>5, <2>1, <2>4, WalkTracks
  <1>6. ASSUME Named(w) # {},
               Update(t, IF In1(w).pc = "done" THEN In1(w)
                         ELSE [Ask(In1(w), "search") EXCEPT
                                 !.from = IF w.at.crit = <<>> THEN Key(hist[First(w)]) ELSE <<>>])
        PROVE  JInv'
    <2>1. First(w) \in Named(w)
      <3>1. Named(w) \in SUBSET Nat /\ Named(w) # {}
        <4>1. DOMAIN hist \subseteq Nat
          BY LenProperties DEF IInv
        <4>2. Named(w) \subseteq DOMAIN hist
          BY DEF Known
        <4>3. QED
          BY <1>6, <4>1, <4>2
      <3>2. \E i \in Named(w) : \A k \in Named(w) : i <= k
        BY <3>1, Least
      <3> HIDE DEF Named
      <3>3. QED
        BY <3>2
    <2>2. PICK h : h = hist[First(w)]
      <3> HIDE DEF First
      <3>1. QED
        OBVIOUS
    <2>3. Remembered(h) /\ h.parent = Here(w) /\ h.name = Head(w.left) /\ w.left # <<>>
      <3>1. PICK i : i = First(w)
        <4> HIDE DEF First
        <4>1. QED
          OBVIOUS
      <3> HIDE DEF First
      <3>2. h = hist[i] /\ i \in Named(w)
        BY <2>1, <2>2, <3>1
      <3>3. QED
        BY <3>2 DEF JInv, Known
    <2>4. PICK in : in = EnterDir(w, [w.at EXCEPT !.crit = @ \o h.crit])
      OBVIOUS
    <2>5. PICK from : from = IF w.at.crit = <<>> THEN Key(h) ELSE <<>>
      OBVIOUS
    <2>6. PICK v : v = IF in.pc = "done" THEN in ELSE [Ask(in, "search") EXCEPT !.from = from]
      OBVIOUS
    <2>7. Update(t, v)
      <3>1. in = In1(w)
        <4> HIDE DEF First
        <4>1. QED
          BY <2>2, <2>4
      <3>2. v = IF In1(w).pc = "done" THEN In1(w)
                ELSE [Ask(In1(w), "search") EXCEPT
                        !.from = IF w.at.crit = <<>> THEN Key(hist[First(w)]) ELSE <<>>]
        <4> HIDE DEF In1, First
        <4>1. QED
          BY <2>2, <2>5, <2>6, <3>1, Zenon
      <3>3. QED
        BY <1>6, <3>2, Zenon
    <2>8. Tracks(alive, v)
      BY ONLY HitsAreObjects, <1>3, <2>3, <2>4, <2>6, SearchRecalled
    <2>9. QED
      BY <1>3, <2>7, <2>8, WalkTracks
  <1>7. CASE /\ w.left # <<>> /\ Named(w) = {}
             /\ Update(t, Ask([w EXCEPT !.at.crit = @ \o Criterion(Head(w.left))], "new"))
    <2>1. PICK v : v = Ask([w EXCEPT !.at.crit = @ \o Criterion(Head(w.left))], "new")
      OBVIOUS
    <2>2. Tracks(alive, v)
      BY ONLY HitsAreObjects, <1>3, <1>7, <2>1, WordAsked
    <2>3. QED
      BY <1>3, <1>7, <2>1, <2>2, WalkTracks
  <1>8. QED
    BY <1>2, <1>4, <1>5, <1>6, <1>7, Zenon
-----------------------------------------------------------------------------
(***************************************************************************)
(* The answers of the servers.                                             *)
(***************************************************************************)
(* A list the walk agrees with.                                             *)
LEMMA AnswerView ==
  ASSUME NEW A \in SUBSET Device, NEW w, Sane(w), w.pc = "answer", Tracks(A, w), w.want # "text"
  PROVE  /\ OnPath(w) /\ IsPlace(w.at) /\ (w.want # "browse" => Searching(w.at))
         /\ \E S \in SUBSET Device :
              /\ w.calm => S = A
              /\ w.calm \/ Searching(w.at)
                   => Reached(S, w).type = "dir" /\ Questioning(S, w, Reached(S, w).to)
  <1>1. PICK S \in SUBSET Device : Follows(A, w, S)
    BY DEF Tracks
  <1>2. Asking(w)
    BY DEF Asking
  <1>3. OnPath(w) /\ IsPlace(w.at) /\ (w.want # "browse" => Searching(w.at))
    BY <1>2 DEF Tracks
  <1>4. (w.calm => S = A) /\ (w.calm \/ Searching(w.at) => Stands(S, w))
    BY <1>1 DEF Follows
  <1>5. Stands(S, w) => Reached(S, w).type = "dir" /\ Questioning(S, w, Reached(S, w).to)
    BY <1>2 DEF Stands
  <1>6. QED
    BY <1>3, <1>4, <1>5

(* The children of a directory are known.                                   *)
LEMMA InTracks ==
  ASSUME NEW A, NEW w, Sane(w), w.pc = "answer", w.want # "text", Tracks(A, w),
         NEW S \in SUBSET Device, w.calm => S = A,
         NEW kids \in Seq(Object), NEW searchable, NEW v, v = In(w, kids, searchable),
         w.calm \/ searchable => Reached(S, w).type = "dir" /\ Walking(v, Reached(S, w).to)
  PROVE  Tracks(A, v)
  <1>1. Same(v, w) /\ v.pc = "walk" /\ v.at = KidsPlace(w.at, kids, searchable)
    BY InIs DEF Sane
  <1>2. IsPlace(w.at)
    BY DEF Tracks
  <1>3. PICK at : at = v.at
    OBVIOUS
  <1>4. IsPlace(at) /\ at.kind = "kids" /\ at.searchable = searchable
    BY <1>1, <1>2, <1>3, KidsPlaceFacts
  <1>5. OnPath(v) /\ (w.calm => Lists(A, v)) /\ Reached(S, v) = Reached(S, w)
    <2>1. w.calm => Lists(A, w)
      BY DEF Tracks
    <2>2. OnPath(v) /\ Reached(S, v) = Reached(S, w)
      BY <1>1, SameReached DEF Tracks
    <2>3. v.at.kind # "history" /\ w.at.kind # "history"
      BY <1>3, <1>4 DEF Tracks, Asking, Searching, Born
    <2>4. w.calm => Lists(A, v)
      BY <1>1, <2>1, <2>3, SameReached
    <2>5. QED
      BY <2>2, <2>4
  <1>6. Follows(A, v, S)
    BY <1>1, <1>3, <1>4, <1>5 DEF Follows, Stands, Searching, Asking, Same
  <1>7. QED
    BY <1>1, <1>3, <1>4, <1>5, <1>6 DEF Tracks, Asking, Same

(* A question has no answer.                                                *)
LEMMA UnansweredTracks ==
  ASSUME NEW A \in SUBSET Device, NEW w, Sane(w), w.pc = "answer", Tracks(A, w),
         w.want \notin {"text", "caps"}, NEW v, v = Unanswered(w)
  PROVE  Tracks(A, v)
  <1>1. PICK x : x = [w EXCEPT !.calm = FALSE]
    OBVIOUS
  <1>2. /\ Tracks(A, x) /\ x.pc = "answer" /\ x.at = w.at /\ x.want = w.want /\ ~x.calm
        /\ DOMAIN x = Fields
    <2>1. w.pc # "idle"
      OBVIOUS
    <2>2. /\ Tracks(A, x) /\ x.pc = w.pc /\ x.at = w.at /\ x.want = w.want /\ ~x.calm
          /\ DOMAIN x = Fields
      BY ONLY <1>1, <2>1, Sane(w), Tracks(A, w), DisturbedTracks
    <2>3. QED
      BY <2>2
  <1>3. Sane(x)
    BY <1>1, DisturbedFacts DEF Disturbed
  <1>4. CASE v = EndBody(x)
    <2>1. Same(v, x) /\ v.pc = "done" /\ v.at = x.at
      BY <1>2, <1>4, EndBodyIs
    <2>2. QED
      BY <1>2, <1>3, <2>1, EndTracks
  <1>5. CASE v = Ask(x, "vain") /\ w.want = "children"
    <2>1. /\ OnPath(x) /\ IsPlace(x.at) /\ Searching(x.at)
      BY <1>2, <1>3, <1>5, AnswerView
    <2>2. PICK S \in SUBSET Device : Reached(S, x).type = "dir"
      BY <1>2, <1>3, <1>5, <2>1, AnswerView
    <2>3. PICK want : want = "vain"
      OBVIOUS
    <2>4. Same(v, x) /\ v.pc = "call" /\ v.want = want /\ v.at = x.at
      BY <1>2, <1>5, <2>3, AskIs
    <2>5. OnPath(v) /\ Reached(S, v) = Reached(S, x)
      BY <2>1, <2>4, SameReached
    <2>6. Questioning(S, v, Reached(S, v).to)
      BY <2>3, <2>4 DEF Questioning
    <2>7. Follows(A, v, S)
      BY <1>2, <2>2, <2>3, <2>4, <2>5, <2>6 DEF Follows, Stands, Asking, Same
    <2>8. v.left # <<>> => v.listed = {}
      BY <1>2, <2>4 DEF Tracks, Same
    <2>9. v.left = <<>> => v.op # "readlink"
      BY <1>2, <2>4 DEF Tracks, Same
    <2>10. QED
      BY <1>2, <2>1, <2>3, <2>4, <2>5, <2>7, <2>8, <2>9 DEF Tracks, Asking, Same
  <1>6. QED
    BY <1>1, <1>4, <1>5 DEF Unanswered, Disturbed

LEMMA TextTracks ==
  ASSUME NEW A \in SUBSET Device, NEW w, Sane(w), w.pc = "answer", Tracks(A, w), w.want = "text",
         NEW v, v = Finish(w, "ok")
  PROVE  Tracks(A, v)
  <1>1. PICK rc : rc = "ok"
    OBVIOUS
  <1>2. Same(v, w) /\ v.pc = "done" /\ v.rc = rc /\ v.at = w.at
    BY <1>1, FinishIs DEF Sane
  <1>3. w.calm => Ended(A, v)
    <2>1. HAVE w.calm
    <2>2. Stands(A, w) /\ w.left = <<>> /\ OnPath(w)
      BY <2>1 DEF Tracks, Follows, Sane, Asking
    <2>3. Reached(A, w).type = "file" /\ w.op \notin {"getdir", "readlink"}
      BY <2>2 DEF Stands, Asking
    <2>4. Meaning(A, w.path) = "file"
      BY <2>2, <2>3, OnPathFacts DEF Reached, Meaning
    <2>5. Outcome(w.op, Meaning(A, w.path)) = "ok"
      BY <2>3, <2>4 DEF Outcome
    <2>6. QED
      BY <1>1, <1>2, <2>5 DEF Ended, Same
  <1>4. QED
    BY <1>2, <1>3, EndTracks

(* The metadata of the root of a device are known.                          *)
LEMMA MetadataTracks ==
  ASSUME NEW A \in SUBSET Device, NEW w, Sane(w), w.pc = "answer", Tracks(A, w), w.want = "metadata",
         NEW v, v = Ask(w, "children")
  PROVE  Tracks(A, v)
  <1>1. /\ OnPath(w) /\ IsPlace(w.at) /\ Searching(w.at)
    BY AnswerView
  <1>2. PICK S \in SUBSET Device :
          /\ w.calm => S = A
          /\ w.calm \/ Searching(w.at)
               => Reached(S, w).type = "dir" /\ Questioning(S, w, Reached(S, w).to)
    BY AnswerView
  <1>3. PICK p, want : p = Reached(S, w).to /\ want = "children"
    OBVIOUS
  <1>4. Same(v, w) /\ v.pc = "call" /\ v.want = want /\ v.at = w.at
    BY <1>3, AskIs DEF Sane
  <1>5. /\ OnPath(v) /\ Reached(S, v) = Reached(S, w) /\ (w.calm => Lists(A, v))
        /\ Passed(v, DeviceEntries) <=> Passed(w, DeviceEntries)
    BY <1>1, <1>4, SameReached DEF Tracks
  <1>6. Reached(S, w).type = "dir" /\ Questioning(S, v, p)
    BY <1>1, <1>2, <1>3, <1>4, <1>5 DEF Questioning
  <1>7. Follows(A, v, S)
    BY <1>2, <1>3, <1>4, <1>5, <1>6 DEF Follows, Stands, Asking, Same
  <1>8. QED
    BY <1>1, <1>4, <1>5, <1>7 DEF Tracks, Asking, Same

(* The children of the root of a device are known.                          *)
LEMMA ChildrenTracks ==
  ASSUME NEW A \in SUBSET Device, NEW w, Sane(w), w.pc = "answer", Tracks(A, w), w.want = "children",
         NEW v, v = IF AsksCaps
                    THEN Ask([w EXCEPT !.at.kids = Kids[Root]], "caps")
                    ELSE In(w, Kids[Root], HistSize > 0)
  PROVE  Tracks(A, v)
  <1>1. /\ OnPath(w) /\ IsPlace(w.at) /\ Searching(w.at)
    BY AnswerView
  <1>2. PICK S \in SUBSET Device :
          /\ w.calm => S = A
          /\ w.calm \/ Searching(w.at)
               => Reached(S, w).type = "dir" /\ Questioning(S, w, Reached(S, w).to)
    BY AnswerView
  <1>3. PICK p : p = Reached(S, w).to
    OBVIOUS
  <1>4. Reached(S, w).type = "dir" /\ w.at = p /\ p.kind = "device" /\ Passed(w, DeviceEntries)
    BY <1>1, <1>2, <1>3 DEF Questioning
  <1>5. PICK kids \in Seq(Object) : kids = Kids[Root]
    BY TreeAssumption
  <1>6. CASE AsksCaps
    <2>1. PICK at : at = [w.at EXCEPT !.kids = kids]
      OBVIOUS
    <2>2. PICK x : x = [w EXCEPT !.at = at]
      OBVIOUS
    <2>3. v = Ask(x, "caps")
      BY <1>5, <1>6, <2>1, <2>2
    <2>4. DOMAIN x = Fields /\ Same(x, w) /\ x.at = at
      BY <2>2 DEF Sane, Fields, Same
    <2>5. PICK want : want = "caps"
      OBVIOUS
    <2>6. Same(v, x) /\ v.pc = "call" /\ v.want = want /\ v.at = at
      BY <2>3, <2>4, <2>5, AskIs
    <2>7. Same(v, w)
      BY <2>4, <2>6 DEF Same
    <2>8. IsPlace(at) /\ at.kind = "device"
      BY <1>1, <1>4, <2>1 DEF IsPlace, Place
    <2>9. /\ OnPath(v) /\ Reached(S, v) = Reached(S, w)
          /\ Passed(v, DeviceEntries)
      BY <1>1, <1>4, <2>7, SameReached
    <2>10. w.calm => Lists(A, v)
      <3>1. w.calm => Lists(A, w)
        BY DEF Tracks
      <3>2. v.at.kind # "history" /\ w.at.kind # "history"
        BY <1>4, <2>6, <2>8
      <3>3. QED
        BY <2>7, <3>1, <3>2, SameReached
    <2>11. Questioning(S, v, p)
      BY <1>4, <1>5, <1>6, <2>1, <2>5, <2>6, <2>9 DEF Questioning, AsksCaps
    <2>12. Follows(A, v, S)
      BY <1>2, <1>3, <1>4, <2>5, <2>6, <2>7, <2>9, <2>11 DEF Follows, Stands, Asking, Same
    <2>13. Searching(v.at)
      BY <2>6, <2>8 DEF Searching
    <2>14. QED
      BY <2>6, <2>7, <2>8, <2>9, <2>10, <2>12, <2>13 DEF Tracks, Asking, Same
  <1>7. CASE ~AsksCaps
    <2>1. PICK b : b = (HistSize > 0)
      OBVIOUS
    <2>2. v = In(w, kids, b)
      BY <1>5, <1>7, <2>1
    <2>3. Same(v, w) /\ v.pc = "walk" /\ v.at = KidsPlace(w.at, kids, b)
      BY <2>2, InIs DEF Sane
    <2>4. Opened(p) = KidsPlace(p, Kids[Root], HistSize > 0 /\ (IsSearchable[Root] => HasCaps))
      BY <1>4 DEF Opened
    <2>5. (HistSize > 0 /\ (IsSearchable[Root] => HasCaps)) = b
      BY <1>7, <2>1 DEF AsksCaps
    <2>6. v.at = Opened(p)
      BY <1>4, <1>5, <2>3, <2>4, <2>5
    <2>7. Passed(v, DeviceEntries)
      BY <1>4, <2>3, SameReached
    <2>8. Walking(v, p)
      BY <1>4, <2>6, <2>7 DEF Walking
    <2>9. QED
      BY ONLY <1>2, <1>3, <1>4, <2>2, <2>8, Sane(w), w.pc = "answer", w.want = "children",
              Tracks(A, w), InTracks
  <1>8. QED
    BY <1>6, <1>7

(* The children of another object are known.                                *)
LEMMA BrowseTracks ==
  ASSUME NEW A \in SUBSET Device, NEW w, Sane(w), w.pc = "answer", Tracks(A, w), w.want = "browse",
         NEW v, v = In(w, Kids[w.at.obj], w.at.searchable)
  PROVE  Tracks(A, v)
  <1>1. OnPath(w) /\ IsPlace(w.at)
    BY AnswerView
  <1>2. PICK S \in SUBSET Device :
          /\ w.calm => S = A
          /\ w.calm \/ Searching(w.at)
               => Reached(S, w).type = "dir" /\ Questioning(S, w, Reached(S, w).to)
    BY AnswerView
  <1>3. PICK p, b : p = Reached(S, w).to /\ b = w.at.searchable
    OBVIOUS
  <1>4. PICK kids \in Seq(Object) : kids = Kids[w.at.obj]
    BY <1>1, TreeAssumption DEF IsPlace
  <1>5. v = In(w, kids, b)
    BY <1>3, <1>4
  <1>6. Same(v, w) /\ v.pc = "walk" /\ v.at = KidsPlace(w.at, kids, b)
    <2>1. DOMAIN w = Fields
      BY DEF Sane
    <2>2. QED
      BY ONLY <1>5, <2>1, InIs
  <1>7. w.calm \/ b => Reached(S, w).type = "dir" /\ Walking(v, p)
    <2>1. HAVE w.calm \/ b
    <2>2. w.at.kind = "browse" \/ Searching(w.at)
      BY DEF Tracks, Asking
    <2>3. w.calm \/ Searching(w.at)
      BY <1>3, <2>1, <2>2 DEF Searching, Born
    <2>4. Reached(S, w).type = "dir" /\ w.at.kind = "browse" /\ p = Opened(w.at)
      BY <1>2, <1>3, <2>3 DEF Questioning
    <2>5. v.at = p
      BY <1>3, <1>4, <1>6, <2>4 DEF Opened
    <2>6. QED
      BY <2>4, <2>5 DEF Walking
  <1>8. QED
    BY ONLY <1>2, <1>3, <1>5, <1>7, Sane(w), w.pc = "answer", w.want = "browse", Tracks(A, w), InTracks

(* A search of the history has been made again.                             *)
LEMMA AgainTracks ==
  ASSUME HitsAreObjects, NEW A \in SUBSET Device, NEW w, Sane(w), w.pc = "answer", Tracks(A, w),
         w.want = "search", NEW v, v = In(w, Hits(w.at.obj, w.at.crit), TRUE)
  PROVE  Tracks(A, v)
  <1>1. OnPath(w) /\ IsPlace(w.at) /\ Searching(w.at)
    BY AnswerView
  <1>2. PICK S \in SUBSET Device :
          /\ w.calm => S = A
          /\ w.calm \/ Searching(w.at)
               => Reached(S, w).type = "dir" /\ Questioning(S, w, Reached(S, w).to)
    BY AnswerView
  <1>3. PICK p, b : p = Reached(S, w).to /\ b = TRUE
    OBVIOUS
  <1>4. PICK kids \in Seq(Object) : kids = Hits(w.at.obj, w.at.crit)
    BY DEF HitsAreObjects
  <1>5. v = In(w, kids, b)
    BY <1>3, <1>4
  <1>6. Same(v, w) /\ v.pc = "walk" /\ v.at = KidsPlace(w.at, kids, b)
    <2>1. DOMAIN w = Fields
      BY DEF Sane
    <2>2. QED
      BY ONLY <1>5, <2>1, InIs
  <1>7. Reached(S, w).type = "dir" /\ p = KidsPlace(w.at, Hits(w.at.obj, w.at.crit), TRUE)
    BY <1>1, <1>2, <1>3 DEF Questioning
  <1>8. v.at = p
    BY <1>3, <1>4, <1>6, <1>7
  <1>9. Walking(v, p)
    BY <1>8 DEF Walking
  <1>10. QED
    BY ONLY <1>2, <1>3, <1>5, <1>7, <1>9, Sane(w), w.pc = "answer", w.want = "search", Tracks(A, w),
            InTracks

(* The device has said what it can search.                                  *)
LEMMA CapsTracks ==
  ASSUME HitsAreObjects, NEW A \in SUBSET Device, NEW w, Sane(w), w.pc = "answer", Tracks(A, w),
         w.want = "caps", NEW b, w.calm \/ b => b = HasCaps,
         NEW v, v = In(w, w.at.kids, b)
  PROVE  Tracks(A, v)
  <1>1. OnPath(w) /\ IsPlace(w.at) /\ Searching(w.at)
    BY AnswerView
  <1>2. PICK S \in SUBSET Device :
          /\ w.calm => S = A
          /\ w.calm \/ Searching(w.at)
               => Reached(S, w).type = "dir" /\ Questioning(S, w, Reached(S, w).to)
    BY AnswerView
  <1>3. PICK p : p = Reached(S, w).to
    OBVIOUS
  <1>4. /\ Reached(S, w).type = "dir" /\ w.at = [p EXCEPT !.kids = Kids[Root]] /\ p.kind = "device"
        /\ Passed(w, DeviceEntries) /\ HistSize > 0 /\ IsSearchable[Root]
    BY <1>1, <1>2, <1>3 DEF Questioning
  <1>5. IsPlace(p)
    <2>1. Shape(S, w.path, Taken(w), Reached(S, w))
      BY <1>1, ReachedShape
    <2>2. QED
      BY <1>3, <1>4, <2>1 DEF Shape
  <1>6. PICK kids \in Seq(Object) : kids = Kids[Root] /\ w.at.kids = kids
    BY <1>4, <1>5, TreeAssumption DEF IsPlace, Place
  <1>7. v = In(w, kids, b)
    BY <1>6
  <1>8. Same(v, w) /\ v.pc = "walk" /\ v.at = KidsPlace(w.at, kids, b)
    BY <1>7, InIs DEF Sane
  <1>9. v.at = KidsPlace(p, kids, b)
    BY <1>4, <1>5, <1>6, <1>8 DEF KidsPlace, IsPlace, Place
  <1>10. w.calm \/ b => Walking(v, p)
    <2>1. HAVE w.calm \/ b
    <2>2. b = (HistSize > 0 /\ (IsSearchable[Root] => HasCaps))
      <3>1. b = HasCaps /\ HasCaps \in BOOLEAN
        BY <2>1, TreeAssumption
      <3>2. (HistSize > 0 /\ (IsSearchable[Root] => HasCaps)) = HasCaps
        BY ONLY <1>4, <3>1
      <3>3. QED
        BY <3>1, <3>2
    <2>3. v.at = Opened(p)
      BY <1>4, <1>6, <1>9, <2>2 DEF Opened
    <2>4. Passed(v, DeviceEntries)
      BY <1>4, <1>8, SameReached
    <2>5. QED
      BY <1>4, <2>3, <2>4 DEF Walking
  <1>11. QED
    BY ONLY <1>2, <1>3, <1>4, <1>7, <1>10, Sane(w), w.pc = "answer", w.want = "caps", Tracks(A, w),
            InTracks

LEMMA AnswerJ ==
  ASSUME HitsAreObjects, IInv, JInv, NEW t \in Thread, Answer(t) \/ AnswerCaps(t)
  PROVE  JInv'
  <1>1. PICK w : w = walk[t]
    OBVIOUS
  <1>2. PICK v : Update(t, v) /\ Told(w, v)
    BY <1>1 DEF Answer, AnswerCaps, Told
  <1>3. /\ w.pc = "answer" /\ w.want # "new" /\ Sane(w) /\ Tracks(alive, w) /\ w.want \in Wants
        /\ Update(t, v) /\ alive' = alive /\ hist' = hist /\ alive \in SUBSET Device
    BY <1>1, <1>2 DEF Answer, AnswerCaps, IInv, Fits, Sane, Asking, JInv
  <1>4. CASE w.want = "caps"
    <2>1. PICK x : x = [w EXCEPT !.calm = FALSE]
      OBVIOUS
    <2>2. Tracks(alive, x) /\ x.pc = "answer" /\ x.want = "caps" /\ x.at = w.at /\ ~x.calm
      <3>1. w.pc # "idle" /\ Sane(w) /\ Tracks(alive, w)
        BY <1>3
      <3>2. Tracks(alive, x) /\ x.pc = w.pc /\ x.at = w.at /\ x.want = w.want /\ ~x.calm
        BY ONLY <2>1, <3>1, DisturbedTracks
      <3>3. QED
        BY <1>3, <1>4, <3>2
    <2>3. Sane(x)
      BY <1>3, <2>1, DisturbedFacts DEF Disturbed
    <2>4. PICK b : b = HasCaps
      OBVIOUS
    <2>5. PICK no : no = FALSE
      OBVIOUS
    <2>6. CASE v = In(w, w.at.kids, b)
      <3>1. Tracks(alive, v)
        BY <1>3, <1>4, <2>4, <2>6, CapsTracks
      <3>2. QED
        BY <1>3, <3>1, WalkTracks
    <2>7. CASE v = In(x, x.at.kids, no)
      <3>1. Tracks(alive, v)
        BY <1>3, <2>2, <2>3, <2>5, <2>7, CapsTracks
      <3>2. QED
        BY <1>3, <3>1, WalkTracks
    <2>8. QED
      BY <1>2, <1>4, <2>1, <2>2, <2>4, <2>5, <2>6, <2>7 DEF Told, Disturbed
  <1>5. CASE w.want = "text" /\ v = Answered(w)
    <2>1. v = Finish(w, "ok")
      BY <1>5 DEF Answered
    <2>2. QED
      BY <1>3, <1>5, <2>1, TextTracks, WalkTracks
  <1>6. CASE w.want \notin {"caps", "text"} /\ v = Unanswered(w)
    <2>1. Tracks(alive, v)
      BY <1>3, <1>6, UnansweredTracks
    <2>2. QED
      BY <1>3, <2>1, WalkTracks
  <1>7. CASE w.want = "metadata" /\ v = Answered(w)
    <2>1. v = Ask(w, "children")
      BY <1>7 DEF Answered
    <2>2. QED
      BY <1>3, <1>7, <2>1, MetadataTracks, WalkTracks
  <1>8. CASE w.want = "children" /\ v = Answered(w)
    <2>1. v = IF AsksCaps
              THEN Ask([w EXCEPT !.at.kids = Kids[Root]], "caps")
              ELSE In(w, Kids[Root], HistSize > 0)
      BY <1>8 DEF Answered
    <2>2. QED
      BY <1>3, <1>8, <2>1, ChildrenTracks, WalkTracks
  <1>9. CASE w.want = "browse" /\ v = Answered(w)
    <2>1. v = In(w, Kids[w.at.obj], w.at.searchable)
      BY <1>9 DEF Answered
    <2>2. QED
      BY <1>3, <1>9, <2>1, BrowseTracks, WalkTracks
  <1>10. CASE w.want = "search" /\ v = Answered(w)
    <2>1. v = In(w, Hits(w.at.obj, w.at.crit), TRUE)
      BY <1>10 DEF Answered, SearchAgain
    <2>2. QED
      BY <1>3, <1>10, <2>1, AgainTracks, WalkTracks
  <1>11. QED
    BY <1>2, <1>3, <1>4, <1>5, <1>6, <1>7, <1>8, <1>9, <1>10 DEF Wants, Told
-----------------------------------------------------------------------------
(***************************************************************************)
(* A new search.                                                           *)
(***************************************************************************)
(* The history has the new search and some of what it had.                  *)
LEMMA RememberMembers ==
  ASSUME hist \in Seq(Search), NEW h \in Search, hist' = Remember(h)
  PROVE  \A i \in DOMAIN hist' : hist'[i] = h \/ \E j \in DOMAIN hist : hist'[i] = hist[j]
  <1>1. PICK n \in Nat, longer \in Seq(Search) : n = Len(hist) /\ longer = Append(hist, h)
    BY LenProperties, AppendProperties
  <1>2. DOMAIN hist = 1..n /\ Len(longer) = n + 1 /\ DOMAIN longer = 1..(n + 1)
        /\ (\A i \in 1..n : longer[i] = hist[i]) /\ longer[n + 1] = h
    BY <1>1, AppendProperties, LenProperties
  <1>3. \A i \in 1..(n + 1) : longer[i] = h \/ \E j \in DOMAIN hist : longer[i] = hist[j]
    <2>1. \A i \in 1..(n + 1) : i \in 1..n \/ i = n + 1
      OBVIOUS
    <2>2. QED
      BY <1>2, <2>1
  <1>4. hist' = IF Len(longer) > HistSize THEN Tail(longer) ELSE longer
    BY <1>1 DEF Remember
  <1>5. CASE hist' = longer
    BY <1>2, <1>3, <1>5
  <1>6. CASE hist' = Tail(longer)
    <2>1. longer # <<>>
      BY <1>2, EmptySeq
    <2>2. PICK k : k = Tail(longer)
      OBVIOUS
    <2>3. k \in Seq(Search) /\ Len(k) = n /\ \A i \in 1..n : k[i] = longer[i + 1]
      <3>1. k \in Seq(Search) /\ Len(k) = Len(longer) - 1 /\ \A i \in 1..Len(k) : k[i] = longer[i + 1]
        BY ONLY <2>1, <2>2, longer \in Seq(Search), HeadTailProperties
      <3>2. (n + 1) - 1 = n
        OBVIOUS
      <3>3. QED
        BY <1>2, <3>1, <3>2
    <2>4. DOMAIN k = 1..n
      BY <2>3, LenProperties
    <2>5. \A i \in 1..n : i + 1 \in 1..(n + 1)
      OBVIOUS
    <2>6. QED
      BY <1>3, <1>6, <2>2, <2>5, <2>3, <2>4
  <1>7. QED
    BY <1>4, <1>5, <1>6

(* Where the search is made, and what it means.                             *)
Sought(S, w, p, name) ==
  /\ Reached(S, w).type = "dir" /\ p = Reached(S, w).to /\ IsPlace(p) /\ p.kind = "search"
  /\ Hits(w.at.obj, w.at.crit) = <<>> => Child(S, p, name).type = "none"
  /\ Hits(w.at.obj, w.at.crit) # <<>> => Child(S, p, name) = Dir(name, Result(p, Criterion(name)))
  /\ Result(p, Criterion(name)) = KidsPlace(w.at, Hits(w.at.obj, w.at.crit), TRUE)

LEMMA NewView ==
  ASSUME HitsAreObjects, NEW A \in SUBSET Device, NEW w, Sane(w), w.pc = "answer", Tracks(A, w),
         w.want = "new", NEW name, name = Head(w.left)
  PROVE  /\ OnPath(w) /\ IsPlace(w.at) /\ w.at.kind = "search" /\ w.left # <<>> /\ w.listed = {}
         /\ \E S, p : S \in SUBSET Device /\ (w.calm => S = A) /\ Sought(S, w, p, name)
  <1>1. OnPath(w) /\ IsPlace(w.at) /\ Searching(w.at)
    BY AnswerView
  <1>2. PICK S \in SUBSET Device :
          /\ w.calm => S = A
          /\ w.calm \/ Searching(w.at)
               => Reached(S, w).type = "dir" /\ Questioning(S, w, Reached(S, w).to)
    BY AnswerView
  <1>3. PICK p, to, crit : p = Reached(S, w).to /\ to = w.at /\ crit = Criterion(name)
    OBVIOUS
  <1>4. /\ Reached(S, w).type = "dir" /\ to = [p EXCEPT !.crit = @ \o crit] /\ p.kind = "search"
        /\ w.left # <<>> /\ Matches(Entries(S, p), name) = {}
    BY <1>1, <1>2, <1>3 DEF Questioning, Passed
  <1>5. IsPlace(p)
    <2>1. Shape(S, w.path, Taken(w), Reached(S, w))
      BY <1>1, ReachedShape
    <2>2. QED
      BY <1>3, <1>4, <2>1 DEF Shape
  <1>6. to.kind = "search" /\ to.obj = p.obj /\ to.crit = p.crit \o crit
    BY ONLY HitsAreObjects, <1>4, <1>5, Narrowed
  <1>7. Result(p, crit) = KidsPlace(to, Hits(to.obj, to.crit), TRUE)
    BY <1>4, <1>6 DEF Result
  <1>8. Matches(Content(S, p), name) = {}
    BY <1>4 DEF Content
  <1>9. PICK c : c = Child(S, p, name)
    OBVIOUS
  <1>10. IF Hits(p.obj, p.crit \o Criterion(name)) = <<>>
         THEN c = [name |-> name, type |-> "none", to |-> p]
         ELSE c = Dir(name, Result(p, Criterion(name)))
    BY ONLY HitsAreObjects, <1>4, <1>5, <1>8, <1>9, ChildIs
  <1>11. IF Hits(to.obj, to.crit) = <<>> THEN c.type = "none" ELSE c = Dir(name, Result(p, crit))
    <2>1. Hits(to.obj, to.crit) = Hits(p.obj, p.crit \o Criterion(name))
      BY <1>3, <1>6
    <2>2. CASE Hits(to.obj, to.crit) = <<>>
      BY <1>10, <2>1, <2>2
    <2>3. CASE Hits(to.obj, to.crit) # <<>>
      BY <1>3, <1>10, <2>1, <2>3
    <2>4. QED
      BY <2>2, <2>3
  <1>12. w.listed = {}
    BY <1>4 DEF Tracks
  <1>13. Sought(S, w, p, name)
    BY <1>3, <1>4, <1>5, <1>7, <1>9, <1>11 DEF Sought
  <1>14. QED
    BY <1>1, <1>2, <1>3, <1>4, <1>6, <1>12, <1>13

(* It finds nothing.                                                        *)
LEMMA NothingFound ==
  ASSUME HitsAreObjects, NEW A \in SUBSET Device, NEW w, Sane(w), w.pc = "answer", Tracks(A, w),
         w.want = "new", Hits(w.at.obj, w.at.crit) = <<>>,
         NEW v, v = EndBody(w)
  PROVE  Tracks(A, v)
  <1>1. PICK name : name = Head(w.left)
    OBVIOUS
  <1>2. OnPath(w) /\ w.left # <<>>
    BY <1>1, NewView
  <1>3. PICK S, p : S \in SUBSET Device /\ (w.calm => S = A) /\ Sought(S, w, p, name)
    BY <1>1, NewView
  <1>4. Same(v, w) /\ v.pc = "done" /\ v.at = w.at
    BY EndBodyIs DEF Sane
  <1>5. w.calm => Ended(A, v)
    <2>1. HAVE w.calm
    <2>2. Reached(A, w).type = "dir" /\ Child(A, Reached(A, w).to, Head(w.left)).type = "none"
      BY <1>1, <1>3, <2>1 DEF Sought
    <2>3. v.rc = Outcome(v.op, Meaning(A, v.path))
      BY ONLY <1>2, <2>2, Sane(w), v = EndBody(w), BodyEnds
    <2>4. QED
      BY <2>3 DEF Ended
  <1>6. QED
    BY <1>4, <1>5, EndTracks

(* It finds something.                                                      *)
LEMMA SomethingFound ==
  ASSUME HitsAreObjects, NEW A \in SUBSET Device, NEW w, Sane(w), w.pc = "answer", Tracks(A, w),
         w.want = "new", NEW found \in Seq(Object), found = Hits(w.at.obj, w.at.crit), found # <<>>,
         NEW in, in = EnterDir(w, w.at),
         NEW from, NEW v, v = IF in.pc = "done" THEN in ELSE [In(in, found, TRUE) EXCEPT !.from = from]
  PROVE  Tracks(A, v)
  <1>1. PICK name, to, yes : name = Head(w.left) /\ to = w.at /\ yes = TRUE
    OBVIOUS
  <1>2. OnPath(w) /\ IsPlace(to) /\ to.kind = "search" /\ w.left # <<>> /\ w.listed = {}
    BY <1>1, NewView
  <1>3. PICK S, p :
          /\ S \in SUBSET Device
          /\ w.calm => S = A
          /\ Reached(S, w).type = "dir" /\ p = Reached(S, w).to
          /\ Child(S, p, name) = Dir(name, Result(p, Criterion(name)))
          /\ Result(p, Criterion(name)) = KidsPlace(w.at, found, TRUE)
    <2>1. PICK S, p : S \in SUBSET Device /\ (w.calm => S = A) /\ Sought(S, w, p, name)
      BY <1>1, NewView
    <2>2. QED
      BY <2>1 DEF Sought
  <1>4. PICK c, r : c = Child(S, Reached(S, w).to, Head(w.left)) /\ r = Result(p, Criterion(name))
    OBVIOUS
  <1>5. c.type = "dir" /\ c.to = r
    <2>1. c = [name |-> name, type |-> "dir", to |-> r]
      BY <1>1, <1>3, <1>4 DEF Dir
    <2>2. QED
      BY <2>1
  <1>6. in = EnterDir(w, to)
    BY <1>1
  <1>7. /\ in.path = w.path /\ in.left = Tail(w.left) /\ in.op = w.op /\ in.calm = w.calm
        /\ in.listed = w.listed /\ in.at = to /\ in.pc \in {"walk", "call", "done"}
        /\ in.pc # "done" /\ in.left = <<>> => in.op # "readlink"
    BY ONLY <1>2, <1>6, Sane(w), EnterDirIs
  <1>8. DOMAIN in = Fields
    <2>1. Sane(in)
      BY ONLY <1>2, <1>6, Sane(w), EnterDirFacts
    <2>2. QED
      BY <2>1 DEF Sane
  <1>9. Reached(S, in) = c /\ (in.pc = "done" => in.rc = Outcome(in.op, Meaning(S, in.path)))
    BY ONLY <1>2, <1>3, <1>4, <1>5, <1>6, Sane(w), DirEntered
  <1>10. OnPath(in)
    BY <1>2, <1>7, Taking
  <1>11. CASE in.pc = "done"
    BY <1>2, <1>3, <1>7, <1>9, <1>10, <1>11 DEF Tracks, Lists, Ended
  <1>12. CASE in.pc # "done"
    <2>1. PICK x : x = In(in, found, yes)
      OBVIOUS
    <2>2. Same(x, in) /\ x.pc = "walk" /\ x.at = KidsPlace(to, found, yes)
      BY <1>7, <1>8, <2>1, InIs
    <2>3. v = [x EXCEPT !.from = from]
      BY <1>1, <1>12, <2>1
    <2>4. DOMAIN x = Fields
      BY <1>8, <2>1 DEF In
    <2>5. Same(v, in) /\ v.pc = "walk" /\ v.at = KidsPlace(to, found, yes)
      BY <2>2, <2>3, <2>4 DEF Same, Fields
    <2>6. OnPath(v) /\ Reached(S, v) = c
      <3>1. (OnPath(v) <=> OnPath(in)) /\ Reached(S, v) = Reached(S, in)
        BY ONLY <2>5, SameReached
      <3>2. QED
        BY <1>9, <1>10, <3>1
    <2>7. v.at = c.to
      BY <1>1, <1>3, <1>4, <1>5, <2>5
    <2>8. PICK at : at = v.at
      OBVIOUS
    <2>9. IsPlace(at) /\ at.kind = "kids"
      BY ONLY <1>2, <2>5, <2>8, found \in Seq(Object), KidsPlaceFacts
    <2>10. Follows(A, v, S)
      BY <1>3, <1>5, <1>7, <2>5, <2>6, <2>7 DEF Follows, Stands, Walking, Asking, Same
    <2>11. /\ v.listed = {} /\ v.pc = "walk" /\ (v.left = <<>> => v.op # "readlink")
      BY <1>2, <1>7, <1>12, <2>5 DEF Same
    <2>12. IsPlace(v.at) /\ v.at.kind = "kids"
      BY <2>8, <2>9
    <2>13. QED
      BY <1>3, <2>6, <2>10, <2>11, <2>12 DEF Tracks, Asking, Lists
  <1>13. QED
    BY <1>11, <1>12

(* What the history remembers of it holds for every list of devices.        *)
LEMMA NewRemembered ==
  ASSUME HitsAreObjects, NEW A \in SUBSET Device, NEW w, Sane(w), w.pc = "answer", Tracks(A, w),
         w.want = "new", Hits(w.at.obj, w.at.crit) # <<>>,
         NEW h, h.parent = Here(w), h.name = Head(w.left), h.crit = Criterion(Head(w.left))
  PROVE  Remembered(h)
  <1>1. PICK name : name = Head(w.left)
    OBVIOUS
  <1>2. OnPath(w) /\ w.path \in Seq(STRING) /\ Taken(w) \in 0..Len(w.path)
    BY <1>1, NewView, OnPathFacts DEF Sane
  <1>3. PICK S, p :
          /\ S \in SUBSET Device
          /\ Reached(S, w).type = "dir" /\ p = Reached(S, w).to /\ IsPlace(p) /\ p.kind = "search"
          /\ Child(S, p, name) = Dir(name, Result(p, Criterion(name)))
    <2>1. PICK S, p : S \in SUBSET Device /\ (w.calm => S = A) /\ Sought(S, w, p, name)
      BY <1>1, NewView
    <2>2. QED
      BY <2>1 DEF Sought
  <1>4. ASSUME NEW R \in SUBSET Device, Reached(R, w).type = "dir", Reached(R, w).to.kind = "search"
        PROVE  Child(R, Reached(R, w).to, name) = Dir(name, Result(Reached(R, w).to, Criterion(name)))
    <2>1. Reached(S, w) = Reached(R, w)
      <3>1. PICK path, k : /\ path = w.path /\ k = Taken(w)
                           /\ path \in Seq(STRING) /\ k \in 0..Len(path)
        BY <1>2
      <3>2. /\ Trail(S, path)[k].type = "dir" /\ Trail(S, path)[k].to.kind \in Born
            /\ Trail(R, path)[k].type = "dir" /\ Trail(R, path)[k].to.kind \in Born
        BY <1>3, <1>4, <3>1 DEF Reached, Born
      <3>3. Trail(S, path)[k] = Trail(R, path)[k]
        BY ONLY HitsAreObjects, <3>1, <3>2, TrailSame
      <3>4. QED
        BY <3>1, <3>3 DEF Reached
    <2>2. Child(S, p, name) = Child(R, p, name)
      <3>1. p.kind \notin {"root", "debug"} /\ IsPlace(p)
        BY <1>3
      <3>2. QED
        BY ONLY <3>1, ChildSame
    <2>3. QED
      BY <1>3, <2>1, <2>2
  <1>5. \A R : Trail(R, h.parent)[Len(h.parent)] = Reached(R, w)
    BY <1>2, HereIs
  <1>6. QED
    BY <1>1, <1>4, <1>5 DEF Remembered

LEMMA AnswerNewJ ==
  ASSUME HitsAreObjects, IInv, JInv, NEW t \in Thread, AnswerNew(t)
  PROVE  JInv'
  <1> DEFINE Found(w) == Hits(w.at.obj, w.at.crit)
             New(w) == [parent |-> Here(w), name |-> Head(w.left), crit |-> Criterion(Head(w.left))]
             Copied(w) == Len(w.at.crit) > Len(Criterion(Head(w.left)))
             Entered(w) == EnterDir(w, w.at)
             Cases(w) ==
               \/ /\ w.at.dev \in alive /\ Found(w) # <<>>
                  /\ hist' = Remember(New(w))
                  /\ Update(t, IF Entered(w).pc = "done" THEN Entered(w)
                               ELSE [In(Entered(w), Found(w), TRUE) EXCEPT
                                       !.from = IF Copied(w) THEN <<>> ELSE Key(New(w))])
               \/ w.at.dev \in alive /\ Found(w) = <<>> /\ Update(t, EndBody(w)) /\ UNCHANGED hist
               \/ Update(t, Unanswered(w)) /\ UNCHANGED hist
  <1>1. Cases(walk[t])
    BY Zenon DEF AnswerNew
  <1>2. PICK w : w = walk[t] /\ Cases(w)
    <2> HIDE DEF Cases
    <2>1. QED
      BY <1>1
  <1>3. /\ w.pc = "answer" /\ w.want = "new" /\ Sane(w) /\ Tracks(alive, w)
        /\ alive' = alive /\ alive \in SUBSET Device
    <2> HIDE DEF Cases
    <2>1. QED
      BY <1>2 DEF AnswerNew, IInv, Fits, JInv
  <1>4. CASE Found(w) = <<>> /\ Update(t, EndBody(w)) /\ UNCHANGED hist
    <2>1. PICK v : v = EndBody(w)
      OBVIOUS
    <2>2. Hits(w.at.obj, w.at.crit) = <<>>
      BY <1>4
    <2>3. Tracks(alive, v)
      BY ONLY HitsAreObjects, <1>3, <2>1, <2>2, NothingFound
    <2>4. QED
      BY <1>3, <1>4, <2>1, <2>3, WalkTracks
  <1>5. ASSUME Found(w) # <<>>, hist' = Remember(New(w)),
               Update(t, IF Entered(w).pc = "done" THEN Entered(w)
                         ELSE [In(Entered(w), Found(w), TRUE) EXCEPT
                                 !.from = IF Copied(w) THEN <<>> ELSE Key(New(w))])
        PROVE  JInv'
    <2>1. PICK found \in Seq(Object) : found = Hits(w.at.obj, w.at.crit)
      BY DEF HitsAreObjects
    <2>2. Found(w) = found /\ found # <<>>
      BY <1>5, <2>1
    <2>3. w.left # <<>> /\ OnPath(w)
      BY <1>3, NewView
    <2>4. PICK h : h = New(w)
      OBVIOUS
    <2>5. h.parent = Here(w) /\ h.name = Head(w.left) /\ h.crit = Criterion(Head(w.left))
      BY <2>4
    <2>6. h \in Search
      <3>1. Here(w) \in Seq(STRING) /\ Head(w.left) \in STRING
        BY <1>3, <2>3, HereIs, HeadTailProperties DEF Sane
      <3>2. Criterion(Head(w.left)) \in Seq(Part)
        <4>1. \A a, b \in Part : <<a, b>> \in Seq(Part)
          OBVIOUS
        <4>2. Head(w.left) \in Part /\ "contains" \in Part /\ "raw" \in Part
          BY <3>1 DEF Part
        <4>3. QED
          BY <4>1, <4>2, Zenon DEF Criterion
      <3>3. QED
        BY <2>4, <3>1, <3>2 DEF Search
    <2>7. hist' = Remember(h)
      BY <1>5, <2>4
    <2>8. Hits(w.at.obj, w.at.crit) # <<>>
      BY <2>1, <2>2
    <2>9. Remembered(h)
      BY ONLY HitsAreObjects, <1>3, <2>5, <2>8, NewRemembered
    <2>10. \A i \in DOMAIN hist' : Remembered(hist'[i])
      <3>1. \A i \in DOMAIN hist' : hist'[i] = h \/ \E j \in DOMAIN hist : hist'[i] = hist[j]
        BY <2>6, <2>7, RememberMembers DEF IInv
      <3>2. QED
        BY <2>9, <3>1 DEF JInv
    <2>11. PICK in : in = EnterDir(w, w.at)
      OBVIOUS
    <2>12. PICK from : from = IF Copied(w) THEN <<>> ELSE Key(h)
      <3> HIDE DEF Copied
      <3>1. CASE Copied(w)
        BY <3>1
      <3>2. CASE ~Copied(w)
        BY <3>2
      <3>3. QED
        BY <3>1, <3>2
    <2>13. PICK v : v = IF in.pc = "done" THEN in ELSE [In(in, found, TRUE) EXCEPT !.from = from]
      OBVIOUS
    <2>14. Update(t, v)
      <3>1. v = IF Entered(w).pc = "done" THEN Entered(w)
                ELSE [In(Entered(w), Found(w), TRUE) EXCEPT
                        !.from = IF Copied(w) THEN <<>> ELSE Key(New(w))]
        <4>1. in = Entered(w)
          BY <2>11
        <4> HIDE DEF Entered, Found, Copied, New
        <4>2. QED
          BY <2>2, <2>4, <2>12, <2>13, <4>1, Zenon
      <3>2. QED
        BY <1>5, <3>1, Zenon
    <2>15. Tracks(alive, v)
      BY ONLY HitsAreObjects, <1>3, <2>1, <2>2, <2>11, <2>13, SomethingFound
    <2>16. walk'[t] = v /\ \A u \in Thread \ {t} : walk'[u] = walk[u]
      BY <2>14 DEF Update, IInv
    <2>17. \A u \in Thread : Tracks(alive, walk'[u])
      BY <2>15, <2>16 DEF JInv
    <2>18. QED
      BY <1>3, <2>10, <2>17 DEF JInv
  <1>6. CASE Update(t, Unanswered(w)) /\ UNCHANGED hist
    <2>1. PICK v : v = Unanswered(w)
      OBVIOUS
    <2>2. Tracks(alive, v)
      BY ONLY <1>3, <2>1, UnansweredTracks
    <2>3. QED
      BY <1>3, <1>6, <2>1, <2>2, WalkTracks
  <1>7. QED
    BY <1>2, <1>4, <1>5, <1>6, Zenon
-----------------------------------------------------------------------------
(***************************************************************************)
(* The invariant holds.                                                    *)
(***************************************************************************)
LEMMA JInitial ==
  ASSUME Init
  PROVE  JInv
  <1>1. hist = <<>> /\ walk = [t \in Thread |-> Idle]
    BY DEF Init
  <1>2. Idle.pc = "idle"
    BY DEF Idle
  <1>3. \A t \in Thread : Tracks(alive, walk[t])
    BY <1>1, <1>2 DEF Tracks
  <1>4. DOMAIN hist = {}
    BY <1>1
  <1>5. QED
    BY <1>3, <1>4 DEF JInv

LEMMA JInductive ==
  ASSUME HitsAreObjects, IInv, JInv, [Next]_vars
  PROVE  JInv'
  <1>1. ASSUME NEW t \in Thread, Query(t) PROVE JInv'
    BY <1>1, QueryJ
  <1>2. ASSUME NEW t \in Thread, Walks(t) PROVE JInv'
    BY <1>2, StepJ, LockJ, RecallJ, ListLinksJ, AnswerJ, AnswerNewJ, ReturnJ DEF Walks
  <1>3. CASE ListChanges
    BY <1>3, ListChangesJ
  <1>4. CASE UNCHANGED vars
    BY <1>4 DEF vars, JInv
  <1>5. QED
    BY <1>1, <1>2, <1>3, <1>4 DEF Next

LEMMA PathInvariance ==
  ASSUME HitsAreObjects
  PROVE  Spec => [](IInv /\ JInv)
  <1>1. Init => IInv /\ JInv
    BY Initial, JInitial
  <1>2. IInv /\ JInv /\ [Next]_vars => (IInv /\ JInv)'
    BY Inductive, JInductive
  <1>3. QED
    BY <1>1, <1>2, PTL DEF Spec

(* A path means the same to every operation and thread, whatever searches   *)
(* were made, evicted or are under way, as long as no device comes or goes:  *)
(* getattr, getdir, open and readlink of a path agree (vfs.c:316).           *)
THEOREM MeaningOfPaths ==
  ASSUME HitsAreObjects
  PROVE  Spec => []ResultByPath
  <1>1. IInv /\ JInv => ResultByPath
    <2>1. SUFFICES ASSUME IInv, JInv, NEW t \in Thread
                   PROVE  /\ walk[t].pc = "done" /\ walk[t].rc = "ok" => walk[t].left = <<>>
                          /\ walk[t].pc = "done" /\ walk[t].calm /\ ~OfHistory(walk[t].path)
                             /\ walk[t].rc # "ENOMEM"
                               => walk[t].rc = Outcome(walk[t].op, Meaning(alive, walk[t].path))
      BY DEF ResultByPath
    <2>2. PICK w : w = walk[t]
      OBVIOUS
    <2>3. Sane(w) /\ Tracks(alive, w)
      BY <2>1, <2>2 DEF IInv, Fits, JInv
    <2>4. w.pc = "done" /\ w.rc = "ok" => w.left = <<>>
      BY <2>3 DEF Sane
    <2>5. w.pc = "done" /\ w.calm => Ended(alive, w)
      BY <2>3 DEF Tracks
    <2>6. QED
      BY <2>2, <2>4, <2>5 DEF Ended
  <1>2. QED
    BY <1>1, PathInvariance, PTL
-----------------------------------------------------------------------------
(***************************************************************************)
(* What a directory lists.                                                 *)
(***************************************************************************)
(* The directory a path leads to, and one component more.                   *)
LEMMA OneMore ==
  ASSUME NEW S, NEW path \in Seq(STRING), NEW e, e = Trail(S, path)[Len(path)],
         e.type = "dir", NEW name
  PROVE  Meaning(S, Append(path, name)) = Child(S, e.to, name).type
  <1>1. PICK n \in Nat : n = Len(path)
    BY LenProperties
  <1>2. PICK X : X = STRING \cup {name}
    OBVIOUS
  <1>3. PICK p \in Seq(X), q \in Seq(X) : p = path /\ q = Append(path, name)
    <2>1. path \in Seq(X) /\ name \in X
      BY <1>2
    <2>2. QED
      BY <2>1, AppendProperties
  <1>4. Len(q) = n + 1 /\ q[n + 1] = name /\ Len(p) = n /\ \A i \in 1..n : p[i] = q[i]
    BY <1>1, <1>3, AppendProperties
  <1>5. n \in Nat /\ n <= Len(p) /\ n <= Len(q)
    BY <1>4
  <1>6. \A k \in 0..n : Trail(S, p)[k] = Trail(S, q)[k]
    <2>1. p \in Seq(X) /\ q \in Seq(X) /\ \A i \in 1..n : p[i] = q[i]
      BY <1>4
    <2>2. QED
      BY ONLY <2>1, <1>5, TrailPrefix
  <1>7. Trail(S, q)[n] = e
    BY <1>1, <1>3, <1>6
  <1>8. n + 1 \in 1..Len(q) /\ (n + 1) - 1 = n
    BY <1>4
  <1>9. Trail(S, q)[n + 1] = Through(S, Trail(S, q)[n], q[n + 1])
    BY <1>8, TrailIs
  <1>10. Trail(S, q)[n + 1] = Child(S, e.to, name)
    BY <1>4, <1>7, <1>9 DEF Through
  <1>11. QED
    BY <1>3, <1>4, <1>10 DEF Meaning

(* Whatever getdir lists can be looked up, the searches of the history and  *)
(* of nested directories included, and what is found there was listed: two  *)
(* entries of one name are both listed, and the first one is found.         *)
THEOREM ListedCanBeFound ==
  ASSUME HitsAreObjects
  PROVE  Spec => []ListedIsFound
  <1>1. IInv /\ JInv => ListedIsFound
    <2>1. SUFFICES ASSUME IInv, JInv, NEW t \in Thread, walk[t].pc = "done", walk[t].calm,
                          walk[t].at.kind # "history", NEW x \in walk[t].listed
                   PROVE  <<x[1], Meaning(alive, Append(walk[t].path, x[1]))>> \in walk[t].listed
      BY DEF ListedIsFound
    <2>2. PICK w : w = walk[t]
      OBVIOUS
    <2>3. PICK A \in SUBSET Device : A = alive
      BY <2>1 DEF IInv
    <2>4. Sane(w) /\ Tracks(A, w)
      BY <2>1, <2>2, <2>3 DEF IInv, Fits, JInv
    <2>5. w.left = <<>> /\ OnPath(w) /\ Lists(A, w)
      BY <2>1, <2>2, <2>4 DEF Tracks
    <2>6. Taken(w) = Len(w.path)
      BY <2>4, <2>5, OnPathFacts
    <2>7. PICK e, name : e = Reached(A, w) /\ name = x[1]
      OBVIOUS
    <2>8. e.type = "dir" /\ <<name, Child(A, e.to, name).type>> \in w.listed
      BY <2>1, <2>2, <2>5, <2>7 DEF Lists
    <2>9. PICK path \in Seq(STRING) : path = w.path
      BY <2>4 DEF Sane
    <2>10. Meaning(A, Append(path, name)) = Child(A, e.to, name).type
      <3>1. e = Trail(A, path)[Len(path)]
        BY <2>6, <2>7, <2>9 DEF Reached
      <3>2. QED
        BY <2>8, <3>1, OneMore
    <2>11. QED
      BY <2>2, <2>3, <2>7, <2>8, <2>9, <2>10
  <1>2. QED
    BY <1>1, PathInvariance, PTL
=============================================================================
