----------------------------- MODULE BrowseAll -----------------------------
(***************************************************************************)
(* BrowseOrSearchAll (djmount/content_dir.c): collect the objects of a     *)
(* container.  One request asks for everything; if the answer announces    *)
(* more than what was got, at most two more requests ask for the rest.     *)
(*                                                                         *)
(* The media server is external: it may return fewer objects than asked    *)
(* for, none, announce any total, or fail.  Its container does not change  *)
(* during the call.  An object whose description lacks an id is Malformed: *)
(* DIDLObject_Create makes nothing of it.                                  *)
(***************************************************************************)
EXTENDS Naturals, Sequences, FiniteSets

CONSTANTS
  Object,
  Container,      \* those that are containers; the others are items
  Malformed,
  MaxRetry        \* 2

ASSUME ObjectAssumption ==
  IsFiniteSet(Object) /\ Container \subseteq Object /\ Malformed \subseteq Object
ASSUME RetryAssumption == MaxRetry \in Nat

VARIABLES
  server,     \* what the container holds, in the order of the server
  objects,    \* result->objects
  matched,    \* nb_matched
  retry,      \* nb_retry, counted when a retry is decided
  sent,       \* requests answered or failed so far
  stage

collectVars == <<server, objects, matched, retry, sent, stage>>

Elements(s) == {s[i] : i \in 1..Len(s)}
Distinct(s) == \A i, j \in 1..Len(s) : s[i] = s[j] => i = j

(* a is made into an object before b: containers come before items, and     *)
(* each of the two lists is in the order of the answer.                     *)
Before(s, a, b) ==
  IF (a \in Container) = (b \in Container)
  THEN \E i, j \in 1..Len(s) : i < j /\ s[i] = a /\ s[j] = b
  ELSE a \in Container

(* The objects made from an answer, in their order; there is one such list. *)
Created(s) ==
  LET new == Elements(s) \ Malformed
  IN  {t \in [1..Cardinality(new) -> new] :
         \A i, j \in 1..Cardinality(new) : i < j => Before(s, t[i], t[j])}

CollectInit ==
  /\ server \in {s \in UNION {[1..n -> Object] : n \in 0..Cardinality(Object)} :
                   Distinct(s)}
  /\ objects = << >>
  /\ matched = 0
  /\ retry = 0
  /\ sent = 0
  /\ stage = "first"

(* Mutant of Missing: the last entry is never asked for.                    *)
MissingShifted(n, total) == n + 1 < total

(* Entries are missing.                                                     *)
Missing(n, total) == n < total

(* The test of the while loop, after an answer.                             *)
Loop(objs, total) ==
  IF Missing(Len(objs), total) /\ retry < MaxRetry
  THEN stage' = "retry" /\ retry' = retry + 1
  ELSE stage' = "done" /\ retry' = retry

(* BrowseOrSearchAction succeeds: n objects from index start, of total.     *)
Answer(start, n, total) ==
  /\ \E new \in Created(SubSeq(server, start + 1, start + n)) :
       objects' = objects \o new
  /\ matched' = total
  /\ sent' = sent + 1
  /\ UNCHANGED server

(* TotalMatches is not compared with anything; 0 if it cannot be computed.  *)
Totals == 0..(Cardinality(Object) + 1)

First ==
  /\ stage = "first"
  /\ \E n \in 0..Len(server), total \in Totals :
       /\ Answer(0, n, total)
       /\ Loop(objects', total)

FirstFails ==
  /\ stage = "first"
  /\ stage' = "failed"
  /\ sent' = sent + 1
  /\ UNCHANGED <<server, objects, matched, retry>>

(* Mutant of Start: a retry asks for everything again.                      *)
StartOver == 0

Start == Len(objects)

Retry ==
  /\ stage = "retry"
  /\ \E n \in 0..(matched - Len(objects)), total \in Totals :
       /\ Start + n <= Len(server)
       /\ Answer(Start, n, total)
       /\ IF n = 0
          THEN stage' = "done" /\ UNCHANGED retry
          ELSE Loop(objects', total)

(* The objects got so far are returned; nb_matched is reset.                *)
RetryFails ==
  /\ stage = "retry"
  /\ stage' = "done"
  /\ matched' = 0
  /\ sent' = sent + 1
  /\ UNCHANGED <<server, objects, retry>>

CollectNext == First \/ FirstFails \/ Retry \/ RetryFails

CollectSpec == CollectInit /\ [][CollectNext]_collectVars
-----------------------------------------------------------------------------
(* Properties.                                                              *)

(* However the server cuts its answers and whatever total it announces, no  *)
(* object is skipped: the result holds the well-formed objects of a first   *)
(* part of the container, and each once if none of this part was refused.   *)
(* A retry begins at the number of objects made, not at the number of those *)
(* returned: objects come again after refused ones, no more than these are. *)
FirstObjects ==
  \E m \in Len(objects)..Len(server) :
    LET part == Elements(SubSeq(server, 1, m))
    IN  /\ Elements(objects) = part \ Malformed
        /\ part \cap Malformed = {} => Distinct(objects)

(* A result is shorter than the container only if the server failed, had    *)
(* nothing more, did not tell the total, or was asked three times; and it   *)
(* is never asked more often, whatever total it announces, as the caller    *)
(* holds two mutexes.                                                       *)
ShortOnlyIfRefused ==
  [][/\ sent' <= MaxRetry + 1
     /\ stage' = "done" /\ matched' > Len(objects') =>
          sent' = MaxRetry + 1 \/ objects' = objects]_collectVars
=============================================================================
