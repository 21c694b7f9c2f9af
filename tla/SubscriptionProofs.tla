------------------------- MODULE SubscriptionProofs -------------------------
(***************************************************************************)
(* The properties of subscriptions for any threads, devices and URLs.  The *)
(* invariant says who holds the mutex, what a worker's sid stands for, and  *)
(* that between UpnpSubscribe and the store the worker owns the new sid.    *)
(***************************************************************************)
EXTENDS Subscription, TLAPS

USE NobodyAssumption, NoDeviceAssumption, MaxSidAssumption DEF NoSid

(* A worker that subscribes holds the mutex, and so may one that frees.     *)
LockInv ==
  \A w \in Worker :
    /\ pc[w] \in {"subscribe", "store"} => lock = w
    /\ lock = w => pc[w] \in {"subscribe", "store", "unsubscribe"}

(* What the device and the sid of a worker stand for.                       *)
WorkInv ==
  \A w \in Worker :
    /\ pc[w] \in {"subscribe", "store"} => at[w] \in listed
    /\ pc[w] \in {"subscribe", "store"} =>
         sid[at[w]] = NoSid \/ Mistakable(at[w])
    /\ pc[w] = "store" => arg[w] = NoSid \/ publisher[arg[w]] = at[w]
    /\ pc[w] \in {"event", "renew", "failed"} =>
         arg[w] \in Made /\ at[w] = publisher[arg[w]]

SidInv == \A d \in Device \ listed : sid[d] = NoSid

Kept(s) == publisher[s] \in listed /\ sid[publisher[s]] = s

HeldBy(w, s) == pc[w] \in {"unsubscribe", "store"} /\ arg[w] = s

(* Each subscription has an owner: a listed service or a worker.            *)
OwnInv ==
  \A s \in client :
    Mistakable(publisher[s]) \/ Kept(s) \/ \E w \in Worker : HeldBy(w, s)

IInv == TypeOK /\ LockInv /\ WorkInv /\ SidInv /\ OwnInv

LEMMA Initial == Init => IInv
  BY DEF Init, IInv, TypeOK, LockInv, WorkInv, SidInv, OwnInv, Made

LEMMA PublisherFacts ==
  ASSUME TypeOK
  PROVE  /\ Len(publisher) \in Nat
         /\ NoSid \notin Made
         /\ \A s \in Made : publisher[s] \in Device
  BY DEF TypeOK, Made

(* A worker that begins a handler which touches neither the subscriptions   *)
(* nor the list.                                                            *)
LEMMA BeginStep ==
  ASSUME IInv, NEW w \in Worker, NEW s \in client, NEW to \in {"event", "renew"},
         Begin(w, to, publisher[s], s),
         UNCHANGED <<lock, listed, sid, client, publisher, heard>>
  PROVE  IInv'
  <1> USE DEF Begin
  <1>1. s \in Made /\ publisher[s] \in Device /\ Made' = Made
    BY PublisherFacts DEF IInv, TypeOK, Made
  <1>2. TypeOK'
    BY <1>1 DEF IInv, TypeOK
  <1>3. LockInv'
    BY DEF IInv, TypeOK, LockInv
  <1>4. WorkInv'
    BY <1>1 DEF IInv, TypeOK, WorkInv, Mistakable
  <1>5. SidInv'
    BY DEF IInv, SidInv
  <1>6. OwnInv'
    BY DEF IInv, TypeOK, OwnInv, Kept, HeldBy, Mistakable
  <1>7. QED
    BY <1>2, <1>3, <1>4, <1>5, <1>6 DEF IInv

(* A worker that ends one.                                                  *)
LEMMA EndStep ==
  ASSUME IInv, NEW w \in Worker, NEW from \in {"event", "renew", "failed"},
         End(w, from), heard' \in [Device -> SUBSET Made],
         UNCHANGED <<lock, listed, sid, client, publisher>>
  PROVE  IInv'
  <1> USE DEF End
  <1>1. Made' = Made
    BY DEF Made
  <1>2. TypeOK'
    BY <1>1 DEF IInv, TypeOK
  <1>3. LockInv'
    BY DEF IInv, TypeOK, LockInv
  <1>4. WorkInv'
    BY <1>1 DEF IInv, TypeOK, WorkInv, Mistakable
  <1>5. SidInv'
    BY DEF IInv, SidInv
  <1>6. OwnInv'
    BY DEF IInv, TypeOK, OwnInv, Kept, HeldBy, Mistakable
  <1>7. QED
    BY <1>2, <1>3, <1>4, <1>5, <1>6 DEF IInv

LEMMA InsertStep ==
  ASSUME IInv, NEW w \in Worker, NEW d \in Device, Insert(w, d)
  PROVE  IInv'
  <1> USE DEF Insert, Begin
  <1>1. Made' = Made
    BY DEF Made
  <1>2. TypeOK'
    BY <1>1 DEF IInv, TypeOK
  <1>3. LockInv'
    BY DEF IInv, TypeOK, LockInv
  <1>4. WorkInv'
    BY <1>1 DEF IInv, TypeOK, LockInv, WorkInv, SidInv, Mistakable
  <1>5. SidInv'
    BY DEF IInv, SidInv
  <1>6. OwnInv'
    BY DEF IInv, TypeOK, OwnInv, Kept, HeldBy, Mistakable
  <1>7. QED
    BY <1>2, <1>3, <1>4, <1>5, <1>6 DEF IInv

LEMMA SubscribeStep ==
  ASSUME IInv, NEW w \in Worker, Subscribe(w)
  PROVE  IInv'
  <1> DEFINE new == Len(publisher) + 1
  <1> USE DEF Subscribe, Goto
  <1>0. at[w] \in Device /\ lock = w
    BY DEF IInv, TypeOK, LockInv, WorkInv
  <1>1. /\ Made' = Made \cup {new}
        /\ new \notin Made /\ new # NoSid
        /\ publisher'[new] = at[w]
        /\ \A s \in Made : publisher'[s] = publisher[s]
        /\ publisher' \in Seq(Device)
    BY <1>0, PublisherFacts DEF IInv, TypeOK, Made
  <1>2. TypeOK'
    BY <1>1 DEF IInv, TypeOK
  <1>3. LockInv'
    BY DEF IInv, TypeOK, LockInv
  <1>4. WorkInv'
    <2>1. ASSUME NEW v \in Worker, v # w
          PROVE  pc[v] \notin {"subscribe", "store"} /\ pc'[v] = pc[v]
                   /\ arg'[v] = arg[v] /\ at'[v] = at[v]
      BY <1>0, <2>1 DEF IInv, TypeOK, LockInv
    <2>2. pc'[w] = "store" /\ arg'[w] = new /\ at'[w] = at[w]
      BY DEF IInv, TypeOK
    <2>3. at[w] \in listed /\ (sid[at[w]] = NoSid \/ Mistakable(at[w]))
      BY DEF IInv, WorkInv
    <2>4. ASSUME NEW v \in Worker, pc[v] \in {"event", "renew", "failed"}
          PROVE  arg[v] \in Made /\ at[v] = publisher'[arg[v]]
      BY <1>1, <2>4 DEF IInv, WorkInv
    <2> HIDE DEF new
    <2>5. ASSUME NEW v \in Worker, v # w
          PROVE  /\ pc'[v] \notin {"subscribe", "store"}
                 /\ pc'[v] \in {"event", "renew", "failed"} =>
                      arg'[v] \in Made' /\ at'[v] = publisher'[arg'[v]]
      <3> HIDE DEF Subscribe, Goto
      <3>1. /\ pc'[v] = pc[v] /\ arg'[v] = arg[v] /\ at'[v] = at[v]
            /\ pc[v] \notin {"subscribe", "store"}
        BY <2>1, <2>5
      <3>2. QED
        BY <1>1, <2>4, <3>1
    <2>6. sid' = sid /\ listed' = listed
      OBVIOUS
    <2>7. QED
      BY <1>1, <2>2, <2>3, <2>5, <2>6 DEF WorkInv, Mistakable
  <1>5. SidInv'
    BY DEF IInv, SidInv
  <1>6. OwnInv'
    <2>1. \A s : s = new => HeldBy(w, s)'
      BY DEF IInv, TypeOK, HeldBy
    <2>2. ASSUME NEW s \in client, NEW v \in Worker, HeldBy(v, s)
          PROVE  HeldBy(v, s)'
      BY <2>2 DEF IInv, TypeOK, HeldBy
    <2>3. \A s \in client : publisher'[s] = publisher[s]
      BY <1>1 DEF IInv, TypeOK
    <2>4. client' = client \cup {new} /\ listed' = listed /\ sid' = sid
      OBVIOUS
    <2> HIDE DEF new
    <2>5. ASSUME NEW s \in client
          PROVE  Mistakable(publisher'[s]) \/ Kept(s)' \/ \E v \in Worker : HeldBy(v, s)'
      BY <2>2, <2>3, <2>4 DEF IInv, OwnInv, Kept, Mistakable
    <2>6. QED
      BY <2>1, <2>4, <2>5 DEF OwnInv, Mistakable
  <1>7. QED
    BY <1>2, <1>3, <1>4, <1>5, <1>6 DEF IInv

LEMMA SubscribeFailsStep ==
  ASSUME IInv, NEW w \in Worker, SubscribeFails(w)
  PROVE  IInv'
  <1> USE DEF SubscribeFails, Goto
  <1>1. Made' = Made
    BY DEF Made
  <1>2. TypeOK'
    BY <1>1 DEF IInv, TypeOK
  <1>3. LockInv'
    BY DEF IInv, TypeOK, LockInv
  <1>4. WorkInv'
    BY <1>1 DEF IInv, TypeOK, WorkInv, Mistakable
  <1>5. SidInv'
    BY DEF IInv, SidInv
  <1>6. OwnInv'
    BY DEF IInv, TypeOK, OwnInv, Kept, HeldBy, Mistakable
  <1>7. QED
    BY <1>2, <1>3, <1>4, <1>5, <1>6 DEF IInv

(* The old sid of the service is lost, which orphans no subscription unless *)
(* the service was mistaken for another.                                    *)
LEMMA StoreSidStep ==
  ASSUME IInv, NEW w \in Worker, StoreSid(w)
  PROVE  IInv'
  <1> USE DEF StoreSid, End
  <1>0. /\ at[w] \in Device /\ at[w] \in listed /\ lock = w
        /\ sid[at[w]] = NoSid \/ Mistakable(at[w])
        /\ arg[w] = NoSid \/ publisher[arg[w]] = at[w]
    BY DEF IInv, TypeOK, LockInv, WorkInv
  <1>1. Made' = Made
    BY DEF Made
  <1>2. TypeOK'
    BY <1>0, <1>1 DEF IInv, TypeOK
  <1>3. LockInv'
    BY <1>0 DEF IInv, TypeOK, LockInv
  <1>4. WorkInv'
    BY <1>0, <1>1 DEF IInv, TypeOK, LockInv, WorkInv, Mistakable
  <1>5. SidInv'
    BY <1>0 DEF IInv, TypeOK, SidInv
  <1>6. OwnInv'
    <2> SUFFICES ASSUME NEW s \in client, ~Mistakable(publisher[s])
                 PROVE  Kept(s)' \/ \E v \in Worker : HeldBy(v, s)'
      BY DEF OwnInv, Mistakable
    <2>0. s # NoSid /\ publisher[s] \in Device
      BY PublisherFacts DEF IInv, TypeOK
    <2>1. CASE Kept(s)
      BY <1>0, <2>0, <2>1 DEF IInv, TypeOK, Kept
    <2>2. CASE HeldBy(w, s)
      BY <1>0, <2>0, <2>2 DEF IInv, TypeOK, Kept, HeldBy
    <2>3. ASSUME NEW v \in Worker, v # w, HeldBy(v, s)
          PROVE  HeldBy(v, s)'
      BY <2>3 DEF IInv, TypeOK, HeldBy
    <2>4. QED
      BY <2>1, <2>2, <2>3 DEF IInv, OwnInv
  <1>7. QED
    BY <1>2, <1>3, <1>4, <1>5, <1>6 DEF IInv

LEMMA UnlinkStep ==
  ASSUME IInv, NEW w \in Worker, NEW d \in Device, Unlink(w, d),
         lock' \in {lock, w}
  PROVE  IInv'
  <1> USE DEF Unlink, Begin
  <1>1. Made' = Made
    BY DEF Made
  <1>2. TypeOK'
    BY <1>1 DEF IInv, TypeOK
  <1>3. LockInv'
    BY DEF IInv, TypeOK, LockInv
  <1>4. WorkInv'
    BY <1>1 DEF IInv, TypeOK, LockInv, WorkInv, Mistakable
  <1>5. SidInv'
    BY DEF IInv, TypeOK, SidInv
  <1>6. OwnInv'
    <2> SUFFICES ASSUME NEW s \in client, ~Mistakable(publisher[s])
                 PROVE  Kept(s)' \/ \E v \in Worker : HeldBy(v, s)'
      BY DEF OwnInv, Mistakable
    <2>1. CASE Kept(s) /\ publisher[s] = d
      BY <2>1 DEF IInv, TypeOK, Kept, HeldBy
    <2>2. CASE Kept(s) /\ publisher[s] # d
      BY <2>2 DEF IInv, TypeOK, Kept
    <2>3. ASSUME NEW v \in Worker, HeldBy(v, s)
          PROVE  HeldBy(v, s)'
      BY <2>3 DEF IInv, TypeOK, HeldBy
    <2>4. QED
      BY <2>1, <2>2, <2>3 DEF IInv, OwnInv
  <1>7. QED
    BY <1>2, <1>3, <1>4, <1>5, <1>6 DEF IInv

LEMMA UnsubscribeStep ==
  ASSUME IInv, NEW w \in Worker, Unsubscribe(w)
  PROVE  IInv'
  <1> USE DEF Unsubscribe, End
  <1>1. Made' = Made
    BY DEF Made
  <1>2. TypeOK'
    BY <1>1 DEF IInv, TypeOK
  <1>3. LockInv'
    BY DEF IInv, TypeOK, LockInv
  <1>4. WorkInv'
    BY <1>1 DEF IInv, TypeOK, WorkInv, Mistakable
  <1>5. SidInv'
    BY DEF IInv, SidInv
  <1>6. OwnInv'
    BY DEF IInv, TypeOK, OwnInv, Kept, HeldBy, Mistakable
  <1>7. QED
    BY <1>2, <1>3, <1>4, <1>5, <1>6 DEF IInv

LEMMA RenewFailsStep ==
  ASSUME IInv, NEW w \in Worker, RenewFails(w)
  PROVE  IInv'
  <1> USE DEF RenewFails, Goto
  <1>1. Made' = Made
    BY DEF Made
  <1>2. TypeOK'
    BY <1>1 DEF IInv, TypeOK
  <1>3. LockInv'
    BY DEF IInv, TypeOK, LockInv
  <1>4. WorkInv'
    BY <1>1 DEF IInv, TypeOK, WorkInv, Mistakable
  <1>5. SidInv'
    BY DEF IInv, SidInv
  <1>6. OwnInv'
    BY DEF IInv, TypeOK, OwnInv, Kept, HeldBy, Mistakable
  <1>7. QED
    BY <1>2, <1>3, <1>4, <1>5, <1>6 DEF IInv

LEMMA ResubscribeStep ==
  ASSUME IInv, NEW w \in Worker, Resubscribe(w)
  PROVE  IInv'
  <1> USE DEF Resubscribe, Goto
  <1>0. /\ at[w] \in Device
        /\ \E d \in listed : /\ ControlURL[d] = EventURL[at[w]]
                             /\ at' = [at EXCEPT ![w] = d]
    BY PublisherFacts DEF IInv, TypeOK, WorkInv, ServiceFromEventURL
  <1>1. Made' = Made
    BY DEF Made
  <1>2. TypeOK'
    BY <1>0, <1>1 DEF IInv, TypeOK
  <1>3. LockInv'
    BY DEF IInv, TypeOK, LockInv
  <1>4. WorkInv'
    BY <1>0, <1>1 DEF IInv, TypeOK, LockInv, WorkInv, Mistakable
  <1>5. SidInv'
    BY DEF IInv, SidInv
  <1>6. OwnInv'
    BY DEF IInv, TypeOK, OwnInv, Kept, HeldBy, Mistakable
  <1>7. QED
    BY <1>2, <1>3, <1>4, <1>5, <1>6 DEF IInv

LEMMA HeardType ==
  ASSUME IInv, NEW w \in Worker, HandleEvent(w)
  PROVE  heard' \in [Device -> SUBSET Made]
  BY DEF HandleEvent, End, IInv, TypeOK, WorkInv

LEMMA Inductive == IInv /\ [Next]_vars => IInv'
  <1> SUFFICES ASSUME IInv, [Next]_vars
               PROVE  IInv'
    OBVIOUS
  <1>1. CASE UNCHANGED vars
    BY <1>1 DEF vars, IInv, TypeOK, LockInv, WorkInv, SidInv, OwnInv, Kept,
                HeldBy, Made, Mistakable
  <1>2. ASSUME NEW w \in Worker, Handler(w)
        PROVE  IInv'
    <2>1. CASE \E d \in Device : Insert(w, d)
      BY <2>1, InsertStep
    <2>2. ASSUME NEW d \in Device, RemoveDevice(w, d) \/ Expire(w, d)
          PROVE  IInv'
      BY <2>2, UnlinkStep DEF RemoveDevice, Expire
    <2>3. CASE Subscribe(w)
      BY <2>3, SubscribeStep
    <2>4. CASE SubscribeFails(w)
      BY <2>4, SubscribeFailsStep
    <2>5. CASE StoreSid(w)
      BY <2>5, StoreSidStep
    <2>6. CASE Unsubscribe(w)
      BY <2>6, UnsubscribeStep
    <2>7. QED
      BY <1>2, <2>1, <2>2, <2>3, <2>4, <2>5, <2>6 DEF Handler
  <1>3. ASSUME NEW w \in Worker, Gena(w)
        PROVE  IInv'
    <2>1. ASSUME NEW s \in client, ReceiveEvent(w, s) \/ Renew(w, s)
          PROVE  IInv'
      BY <2>1, BeginStep DEF ReceiveEvent, Renew
    <2>2. CASE HandleEvent(w)
      BY <2>2, HeardType, EndStep DEF HandleEvent
    <2>3. CASE Renewed(w) \/ NothingToRenew(w)
      BY <2>3, EndStep DEF Renewed, NothingToRenew, IInv, TypeOK
    <2>4. CASE RenewFails(w)
      BY <2>4, RenewFailsStep
    <2>5. CASE Resubscribe(w)
      BY <2>5, ResubscribeStep
    <2>6. QED
      BY <1>3, <2>1, <2>2, <2>3, <2>4, <2>5 DEF Gena
  <1>4. QED
    BY <1>1, <1>2, <1>3 DEF Next

LEMMA Invariant == Spec => []IInv
  BY Initial, Inductive, PTL DEF Spec

-----------------------------------------------------------------------------
(* Every variable keeps its type.                                           *)
THEOREM TypeCorrect == Spec => []TypeOK
  <1>1. IInv => TypeOK
    BY DEF IInv
  <1>2. QED
    BY <1>1, Invariant, PTL

(* No subscription is orphaned, for any threads, devices and URLs.          *)
THEOREM NoneOrphaned == Spec => []NoOrphan
  <1>1. IInv => NoOrphan
    <2> SUFFICES ASSUME IInv, lock = Nobody, NEW s \in client,
                        ~Mistakable(publisher[s])
                 PROVE  Kept(s) \/ BeingFreed(s)
      BY DEF NoOrphan, Kept
    <2>1. \A w \in Worker : pc[w] # "store"
      BY DEF IInv, LockInv
    <2>2. QED
      BY <2>1 DEF IInv, OwnInv, HeldBy, BeingFreed
  <1>2. QED
    BY <1>1, Invariant, PTL

(* What the mutex of the list is for in AddDevice: no event is lost between *)
(* UpnpSubscribe and the store of its sid.                                  *)
THEOREM NoEventLost == Spec => EventsApplied
  <1> DEFINE Applied ==
        \A w \in Worker :
          LET s == arg[w]
              d == publisher[s]
          IN /\ pc[w] = "event" /\ pc'[w] = "idle"
             /\ s \in client /\ ~BeingFreed(s) /\ ~Mistakable(d)
             => s \in heard'[d]
  <1>1. IInv /\ [Next]_vars => [Applied]_vars
    <2> SUFFICES ASSUME IInv, Next, NEW w \in Worker,
                        pc[w] = "event", pc'[w] = "idle",
                        arg[w] \in client, ~BeingFreed(arg[w]),
                        ~Mistakable(publisher[arg[w]])
                 PROVE  arg[w] \in heard'[publisher[arg[w]]]
      OBVIOUS
    <2>1. HandleEvent(w)
      BY DEF Next, Handler, Gena, Begin, Goto, End, Insert, Subscribe,
             SubscribeFails, StoreSid, Unlink, RemoveDevice, Expire, Unsubscribe,
             ReceiveEvent, Renew, Renewed, RenewFails, Resubscribe,
             NothingToRenew, HandleEvent, IInv, TypeOK
    <2>2. \A v \in Worker : pc[v] # "store"
      BY <2>1 DEF HandleEvent, IInv, LockInv
    <2>3. Kept(arg[w])
      BY <2>2 DEF IInv, OwnInv, HeldBy, BeingFreed
    <2>4. publisher[arg[w]] \in ServiceFromSid(arg[w])
      BY <2>3 DEF Kept, ServiceFromSid
    <2>5. publisher[arg[w]] \in Device
      BY PublisherFacts DEF IInv, TypeOK
    <2>6. QED
      BY <2>1, <2>4, <2>5 DEF HandleEvent
  <1>2. QED
    BY <1>1, Invariant, PTL DEF Spec, EventsApplied
=============================================================================
