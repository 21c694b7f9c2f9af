---------------------------- MODULE Subscription ----------------------------
(***************************************************************************)
(* The subscriptions to the events of listed services (device_list.c,       *)
(* device.c and service.c in djmount/), with the part of libupnp they meet  *)
(* (libupnp/upnp/src/gena/gena_ctrlpt.c): its list of subscriptions, the    *)
(* automatic renewal, and the callbacks it makes from any of its threads.   *)
(*                                                                         *)
(* A worker is a thread that runs one handler at a time.  The download of   *)
(* descriptions is in module DeviceList; here a device has one service and  *)
(* is inserted, subscribed, removed and freed.  A sid is the number of the  *)
(* UpnpSubscribe that made it: libupnp makes a new uuid each time.          *)
(***************************************************************************)
EXTENDS Naturals, Sequences

CONSTANTS
  Worker, Nobody,
  Device, NoDevice,
  ControlURL, EventURL,  \* of the service of each device
  MaxSid                 \* bound: number of subscriptions made

ASSUME NobodyAssumption   == Nobody \notin Worker
ASSUME NoDeviceAssumption == NoDevice \notin Device
ASSUME MaxSidAssumption   == MaxSid \in Nat

VARIABLES
  lock,       \* owner of DeviceListMutex
  pc,         \* what each worker does
  at, arg,    \* the device and the sid each worker works on
  listed,     \* devices in GlobalDeviceList
  sid,        \* serv->sid of the service of each listed device
  client,     \* libupnp's ClientSubList
  publisher,  \* the device of each sid made so far
  heard       \* sids whose events updated the variables of each service

vars == <<lock, pc, at, arg, listed, sid, client, publisher, heard>>

NoSid == 0
Made  == 1 .. Len(publisher)

Begin(w, to, d, s) ==
  /\ pc[w] = "idle"
  /\ pc' = [pc EXCEPT ![w] = to]
  /\ at' = [at EXCEPT ![w] = d]
  /\ arg' = [arg EXCEPT ![w] = s]

Goto(w, from, to) ==
  /\ pc[w] = from
  /\ pc' = [pc EXCEPT ![w] = to]

End(w, from) ==
  /\ pc[w] = from
  /\ pc' = [pc EXCEPT ![w] = "idle"]
  /\ at' = [at EXCEPT ![w] = NoDevice]
  /\ arg' = [arg EXCEPT ![w] = NoSid]

Init ==
  /\ lock = Nobody
  /\ pc = [w \in Worker |-> "idle"]
  /\ at = [w \in Worker |-> NoDevice]
  /\ arg = [w \in Worker |-> NoSid]
  /\ listed = {}
  /\ sid = [d \in Device |-> NoSid]
  /\ client = {}
  /\ publisher = << >>
  /\ heard = [d \in Device |-> {}]

-----------------------------------------------------------------------------
(* Mutant of Insert: the mutex is released before the subscription.         *)
InsertUnlocked(w, d) ==
  /\ Begin(w, "subscribe", d, NoSid)
  /\ lock = Nobody
  /\ d \notin listed
  /\ listed' = listed \cup {d}
  /\ heard' = [heard EXCEPT ![d] = {}]
  /\ UNCHANGED <<lock, sid, client, publisher>>

(* AddDevice inserts a new device; its service has no sid yet.              *)
Insert(w, d) ==
  /\ Begin(w, "subscribe", d, NoSid)
  /\ lock = Nobody /\ lock' = w
  /\ d \notin listed
  /\ listed' = listed \cup {d}
  /\ heard' = [heard EXCEPT ![d] = {}]
  /\ UNCHANGED <<sid, client, publisher>>

(* UpnpSubscribe has an answer: from now on libupnp knows the subscription, *)
(* and the initial event, which it held back until now, may arrive.         *)
Subscribe(w) ==
  LET new == Len(publisher) + 1 IN
  /\ Goto(w, "subscribe", "store")
  /\ new <= MaxSid
  /\ publisher' = Append(publisher, at[w])
  /\ client' = client \cup {new}
  /\ arg' = [arg EXCEPT ![w] = new]
  /\ UNCHANGED <<lock, at, listed, sid, heard>>

SubscribeFails(w) ==
  /\ Goto(w, "subscribe", "store")
  /\ arg' = [arg EXCEPT ![w] = NoSid]
  /\ UNCHANGED <<lock, at, listed, sid, client, publisher, heard>>

(* UpnpSubscribe returned: serv->sid takes its result.                      *)
StoreSid(w) ==
  /\ End(w, "store")
  /\ sid' = [sid EXCEPT ![at[w]] = arg[w]]
  /\ lock' = Nobody
  /\ UNCHANGED <<listed, client, publisher, heard>>

-----------------------------------------------------------------------------
(* The node of d is unlinked by w, which then frees it.                     *)
Unlink(w, d) ==
  /\ Begin(w, "unsubscribe", d, sid[d])
  /\ lock = Nobody
  /\ d \in listed
  /\ listed' = listed \ {d}
  /\ sid' = [sid EXCEPT ![d] = NoSid]
  /\ UNCHANGED <<client, publisher, heard>>

(* DeviceList_RemoveDevice frees it after the mutex is released ...         *)
RemoveDevice(w, d) == Unlink(w, d) /\ UNCHANGED lock

(* ... the timer and DeviceList_RemoveAll with the mutex held.              *)
Expire(w, d) == Unlink(w, d) /\ lock' = w

(* Mutant of Unsubscribe: the service is freed without UpnpUnSubscribe.     *)
FreeSubscribed(w) ==
  /\ End(w, "unsubscribe")
  /\ lock' = IF lock = w THEN Nobody ELSE lock
  /\ UNCHANGED <<listed, sid, client, publisher, heard>>

(* The destructor of the service: UpnpUnSubscribe forgets the subscription  *)
(* whatever the server answers.                                             *)
Unsubscribe(w) ==
  /\ End(w, "unsubscribe")
  /\ client' = client \ {arg[w]}
  /\ lock' = IF lock = w THEN Nobody ELSE lock
  /\ UNCHANGED <<listed, sid, publisher, heard>>

-----------------------------------------------------------------------------
(* libupnp accepts a NOTIFY for a subscription it knows and calls djmount.  *)
ReceiveEvent(w, s) ==
  /\ Begin(w, "event", publisher[s], s)
  /\ s \in client
  /\ UNCHANGED <<lock, listed, sid, client, publisher, heard>>

(* GetService (sid, FROM_SID).                                              *)
ServiceFromSid(s) == {d \in listed : sid[d] = s}

(* HandleEvent: the state of the service found is updated, if one is.       *)
HandleEvent(w) ==
  /\ End(w, "event")
  /\ lock = Nobody
  /\ heard' = [d \in Device |->
                 heard[d] \cup (IF d \in ServiceFromSid(arg[w]) THEN {arg[w]} ELSE {})]
  /\ UNCHANGED <<lock, listed, sid, client, publisher>>

(* GenaAutoRenewSubscription of libupnp.  When it fails the subscription is *)
(* forgotten and UPNP_EVENT_AUTORENEWAL_FAILED called with its event URL.   *)
(* A subscription has one timer, armed again after a success.               *)
Renew(w, s) ==
  /\ Begin(w, "renew", publisher[s], s)
  /\ s \in client
  /\ \A v \in Worker : pc[v] = "renew" => arg[v] # s
  /\ UNCHANGED <<lock, listed, sid, client, publisher, heard>>

Renewed(w) ==
  /\ End(w, "renew")
  /\ UNCHANGED <<lock, listed, sid, client, publisher, heard>>

RenewFails(w) ==
  /\ Goto(w, "renew", "failed")
  /\ client' = client \ {arg[w]}
  /\ UNCHANGED <<lock, at, arg, listed, sid, publisher, heard>>

(* GetService (url, FROM_EVENT_URL), which compares with control URLs.      *)
ServiceFromEventURL(url) == {d \in listed : ControlURL[d] = url}

(* The callback for a failed renewal subscribes the service found again ... *)
Resubscribe(w) ==
  /\ Goto(w, "failed", "subscribe")
  /\ lock = Nobody /\ lock' = w
  /\ \E d \in ServiceFromEventURL(EventURL[at[w]]) : at' = [at EXCEPT ![w] = d]
  /\ arg' = [arg EXCEPT ![w] = NoSid]
  /\ UNCHANGED <<listed, sid, client, publisher, heard>>

(* ... or finds none.                                                       *)
NothingToRenew(w) ==
  /\ End(w, "failed")
  /\ lock = Nobody
  /\ ServiceFromEventURL(EventURL[at[w]]) = {}
  /\ UNCHANGED <<lock, listed, sid, client, publisher, heard>>

Handler(w) ==
  \/ \E d \in Device : Insert(w, d) \/ RemoveDevice(w, d) \/ Expire(w, d)
  \/ Subscribe(w) \/ SubscribeFails(w) \/ StoreSid(w) \/ Unsubscribe(w)

Gena(w) ==
  \/ \E s \in client : ReceiveEvent(w, s) \/ Renew(w, s)
  \/ HandleEvent(w) \/ Renewed(w) \/ RenewFails(w)
  \/ Resubscribe(w) \/ NothingToRenew(w)

Next == \E w \in Worker : Handler(w) \/ Gena(w)

Spec == Init /\ [][Next]_vars
-----------------------------------------------------------------------------
(* Properties.                                                              *)

(* Every variable keeps its type.                                           *)
TypeOK ==
  /\ lock \in Worker \cup {Nobody}
  /\ pc \in [Worker -> {"idle", "subscribe", "store", "unsubscribe", "event",
                        "renew", "failed"}]
  /\ at \in [Worker -> Device \cup {NoDevice}]
  /\ arg \in [Worker -> Made \cup {NoSid}]
  /\ listed \subseteq Device
  /\ sid \in [Device -> Made \cup {NoSid}]
  /\ client \subseteq Made
  /\ publisher \in Seq(Device)
  /\ heard \in [Device -> SUBSET Made]

(* GetService may take the service of d for the one whose renewal failed.   *)
Mistakable(d) == \E e \in Device : ControlURL[d] = EventURL[e]

BeingFreed(s) == \E w \in Worker : pc[w] = "unsubscribe" /\ arg[w] = s

(* No subscription is orphaned: whenever the mutex is free, each one that   *)
(* libupnp keeps renewing is the sid of the listed service that made it, or *)
(* of a service whose destructor is about to cancel it.                     *)
NoOrphan ==
  lock = Nobody =>
    \A s \in client :
      LET d == publisher[s] IN
      \/ d \in listed /\ sid[d] = s
      \/ BeingFreed(s)
      \/ Mistakable(d)

(* An event that is handled while its subscription lasts updates the service *)
(* that subscribed.  This includes the initial event, which carries all     *)
(* variables and may arrive before UpnpSubscribe has returned.              *)
EventsApplied ==
  [][\A w \in Worker :
       LET s == arg[w]
           d == publisher[s]
       IN /\ pc[w] = "event" /\ pc'[w] = "idle"
          /\ s \in client /\ ~BeingFreed(s) /\ ~Mistakable(d)
          => s \in heard'[d]]_vars

(* A service does not stay with a sid that libupnp gave up: the callback    *)
(* that follows a failed renewal renews its subscription.                   *)
SidKnown ==
  lock = Nobody =>
    \A d \in listed :
      \/ sid[d] \in client \cup {NoSid}
      \/ \E w \in Worker : pc[w] = "failed" /\ arg[w] = sid[d]
=============================================================================
