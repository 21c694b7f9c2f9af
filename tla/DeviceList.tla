----------------------------- MODULE DeviceList -----------------------------
(***************************************************************************)
(* The global device list of djmount (djmount/device_list.c): the mutex    *)
(* DeviceListMutex, the list GlobalDeviceList and the threads that use     *)
(* them.                                                                   *)
(*                                                                         *)
(*   Worker  threads of the UPnP library's pool.  Each runs                *)
(*           EventHandlerCallback for one SSDP message at a time; SSDP is  *)
(*           UDP, so a message may be lost, repeated, late or reordered,   *)
(*           and a worker may receive any message at any time.             *)
(*   Timer   the thread of CheckSubscriptionsLoop.                         *)
(*   User    the thread that calls DeviceList_RefreshAll (TRUE).           *)
(*   Reader  FUSE threads, which call a service of a device with the mutex *)
(*           held or fetch the names of the devices.                       *)
(*                                                                         *)
(* A DeviceNode (with the Device it owns) is an address in Node, which can *)
(* be allocated again once freed.  A critical section that touches only    *)
(* memory is one action; one that waits for the network (subscription,     *)
(* action call, the removals of a sweep, which unsubscribe) is several, so *)
(* that the other threads run while the mutex is held.                     *)
(***************************************************************************)
EXTENDS Integers, Sequences, FiniteSets

CONSTANTS
  Device,     \* UDNs
  Leaver,     \* the devices that may leave the network for good
  Base,       \* cleaned friendly names: <<stem>>, or <<stem, k>> for "stem_k"
  Node,       \* addresses of DeviceNodes
  MaxAge,     \* lifetimes announced in CACHE-CONTROL (libupnp drops those <= 0)
  Incr,       \* CHECK_SUBSCRIPTIONS_TIMEOUT
  Worker, Reader, Timer, User,
  Nobody, NoNode, NoDevice, NoEvent

Thread == Worker \cup Reader \cup {Timer, User}

ASSUME IncrAssumption   == Incr \in Nat \ {0}
ASSUME MaxAgeAssumption == MaxAge \subseteq Nat \ {0}
ASSUME LeaverAssumption == Leaver \subseteq Device
ASSUME NobodyAssumption == Nobody \notin Thread
ASSUME NoNodeAssumption == NoNode \notin Node
ASSUME NoDeviceAssumption == NoDevice \notin Device
ASSUME ThreadAssumption ==
  /\ Worker \cap Reader = {}
  /\ Timer # User
  /\ {Timer, User} \cap (Worker \cup Reader) = {}

VARIABLES
  lock,       \* owner of DeviceListMutex
  pc,         \* where each thread is
  event,      \* the SSDP message a worker handles
  devnode,    \* the local DeviceNode (or Device) pointer of a thread
  live,       \* allocated nodes
  listed,     \* the nodes in GlobalDeviceList
  deviceId, name, expires,   \* the fields of each node
  asked,      \* listed nodes searched for since their last advertisement
  todo,       \* nodes the current sweep (timer or RemoveAll) has not reached
  names,      \* pointers to node names returned to a reader
  seen,       \* what an observer knows from the ADDED and REMOVED callbacks
  gone        \* devices that left the network for good

fields  == <<deviceId, name, expires, asked>>
vars    == <<lock, pc, event, devnode, live, listed, fields, todo, names,
             seen, gone>>

Message == [id : Device, expires : MaxAge]

Named(b, i) == IF i = 1 THEN b ELSE Append(b, i)
UsedNames   == {name[n] : n \in listed}

(* Mutant of FirstFree: the suffix is the number of devices so called.      *)
CountedSuffix(b, i) ==
  i = Cardinality({n \in listed : name[n][1] = b[1]}) + 1

(* i is the suffix make_device_name stops at: the first that is not used.  *)
(* One of the first |listed| + 1 names is always free.                     *)
FirstFree(b, i) ==
  /\ Named(b, i) \notin UsedNames
  /\ \A j \in 1..(i - 1) : Named(b, j) \in UsedNames

Matching(d) == {n \in listed : deviceId[n] = d}   \* GetDeviceListNodeFromId

(* Mutant of AlreadyAdded: no second lookup after the download.             *)
NoRecheck(w) == FALSE

AlreadyAdded(w) == Matching(event[w].id) # {}

Goto(t, from, to) ==
  /\ pc[t] = from
  /\ pc' = [pc EXCEPT ![t] = to]

LockFree == lock = Nobody

(* talloc_free of a DeviceNode.                                            *)
Free(n) ==
  /\ live' = live \ {n}
  /\ deviceId' = [deviceId EXCEPT ![n] = NoDevice]
  /\ name' = [name EXCEPT ![n] = << >>]
  /\ expires' = [expires EXCEPT ![n] = 0]
  /\ asked' = asked \ {n}

Init ==
  /\ lock = Nobody
  /\ pc = [t \in Thread |-> "idle"]
  /\ event = [w \in Worker |-> NoEvent]
  /\ devnode = [t \in Worker \cup Reader |-> NoNode]
  /\ live = {} /\ listed = {} /\ asked = {} /\ todo = {}
  /\ deviceId = [n \in Node |-> NoDevice]
  /\ name = [n \in Node |-> << >>]
  /\ expires = [n \in Node |-> 0]
  /\ names = [r \in Reader |-> {}]
  /\ seen = {}
  /\ gone = {}

-----------------------------------------------------------------------------
(* AddDevice, run by a worker for ALIVE and SEARCH_RESULT.                  *)

ReceiveAlive(w) ==
  /\ Goto(w, "idle", "add")
  /\ \E d \in Device \ gone, e \in MaxAge :
       event' = [event EXCEPT ![w] = [id |-> d, expires |-> e]]
  /\ UNCHANGED <<lock, devnode, live, listed, fields, todo, names, seen, gone>>

(* Already listed: only the advertisement timeout is updated.               *)
AddKnown(w) ==
  /\ Goto(w, "add", "report")
  /\ LockFree
  /\ \E n \in Matching(event[w].id) :
       /\ expires' = [expires EXCEPT ![n] = event[w].expires]
       /\ asked' = asked \ {n}
  /\ UNCHANGED <<lock, event, devnode, live, listed, deviceId, name, todo,
                 names, seen, gone>>

(* Not listed: the mutex is released before the description is downloaded. *)
AddUnknown(w) ==
  /\ Goto(w, "add", "download")
  /\ LockFree
  /\ Matching(event[w].id) = {}
  /\ UNCHANGED <<lock, event, devnode, live, listed, fields, todo, names,
                 seen, gone>>

(* No description, one that does not parse, or no service of the target.   *)
DownloadFails(w) ==
  /\ Goto(w, "download", "report")
  /\ UNCHANGED <<lock, event, devnode, live, listed, fields, todo, names,
                 seen, gone>>

Download(w) ==
  /\ Goto(w, "download", "relock")
  /\ \E n \in Node \ live :
       /\ live' = live \cup {n}
       /\ devnode' = [devnode EXCEPT ![w] = n]
  /\ UNCHANGED <<lock, event, listed, fields, todo, names, seen, gone>>

(* Mutant of AddDuplicate: the extraneous node is not freed.                *)
ForgetDuplicate(w) ==
  /\ Goto(w, "relock", "report")
  /\ LockFree
  /\ AlreadyAdded(w)
  /\ devnode' = [devnode EXCEPT ![w] = NoNode]
  /\ UNCHANGED <<lock, event, live, listed, fields, todo, names, seen, gone>>

(* Another thread listed the device meanwhile: delete the extraneous node. *)
AddDuplicate(w) ==
  /\ Goto(w, "relock", "report")
  /\ LockFree
  /\ AlreadyAdded(w)
  /\ Free(devnode[w])
  /\ devnode' = [devnode EXCEPT ![w] = NoNode]
  /\ UNCHANGED <<lock, event, listed, todo, names, seen, gone>>

AddInsert(w) ==
  /\ Goto(w, "relock", "subscribe")
  /\ LockFree
  /\ ~AlreadyAdded(w)
  /\ lock' = w
  /\ LET n == devnode[w] IN
     /\ deviceId' = [deviceId EXCEPT ![n] = event[w].id]
     /\ expires' = [expires EXCEPT ![n] = event[w].expires]
     /\ \E b \in Base : \E i \in 1..(Cardinality(listed) + 1) :
          /\ FirstFree(b, i)
          /\ name' = [name EXCEPT ![n] = Named(b, i)]
     /\ listed' = listed \cup {n}
  /\ UNCHANGED <<event, devnode, live, asked, todo, names, seen, gone>>

(* Device_SusbcribeAllEvents answered; notify and unlock.                   *)
AddNotify(w) ==
  /\ Goto(w, "subscribe", "report")
  /\ seen' = seen \cup {name[devnode[w]]}
  /\ devnode' = [devnode EXCEPT ![w] = NoNode]
  /\ lock' = Nobody
  /\ UNCHANGED <<event, live, listed, fields, todo, names, gone>>

(* DeviceList_GetStatusString, at the end of both kinds of message.         *)
Report(w) ==
  /\ Goto(w, "report", "idle")
  /\ LockFree
  /\ event' = [event EXCEPT ![w] = NoEvent]
  /\ UNCHANGED <<lock, devnode, live, listed, fields, todo, names, seen, gone>>

-----------------------------------------------------------------------------
(* DeviceList_RemoveDevice, run by a worker for BYEBYE.                     *)

ReceiveByeBye(w) ==
  /\ Goto(w, "idle", "bye")
  /\ \E d \in Device, e \in MaxAge :   \* Expires is not used
       event' = [event EXCEPT ![w] = [id |-> d, expires |-> e]]
  /\ UNCHANGED <<lock, devnode, live, listed, fields, todo, names, seen, gone>>

ByeUnknown(w) ==
  /\ Goto(w, "bye", "report")
  /\ LockFree
  /\ Matching(event[w].id) = {}
  /\ UNCHANGED <<lock, event, devnode, live, listed, fields, todo, names,
                 seen, gone>>

(* Unlink and notify under the mutex, ...                                   *)
ByeUnlink(w) ==
  /\ Goto(w, "bye", "free")
  /\ LockFree
  /\ \E n \in Matching(event[w].id) :
       /\ listed' = listed \ {n}
       /\ seen' = seen \ {name[n]}
       /\ devnode' = [devnode EXCEPT ![w] = n]
  /\ UNCHANGED <<lock, event, live, fields, todo, names, gone>>

(* ... free (and unsubscribe) without it, ...                               *)
ByeFree(w) ==
  /\ Goto(w, "free", "freed")
  /\ Free(devnode[w])
  /\ devnode' = [devnode EXCEPT ![w] = NoNode]
  /\ UNCHANGED <<lock, event, listed, todo, names, seen, gone>>

(* ... and take it once more only to release it.                            *)
ByeRelock(w) ==
  /\ Goto(w, "freed", "report")
  /\ LockFree
  /\ UNCHANGED <<lock, event, devnode, live, listed, fields, todo, names,
                 seen, gone>>

-----------------------------------------------------------------------------
(* VerifyTimeouts (timer) and DeviceList_RemoveAll (user): a sweep visits   *)
(* every listed node with the mutex held.                                   *)

SweepStart(t) ==
  /\ Goto(t, "idle", "sweep")
  /\ LockFree
  /\ lock' = t
  /\ todo' = listed
  /\ UNCHANGED <<event, devnode, live, listed, fields, names, seen, gone>>

(* Mutant of Remove: no notification.                                       *)
RemoveSilently(n) ==
  /\ listed' = listed \ {n}
  /\ Free(n)
  /\ UNCHANGED seen

Remove(n) ==
  /\ listed' = listed \ {n}
  /\ seen' = seen \ {name[n]}
  /\ Free(n)

(* Mutant of TickExpire: removed as soon as the advertisement expires.      *)
ExpireAtOnce(n) ==
  /\ expires[n] - Incr <= 0
  /\ Remove(n)

(* Too late: really remove the device.                                      *)
TickExpire(n) ==
  /\ expires[n] - Incr <= -Incr
  /\ Remove(n)

(* Mutant of TickSearch: the search restarts the last period.               *)
SearchForever(n) ==
  /\ expires[n] - Incr > -Incr
  /\ expires[n] - Incr <= 0
  /\ asked' = asked \cup {n}
  /\ UNCHANGED <<live, listed, deviceId, name, expires, seen>>

(* The advertisement has expired: search for the device once more.          *)
TickSearch(n) ==
  /\ expires[n] - Incr > -Incr
  /\ expires[n] - Incr <= 0
  /\ expires' = [expires EXCEPT ![n] = @ - Incr]
  /\ asked' = asked \cup {n}
  /\ UNCHANGED <<live, listed, deviceId, name, seen>>

TickKeep(n) ==
  /\ expires[n] - Incr > 0
  /\ expires' = [expires EXCEPT ![n] = @ - Incr]
  /\ UNCHANGED <<live, listed, deviceId, name, asked, seen>>

Tick ==
  /\ pc[Timer] = "sweep"
  /\ \E n \in todo :
       /\ TickExpire(n) \/ TickSearch(n) \/ TickKeep(n)
       /\ todo' = todo \ {n}
  /\ UNCHANGED <<lock, pc, event, devnode, names, gone>>

RemoveOne ==
  /\ pc[User] = "sweep"
  /\ \E n \in todo :
       /\ Remove(n)
       /\ todo' = todo \ {n}
  /\ UNCHANGED <<lock, pc, event, devnode, names, gone>>

SweepEnd(t) ==
  /\ Goto(t, "sweep", "idle")
  /\ todo = {}
  /\ lock' = Nobody
  /\ UNCHANGED <<event, devnode, live, listed, fields, todo, names, seen, gone>>

-----------------------------------------------------------------------------
(* Readers: DEVICE_LIST_CALL_SERVICE and DEVICE_LIST_CALL_DEVICE.           *)

LockDevice(r) ==
  /\ Goto(r, "idle", "lookup")
  /\ LockFree
  /\ lock' = r
  /\ UNCHANGED <<event, devnode, live, listed, fields, todo, names, seen, gone>>

(* Mutant of LookupFound: unlocked before the method is called.             *)
UnlockBeforeCall(r) ==
  /\ Goto(r, "lookup", "call")
  /\ \E n \in listed : devnode' = [devnode EXCEPT ![r] = n]
  /\ lock' = Nobody
  /\ UNCHANGED <<event, live, listed, fields, todo, names, seen, gone>>

(* The name is listed (and the device has the service): keep the mutex.     *)
LookupFound(r) ==
  /\ Goto(r, "lookup", "call")
  /\ \E n \in listed : devnode' = [devnode EXCEPT ![r] = n]
  /\ UNCHANGED <<lock, event, live, listed, fields, todo, names, seen, gone>>

(* Mutant of LookupFails: returns NULL with the mutex held.                 *)
FailLocked(r) ==
  /\ Goto(r, "lookup", "idle")
  /\ UNCHANGED <<lock, event, devnode, live, listed, fields, todo, names,
                 seen, gone>>

(* No such device or service: unlock at once, the method gets NULL.         *)
LookupFails(r) ==
  /\ Goto(r, "lookup", "idle")
  /\ lock' = Nobody
  /\ UNCHANGED <<event, devnode, live, listed, fields, todo, names, seen, gone>>

(* The method, which may wait for the device's answer, then unlock.         *)
CallReturns(r) ==
  /\ Goto(r, "call", "idle")
  /\ devnode' = [devnode EXCEPT ![r] = NoNode]
  /\ lock' = Nobody
  /\ UNCHANGED <<event, live, listed, fields, todo, names, seen, gone>>

(* DeviceList_GetDevicesNames returns pointers to the names, not copies; ... *)
GetDevicesNames(r) ==
  /\ Goto(r, "idle", "names")
  /\ LockFree
  /\ names' = [names EXCEPT ![r] = listed]
  /\ UNCHANGED <<lock, event, devnode, live, listed, fields, todo, seen, gone>>

(* ... the caller (DJFS BrowseRoot, BrowseDebug) reads them afterwards.     *)
ReadNames(r) ==
  /\ Goto(r, "names", "idle")
  /\ names' = [names EXCEPT ![r] = {}]
  /\ UNCHANGED <<lock, event, devnode, live, listed, fields, todo, seen, gone>>

-----------------------------------------------------------------------------
(* A device leaves the network: its last ALIVE has been received.           *)
Leave(d) ==
  /\ gone' = gone \cup {d}
  /\ UNCHANGED <<lock, pc, event, devnode, live, listed, fields, todo, names,
                 seen>>

AddDevice(w) ==
  \/ AddKnown(w) \/ AddUnknown(w) \/ DownloadFails(w) \/ Download(w)
  \/ AddDuplicate(w) \/ AddInsert(w) \/ AddNotify(w)

RemoveDevice(w) == ByeUnknown(w) \/ ByeUnlink(w) \/ ByeFree(w) \/ ByeRelock(w)

WorkerStep(w) == AddDevice(w) \/ RemoveDevice(w) \/ Report(w)

VerifyTimeouts == SweepStart(Timer) \/ Tick \/ SweepEnd(Timer)
RefreshAll     == SweepStart(User) \/ RemoveOne \/ SweepEnd(User)

CallService(r) == LookupFound(r) \/ LookupFails(r) \/ CallReturns(r)

Next ==
  \/ \E w \in Worker : ReceiveAlive(w) \/ ReceiveByeBye(w) \/ WorkerStep(w)
  \/ VerifyTimeouts
  \/ RefreshAll
  \/ \E r \in Reader :
       LockDevice(r) \/ CallService(r) \/ GetDevicesNames(r) \/ ReadNames(r)
  \/ \E d \in Leaver : Leave(d)

Spec == Init /\ [][Next]_vars

(* Started handlers go on, calls to the network end (libupnp bounds them by *)
(* timeouts), the timer keeps ticking, and a thread that waits for the      *)
(* mutex gets it if the mutex is released again and again.  Nothing obliges *)
(* a message, a FUSE request or a refresh to come.                          *)
Fairness ==
  /\ \A w \in Worker : SF_vars(WorkerStep(w))
  /\ SF_vars(VerifyTimeouts)
  /\ WF_vars(RemoveOne \/ SweepEnd(User))
  /\ \A r \in Reader : WF_vars(CallService(r) \/ ReadNames(r))

FairSpec == Spec /\ Fairness
-----------------------------------------------------------------------------
(* Properties.                                                              *)

WorkerPC == {"idle", "add", "download", "relock", "subscribe", "report",
             "bye", "free", "freed"}
PC == WorkerPC \cup {"sweep", "lookup", "call", "names"}

(* Every variable keeps its type.                                           *)
TypeOK ==
  /\ lock \in Thread \cup {Nobody}
  /\ pc \in [Thread -> PC]
  /\ event \in [Worker -> Message \cup {NoEvent}]
  /\ devnode \in [Worker \cup Reader -> Node \cup {NoNode}]
  /\ live \subseteq Node /\ listed \subseteq Node
  /\ asked \subseteq Node /\ todo \subseteq Node
  /\ deviceId \in [Node -> Device \cup {NoDevice}]
  /\ DOMAIN name = Node
  /\ expires \in [Node -> Int]
  /\ names \in [Reader -> SUBSET Node]
  /\ gone \subseteq Device

(* A device is listed once, however many of its messages are handled at the *)
(* same time: AddDevice looks again after the unlocked download.            *)
UniqueIds ==
  \A m, n \in listed : deviceId[m] = deviceId[n] => m = n

(* Two listed devices never share a name, even when one is called "tv_2"    *)
(* and another is the second "tv": a name leads to one directory.           *)
UniqueNames ==
  \A m, n \in listed : name[m] = name[n] => m = n

(* The node a worker alone holds: built and not yet listed, or unlinked and *)
(* not yet freed.                                                           *)
Owning     == {"relock", "free"}
Owns(w, n) == pc[w] \in Owning /\ devnode[w] = n

(* No leak and no double free: an allocated node is in the list or belongs  *)
(* to exactly one worker, never both, whatever handlers interleave.         *)
OneOwner ==
  /\ listed \subseteq live
  /\ \A n \in live \ listed : \E w \in Worker : Owns(w, n)
  /\ \A w \in Worker : pc[w] \in Owning => devnode[w] \in live \ listed
  /\ \A v, w \in Worker, n \in Node : Owns(v, n) /\ Owns(w, n) => v = w

(* A device on which a FUSE thread waits for an answer, or whose            *)
(* subscription is under way, stays listed (so allocated) until the call is *)
(* over: ByeBye, timer and refresh cannot free it.                          *)
CalledIsListed ==
  \A t \in Worker \cup Reader :
    pc[t] \in {"subscribe", "call"} => devnode[t] \in listed

(* Whoever replays the ADDED and REMOVED notifications knows exactly the    *)
(* names of the list each time the mutex is free.                           *)
ObserverExact == LockFree => seen = UsedNames

(* VerifyTimeouts removes a device only if it searched for it on an earlier *)
(* tick and no advertisement has come since.                                *)
ExpiryIsAnnounced ==
  [][\A n \in listed \ listed' : lock = Timer => n \in asked]_vars

(* A device that left the network without a ByeBye, or whose ByeBye came    *)
(* while its description was downloaded, is eventually forgotten for good.  *)
GoneIsForgotten ==
  \A d \in Device : (d \in gone) ~> [](\A n \in listed : deviceId[n] # d)

(* The mutex is always released, whatever path its owner takes.             *)
LockReleased == (lock # Nobody) ~> (lock = Nobody)

(* The list seen as the directory of its clients.                           *)
DirectoryOf(nodes, id, nm) ==
  [d \in {id[n] : n \in nodes} |-> nm[CHOOSE n \in nodes : id[n] = d]]

Directory == DirectoryOf(listed, deviceId, name)

Abstract == INSTANCE DeviceDirectory WITH dir <- Directory

(* The device list implements the directory: a device enters and leaves one *)
(* at a time, with a name of its own that does not change meanwhile.        *)
ImplementsDirectory == Abstract!Spec
=============================================================================
