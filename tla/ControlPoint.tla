----------------------------- MODULE ControlPoint -----------------------------
(***************************************************************************)
(* The control point of libupnp as djmount uses it: searches and their     *)
(* expiry (ssdp_ctrlpt.c), subscriptions, their renewal and their first    *)
(* event (gena_ctrlpt.c), the messages of the miniserver (miniserver.c),   *)
(* and the end of it all (upnpapi.c, DeviceList_Stop in device_list.c).    *)
(*                                                                         *)
(* What runs: the thread of djmount that searches, receivers (the jobs of  *)
(* gRecvThreadPool, each with a message), one job for each event of the    *)
(* timer (in gSendThreadPool), the miniserver, and the thread that stops.  *)
(* GlobalHndMutex is held across steps only while an event is scheduled:   *)
(* the time is read first and the mutex of the timer is awaited then.      *)
(***************************************************************************)
EXTENDS Timer

CONSTANTS
  Main, Searcher,  \* the thread that stops, the thread that searches
  Receiver,        \* jobs of gRecvThreadPool for datagrams and results
  Notified,        \* jobs of gRecvThreadPool for events
  Sid,             \* subscriptions a device may grant; a sid is never reused
  NoSid, Search,   \* what an event is for, beside a sid
  MaxWait,         \* seconds until a search or a renewal is due, at most
  MaxResults       \* bound: results waiting to be reported

VARIABLES
  client,          \* the client is registered: its handle is in HandleTable
  searches,        \* its SsdpSearchList, by the id of the timeout
  subs,            \* its ClientSubList: [sid -> RenewEventId]
  device,          \* what the device did with each sid
  pc, at,          \* of every thread and every job, and the sid of receivers
  handle,          \* who has GlobalHndMutex, and the time it schedules for
  what,            \* the search or the sid each event is for
  results,         \* send_search_result jobs in the queue
  mini,            \* gMServState
  stopMsg          \* a "ShutDown" is on its way

cpVars == <<client, searches, subs, device, pc, at, handle, what, results, mini, stopMsg>>
vars == <<timerVars, cpVars>>

Actor == {Main, Searcher} \cup Receiver \cup Notified \cup EventId

Unlocked == [owner |-> NoSid, time |-> 0]

HandleFree == handle = Unlocked

(* The threads and jobs are different from each other and from NoSid.      *)
ASSUME ActorAssumption ==
  /\ Main # Searcher /\ NoSid \notin Actor
  /\ {Main, Searcher} \cap (Receiver \cup Notified \cup EventId) = {}
  /\ Receiver \cap Notified = {} /\ (Receiver \cup Notified) \cap EventId = {}

(* No subscription is confused with a search, or with none.                *)
ASSUME SidAssumption == Search # NoSid /\ Sid \cap {NoSid, Search} = {}

ASSUME BoundAssumption == MaxWait \in Nat /\ MaxResults \in Nat

Init ==
  /\ TimerInit
  /\ client = TRUE
  /\ searches = {}
  /\ subs = << >>
  /\ device = [s \in Sid |-> "unasked"]
  /\ pc = [a \in Actor |-> "idle"]
  /\ at = [r \in Receiver \cup Notified |-> NoSid]
  /\ handle = Unlocked
  /\ what = [id \in EventId |-> NoSid]
  /\ results = 0
  /\ mini = "running"
  /\ stopMsg = FALSE

Goto(a, from, to) == pc[a] = from /\ pc' = [pc EXCEPT ![a] = to]

(* a reads the clock and will schedule; the bounds keep time and ids finite. *)
Locks(a) ==
  \E wait \in 0 .. MaxWait :
    /\ now + wait <= Horizon /\ lastEventId < MaxId
    /\ handle' = [owner |-> a, time |-> now + wait]

Schedules(a, for) ==
  /\ handle.owner = a
  /\ TimerThreadSchedule(handle.time)
  /\ what' = [what EXCEPT ![lastEventId] = for]
  /\ handle' = Unlocked

-----------------------------------------------------------------------------
(***************************************************************************)
(* Searches.                                                               *)
(***************************************************************************)
(* UpnpSearchAsync looks at the handle, and unlocks ... *)
SearchAsync ==
  /\ HandleFree /\ client /\ pc[Main] # "over"
  /\ Goto(Searcher, "idle", "search")
  /\ UNCHANGED <<timerVars, client, searches, subs, device, at, handle, what, results, mini, stopMsg>>

(* Mutant: ... and SearchByTarget does not look again. *)
SearchByTargetUnchecked ==
  /\ HandleFree
  /\ Goto(Searcher, "search", "schedule") /\ Locks(Searcher)
  /\ UNCHANGED <<timerVars, client, searches, subs, device, at, what, results, mini, stopMsg>>

(* ... before SearchByTarget, which looks again. *)
SearchByTarget ==
  /\ HandleFree
  /\ \/ client /\ Goto(Searcher, "search", "schedule") /\ Locks(Searcher)
     \/ ~client /\ Goto(Searcher, "search", "idle") /\ UNCHANGED handle
  /\ UNCHANGED <<timerVars, client, searches, subs, device, at, what, results, mini, stopMsg>>

SearchScheduled ==
  /\ Schedules(Searcher, Search)
  /\ Goto(Searcher, "schedule", "idle")
  /\ searches' = searches \cup {lastEventId}
  /\ UNCHANGED <<client, subs, device, at, results, mini, stopMsg>>

(* Mutant: the search stays in the list. *)
SearchExpiredStays(id) ==
  /\ HandleFree
  /\ id \in fired /\ what[id] = Search
  /\ fired' = fired \ {id}
  /\ Goto(id, "idle", "over")
  /\ UNCHANGED <<now, eventQ, lastEventId, stopping, timer, client, searches, subs, device, at, handle, what, results, mini, stopMsg>>

(* Its callback, which does nothing in djmount, is part of the step. *)
searchExpired(id) ==
  /\ HandleFree
  /\ id \in fired /\ what[id] = Search
  /\ fired' = fired \ {id}
  /\ Goto(id, "idle", "over")
  /\ searches' = IF client THEN searches \ {id} ELSE searches
  /\ UNCHANGED <<now, eventQ, lastEventId, stopping, timer, client, subs, device, at, handle, what, results, mini, stopMsg>>

-----------------------------------------------------------------------------
(***************************************************************************)
(* Receivers.  A job waits in the pool until it has GlobalHndMutex, and    *)
(* does nothing when there is no client.                                   *)
(***************************************************************************)
Done(r, from) == Goto(r, from, "idle") /\ at' = [at EXCEPT ![r] = NoSid]

(* RunMiniServer has read a datagram: ssdp_handle_ctrlpt_msg copies the    *)
(* callback and unlocks, for an announcement or an answer to a search.     *)
Message(r) ==
  /\ HandleFree /\ mini # "idle" /\ client
  /\ \E next \in {"callback", "reply"} : Goto(r, "idle", next)
  /\ UNCHANGED <<timerVars, client, searches, subs, device, at, handle, what, results, mini, stopMsg>>

(* An answer makes one job for each search whose target it matches. *)
Reply(r) ==
  /\ HandleFree
  /\ Goto(r, "reply", "idle")
  /\ \E matched \in SUBSET searches :
       /\ results + Cardinality(matched) <= MaxResults
       /\ results' = IF client THEN results + Cardinality(matched) ELSE results
  /\ UNCHANGED <<timerVars, client, searches, subs, device, at, handle, what, mini, stopMsg>>

send_search_result(r) ==
  /\ results > 0
  /\ results' = results - 1
  /\ Goto(r, "idle", "callback")
  /\ UNCHANGED <<timerVars, client, searches, subs, device, at, handle, what, mini, stopMsg>>

(* The callback of djmount subscribes, unsubscribes, or neither. *)
Callback(r) ==
  /\ \/ Goto(r, "callback", "idle") /\ UNCHANGED at
     \/ Goto(r, "callback", "subscribe") /\ UNCHANGED at
     \/ /\ HandleFree /\ Goto(r, "callback", "unsubscribe")
        /\ \E s \in DOMAIN subs : at' = [at EXCEPT ![r] = s]
  /\ UNCHANGED <<timerVars, client, searches, subs, device, handle, what, results, mini, stopMsg>>

-----------------------------------------------------------------------------
(***************************************************************************)
(* Subscriptions.                                                          *)
(***************************************************************************)
Subscribing == {r \in Receiver : pc[r] \in {"ask", "granted", "schedule"}}

SubscribeFree == Subscribing = {}

(* genaSubscribe takes GlobalClientSubscribeMutex for its request ... *)
genaSubscribe(r) ==
  /\ HandleFree /\ SubscribeFree
  /\ Goto(r, "subscribe", IF client THEN "ask" ELSE "idle")
  /\ UNCHANGED <<timerVars, client, searches, subs, device, at, handle, what, results, mini, stopMsg>>

(* ... which the device grants, or the answer is lost, or there is none ... *)
Ask(r) ==
  /\ \/ \E s \in Sid : /\ device[s] = "unasked"
                       /\ device' = [device EXCEPT ![s] = "granted"]
                       /\ at' = [at EXCEPT ![r] = s]
                       /\ Goto(r, "ask", "granted")
     \/ \E s \in Sid : /\ device[s] = "unasked"
                       /\ device' = [device EXCEPT ![s] = "forgotten"]
                       /\ Done(r, "ask")
     \/ Done(r, "ask") /\ UNCHANGED device
  /\ UNCHANGED <<timerVars, client, searches, subs, handle, what, results, mini, stopMsg>>

Added(s, id) == [k \in DOMAIN subs \cup {s} |-> IF k = s THEN id ELSE subs[k]]

(* A time of "infinite": ScheduleGenaAutoRenew schedules nothing. *)
Endless(s) == device' = [device EXCEPT ![s] = "endless"]

(* ... and adds the subscription, whose renewal it schedules. *)
Granted(r) ==
  /\ HandleFree
  /\ \/ /\ client /\ Goto(r, "granted", "schedule") /\ Locks(r)
        /\ UNCHANGED <<subs, device, at>>
     \/ /\ client /\ Done(r, "granted") /\ Endless(at[r]) /\ UNCHANGED handle
        /\ subs' = Added(at[r], NoEvent)
     \/ /\ ~client /\ Done(r, "granted") /\ UNCHANGED <<handle, subs>>
        /\ device' = [device EXCEPT ![at[r]] = "forgotten"]
  /\ UNCHANGED <<timerVars, client, searches, what, results, mini, stopMsg>>

Subscribed(r) ==
  /\ Schedules(r, at[r])
  /\ Done(r, "schedule")
  /\ subs' = Added(at[r], lastEventId)
  /\ UNCHANGED <<client, searches, device, results, mini, stopMsg>>

(* Mutant: the subscription is removed, its event stays. *)
RemovedWithEvent(s) ==
  /\ subs' = [k \in DOMAIN subs \ {s} |-> subs[k]]
  /\ device' = [k \in Sid |-> IF k = s THEN "forgotten" ELSE device[k]]
  /\ UNCHANGED timerVars

(* RemoveClientSubClientSID, with free_client_subscription. *)
RemoveClientSub(s) ==
  /\ subs' = [k \in DOMAIN subs \ {s} |-> subs[k]]
  /\ device' = [k \in Sid |-> IF k = s THEN "forgotten" ELSE device[k]]
  /\ IF s \in DOMAIN subs /\ subs[s] # NoEvent THEN TimerThreadRemove(subs[s]) ELSE UNCHANGED timerVars

(* genaUnSubscribe has asked the device. *)
genaUnSubscribe(r) ==
  /\ HandleFree
  /\ Done(r, "unsubscribe")
  /\ IF client THEN RemoveClientSub(at[r]) ELSE UNCHANGED <<timerVars, subs, device>>
  /\ UNCHANGED <<client, searches, handle, what, results, mini, stopMsg>>

(* genaRenewSubscription cancels what is scheduled, and asks the device. *)
Renew(id) ==
  LET s == what[id] IN
  /\ HandleFree
  /\ id \in fired /\ s \in Sid
  /\ fired' = fired \ {id}
  /\ IF client /\ s \in DOMAIN subs
     THEN /\ Goto(id, "idle", "renew")
          /\ subs' = [subs EXCEPT ![s] = NoEvent]
          /\ MutexFree
          /\ Drop(subs[s])
     ELSE Goto(id, "idle", "over") /\ UNCHANGED <<subs, eventQ>>
  /\ UNCHANGED <<now, lastEventId, stopping, timer, client, searches, device, at, handle, what, results, mini, stopMsg>>

(* The device has answered: the subscription may be gone, and if it did    *)
(* not renew it, it goes now.                                              *)
RenewAnswered(id) ==
  LET s == what[id] IN
  /\ HandleFree
  /\ \/ ~client /\ Goto(id, "renew", "over") /\ UNCHANGED <<timerVars, subs, device, handle>>
     \/ client /\ Goto(id, "renew", "failed") /\ RemoveClientSub(s) /\ UNCHANGED handle
     \/ /\ client /\ s \notin DOMAIN subs
        /\ Goto(id, "renew", "over") /\ UNCHANGED <<timerVars, subs, device, handle>>
     \/ /\ client /\ s \in DOMAIN subs
        /\ Goto(id, "renew", "schedule") /\ Locks(id) /\ UNCHANGED <<timerVars, subs, device>>
     \/ /\ client /\ s \in DOMAIN subs
        /\ Goto(id, "renew", "over") /\ Endless(s) /\ UNCHANGED <<timerVars, subs, handle>>
  /\ UNCHANGED <<client, searches, at, what, results, mini, stopMsg>>

Renewed(id) ==
  /\ Schedules(id, what[id])
  /\ Goto(id, "schedule", "over")
  /\ subs' = [subs EXCEPT ![what[id]] = lastEventId]
  /\ UNCHANGED <<client, searches, device, at, results, mini, stopMsg>>

(* The callback for a renewal that failed, if the client is still there.   *)
RenewFailed(id) ==
  /\ HandleFree
  /\ Goto(id, "failed", "over")
  /\ UNCHANGED <<timerVars, client, searches, subs, device, at, handle, what, results, mini, stopMsg>>

-----------------------------------------------------------------------------
(***************************************************************************)
(* gena_process_notification_event, for the first event of a subscription. *)
(***************************************************************************)
(* Mutant: it does not wait, but looks again at once. *)
EventAgainAtOnce(r) ==
  /\ HandleFree
  /\ Done(r, "await")
  /\ UNCHANGED <<timerVars, client, searches, subs, device, handle, what, results, mini, stopMsg>>

(* An event of a known subscription goes to the callback of djmount, which *)
(* takes the new values; another one waits for the subscription that may   *)
(* be under way, and is refused if it is unknown even then.                *)
Event(r, s) ==
  /\ HandleFree /\ mini # "idle" /\ client
  /\ device[s] # "unasked" /\ s \notin DOMAIN subs
  /\ Goto(r, "idle", "await")
  /\ at' = [at EXCEPT ![r] = s]
  /\ UNCHANGED <<timerVars, client, searches, subs, device, handle, what, results, mini, stopMsg>>

EventAgain(r) ==
  /\ HandleFree /\ SubscribeFree
  /\ Done(r, "await")
  /\ UNCHANGED <<timerVars, client, searches, subs, device, handle, what, results, mini, stopMsg>>

-----------------------------------------------------------------------------
(***************************************************************************)
(* The end: DeviceList_Stop, UpnpUnRegisterClient and UpnpFinish.          *)
(***************************************************************************)
Stop ==
  /\ Goto(Main, "idle", "gena")
  /\ UNCHANGED <<timerVars, client, searches, subs, device, at, handle, what, results, mini, stopMsg>>

(* genaUnregisterClient unsubscribes one subscription after the other. *)
genaUnregisterClient ==
  /\ HandleFree
  /\ IF subs = << >>
     THEN Goto(Main, "gena", "unregister") /\ UNCHANGED <<timerVars, subs, device>>
     ELSE /\ Goto(Main, "gena", "gena")
          /\ \E s \in DOMAIN subs : RemoveClientSub(s)
  /\ UNCHANGED <<client, searches, at, handle, what, results, mini, stopMsg>>

(* What is left of the lists is lost with the handle. *)
UpnpUnRegisterClient ==
  /\ HandleFree
  /\ Goto(Main, "unregister", "timer")
  /\ client' = FALSE
  /\ searches' = {}
  /\ subs' = << >>
  /\ UNCHANGED <<timerVars, device, at, handle, what, results, mini, stopMsg>>

TimerThreadShutdown ==
  /\ Goto(Main, "timer", "timer_wait")
  /\ ShutdownBegin
  /\ UNCHANGED <<client, searches, subs, device, at, handle, what, results, mini, stopMsg>>

TimerThreadGone ==
  /\ Goto(Main, "timer_wait", "mini")
  /\ ShutdownEnd
  /\ UNCHANGED <<client, searches, subs, device, at, handle, what, results, mini, stopMsg>>

(* StopMiniServer opens a socket; without one it returns, and the         *)
(* miniserver goes on.                                                     *)
StopMiniServer ==
  /\ IF mini = "running"
     THEN mini' = "stopping" /\ \E next \in {"shut", "send"} : Goto(Main, "mini", next)
     ELSE Goto(Main, "mini", "send") /\ UNCHANGED mini
  /\ UNCHANGED <<timerVars, client, searches, subs, device, at, handle, what, results, stopMsg>>

(* Mutant: it sends its datagram once. *)
SendShutDownOnce ==
  /\ pc[Main] = "shut"
  /\ \/ mini = "stopping" /\ stopMsg' = TRUE /\ mini' = "asked" /\ UNCHANGED pc
     \/ mini = "idle" /\ Goto(Main, "shut", "send") /\ UNCHANGED <<mini, stopMsg>>
  /\ UNCHANGED <<timerVars, client, searches, subs, device, at, handle, what, results>>

(* It sends its datagram until the miniserver is idle. *)
SendShutDown ==
  /\ pc[Main] = "shut"
  /\ IF mini # "idle"
     THEN stopMsg' = TRUE /\ UNCHANGED pc
     ELSE Goto(Main, "shut", "send") /\ UNCHANGED stopMsg
  /\ UNCHANGED <<timerVars, client, searches, subs, device, at, handle, what, results, mini>>

MessageLost ==
  /\ stopMsg /\ stopMsg' = FALSE
  /\ UNCHANGED <<timerVars, client, searches, subs, device, pc, at, handle, what, results, mini>>

RunMiniServer ==
  /\ stopMsg /\ stopMsg' = FALSE
  /\ mini' = "idle"
  /\ UNCHANGED <<timerVars, client, searches, subs, device, pc, at, handle, what, results>>

(* ThreadPoolShutdown frees the jobs in the queues, and waits for those    *)
(* that run: first the pool of the timer, then the one of the receivers,   *)
(* where the miniserver runs too.                                          *)
SendPoolShutdown ==
  /\ \A id \in EventId : pc[id] \in {"idle", "over"}
  /\ Goto(Main, "send", "recv")
  /\ fired' = {}
  /\ UNCHANGED <<now, eventQ, lastEventId, stopping, timer, client, searches, subs, device, at, handle, what, results, mini, stopMsg>>

RecvPoolShutdown ==
  /\ \A r \in Receiver \cup Notified : pc[r] = "idle"
  /\ mini = "idle"
  /\ Goto(Main, "recv", "over")
  /\ results' = 0
  /\ UNCHANGED <<timerVars, client, searches, subs, device, at, handle, what, mini, stopMsg>>

-----------------------------------------------------------------------------
SearchSteps == SearchByTarget \/ SearchScheduled

JobSteps(id) ==
  searchExpired(id) \/ Renew(id) \/ RenewAnswered(id) \/ Renewed(id) \/ RenewFailed(id)

ReceiverSteps(r) ==
  \/ Reply(r) \/ send_search_result(r) \/ Callback(r)
  \/ genaSubscribe(r) \/ Ask(r) \/ Granted(r) \/ Subscribed(r) \/ genaUnSubscribe(r)

MainSteps ==
  \/ genaUnregisterClient \/ UpnpUnRegisterClient \/ TimerThreadShutdown \/ TimerThreadGone
  \/ StopMiniServer \/ SendShutDown \/ SendPoolShutdown \/ RecvPoolShutdown

TimerSteps == (TimerThreadWorker \/ Tick) /\ UNCHANGED cpVars

Next ==
  \/ SearchAsync \/ SearchSteps
  \/ \E id \in EventId : JobSteps(id)
  \/ \E r \in Receiver : Message(r) \/ ReceiverSteps(r)
  \/ \E r \in Notified : EventAgain(r) \/ \E s \in Sid : Event(r, s)
  \/ Stop \/ MainSteps \/ MessageLost \/ RunMiniServer
  \/ TimerSteps

Spec == Init /\ [][Next]_vars

(* Every thread is scheduled, gets the mutexes it waits for and an answer  *)
(* or a timeout from the network; the clock runs; and of the datagrams     *)
(* that StopMiniServer repeats one arrives.                                *)
FairSpec ==
  /\ Spec
  /\ WF_vars(SearchSteps) /\ WF_vars(MainSteps)
  /\ WF_vars(TimerThreadWorker /\ UNCHANGED cpVars)
  /\ WF_vars(Tick /\ UNCHANGED cpVars)
  /\ \A id \in EventId : WF_vars(JobSteps(id))
  /\ \A r \in Receiver : WF_vars(ReceiverSteps(r))
  /\ \A r \in Notified : WF_vars(EventAgain(r))
  /\ SF_vars(RunMiniServer)

-----------------------------------------------------------------------------
(***************************************************************************)
(* Properties.                                                             *)
(***************************************************************************)
(* Where a thread or a job can be. *)
Stage ==
  {"idle", "over", "schedule"} \cup {"search", "renew", "failed"}
    \cup {"callback", "reply", "subscribe", "unsubscribe", "ask", "granted", "await"}
    \cup {"gena", "unregister", "timer", "timer_wait", "mini", "shut", "send", "recv"}

TypeOK ==
  /\ now \in 0 .. Horizon /\ lastEventId \in 0 .. MaxId /\ stopping \in BOOLEAN
  /\ eventQ \in Seq([id : EventId, time : 0 .. Horizon]) /\ fired \subseteq EventId
  /\ timer \in [pc : {"woken", "loop", "wait", "gone"}, until : 0 .. Forever]
  /\ client \in BOOLEAN /\ searches \subseteq EventId
  /\ DOMAIN subs \subseteq Sid /\ \A s \in DOMAIN subs : subs[s] \in EventId \cup {NoEvent}
  /\ device \in [Sid -> {"unasked", "granted", "endless", "forgotten"}]
  /\ pc \in [Actor -> Stage] /\ at \in [Receiver \cup Notified -> Sid \cup {NoSid}]
  /\ handle = Unlocked \/ handle \in [owner : Actor, time : 0 .. Horizon]
  /\ what \in [EventId -> Sid \cup {NoSid, Search}]
  /\ results \in 0 .. MaxResults /\ stopMsg \in BOOLEAN
  /\ mini \in {"running", "stopping", "idle"}

Pending == Queued \cup fired

(* Every search in the list has a timeout that has not been handled, and   *)
(* every subscription with an end one renewal, scheduled or under way,     *)
(* however searches, renewals, unsubscriptions and the end overlap; nothing *)
(* stays scheduled for a subscription that is gone.                        *)
RenewalsOf(s) ==
  {id \in Pending : what[id] = s}
    \cup {id \in EventId : what[id] = s /\ pc[id] \in {"renew", "schedule"}}

OneTimeoutEach ==
  /\ \A id \in searches : what[id] = Search /\ id \in Pending
  /\ \A s \in DOMAIN subs : /\ Cardinality(RenewalsOf(s)) = IF device[s] = "endless" THEN 0 ELSE 1
                           /\ RenewalsOf(s) \cap Pending \subseteq {subs[s]}
  /\ client => \A id \in Queued : what[id] \in Sid => what[id] \in DOMAIN subs

(* The first event of a subscription may overtake the answer of the device *)
(* that grants it: it is refused only if the subscription is gone.         *)
FirstEventKept ==
  [][\A r \in Notified :
       pc[r] = "await" /\ pc'[r] = "idle" /\ client /\ at[r] \notin DOMAIN subs
         => device[at[r]] = "forgotten"]_vars

(* When UpnpFinish returns, and DeviceList_Stop frees what the callbacks   *)
(* use, no thread of libupnp runs, no job is left and no memory of one.    *)
EndIsQuiet ==
  pc[Main] = "over" =>
    /\ timer.pc = "gone" /\ mini = "idle"
    /\ Pending = {} /\ results = 0
    /\ \A a \in Receiver \cup Notified \cup EventId : pc[a] \in {"idle", "over"}

(* Nothing is scheduled once the timer is being shut down: its mutex and   *)
(* its queue are destroyed, while searches and renewals may be under way.  *)
TimerAlive == [][lastEventId' # lastEventId => ~stopping /\ timer.pc # "gone"]_vars

(* Every search ends, at its timeout or with the client. *)
SearchEnds == \A id \in EventId : id \in searches ~> id \notin searches

(* DeviceList_Stop returns, whatever searches, renewals and events are     *)
(* under way when it begins: no thread it waits for waits for another.     *)
(* There is one exception: if StopMiniServer gets no socket                *)
(* (miniserver.c:869-875), the miniserver is not told to end, and its pool *)
(* waits for it forever.                                                   *)
NotTold == mini = "stopping" /\ pc[Main] = "recv"

StopReturns == pc[Main] = "gena" ~> pc[Main] = "over" \/ NotTold
=============================================================================
