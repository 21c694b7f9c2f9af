-------------------------- MODULE DeviceListProofs --------------------------
(***************************************************************************)
(* Safety of the device list for any number of devices, threads and nodes. *)
(* IInv is the inductive invariant: its parts say what each thread may     *)
(* hold at each point, in particular that the threads inside a critical    *)
(* section are exactly the owner of DeviceListMutex.                       *)
(***************************************************************************)
EXTENDS DeviceList, TLAPS

Locked == {"subscribe", "sweep", "lookup", "call"}

(* Which control points each kind of thread has.                            *)
PcInv ==
  /\ \A w \in Worker : pc[w] \in WorkerPC
  /\ \A t \in {Timer, User} : pc[t] \in {"idle", "sweep"}
  /\ \A r \in Reader : pc[r] \in {"idle", "lookup", "call", "names"}

LockInv == \A t \in Thread : pc[t] \in Locked <=> lock = t

EventInv == \A w \in Worker : pc[w] # "idle" => event[w] \in Message

TodoInv ==
  /\ todo \subseteq listed
  /\ lock \notin {Timer, User} => todo = {}

(* Until it searched for a device, the timer has some of its lifetime left. *)
GraceInv == \A n \in listed : expires[n] <= 0 => n \in asked

(* A listed node has its id.                                                *)
IdsInv == \A n \in listed : deviceId[n] \in Device

Subscribing == {devnode[w] : w \in {v \in Worker : pc[v] = "subscribe"}}

ObserverInv == seen = {name[n] : n \in listed \ Subscribing}

IInv ==
  /\ TypeOK /\ PcInv /\ LockInv /\ EventInv /\ TodoInv /\ GraceInv
  /\ IdsInv /\ OneOwner /\ CalledIsListed
  /\ UniqueIds /\ UniqueNames /\ ObserverInv

-----------------------------------------------------------------------------
(* The constants are as DeviceList assumes; every step uses them.           *)
USE ThreadAssumption, NobodyAssumption, NoNodeAssumption, NoDeviceAssumption,
    MaxAgeAssumption, IncrAssumption, LeaverAssumption DEF Thread, WorkerPC, PC

LEMMA Initial == Init => IInv
  BY DEF Init, IInv, TypeOK, PcInv, LockInv, EventInv, TodoInv, GraceInv,
         IdsInv, OneOwner, Owns, Owning, CalledIsListed, UniqueIds, UniqueNames,
         ObserverInv, Subscribing, Locked

(* A busy worker has a message; its fields are a UDN and a lifetime.        *)
LEMMA EventFields ==
  ASSUME IInv, NEW w \in Worker, pc[w] # "idle"
  PROVE  event[w].id \in Device /\ event[w].expires \in Nat \ {0}
  BY DEF IInv, EventInv, Message

(* The node a worker owns is allocated and not listed.                      *)
LEMMA OwnedNode ==
  ASSUME IInv, NEW w \in Worker, pc[w] \in Owning
  PROVE  devnode[w] \in Node /\ devnode[w] \in live \ listed
  BY DEF IInv, TypeOK, OneOwner

(* Only these actions touch the list, the fields of its nodes or the        *)
(* observer.                                                                *)
ListStep(w) ==
  \/ AddKnown(w) \/ AddDuplicate(w) \/ AddInsert(w) \/ AddNotify(w)
  \/ ByeUnlink(w) \/ ByeFree(w)

LEMMA ListFrame ==
  ASSUME [Next]_vars
  PROVE  \/ \E w \in Worker : ListStep(w)
         \/ Tick
         \/ RemoveOne
         \/ UNCHANGED <<listed, fields, seen>>
  BY DEF Next, WorkerStep, AddDevice, RemoveDevice, VerifyTimeouts, RefreshAll,
         CallService, ListStep, vars, fields, ReceiveAlive, AddUnknown, DownloadFails, Download, Report,
         ReceiveByeBye, ByeUnknown, ByeRelock, SweepStart, SweepEnd,
         LockDevice, LookupFound, LookupFails, CallReturns, GetDevicesNames,
         ReadNames, Leave

(* Type correctness.                                                        *)
LEMMA TypeStep == IInv /\ [Next]_vars => TypeOK'
  <1> SUFFICES ASSUME IInv, [Next]_vars PROVE TypeOK'
    OBVIOUS
  <1> USE DEF IInv, Goto, LockFree, fields, TypeOK, PcInv
  <1>1. ASSUME NEW w \in Worker, ReceiveAlive(w) PROVE TypeOK'
    BY <1>1 DEF ReceiveAlive, Message
  <1>2. ASSUME NEW w \in Worker, AddKnown(w) PROVE TypeOK'
    BY <1>2, EventFields DEF AddKnown, Matching
  <1>3. ASSUME NEW w \in Worker, AddUnknown(w) PROVE TypeOK'
    BY <1>3 DEF AddUnknown
  <1>4. ASSUME NEW w \in Worker, DownloadFails(w) PROVE TypeOK'
    BY <1>4 DEF DownloadFails
  <1>5. ASSUME NEW w \in Worker, Download(w) PROVE TypeOK'
    BY <1>5 DEF Download
  <1>6. ASSUME NEW w \in Worker, AddDuplicate(w) PROVE TypeOK'
    BY <1>6, OwnedNode DEF AddDuplicate, Owning, Free
  <1>7. ASSUME NEW w \in Worker, AddInsert(w) PROVE TypeOK'
    BY <1>7, OwnedNode, EventFields DEF AddInsert, Owning
  <1>8. ASSUME NEW w \in Worker, AddNotify(w) PROVE TypeOK'
    BY <1>8 DEF AddNotify
  <1>9. ASSUME NEW w \in Worker, Report(w) PROVE TypeOK'
    BY <1>9 DEF Report
  <1>10. ASSUME NEW w \in Worker, ReceiveByeBye(w) PROVE TypeOK'
    BY <1>10 DEF ReceiveByeBye, Message
  <1>11. ASSUME NEW w \in Worker, ByeUnknown(w) PROVE TypeOK'
    BY <1>11 DEF ByeUnknown
  <1>12. ASSUME NEW w \in Worker, ByeUnlink(w) PROVE TypeOK'
    BY <1>12 DEF ByeUnlink, Matching
  <1>13. ASSUME NEW w \in Worker, ByeFree(w) PROVE TypeOK'
    BY <1>13, OwnedNode DEF ByeFree, Owning, Free
  <1>14. ASSUME NEW w \in Worker, ByeRelock(w) PROVE TypeOK'
    BY <1>14 DEF ByeRelock
  <1>15. ASSUME NEW t \in {Timer, User}, SweepStart(t) PROVE TypeOK'
    BY <1>15 DEF SweepStart
  <1>16. ASSUME Tick PROVE TypeOK'
    <2>1. PICK n \in todo : /\ TickExpire(n) \/ TickSearch(n) \/ TickKeep(n)
                         /\ todo' = todo \ {n}
      BY <1>16 DEF Tick
    <2>2. UNCHANGED <<lock, pc, event, devnode, names, gone>>
      BY <1>16 DEF Tick
    <2>3. CASE TickExpire(n)
      BY <2>1, <2>2, <2>3 DEF TickExpire, Remove, Free
    <2>4. CASE TickSearch(n)
      BY <2>1, <2>2, <2>4 DEF TickSearch
    <2>5. CASE TickKeep(n)
      BY <2>1, <2>2, <2>5 DEF TickKeep
    <2>6. QED
      BY <2>1, <2>3, <2>4, <2>5
  <1>17. ASSUME RemoveOne PROVE TypeOK'
    BY <1>17 DEF RemoveOne, Remove, Free
  <1>18. ASSUME NEW t \in {Timer, User}, SweepEnd(t) PROVE TypeOK'
    BY <1>18 DEF SweepEnd
  <1>19. ASSUME NEW r \in Reader, LockDevice(r) PROVE TypeOK'
    BY <1>19 DEF LockDevice
  <1>20. ASSUME NEW r \in Reader, LookupFound(r) PROVE TypeOK'
    BY <1>20 DEF LookupFound
  <1>21. ASSUME NEW r \in Reader, LookupFails(r) PROVE TypeOK'
    BY <1>21 DEF LookupFails
  <1>22. ASSUME NEW r \in Reader, CallReturns(r) PROVE TypeOK'
    BY <1>22 DEF CallReturns
  <1>23. ASSUME NEW r \in Reader, GetDevicesNames(r) PROVE TypeOK'
    BY <1>23 DEF GetDevicesNames
  <1>24. ASSUME NEW r \in Reader, ReadNames(r) PROVE TypeOK'
    BY <1>24 DEF ReadNames
  <1>25. ASSUME NEW d \in Leaver, Leave(d) PROVE TypeOK'
    BY <1>25 DEF Leave
  <1>26. CASE UNCHANGED vars
    BY <1>26 DEF vars
  <1>27. QED
    BY <1>1, <1>2, <1>3, <1>4, <1>5, <1>6, <1>7, <1>8, <1>9, <1>10, <1>11,
       <1>12, <1>13, <1>14, <1>15, <1>16, <1>17, <1>18, <1>19, <1>20, <1>21,
       <1>22, <1>23, <1>24, <1>25, <1>26
    DEF Next, WorkerStep, AddDevice, RemoveDevice,
       VerifyTimeouts, RefreshAll, CallService

(* Each kind of thread stays within its own code.                           *)
LEMMA PcStep == IInv /\ [Next]_vars => PcInv'
  <1> SUFFICES ASSUME IInv, [Next]_vars PROVE PcInv'
    OBVIOUS
  <1> USE DEF IInv, Goto, LockFree, fields, TypeOK, PcInv
  <1>1. ASSUME NEW w \in Worker, ReceiveAlive(w) PROVE PcInv'
    BY <1>1 DEF ReceiveAlive
  <1>2. ASSUME NEW w \in Worker, AddKnown(w) PROVE PcInv'
    BY <1>2 DEF AddKnown
  <1>3. ASSUME NEW w \in Worker, AddUnknown(w) PROVE PcInv'
    BY <1>3 DEF AddUnknown
  <1>4. ASSUME NEW w \in Worker, DownloadFails(w) PROVE PcInv'
    BY <1>4 DEF DownloadFails
  <1>5. ASSUME NEW w \in Worker, Download(w) PROVE PcInv'
    BY <1>5 DEF Download
  <1>6. ASSUME NEW w \in Worker, AddDuplicate(w) PROVE PcInv'
    BY <1>6 DEF AddDuplicate
  <1>7. ASSUME NEW w \in Worker, AddInsert(w) PROVE PcInv'
    BY <1>7 DEF AddInsert
  <1>8. ASSUME NEW w \in Worker, AddNotify(w) PROVE PcInv'
    BY <1>8 DEF AddNotify
  <1>9. ASSUME NEW w \in Worker, Report(w) PROVE PcInv'
    BY <1>9 DEF Report
  <1>10. ASSUME NEW w \in Worker, ReceiveByeBye(w) PROVE PcInv'
    BY <1>10 DEF ReceiveByeBye
  <1>11. ASSUME NEW w \in Worker, ByeUnknown(w) PROVE PcInv'
    BY <1>11 DEF ByeUnknown
  <1>12. ASSUME NEW w \in Worker, ByeUnlink(w) PROVE PcInv'
    BY <1>12 DEF ByeUnlink
  <1>13. ASSUME NEW w \in Worker, ByeFree(w) PROVE PcInv'
    BY <1>13 DEF ByeFree
  <1>14. ASSUME NEW w \in Worker, ByeRelock(w) PROVE PcInv'
    BY <1>14 DEF ByeRelock
  <1>15. ASSUME NEW t \in {Timer, User}, SweepStart(t) PROVE PcInv'
    BY <1>15 DEF SweepStart
  <1>16. ASSUME Tick PROVE PcInv'
    BY <1>16 DEF Tick, TickExpire, TickSearch, TickKeep, Remove, Free
  <1>17. ASSUME RemoveOne PROVE PcInv'
    BY <1>17 DEF RemoveOne, Remove, Free
  <1>18. ASSUME NEW t \in {Timer, User}, SweepEnd(t) PROVE PcInv'
    BY <1>18 DEF SweepEnd
  <1>19. ASSUME NEW r \in Reader, LockDevice(r) PROVE PcInv'
    BY <1>19 DEF LockDevice
  <1>20. ASSUME NEW r \in Reader, LookupFound(r) PROVE PcInv'
    BY <1>20 DEF LookupFound
  <1>21. ASSUME NEW r \in Reader, LookupFails(r) PROVE PcInv'
    BY <1>21 DEF LookupFails
  <1>22. ASSUME NEW r \in Reader, CallReturns(r) PROVE PcInv'
    BY <1>22 DEF CallReturns
  <1>23. ASSUME NEW r \in Reader, GetDevicesNames(r) PROVE PcInv'
    BY <1>23 DEF GetDevicesNames
  <1>24. ASSUME NEW r \in Reader, ReadNames(r) PROVE PcInv'
    BY <1>24 DEF ReadNames
  <1>25. ASSUME NEW d \in Leaver, Leave(d) PROVE PcInv'
    BY <1>25 DEF Leave
  <1>26. CASE UNCHANGED vars
    BY <1>26 DEF vars
  <1>27. QED
    BY <1>1, <1>2, <1>3, <1>4, <1>5, <1>6, <1>7, <1>8, <1>9, <1>10, <1>11,
       <1>12, <1>13, <1>14, <1>15, <1>16, <1>17, <1>18, <1>19, <1>20, <1>21,
       <1>22, <1>23, <1>24, <1>25, <1>26
    DEF Next, WorkerStep, AddDevice, RemoveDevice,
       VerifyTimeouts, RefreshAll, CallService

(* The threads in a critical section are the owner of the mutex: one at most. *)
LEMMA LockStep == IInv /\ [Next]_vars => LockInv'
  <1> SUFFICES ASSUME IInv, [Next]_vars PROVE LockInv'
    OBVIOUS
  <1> USE DEF IInv, Goto, LockFree, fields, TypeOK, PcInv, LockInv, Locked
  <1>1. ASSUME NEW w \in Worker, ReceiveAlive(w) PROVE LockInv'
    BY <1>1 DEF ReceiveAlive
  <1>2. ASSUME NEW w \in Worker, AddKnown(w) PROVE LockInv'
    BY <1>2 DEF AddKnown
  <1>3. ASSUME NEW w \in Worker, AddUnknown(w) PROVE LockInv'
    BY <1>3 DEF AddUnknown
  <1>4. ASSUME NEW w \in Worker, DownloadFails(w) PROVE LockInv'
    BY <1>4 DEF DownloadFails
  <1>5. ASSUME NEW w \in Worker, Download(w) PROVE LockInv'
    BY <1>5 DEF Download
  <1>6. ASSUME NEW w \in Worker, AddDuplicate(w) PROVE LockInv'
    BY <1>6 DEF AddDuplicate
  <1>7. ASSUME NEW w \in Worker, AddInsert(w) PROVE LockInv'
    BY <1>7 DEF AddInsert
  <1>8. ASSUME NEW w \in Worker, AddNotify(w) PROVE LockInv'
    BY <1>8 DEF AddNotify
  <1>9. ASSUME NEW w \in Worker, Report(w) PROVE LockInv'
    BY <1>9 DEF Report
  <1>10. ASSUME NEW w \in Worker, ReceiveByeBye(w) PROVE LockInv'
    BY <1>10 DEF ReceiveByeBye
  <1>11. ASSUME NEW w \in Worker, ByeUnknown(w) PROVE LockInv'
    BY <1>11 DEF ByeUnknown
  <1>12. ASSUME NEW w \in Worker, ByeUnlink(w) PROVE LockInv'
    BY <1>12 DEF ByeUnlink
  <1>13. ASSUME NEW w \in Worker, ByeFree(w) PROVE LockInv'
    BY <1>13 DEF ByeFree
  <1>14. ASSUME NEW w \in Worker, ByeRelock(w) PROVE LockInv'
    BY <1>14 DEF ByeRelock
  <1>15. ASSUME NEW t \in {Timer, User}, SweepStart(t) PROVE LockInv'
    BY <1>15 DEF SweepStart
  <1>16. ASSUME Tick PROVE LockInv'
    BY <1>16 DEF Tick, TickExpire, TickSearch, TickKeep, Remove, Free
  <1>17. ASSUME RemoveOne PROVE LockInv'
    BY <1>17 DEF RemoveOne, Remove, Free
  <1>18. ASSUME NEW t \in {Timer, User}, SweepEnd(t) PROVE LockInv'
    BY <1>18 DEF SweepEnd
  <1>19. ASSUME NEW r \in Reader, LockDevice(r) PROVE LockInv'
    BY <1>19 DEF LockDevice
  <1>20. ASSUME NEW r \in Reader, LookupFound(r) PROVE LockInv'
    BY <1>20 DEF LookupFound
  <1>21. ASSUME NEW r \in Reader, LookupFails(r) PROVE LockInv'
    BY <1>21 DEF LookupFails
  <1>22. ASSUME NEW r \in Reader, CallReturns(r) PROVE LockInv'
    BY <1>22 DEF CallReturns
  <1>23. ASSUME NEW r \in Reader, GetDevicesNames(r) PROVE LockInv'
    BY <1>23 DEF GetDevicesNames
  <1>24. ASSUME NEW r \in Reader, ReadNames(r) PROVE LockInv'
    BY <1>24 DEF ReadNames
  <1>25. ASSUME NEW d \in Leaver, Leave(d) PROVE LockInv'
    BY <1>25 DEF Leave
  <1>26. CASE UNCHANGED vars
    BY <1>26 DEF vars
  <1>27. QED
    BY <1>1, <1>2, <1>3, <1>4, <1>5, <1>6, <1>7, <1>8, <1>9, <1>10, <1>11,
       <1>12, <1>13, <1>14, <1>15, <1>16, <1>17, <1>18, <1>19, <1>20, <1>21,
       <1>22, <1>23, <1>24, <1>25, <1>26
    DEF Next, WorkerStep, AddDevice, RemoveDevice,
       VerifyTimeouts, RefreshAll, CallService

(* A busy worker keeps its message.                                         *)
LEMMA EventStep == IInv /\ [Next]_vars => EventInv'
  <1> SUFFICES ASSUME IInv, [Next]_vars PROVE EventInv'
    OBVIOUS
  <1> USE DEF IInv, Goto, LockFree, fields, TypeOK, PcInv, EventInv, Message
  <1>1. ASSUME NEW w \in Worker, ReceiveAlive(w) PROVE EventInv'
    BY <1>1 DEF ReceiveAlive
  <1>2. ASSUME NEW w \in Worker, AddKnown(w) PROVE EventInv'
    BY <1>2 DEF AddKnown
  <1>3. ASSUME NEW w \in Worker, AddUnknown(w) PROVE EventInv'
    BY <1>3 DEF AddUnknown
  <1>4. ASSUME NEW w \in Worker, DownloadFails(w) PROVE EventInv'
    BY <1>4 DEF DownloadFails
  <1>5. ASSUME NEW w \in Worker, Download(w) PROVE EventInv'
    BY <1>5 DEF Download
  <1>6. ASSUME NEW w \in Worker, AddDuplicate(w) PROVE EventInv'
    BY <1>6 DEF AddDuplicate
  <1>7. ASSUME NEW w \in Worker, AddInsert(w) PROVE EventInv'
    BY <1>7 DEF AddInsert
  <1>8. ASSUME NEW w \in Worker, AddNotify(w) PROVE EventInv'
    BY <1>8 DEF AddNotify
  <1>9. ASSUME NEW w \in Worker, Report(w) PROVE EventInv'
    BY <1>9 DEF Report
  <1>10. ASSUME NEW w \in Worker, ReceiveByeBye(w) PROVE EventInv'
    BY <1>10 DEF ReceiveByeBye
  <1>11. ASSUME NEW w \in Worker, ByeUnknown(w) PROVE EventInv'
    BY <1>11 DEF ByeUnknown
  <1>12. ASSUME NEW w \in Worker, ByeUnlink(w) PROVE EventInv'
    BY <1>12 DEF ByeUnlink
  <1>13. ASSUME NEW w \in Worker, ByeFree(w) PROVE EventInv'
    BY <1>13 DEF ByeFree
  <1>14. ASSUME NEW w \in Worker, ByeRelock(w) PROVE EventInv'
    BY <1>14 DEF ByeRelock
  <1>15. ASSUME NEW t \in {Timer, User}, SweepStart(t) PROVE EventInv'
    BY <1>15 DEF SweepStart
  <1>16. ASSUME Tick PROVE EventInv'
    BY <1>16 DEF Tick, TickExpire, TickSearch, TickKeep, Remove, Free
  <1>17. ASSUME RemoveOne PROVE EventInv'
    BY <1>17 DEF RemoveOne, Remove, Free
  <1>18. ASSUME NEW t \in {Timer, User}, SweepEnd(t) PROVE EventInv'
    BY <1>18 DEF SweepEnd
  <1>19. ASSUME NEW r \in Reader, LockDevice(r) PROVE EventInv'
    BY <1>19 DEF LockDevice
  <1>20. ASSUME NEW r \in Reader, LookupFound(r) PROVE EventInv'
    BY <1>20 DEF LookupFound
  <1>21. ASSUME NEW r \in Reader, LookupFails(r) PROVE EventInv'
    BY <1>21 DEF LookupFails
  <1>22. ASSUME NEW r \in Reader, CallReturns(r) PROVE EventInv'
    BY <1>22 DEF CallReturns
  <1>23. ASSUME NEW r \in Reader, GetDevicesNames(r) PROVE EventInv'
    BY <1>23 DEF GetDevicesNames
  <1>24. ASSUME NEW r \in Reader, ReadNames(r) PROVE EventInv'
    BY <1>24 DEF ReadNames
  <1>25. ASSUME NEW d \in Leaver, Leave(d) PROVE EventInv'
    BY <1>25 DEF Leave
  <1>26. CASE UNCHANGED vars
    BY <1>26 DEF vars
  <1>27. QED
    BY <1>1, <1>2, <1>3, <1>4, <1>5, <1>6, <1>7, <1>8, <1>9, <1>10, <1>11,
       <1>12, <1>13, <1>14, <1>15, <1>16, <1>17, <1>18, <1>19, <1>20, <1>21,
       <1>22, <1>23, <1>24, <1>25, <1>26
    DEF Next, WorkerStep, AddDevice, RemoveDevice,
       VerifyTimeouts, RefreshAll, CallService

(* Nothing leaves the list during a sweep but by the sweep.                 *)
LEMMA TodoStep == IInv /\ [Next]_vars => TodoInv'
  <1> SUFFICES ASSUME IInv, [Next]_vars PROVE TodoInv'
    OBVIOUS
  <1> USE DEF IInv, Goto, LockFree, fields, TypeOK, PcInv, LockInv, TodoInv, Locked
  <1>1. ASSUME NEW w \in Worker, ReceiveAlive(w) PROVE TodoInv'
    BY <1>1 DEF ReceiveAlive
  <1>2. ASSUME NEW w \in Worker, AddKnown(w) PROVE TodoInv'
    BY <1>2 DEF AddKnown
  <1>3. ASSUME NEW w \in Worker, AddUnknown(w) PROVE TodoInv'
    BY <1>3 DEF AddUnknown
  <1>4. ASSUME NEW w \in Worker, DownloadFails(w) PROVE TodoInv'
    BY <1>4 DEF DownloadFails
  <1>5. ASSUME NEW w \in Worker, Download(w) PROVE TodoInv'
    BY <1>5 DEF Download
  <1>6. ASSUME NEW w \in Worker, AddDuplicate(w) PROVE TodoInv'
    BY <1>6 DEF AddDuplicate
  <1>7. ASSUME NEW w \in Worker, AddInsert(w) PROVE TodoInv'
    BY <1>7 DEF AddInsert
  <1>8. ASSUME NEW w \in Worker, AddNotify(w) PROVE TodoInv'
    BY <1>8 DEF AddNotify
  <1>9. ASSUME NEW w \in Worker, Report(w) PROVE TodoInv'
    BY <1>9 DEF Report
  <1>10. ASSUME NEW w \in Worker, ReceiveByeBye(w) PROVE TodoInv'
    BY <1>10 DEF ReceiveByeBye
  <1>11. ASSUME NEW w \in Worker, ByeUnknown(w) PROVE TodoInv'
    BY <1>11 DEF ByeUnknown
  <1>12. ASSUME NEW w \in Worker, ByeUnlink(w) PROVE TodoInv'
    BY <1>12 DEF ByeUnlink
  <1>13. ASSUME NEW w \in Worker, ByeFree(w) PROVE TodoInv'
    BY <1>13 DEF ByeFree
  <1>14. ASSUME NEW w \in Worker, ByeRelock(w) PROVE TodoInv'
    BY <1>14 DEF ByeRelock
  <1>15. ASSUME NEW t \in {Timer, User}, SweepStart(t) PROVE TodoInv'
    BY <1>15 DEF SweepStart
  <1>16. ASSUME Tick PROVE TodoInv'
    BY <1>16 DEF Tick, TickExpire, TickSearch, TickKeep, Remove, Free
  <1>17. ASSUME RemoveOne PROVE TodoInv'
    BY <1>17 DEF RemoveOne, Remove, Free
  <1>18. ASSUME NEW t \in {Timer, User}, SweepEnd(t) PROVE TodoInv'
    BY <1>18 DEF SweepEnd
  <1>19. ASSUME NEW r \in Reader, LockDevice(r) PROVE TodoInv'
    BY <1>19 DEF LockDevice
  <1>20. ASSUME NEW r \in Reader, LookupFound(r) PROVE TodoInv'
    BY <1>20 DEF LookupFound
  <1>21. ASSUME NEW r \in Reader, LookupFails(r) PROVE TodoInv'
    BY <1>21 DEF LookupFails
  <1>22. ASSUME NEW r \in Reader, CallReturns(r) PROVE TodoInv'
    BY <1>22 DEF CallReturns
  <1>23. ASSUME NEW r \in Reader, GetDevicesNames(r) PROVE TodoInv'
    BY <1>23 DEF GetDevicesNames
  <1>24. ASSUME NEW r \in Reader, ReadNames(r) PROVE TodoInv'
    BY <1>24 DEF ReadNames
  <1>25. ASSUME NEW d \in Leaver, Leave(d) PROVE TodoInv'
    BY <1>25 DEF Leave
  <1>26. CASE UNCHANGED vars
    BY <1>26 DEF vars
  <1>27. QED
    BY <1>1, <1>2, <1>3, <1>4, <1>5, <1>6, <1>7, <1>8, <1>9, <1>10, <1>11,
       <1>12, <1>13, <1>14, <1>15, <1>16, <1>17, <1>18, <1>19, <1>20, <1>21,
       <1>22, <1>23, <1>24, <1>25, <1>26
    DEF Next, WorkerStep, AddDevice, RemoveDevice,
       VerifyTimeouts, RefreshAll, CallService

(* A worker that frees the node it owns leaves every other owner alone.     *)
LEMMA Release ==
  ASSUME IInv, NEW w \in Worker, pc[w] \in Owning,
         NEW p \in {"report", "freed"}, pc' = [pc EXCEPT ![w] = p],
         live' = live \ {devnode[w]}, listed' = listed,
         devnode' = [devnode EXCEPT ![w] = NoNode]
  PROVE  OneOwner'
  <1> USE DEF IInv, TypeOK, Owning, Owns, OneOwner
  <1>1. devnode[w] \in live \ listed
    BY OwnedNode
  <1>2. \A v \in Worker : v # w =>
          /\ pc'[v] = pc[v]
          /\ devnode'[v] = devnode[v]
          /\ pc[v] \in Owning => devnode[v] # devnode[w]
    BY OwnedNode
  <1>3. pc'[w] \notin Owning
    OBVIOUS
  <1>4. \A n \in live' \ listed' : \E v \in Worker : Owns(v, n)'
    BY <1>2
  <1>5. QED
    BY <1>1, <1>2, <1>3, <1>4

(* Every node has one owner.                                                *)
LEMMA OwnerStep == IInv /\ [Next]_vars => OneOwner'
  <1> SUFFICES ASSUME IInv, [Next]_vars PROVE OneOwner'
    OBVIOUS
  <1> USE DEF IInv, Goto, LockFree, fields, TypeOK, PcInv, OneOwner, Owns, Owning
  <1>1. ASSUME NEW w \in Worker, ReceiveAlive(w) PROVE OneOwner'
    BY <1>1 DEF ReceiveAlive
  <1>2. ASSUME NEW w \in Worker, AddKnown(w) PROVE OneOwner'
    BY <1>2 DEF AddKnown
  <1>3. ASSUME NEW w \in Worker, AddUnknown(w) PROVE OneOwner'
    BY <1>3 DEF AddUnknown
  <1>4. ASSUME NEW w \in Worker, DownloadFails(w) PROVE OneOwner'
    BY <1>4 DEF DownloadFails
  <1>5. ASSUME NEW w \in Worker, Download(w) PROVE OneOwner'
    BY <1>5 DEF Download
  <1>6. ASSUME NEW w \in Worker, AddDuplicate(w) PROVE OneOwner'
    BY <1>6, Release DEF AddDuplicate, Free
  <1>7. ASSUME NEW w \in Worker, AddInsert(w) PROVE OneOwner'
    BY <1>7, OwnedNode DEF AddInsert
  <1>8. ASSUME NEW w \in Worker, AddNotify(w) PROVE OneOwner'
    BY <1>8 DEF AddNotify
  <1>9. ASSUME NEW w \in Worker, Report(w) PROVE OneOwner'
    BY <1>9 DEF Report
  <1>10. ASSUME NEW w \in Worker, ReceiveByeBye(w) PROVE OneOwner'
    BY <1>10 DEF ReceiveByeBye
  <1>11. ASSUME NEW w \in Worker, ByeUnknown(w) PROVE OneOwner'
    BY <1>11 DEF ByeUnknown
  <1>12. ASSUME NEW w \in Worker, ByeUnlink(w) PROVE OneOwner'
    BY <1>12 DEF ByeUnlink, Matching
  <1>13. ASSUME NEW w \in Worker, ByeFree(w) PROVE OneOwner'
    BY <1>13, Release DEF ByeFree, Free
  <1>14. ASSUME NEW w \in Worker, ByeRelock(w) PROVE OneOwner'
    BY <1>14 DEF ByeRelock
  <1>15. ASSUME NEW t \in {Timer, User}, SweepStart(t) PROVE OneOwner'
    BY <1>15 DEF SweepStart
  <1>16. ASSUME Tick PROVE OneOwner'
    BY <1>16 DEF Tick, TickExpire, TickSearch, TickKeep, Remove, Free, TodoInv
  <1>17. ASSUME RemoveOne PROVE OneOwner'
    BY <1>17 DEF RemoveOne, Remove, Free, TodoInv
  <1>18. ASSUME NEW t \in {Timer, User}, SweepEnd(t) PROVE OneOwner'
    BY <1>18 DEF SweepEnd
  <1>19. ASSUME NEW r \in Reader, LockDevice(r) PROVE OneOwner'
    BY <1>19 DEF LockDevice
  <1>20. ASSUME NEW r \in Reader, LookupFound(r) PROVE OneOwner'
    BY <1>20 DEF LookupFound
  <1>21. ASSUME NEW r \in Reader, LookupFails(r) PROVE OneOwner'
    BY <1>21 DEF LookupFails
  <1>22. ASSUME NEW r \in Reader, CallReturns(r) PROVE OneOwner'
    BY <1>22 DEF CallReturns
  <1>23. ASSUME NEW r \in Reader, GetDevicesNames(r) PROVE OneOwner'
    BY <1>23 DEF GetDevicesNames
  <1>24. ASSUME NEW r \in Reader, ReadNames(r) PROVE OneOwner'
    BY <1>24 DEF ReadNames
  <1>25. ASSUME NEW d \in Leaver, Leave(d) PROVE OneOwner'
    BY <1>25 DEF Leave
  <1>26. CASE UNCHANGED vars
    BY <1>26 DEF vars
  <1>27. QED
    BY <1>1, <1>2, <1>3, <1>4, <1>5, <1>6, <1>7, <1>8, <1>9, <1>10, <1>11,
       <1>12, <1>13, <1>14, <1>15, <1>16, <1>17, <1>18, <1>19, <1>20, <1>21,
       <1>22, <1>23, <1>24, <1>25, <1>26
    DEF Next, WorkerStep, AddDevice, RemoveDevice,
       VerifyTimeouts, RefreshAll, CallService

(* A node in use by the owner of the mutex stays listed.                    *)
LEMMA CalledStep == IInv /\ [Next]_vars => CalledIsListed'
  <1> SUFFICES ASSUME IInv, [Next]_vars PROVE CalledIsListed'
    OBVIOUS
  <1> USE DEF IInv, Goto, LockFree, fields, TypeOK, PcInv, LockInv, Locked, CalledIsListed
  <1>1. ASSUME NEW w \in Worker, ReceiveAlive(w) PROVE CalledIsListed'
    BY <1>1 DEF ReceiveAlive
  <1>2. ASSUME NEW w \in Worker, AddKnown(w) PROVE CalledIsListed'
    BY <1>2 DEF AddKnown
  <1>3. ASSUME NEW w \in Worker, AddUnknown(w) PROVE CalledIsListed'
    BY <1>3 DEF AddUnknown
  <1>4. ASSUME NEW w \in Worker, DownloadFails(w) PROVE CalledIsListed'
    BY <1>4 DEF DownloadFails
  <1>5. ASSUME NEW w \in Worker, Download(w) PROVE CalledIsListed'
    BY <1>5 DEF Download
  <1>6. ASSUME NEW w \in Worker, AddDuplicate(w) PROVE CalledIsListed'
    BY <1>6 DEF AddDuplicate
  <1>7. ASSUME NEW w \in Worker, AddInsert(w) PROVE CalledIsListed'
    BY <1>7 DEF AddInsert
  <1>8. ASSUME NEW w \in Worker, AddNotify(w) PROVE CalledIsListed'
    BY <1>8 DEF AddNotify
  <1>9. ASSUME NEW w \in Worker, Report(w) PROVE CalledIsListed'
    BY <1>9 DEF Report
  <1>10. ASSUME NEW w \in Worker, ReceiveByeBye(w) PROVE CalledIsListed'
    BY <1>10 DEF ReceiveByeBye
  <1>11. ASSUME NEW w \in Worker, ByeUnknown(w) PROVE CalledIsListed'
    BY <1>11 DEF ByeUnknown
  <1>12. ASSUME NEW w \in Worker, ByeUnlink(w) PROVE CalledIsListed'
    BY <1>12 DEF ByeUnlink
  <1>13. ASSUME NEW w \in Worker, ByeFree(w) PROVE CalledIsListed'
    BY <1>13 DEF ByeFree
  <1>14. ASSUME NEW w \in Worker, ByeRelock(w) PROVE CalledIsListed'
    BY <1>14 DEF ByeRelock
  <1>15. ASSUME NEW t \in {Timer, User}, SweepStart(t) PROVE CalledIsListed'
    BY <1>15 DEF SweepStart
  <1>16. ASSUME Tick PROVE CalledIsListed'
    BY <1>16 DEF Tick, TickExpire, TickSearch, TickKeep, Remove, Free
  <1>17. ASSUME RemoveOne PROVE CalledIsListed'
    BY <1>17 DEF RemoveOne, Remove, Free
  <1>18. ASSUME NEW t \in {Timer, User}, SweepEnd(t) PROVE CalledIsListed'
    BY <1>18 DEF SweepEnd
  <1>19. ASSUME NEW r \in Reader, LockDevice(r) PROVE CalledIsListed'
    BY <1>19 DEF LockDevice
  <1>20. ASSUME NEW r \in Reader, LookupFound(r) PROVE CalledIsListed'
    BY <1>20 DEF LookupFound
  <1>21. ASSUME NEW r \in Reader, LookupFails(r) PROVE CalledIsListed'
    BY <1>21 DEF LookupFails
  <1>22. ASSUME NEW r \in Reader, CallReturns(r) PROVE CalledIsListed'
    BY <1>22 DEF CallReturns
  <1>23. ASSUME NEW r \in Reader, GetDevicesNames(r) PROVE CalledIsListed'
    BY <1>23 DEF GetDevicesNames
  <1>24. ASSUME NEW r \in Reader, ReadNames(r) PROVE CalledIsListed'
    BY <1>24 DEF ReadNames
  <1>25. ASSUME NEW d \in Leaver, Leave(d) PROVE CalledIsListed'
    BY <1>25 DEF Leave
  <1>26. CASE UNCHANGED vars
    BY <1>26 DEF vars
  <1>27. QED
    BY <1>1, <1>2, <1>3, <1>4, <1>5, <1>6, <1>7, <1>8, <1>9, <1>10, <1>11,
       <1>12, <1>13, <1>14, <1>15, <1>16, <1>17, <1>18, <1>19, <1>20, <1>21,
       <1>22, <1>23, <1>24, <1>25, <1>26
    DEF Next, WorkerStep, AddDevice, RemoveDevice,
       VerifyTimeouts, RefreshAll, CallService

(* No id is listed twice.                                                   *)
LEMMA IdsStep == IInv /\ [Next]_vars => UniqueIds'
  <1> SUFFICES ASSUME IInv, [Next]_vars PROVE UniqueIds'
    OBVIOUS
  <1> USE DEF IInv, Goto, LockFree, fields, TypeOK, UniqueIds, TodoInv
  <1>1. ASSUME NEW w \in Worker, AddKnown(w) PROVE UniqueIds'
    BY <1>1 DEF AddKnown
  <1>2. ASSUME NEW w \in Worker, AddDuplicate(w) PROVE UniqueIds'
    BY <1>2, OwnedNode DEF AddDuplicate, Free, Owning
  <1>3. ASSUME NEW w \in Worker, AddInsert(w) PROVE UniqueIds'
    BY <1>3, OwnedNode DEF AddInsert, Owning, AlreadyAdded, Matching
  <1>4. ASSUME NEW w \in Worker, AddNotify(w) PROVE UniqueIds'
    BY <1>4 DEF AddNotify
  <1>5. ASSUME NEW w \in Worker, ByeUnlink(w) PROVE UniqueIds'
    BY <1>5 DEF ByeUnlink
  <1>6. ASSUME NEW w \in Worker, ByeFree(w) PROVE UniqueIds'
    BY <1>6, OwnedNode DEF ByeFree, Free, Owning
  <1>7. ASSUME Tick PROVE UniqueIds'
    BY <1>7 DEF Tick, TickExpire, TickSearch, TickKeep, Remove, Free
  <1>8. ASSUME RemoveOne PROVE UniqueIds'
    BY <1>8 DEF RemoveOne, Remove, Free
  <1>9. CASE UNCHANGED <<listed, fields, seen>>
    BY <1>9
  <1>10. QED
    BY <1>1, <1>2, <1>3, <1>4, <1>5, <1>6, <1>7, <1>8, <1>9, ListFrame DEF ListStep

(* No name is listed twice.                                                 *)
LEMMA NamesStep == IInv /\ [Next]_vars => UniqueNames'
  <1> SUFFICES ASSUME IInv, [Next]_vars PROVE UniqueNames'
    OBVIOUS
  <1> USE DEF IInv, Goto, LockFree, fields, TypeOK, UniqueNames, TodoInv
  <1>1. ASSUME NEW w \in Worker, AddKnown(w) PROVE UniqueNames'
    BY <1>1 DEF AddKnown
  <1>2. ASSUME NEW w \in Worker, AddDuplicate(w) PROVE UniqueNames'
    BY <1>2, OwnedNode DEF AddDuplicate, Free, Owning
  <1>3. ASSUME NEW w \in Worker, AddInsert(w) PROVE UniqueNames'
    BY <1>3, OwnedNode DEF AddInsert, Owning, FirstFree, UsedNames
  <1>4. ASSUME NEW w \in Worker, AddNotify(w) PROVE UniqueNames'
    BY <1>4 DEF AddNotify
  <1>5. ASSUME NEW w \in Worker, ByeUnlink(w) PROVE UniqueNames'
    BY <1>5 DEF ByeUnlink
  <1>6. ASSUME NEW w \in Worker, ByeFree(w) PROVE UniqueNames'
    BY <1>6, OwnedNode DEF ByeFree, Free, Owning
  <1>7. ASSUME Tick PROVE UniqueNames'
    BY <1>7 DEF Tick, TickExpire, TickSearch, TickKeep, Remove, Free
  <1>8. ASSUME RemoveOne PROVE UniqueNames'
    BY <1>8 DEF RemoveOne, Remove, Free
  <1>9. CASE UNCHANGED <<listed, fields, seen>>
    BY <1>9
  <1>10. QED
    BY <1>1, <1>2, <1>3, <1>4, <1>5, <1>6, <1>7, <1>8, <1>9, ListFrame DEF ListStep

(* A listed device whose lifetime is over has been searched for.            *)
LEMMA GraceStep == IInv /\ [Next]_vars => GraceInv'
  <1> SUFFICES ASSUME IInv, [Next]_vars PROVE GraceInv'
    OBVIOUS
  <1> USE DEF IInv, Goto, LockFree, fields, TypeOK, GraceInv, TodoInv
  <1>1. ASSUME NEW w \in Worker, AddKnown(w) PROVE GraceInv'
    BY <1>1, EventFields DEF AddKnown, Matching
  <1>2. ASSUME NEW w \in Worker, AddDuplicate(w) PROVE GraceInv'
    BY <1>2, OwnedNode DEF AddDuplicate, Free, Owning
  <1>3. ASSUME NEW w \in Worker, AddInsert(w) PROVE GraceInv'
    BY <1>3, OwnedNode, EventFields DEF AddInsert, Owning
  <1>4. ASSUME NEW w \in Worker, AddNotify(w) PROVE GraceInv'
    BY <1>4 DEF AddNotify
  <1>5. ASSUME NEW w \in Worker, ByeUnlink(w) PROVE GraceInv'
    BY <1>5 DEF ByeUnlink
  <1>6. ASSUME NEW w \in Worker, ByeFree(w) PROVE GraceInv'
    BY <1>6, OwnedNode DEF ByeFree, Free, Owning
  <1>7. ASSUME Tick PROVE GraceInv'
    <2>1. PICK n \in todo : /\ TickExpire(n) \/ TickSearch(n) \/ TickKeep(n)
                         /\ todo' = todo \ {n}
      BY <1>7 DEF Tick
    <2>2. UNCHANGED <<lock, pc, event, devnode, names, gone>>
      BY <1>7 DEF Tick
    <2>3. CASE TickExpire(n)
      BY <2>1, <2>2, <2>3 DEF TickExpire, Remove, Free
    <2>4. CASE TickSearch(n)
      BY <2>1, <2>2, <2>4 DEF TickSearch
    <2>5. CASE TickKeep(n)
      BY <2>1, <2>2, <2>5 DEF TickKeep
    <2>6. QED
      BY <2>1, <2>3, <2>4, <2>5
  <1>8. ASSUME RemoveOne PROVE GraceInv'
    BY <1>8 DEF RemoveOne, Remove, Free
  <1>9. CASE UNCHANGED <<listed, fields, seen>>
    BY <1>9
  <1>10. QED
    BY <1>1, <1>2, <1>3, <1>4, <1>5, <1>6, <1>7, <1>8, <1>9, ListFrame DEF ListStep

(* A listed node keeps its id.                                              *)
LEMMA IdsInvStep == IInv /\ [Next]_vars => IdsInv'
  <1> SUFFICES ASSUME IInv, [Next]_vars PROVE IdsInv'
    OBVIOUS
  <1> USE DEF IInv, Goto, LockFree, fields, TypeOK, IdsInv, TodoInv
  <1>1. ASSUME NEW w \in Worker, AddKnown(w) PROVE IdsInv'
    BY <1>1 DEF AddKnown
  <1>2. ASSUME NEW w \in Worker, AddDuplicate(w) PROVE IdsInv'
    BY <1>2, OwnedNode DEF AddDuplicate, Free, Owning
  <1>3. ASSUME NEW w \in Worker, AddInsert(w) PROVE IdsInv'
    BY <1>3, OwnedNode, EventFields DEF AddInsert, Owning
  <1>4. ASSUME NEW w \in Worker, AddNotify(w) PROVE IdsInv'
    BY <1>4 DEF AddNotify
  <1>5. ASSUME NEW w \in Worker, ByeUnlink(w) PROVE IdsInv'
    BY <1>5 DEF ByeUnlink
  <1>6. ASSUME NEW w \in Worker, ByeFree(w) PROVE IdsInv'
    BY <1>6, OwnedNode DEF ByeFree, Free, Owning
  <1>7. ASSUME Tick PROVE IdsInv'
    BY <1>7 DEF Tick, TickExpire, TickSearch, TickKeep, Remove, Free
  <1>8. ASSUME RemoveOne PROVE IdsInv'
    BY <1>8 DEF RemoveOne, Remove, Free
  <1>9. CASE UNCHANGED <<listed, fields, seen>>
    BY <1>9
  <1>10. QED
    BY <1>1, <1>2, <1>3, <1>4, <1>5, <1>6, <1>7, <1>8, <1>9, ListFrame DEF ListStep

(* The observer knows the list but for the device being subscribed.         *)
LEMMA ObserverStep == IInv /\ [Next]_vars => ObserverInv'
  <1> SUFFICES ASSUME IInv, [Next]_vars PROVE ObserverInv'
    OBVIOUS
  <1> USE DEF IInv, Goto, LockFree, fields, TypeOK, PcInv, LockInv, Locked,
          TodoInv, UniqueNames, ObserverInv
  <1>1. ASSUME NEW w \in Worker, ReceiveAlive(w) PROVE ObserverInv'
    BY <1>1 DEF ReceiveAlive, Subscribing
  <1>2. ASSUME NEW w \in Worker, AddKnown(w) PROVE ObserverInv'
    BY <1>2 DEF AddKnown, Subscribing
  <1>3. ASSUME NEW w \in Worker, AddUnknown(w) PROVE ObserverInv'
    BY <1>3 DEF AddUnknown, Subscribing
  <1>4. ASSUME NEW w \in Worker, DownloadFails(w) PROVE ObserverInv'
    BY <1>4 DEF DownloadFails, Subscribing
  <1>5. ASSUME NEW w \in Worker, Download(w) PROVE ObserverInv'
    BY <1>5 DEF Download, Subscribing
  <1>6. ASSUME NEW w \in Worker, AddDuplicate(w) PROVE ObserverInv'
    <2>1. devnode[w] \notin listed /\ pc[w] # "subscribe"
      BY <1>6, OwnedNode DEF AddDuplicate, Owning
    <2>2. \A n \in listed : name'[n] = name[n]
      BY <1>6, <2>1 DEF AddDuplicate, Free
    <2>3. Subscribing' = Subscribing
      BY <1>6 DEF AddDuplicate, Subscribing
    <2>4. listed' = listed /\ seen' = seen
      BY <1>6 DEF AddDuplicate
    <2>5. QED
      BY <2>2, <2>3, <2>4
  <1>7. ASSUME NEW w \in Worker, AddInsert(w) PROVE ObserverInv'
    BY <1>7, OwnedNode DEF AddInsert, Owning, Subscribing
  <1>8. ASSUME NEW w \in Worker, AddNotify(w) PROVE ObserverInv'
    BY <1>8 DEF AddNotify, CalledIsListed, Subscribing
  <1>9. ASSUME NEW w \in Worker, Report(w) PROVE ObserverInv'
    BY <1>9 DEF Report, Subscribing
  <1>10. ASSUME NEW w \in Worker, ReceiveByeBye(w) PROVE ObserverInv'
    BY <1>10 DEF ReceiveByeBye, Subscribing
  <1>11. ASSUME NEW w \in Worker, ByeUnknown(w) PROVE ObserverInv'
    BY <1>11 DEF ByeUnknown, Subscribing
  <1>12. ASSUME NEW w \in Worker, ByeUnlink(w) PROVE ObserverInv'
    BY <1>12 DEF ByeUnlink, Matching, Subscribing
  <1>13. ASSUME NEW w \in Worker, ByeFree(w) PROVE ObserverInv'
    <2>1. devnode[w] \notin listed /\ pc[w] # "subscribe"
      BY <1>13, OwnedNode DEF ByeFree, Owning
    <2>2. \A n \in listed : name'[n] = name[n]
      BY <1>13, <2>1 DEF ByeFree, Free
    <2>3. Subscribing' = Subscribing
      BY <1>13 DEF ByeFree, Subscribing
    <2>4. listed' = listed /\ seen' = seen
      BY <1>13 DEF ByeFree
    <2>5. QED
      BY <2>2, <2>3, <2>4
  <1>14. ASSUME NEW w \in Worker, ByeRelock(w) PROVE ObserverInv'
    BY <1>14 DEF ByeRelock, Subscribing
  <1>15. ASSUME NEW t \in {Timer, User}, SweepStart(t) PROVE ObserverInv'
    BY <1>15 DEF SweepStart, Subscribing
  <1>16. ASSUME Tick PROVE ObserverInv'
    <2>1. PICK n \in todo : /\ TickExpire(n) \/ TickSearch(n) \/ TickKeep(n)
                         /\ todo' = todo \ {n}
      BY <1>16 DEF Tick
    <2>2. pc[Timer] = "sweep" /\ UNCHANGED <<pc, devnode>>
      BY <1>16 DEF Tick
    <2>3. Subscribing = {} /\ Subscribing' = {}
      BY <2>2 DEF Subscribing
    <2>4. seen = {name[m] : m \in listed}
      BY <2>3
    <2>5. CASE TickExpire(n)
      <3>1. \A m \in listed \ {n} : name'[m] = name[m] /\ name[m] # name[n]
        BY <2>1, <2>5 DEF TickExpire, Remove, Free
      <3>2. seen' = {name'[m] : m \in listed'}
        BY <2>1, <2>4, <2>5, <3>1 DEF TickExpire, Remove
      <3>3. QED
        BY <2>3, <3>2
    <2>6. CASE TickSearch(n)
      BY <2>3, <2>4, <2>6 DEF TickSearch
    <2>7. CASE TickKeep(n)
      BY <2>3, <2>4, <2>7 DEF TickKeep
    <2>8. QED
      BY <2>1, <2>5, <2>6, <2>7
  <1>17. ASSUME RemoveOne PROVE ObserverInv'
    BY <1>17 DEF RemoveOne, Remove, Free, Subscribing
  <1>18. ASSUME NEW t \in {Timer, User}, SweepEnd(t) PROVE ObserverInv'
    BY <1>18 DEF SweepEnd, Subscribing
  <1>19. ASSUME NEW r \in Reader, LockDevice(r) PROVE ObserverInv'
    BY <1>19 DEF LockDevice, Subscribing
  <1>20. ASSUME NEW r \in Reader, LookupFound(r) PROVE ObserverInv'
    BY <1>20 DEF LookupFound, Subscribing
  <1>21. ASSUME NEW r \in Reader, LookupFails(r) PROVE ObserverInv'
    BY <1>21 DEF LookupFails, Subscribing
  <1>22. ASSUME NEW r \in Reader, CallReturns(r) PROVE ObserverInv'
    BY <1>22 DEF CallReturns, Subscribing
  <1>23. ASSUME NEW r \in Reader, GetDevicesNames(r) PROVE ObserverInv'
    BY <1>23 DEF GetDevicesNames, Subscribing
  <1>24. ASSUME NEW r \in Reader, ReadNames(r) PROVE ObserverInv'
    BY <1>24 DEF ReadNames, Subscribing
  <1>25. ASSUME NEW d \in Leaver, Leave(d) PROVE ObserverInv'
    BY <1>25 DEF Leave, Subscribing
  <1>26. CASE UNCHANGED vars
    BY <1>26 DEF vars, Subscribing
  <1>27. QED
    BY <1>1, <1>2, <1>3, <1>4, <1>5, <1>6, <1>7, <1>8, <1>9, <1>10, <1>11,
       <1>12, <1>13, <1>14, <1>15, <1>16, <1>17, <1>18, <1>19, <1>20, <1>21,
       <1>22, <1>23, <1>24, <1>25, <1>26
    DEF Next, WorkerStep, AddDevice, RemoveDevice,
       VerifyTimeouts, RefreshAll, CallService

LEMMA Inductive == IInv /\ [Next]_vars => IInv'
  BY TypeStep, PcStep, LockStep, EventStep, TodoStep, GraceStep, OwnerStep,
     CalledStep, IdsInvStep, IdsStep, NamesStep, ObserverStep DEF IInv

LEMMA Invariance == Spec => []IInv
  BY Initial, Inductive, PTL DEF Spec

-----------------------------------------------------------------------------
(* Every variable keeps its type.                                           *)
THEOREM TypeCorrect == Spec => []TypeOK
  <1>1. IInv => TypeOK
    BY DEF IInv
  <1>2. QED
    BY <1>1, Invariance, PTL

(* However many handlers of its messages interleave, a device is listed once. *)
THEOREM ListedOnce == Spec => []UniqueIds
  <1>1. IInv => UniqueIds
    BY DEF IInv
  <1>2. QED
    BY <1>1, Invariance, PTL

(* The names of two listed devices always differ.                           *)
THEOREM NamedApart == Spec => []UniqueNames
  <1>1. IInv => UniqueNames
    BY DEF IInv
  <1>2. QED
    BY <1>1, Invariance, PTL

(* Every allocated node is in the list or owned by exactly one worker.      *)
THEOREM NoLeakNoDoubleFree == Spec => []OneOwner
  <1>1. IInv => OneOwner
    BY DEF IInv
  <1>2. QED
    BY <1>1, Invariance, PTL

(* What a call or a subscription works on cannot be freed meanwhile.        *)
THEOREM CallsAreSafe == Spec => []CalledIsListed
  <1>1. IInv => CalledIsListed
    BY DEF IInv
  <1>2. QED
    BY <1>1, Invariance, PTL

(* Notifications replayed in order give the list when the mutex is free.    *)
THEOREM ObserverIsExact == Spec => []ObserverExact
  <1>1. ASSUME IInv PROVE ObserverExact
    <2>1. SUFFICES ASSUME LockFree PROVE seen = UsedNames
      BY DEF ObserverExact
    <2>2. Subscribing = {}
      BY <1>1, <2>1 DEF Subscribing, LockFree, IInv, LockInv, Locked
    <2>3. QED
      BY <1>1, <2>2 DEF IInv, ObserverInv, UsedNames
  <1>2. QED
    BY <1>1, Invariance, PTL

(* The timer never removes a device it did not search for first.            *)
THEOREM NoSilentExpiry == Spec => ExpiryIsAnnounced
  <1>1. ASSUME IInv, [Next]_vars
        PROVE  [\A n \in listed \ listed' : lock = Timer => n \in asked]_vars
    <2> SUFFICES ASSUME NEW n \in listed, n \notin listed', lock = Timer
                 PROVE  n \in asked
      OBVIOUS
    <2> USE <1>1 DEF IInv
    <2>1. pc[Timer] = "sweep" /\ pc[User] # "sweep"
      BY DEF LockInv, PcInv, Locked
    <2>2. CASE \E w \in Worker : ListStep(w)
      BY <2>2 DEF ListStep, AddKnown, AddDuplicate, AddInsert, AddNotify,
         ByeUnlink, ByeFree, LockFree
    <2>3. CASE Tick
      <3>1. TickExpire(n)
        BY <2>3 DEF Tick, TickExpire, TickSearch, TickKeep, Remove
      <3>2. expires[n] <= 0
        BY <3>1 DEF TickExpire, TypeOK
      <3>3. QED
        BY <3>2 DEF GraceInv
    <2>4. CASE RemoveOne
      BY <2>1, <2>4 DEF RemoveOne
    <2>5. QED
      BY <1>1, <2>2, <2>3, <2>4, ListFrame
  <1>2. QED
    BY <1>1, Invariance, PTL DEF Spec, ExpiryIsAnnounced

-----------------------------------------------------------------------------
(* The directory the list implements.                                       *)

LEMMA DirectoryEntry ==
  ASSUME NEW L, NEW I, NEW N,
         \A m, n \in L : I[m] = I[n] => m = n
  PROVE  /\ \A d : d \in DOMAIN DirectoryOf(L, I, N) <=> \E n \in L : d = I[n]
         /\ \A n \in L : DirectoryOf(L, I, N)[I[n]] = N[n]
  <1>1. ASSUME NEW n \in L PROVE (CHOOSE m \in L : I[m] = I[n]) = n
    OBVIOUS
  <1>2. QED
    BY <1>1 DEF DirectoryOf

(* Two directories of the same nodes with the same fields are equal.        *)
LEMMA DirectoryEqual ==
  ASSUME NEW L, NEW I, NEW N, NEW I2, NEW N2,
         \A m, n \in L : I[m] = I[n] => m = n,
         \A n \in L : I2[n] = I[n] /\ N2[n] = N[n]
  PROVE  DirectoryOf(L, I2, N2) = DirectoryOf(L, I, N)
  <1>1. \A m, n \in L : I2[m] = I2[n] => m = n
    OBVIOUS
  <1>2. {I2[n] : n \in L} = {I[n] : n \in L}
    OBVIOUS
  <1>3. \A d \in {I[n] : n \in L} :
          (CHOOSE n \in L : I2[n] = d) = (CHOOSE n \in L : I[n] = d)
    BY <1>1
  <1>4. \A d \in {I[n] : n \in L} : (CHOOSE n \in L : I[n] = d) \in L
    OBVIOUS
  <1>5. QED
    BY <1>2, <1>3, <1>4 DEF DirectoryOf

(* Listing one more node is an Enter step, ...                              *)
LEMMA EnterStep ==
  ASSUME IInv, UniqueIds', NEW n \in Node \ listed,
         listed' = listed \cup {n},
         deviceId'[n] \in Device,
         \A m \in listed : deviceId'[m] = deviceId[m] /\ name'[m] = name[m],
         \A m \in listed : name'[n] # name[m]
  PROVE  Abstract!Enter(deviceId'[n])
  <1> DEFINE d == deviceId'[n]
  <1>a. \A m, k \in listed : deviceId[m] = deviceId[k] => m = k
    BY DEF IInv, UniqueIds
  <1>b. \A m, k \in listed' : deviceId'[m] = deviceId'[k] => m = k
    BY DEF UniqueIds
  <1>1. /\ \A x : x \in DOMAIN Directory <=> \E m \in listed : x = deviceId[m]
        /\ \A m \in listed : Directory[deviceId[m]] = name[m]
    BY <1>a, DirectoryEntry DEF Directory
  <1>2. /\ \A x : x \in DOMAIN Directory' <=> \E m \in listed' : x = deviceId'[m]
        /\ \A m \in listed' : Directory'[deviceId'[m]] = name'[m]
    BY <1>b, DirectoryEntry DEF Directory
  <1>3. d \notin DOMAIN Directory
    BY <1>1 DEF UniqueIds
  <1>4. DOMAIN Directory' = DOMAIN Directory \cup {d}
    <2>1. \A x : x \in DOMAIN Directory' <=> x \in DOMAIN Directory \/ x = d
      BY <1>1, <1>2
    <2>2. QED
      BY <2>1
  <1>5. \A x \in DOMAIN Directory : /\ Directory'[x] = Directory[x]
                                    /\ Directory'[d] # Directory[x]
    BY <1>1, <1>2
  <1>6. QED
    BY <1>3, <1>4, <1>5 DEF Abstract!Enter, Abstract!Listed

(* ... unlisting one is a Quit step, ...                                    *)
LEMMA QuitStep ==
  ASSUME IInv, UniqueIds', NEW n \in listed,
         listed' = listed \ {n},
         \A m \in listed' : deviceId'[m] = deviceId[m] /\ name'[m] = name[m]
  PROVE  Abstract!Quit(deviceId[n])
  <1> DEFINE d == deviceId[n]
  <1>a. \A m, k \in listed : deviceId[m] = deviceId[k] => m = k
    BY DEF IInv, UniqueIds
  <1>b. \A m, k \in listed' : deviceId'[m] = deviceId'[k] => m = k
    BY DEF UniqueIds
  <1>1. /\ \A x : x \in DOMAIN Directory <=> \E m \in listed : x = deviceId[m]
        /\ \A m \in listed : Directory[deviceId[m]] = name[m]
    BY <1>a, DirectoryEntry DEF Directory
  <1>2. /\ \A x : x \in DOMAIN Directory' <=> \E m \in listed' : x = deviceId'[m]
        /\ \A m \in listed' : Directory'[deviceId'[m]] = name'[m]
    BY <1>b, DirectoryEntry DEF Directory
  <1>3. DOMAIN Directory' = DOMAIN Directory \ {d}
    <2>1. \A x : x \in DOMAIN Directory' <=> x \in DOMAIN Directory /\ x # d
      BY <1>a, <1>1, <1>2
    <2>2. QED
      BY <2>1
  <1>4. \A x \in DOMAIN Directory \ {d} : Directory'[x] = Directory[x]
    BY <1>1, <1>2
  <1>5. QED
    BY <1>1, <1>3, <1>4 DEF Abstract!Quit, Abstract!Listed

(* ... and a step that does neither leaves the directory alone.             *)
LEMMA StutterStep ==
  ASSUME IInv, listed' = listed,
         \A m \in listed : deviceId'[m] = deviceId[m] /\ name'[m] = name[m]
  PROVE  Directory' = Directory
  BY DirectoryEqual DEF IInv, UniqueIds, Directory

LEMMA StepRefines ==
  ASSUME IInv, IInv', [Next]_vars
  PROVE  [Abstract!Next]_Directory
  <1> USE DEF Goto, LockFree, fields
  <1>0. TypeOK /\ UniqueIds' /\ TodoInv
    BY DEF IInv
  <1> DEFINE Stutters == /\ listed' = listed
                         /\ \A m \in listed : /\ deviceId'[m] = deviceId[m]
                                              /\ name'[m] = name[m]
  <1>1. ASSUME NEW w \in Worker, ListStep(w), ~AddInsert(w), ~ByeUnlink(w)
        PROVE  Stutters
    <2>1. CASE AddKnown(w) \/ AddNotify(w)
      BY <2>1 DEF AddKnown, AddNotify
    <2>2. CASE AddDuplicate(w)
      BY <2>2, <1>0, OwnedNode DEF AddDuplicate, Free, Owning, TypeOK
    <2>3. CASE ByeFree(w)
      BY <2>3, <1>0, OwnedNode DEF ByeFree, Free, Owning, TypeOK
    <2>4. QED
      BY <1>1, <2>1, <2>2, <2>3 DEF ListStep
  <1>2. ASSUME NEW w \in Worker, AddInsert(w)
        PROVE  Abstract!Enter(deviceId'[devnode[w]])
    <2>1. devnode[w] \in Node \ listed /\ event[w].id \in Device
      BY <1>2, OwnedNode, EventFields DEF AddInsert, Owning
    <2>2. \A m \in listed : name'[devnode[w]] # name[m]
      BY <1>0, <1>2, <2>1 DEF AddInsert, FirstFree, UsedNames, TypeOK
    <2>3. QED
      BY <1>0, <1>2, <2>1, <2>2, EnterStep DEF AddInsert, TypeOK
  <1>3. ASSUME NEW w \in Worker, ByeUnlink(w)
        PROVE  \E n \in listed : Abstract!Quit(deviceId[n])
    <2>1. PICK n \in listed : listed' = listed \ {n}
      BY <1>3 DEF ByeUnlink, Matching
    <2>2. Abstract!Quit(deviceId[n])
      BY <1>0, <1>3, <2>1, QuitStep DEF ByeUnlink
    <2>3. QED
      BY <2>2
  <1>4. ASSUME NEW n \in listed, Remove(n)
        PROVE  Abstract!Quit(deviceId[n])
    BY <1>0, <1>4, QuitStep DEF Remove, Free, TypeOK
  <1>5. ASSUME Tick
        PROVE  Stutters \/ \E n \in listed : Remove(n)
    BY <1>0, <1>5 DEF Tick, TickExpire, TickSearch, TickKeep, TodoInv
  <1>6. ASSUME RemoveOne
        PROVE  \E n \in listed : Remove(n)
    BY <1>0, <1>6 DEF RemoveOne, TodoInv
  <1>7. \A n \in listed : Abstract!Quit(deviceId[n]) => Abstract!Next
    <2> SUFFICES ASSUME NEW n \in listed, Abstract!Quit(deviceId[n])
                 PROVE  Abstract!Next
      OBVIOUS
    <2>1. deviceId[n] \in Device
      BY DEF IInv, IdsInv
    <2>2. QED
      BY <2>1 DEF Abstract!Next
  <1>8. \A w \in Worker : AddInsert(w) => Abstract!Next
    <2> SUFFICES ASSUME NEW w \in Worker, AddInsert(w)
                 PROVE  Abstract!Next
      OBVIOUS
    <2>1. deviceId'[devnode[w]] \in Device
      BY <1>0, OwnedNode, EventFields DEF AddInsert, Owning, TypeOK
    <2>2. QED
      BY <1>2, <2>1 DEF Abstract!Next
  <1>9. Stutters \/ Abstract!Next
    <2>1. CASE \E w \in Worker : ListStep(w)
      BY <2>1, <1>1, <1>3, <1>7, <1>8
    <2>2. CASE Tick
      BY <2>2, <1>4, <1>5, <1>7
    <2>3. CASE RemoveOne
      BY <2>3, <1>4, <1>6, <1>7
    <2>4. CASE UNCHANGED <<listed, fields, seen>>
      BY <2>4
    <2>5. QED
      BY <2>1, <2>2, <2>3, <2>4, ListFrame
  <1>10. QED
    BY <1>9, StutterStep

(* The list implements the directory: devices enter and leave one at a      *)
(* time, each with a name of its own that it keeps.                         *)
THEOREM Refinement == Spec => ImplementsDirectory
  <1>1. Init => Abstract!Init
    BY DEF Init, Directory, DirectoryOf, Abstract!Init, Abstract!Listed
  <1>2. IInv /\ IInv' /\ [Next]_vars => [Abstract!Next]_Directory
    BY StepRefines
  <1>3. QED
    BY <1>1, <1>2, Invariance, PTL DEF Spec, ImplementsDirectory, Abstract!Spec

=============================================================================
