-------------------------------- MODULE Timer --------------------------------
(***************************************************************************)
(* The timer thread of libupnp (threadutil/src/TimerThread.c): events      *)
(* ordered by time, and one thread that hands those that are due to a      *)
(* thread pool.  The thread holds timer->mutex through its loop and gives  *)
(* it up only to wait; its callers hold it for one step, so they need it   *)
(* to be free and the rest of the state stands for it.                     *)
(***************************************************************************)
EXTENDS Integers, Sequences, FiniteSets, SequencesExt

CONSTANTS
  Horizon,         \* bound: the last second of the clock
  MaxId            \* bound: the number of events ever scheduled

ASSUME TimerAssumption == Horizon \in Nat /\ MaxId \in Nat

VARIABLES
  now,             \* time(NULL)
  eventQ,          \* the events [id, time], those due first in front
  lastEventId,
  stopping,        \* timer->shutdown
  timer,           \* the thread, and the time up to which it waits
  fired            \* events in the queues of the thread pool

timerVars == <<now, eventQ, lastEventId, stopping, timer, fired>>

EventId == 0 .. (MaxId - 1)
NoEvent == -1
Forever == Horizon + 1

TimerInit ==
  /\ now = 0
  /\ eventQ = << >>
  /\ lastEventId = 0
  /\ stopping = FALSE
  /\ timer = [pc |-> "woken", until |-> Forever]
  /\ fired = {}

MutexFree == timer.pc # "loop"

Queued == {eventQ[i].id : i \in DOMAIN eventQ}

(* Mutant: nobody signals the condition. *)
SignalLost == timer

Signalled == IF timer.pc = "wait" THEN [timer EXCEPT !.pc = "woken"] ELSE timer

(* TimerThreadSchedule, for the absolute time it computed before it had    *)
(* the mutex: the new event is put before the first that is not earlier.   *)
TimerThreadSchedule(time) ==
  /\ MutexFree
  /\ \E k \in 1 .. Len(eventQ) + 1 :
       /\ \A i \in 1 .. k - 1 : eventQ[i].time < time
       /\ k <= Len(eventQ) => eventQ[k].time >= time
       /\ eventQ' = InsertAt(eventQ, k, [id |-> lastEventId, time |-> time])
  /\ lastEventId' = lastEventId + 1
  /\ timer' = Signalled
  /\ UNCHANGED <<now, stopping, fired>>

(* An event that has been handed over is not found.                        *)
Drop(id) ==
  \/ id \notin Queued /\ UNCHANGED eventQ
  \/ \E k \in DOMAIN eventQ : eventQ[k].id = id /\ eventQ' = RemoveAt(eventQ, k)

TimerThreadRemove(id) ==
  /\ MutexFree
  /\ Drop(id)
  /\ UNCHANGED <<now, lastEventId, stopping, timer, fired>>

(* Mutant: the events stay in the queue. *)
ShutdownKeeping ==
  /\ MutexFree
  /\ stopping' = TRUE
  /\ timer' = Signalled
  /\ UNCHANGED <<now, eventQ, lastEventId, fired>>

(* TimerThreadShutdown up to its wait ... *)
ShutdownBegin ==
  /\ MutexFree
  /\ stopping' = TRUE
  /\ eventQ' = << >>
  /\ timer' = Signalled
  /\ UNCHANGED <<now, lastEventId, fired>>

(* ... which lasts until the thread has cleared the flag. *)
ShutdownEnd == MutexFree /\ ~stopping /\ UNCHANGED timerVars

-----------------------------------------------------------------------------
(***************************************************************************)
(* TimerThreadWorker, one round of its loop after the other.               *)
(***************************************************************************)
Running == timer.pc \in {"woken", "loop"}

Due == eventQ # << >> /\ now >= Head(eventQ).time

WorkerExit ==
  /\ Running /\ stopping
  /\ stopping' = FALSE
  /\ timer' = [timer EXCEPT !.pc = "gone"]
  /\ UNCHANGED <<now, eventQ, lastEventId, fired>>

WorkerFire ==
  /\ Running /\ ~stopping /\ Due
  /\ fired' = fired \cup {Head(eventQ).id}
  /\ eventQ' = Tail(eventQ)
  /\ timer' = [timer EXCEPT !.pc = "loop"]
  /\ UNCHANGED <<now, lastEventId, stopping>>

WorkerWait ==
  /\ Running /\ ~stopping /\ ~Due
  /\ timer' = [pc |-> "wait", until |-> IF eventQ = << >> THEN Forever ELSE Head(eventQ).time]
  /\ UNCHANGED <<now, eventQ, lastEventId, stopping, fired>>

WorkerTimeOut ==
  /\ timer.pc = "wait" /\ now >= timer.until
  /\ timer' = [timer EXCEPT !.pc = "woken"]
  /\ UNCHANGED <<now, eventQ, lastEventId, stopping, fired>>

TimerThreadWorker == WorkerExit \/ WorkerFire \/ WorkerWait \/ WorkerTimeOut

Tick ==
  /\ now < Horizon
  /\ now' = now + 1
  /\ UNCHANGED <<eventQ, lastEventId, stopping, timer, fired>>

-----------------------------------------------------------------------------
(* The timer thread never waits past the time of an event, whoever adds or *)
(* removes which event while it sleeps, and finds the next one in front.   *)
NextIsAwaited ==
  /\ \A i \in 1 .. (Len(eventQ) - 1) : eventQ[i].time <= eventQ[i + 1].time
  /\ timer.pc = "wait" /\ eventQ # << >> => timer.until <= Head(eventQ).time
=============================================================================
