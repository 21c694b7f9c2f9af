----------------------------- MODULE ThreadPool -----------------------------
(***************************************************************************)
(* The thread pools of libupnp (threadutil/src/ThreadPool.c): workers that *)
(* come and go, three queues of jobs by priority, one slot for a           *)
(* persistent job, and the calls of other threads.                         *)
(*                                                                         *)
(* Everything runs under tp->mutex, which is given up only by the waits on *)
(* two conditions: a step here is the code from one wait to the next.  The *)
(* condition start_and_shutdown is broadcast whenever totalThreads or the  *)
(* slot changes, so that its waiters are guards; tp->condition is signalled *)
(* to one sleeper, so that its sleepers are part of the state.             *)
(***************************************************************************)
EXTENDS Integers, Sequences, FiniteSets, SequencesExt

CONSTANTS
  Worker,          \* threads that can exist at once
  Main,            \* the thread that starts the pool and shuts it down
  Job,             \* jobs; one that has run may be added again
  Lasting,         \* subset of Job: added with ThreadPoolAddPersistent
  NoJob,           \* an empty slot
  Priority,        \* [Job -> {"high", "med", "low"}]
  Adds,            \* [Job -> SUBSET Job]: the jobs a job adds as it runs
  MinThreads, MaxThreads, JobsPerThread

Level == {"high", "med", "low"}

ASSUME ThreadsAssumption ==
  /\ MinThreads \in Nat /\ MaxThreads \in Nat /\ JobsPerThread \in Nat
  /\ MinThreads <= MaxThreads
  /\ IsFiniteSet(Worker) /\ Main \notin Worker
ASSUME JobsAssumption ==
  /\ NoJob \notin Job /\ Lasting \subseteq Job
  /\ Priority \in [Job -> Level]
  /\ Adds \in [Job -> SUBSET (Job \ Lasting)]

VARIABLES
  queue,           \* highJobQ, medJobQ, lowJobQ
  slot,            \* persistentJob
  total,           \* totalThreads
  persistents,     \* persistentThreads
  shutdown,
  age,             \* how long a queued job has waited: 1 from starvationTime,
                   \* 2 from maxIdleTime, the longer one in libupnp
  work,            \* the workers
  added,           \* the jobs that the job of each worker has added
  call,            \* the call each thread is in, if any
  stopped,         \* the persistent jobs have been told to end
  held,            \* jobs accepted and neither run to their end nor freed
  late,            \* those of them that came after the shutdown
  crossed          \* a CreateWorker has met another one, or a thread leaving

vars == <<queue, slot, total, persistents, shutdown, age, work, added, call,
          stopped, held, late, crossed>>

Queued == Len(queue["high"]) + Len(queue["med"]) + Len(queue["low"])

NoThread == [pc |-> "none", job |-> NoJob, persistent |-> FALSE]

NoCall == [pc |-> "idle", job |-> NoJob, jobs |-> 0, threads |-> 0, current |-> 0]

With(pc) == {w \in Worker : work[w].pc = pc}

Init ==
  /\ queue = [l \in Level |-> <<>>]
  /\ slot = NoJob
  /\ total = 0
  /\ persistents = 0
  /\ shutdown = FALSE
  /\ age = [j \in Job |-> 0]
  /\ work = [w \in Worker |-> NoThread]
  /\ added = [w \in Worker |-> {}]
  /\ call = [c \in Worker \cup {Main} |-> IF c = Main THEN [NoCall EXCEPT !.pc = "init"] ELSE NoCall]
  /\ stopped = FALSE
  /\ held = {}
  /\ late = {}
  /\ crossed = FALSE

-----------------------------------------------------------------------------
(***************************************************************************)
(* BumpPriority moves the starved head of the medium queue to the high one *)
(* until that head is fresh, and the starved heads of the low queue, one by *)
(* one, behind the medium jobs: they are at once the head there, and move  *)
(* on, when no fresh job is in front of them.                              *)
(***************************************************************************)
Prefix(s, limit) ==
  LET fresh == {i \in DOMAIN s : age[s[i]] < limit}
  IN IF fresh = {} THEN Len(s) ELSE (CHOOSE i \in fresh : \A k \in fresh : i <= k) - 1

FromMed == Prefix(queue["med"], 1)
FromLow == Prefix(queue["low"], 2)

Starved(s, n) == SubSeq(s, 1, n)
Others(s, n) == SubSeq(s, n + 1, Len(s))

(* Mutant: jobs stay where their priority put them. *)
BumpedNever == queue

(* Mutant: a starved job of the medium queue is copied to the high one. *)
BumpedTwice == [queue EXCEPT !["high"] = @ \o Starved(queue["med"], FromMed)]

Bumped ==
  LET fresh == Others(queue["med"], FromMed)
      moved == Starved(queue["low"], FromLow)
  IN [high |-> queue["high"] \o Starved(queue["med"], FromMed)
                 \o (IF fresh = <<>> THEN moved ELSE <<>>),
      med  |-> IF fresh = <<>> THEN <<>> ELSE fresh \o moved,
      low  |-> Others(queue["low"], FromLow)]

-----------------------------------------------------------------------------
(***************************************************************************)
(* The workers.                                                            *)
(***************************************************************************)
(* The new thread counts itself and tells who waits for it. *)
Start(w) ==
  /\ work[w].pc = "starting"
  /\ total' = total + 1
  /\ work' = [work EXCEPT ![w].pc = "top"]
  /\ UNCHANGED <<added, queue, slot, persistents, shutdown, age, call, stopped, held, late, crossed>>

Ready(w) == work[w].pc \in {"top", "awake", "timedout"}

NothingToDo == Queued = 0 /\ slot = NoJob /\ ~shutdown

(* Mutant: it stays counted as persistent. *)
SettledNever(w) == persistents

(* At the top of its loop a thread that ran a persistent job is a regular  *)
(* one again.                                                              *)
Settled(w) == IF work[w].persistent THEN persistents - 1 ELSE persistents

(* A thread nobody needs leaves if it has waited for long or if there are  *)
(* too many.                                                               *)
MayDie(w) ==
  \/ work[w].pc = "timedout" /\ total > MinThreads
  \/ total > MaxThreads

Sleep(w) ==
  /\ Ready(w) /\ NothingToDo /\ ~MayDie(w)
  /\ persistents' = Settled(w)
  /\ work' = [work EXCEPT ![w] = [NoThread EXCEPT !.pc = "asleep"]]
  /\ UNCHANGED <<added, queue, slot, total, shutdown, age, call, stopped, held, late, crossed>>

(* CreateWorker computes the number of threads it waits for beforehand: a  *)
(* thread that comes or goes meanwhile makes it return early or never.     *)
InCreateWorker == {c \in DOMAIN call : call[c].pc \in {"init", "add", "lasting"}}

Die(w) ==
  /\ Ready(w) /\ NothingToDo /\ MayDie(w)
  /\ persistents' = Settled(w)
  /\ total' = total - 1
  /\ work' = [work EXCEPT ![w] = NoThread]
  /\ crossed' = (crossed \/ InCreateWorker # {})
  /\ UNCHANGED <<added, queue, slot, shutdown, age, call, stopped, held, late>>

(* The wait of a sleeper is over after maxIdleTime. *)
TimeOut(w) ==
  /\ work[w].pc = "asleep"
  /\ work' = [work EXCEPT ![w].pc = "timedout"]
  /\ UNCHANGED <<added, queue, slot, total, persistents, shutdown, age, call, stopped, held, late, crossed>>

Leave(w) ==
  /\ Ready(w) /\ shutdown
  /\ persistents' = Settled(w)
  /\ queue' = Bumped
  /\ total' = total - 1
  /\ work' = [work EXCEPT ![w] = NoThread]
  /\ crossed' = (crossed \/ InCreateWorker # {})
  /\ UNCHANGED <<added, slot, shutdown, age, call, stopped, held, late>>

Take(w, j, persistent) ==
  /\ work' = [work EXCEPT ![w] = [pc |-> "running", job |-> j, persistent |-> persistent]]
  /\ age' = [age EXCEPT ![j] = 0]

PickPersistent(w) ==
  /\ Ready(w) /\ ~shutdown /\ slot # NoJob
  /\ queue' = Bumped
  /\ Take(w, slot, TRUE)
  /\ slot' = NoJob
  /\ persistents' = Settled(w) + 1
  /\ UNCHANGED <<added, total, shutdown, call, stopped, held, late, crossed>>

Pick(w) ==
  /\ Ready(w) /\ ~shutdown /\ slot = NoJob /\ Queued > 0
  /\ LET l == CHOOSE k \in Level :
                /\ Bumped[k] # <<>>
                /\ Bumped["high"] # <<>> => k = "high"
                /\ Bumped["med"] # <<>> => k # "low"
     IN /\ Take(w, Head(Bumped[l]), FALSE)
        /\ queue' = [Bumped EXCEPT ![l] = Tail(@)]
  /\ persistents' = Settled(w)
  /\ UNCHANGED <<added, slot, total, shutdown, call, stopped, held, late, crossed>>

(* The function of the job returns; a persistent one only when told to. *)
Return(w) ==
  /\ work[w].pc = "running" /\ call[w].pc = "idle"
  /\ work[w].persistent => stopped
  /\ held' = held \ {work[w].job}
  /\ late' = late \ {work[w].job}
  /\ work' = [work EXCEPT ![w].pc = "top", ![w].job = NoJob]
  /\ added' = [added EXCEPT ![w] = {}]
  /\ UNCHANGED <<queue, slot, total, persistents, shutdown, age, call, stopped, crossed>>

-----------------------------------------------------------------------------
(***************************************************************************)
(* The calls.  CreateWorker starts a thread and waits until totalThreads   *)
(* has reached the value it expects.                                       *)
(***************************************************************************)
(* Mutant: one more than the maximum. *)
CanCreateMore == total <= MaxThreads

CanCreate == total + 1 <= MaxThreads

Create(c, r) ==
  \E w \in With("none") :
    /\ work' = [work EXCEPT ![w].pc = "starting"]
    /\ call' = [call EXCEPT ![c] = [r EXCEPT !.current = total + 1]]
    /\ crossed' = (crossed \/ With("starting") # {} \/ InCreateWorker \ {c} # {})

Created(c) == total >= call[c].current

(* Mutant: nobody is woken. *)
SignalNobody == UNCHANGED work

(* Wakes one sleeper, if there is one. *)
Signal ==
  IF With("asleep") = {} THEN UNCHANGED work
  ELSE \E s \in With("asleep") : work' = [work EXCEPT ![s].pc = "awake"]

(* AddWorker, on the sizes r read at first, and then the signal for the job; *)
(* ithread_create may fail at any time.                                     *)
NeedsWorker(r) == r.threads # 0 => r.jobs \div r.threads > JobsPerThread

AddWorker(c, r) ==
  \/ NeedsWorker(r) /\ CanCreate /\ Create(c, r)
  \/ /\ call' = [call EXCEPT ![c] = NoCall]
     /\ Signal
     /\ UNCHANGED crossed

(* ThreadPoolAdd, by a job that is running; a regular one adds a job once. *)
Add(w, j) ==
  /\ work[w].pc = "running" /\ call[w].pc = "idle"
  /\ j \in Adds[work[w].job] \ added[w]
  /\ work[w].persistent => ~stopped
  /\ j \notin held
  /\ queue' = [queue EXCEPT ![Priority[j]] = Append(@, j)]
  /\ held' = held \cup {j}
  /\ added' = IF work[w].persistent THEN added ELSE [added EXCEPT ![w] = @ \cup {j}]
  /\ late' = IF shutdown THEN late \cup {j} ELSE late
  /\ LET r == [NoCall EXCEPT !.pc = "add", !.job = j, !.jobs = Queued + 1,
                             !.threads = total - persistents]
     IN AddWorker(w, r)
  /\ UNCHANGED <<slot, total, persistents, shutdown, age, stopped>>

AddMore(c) ==
  /\ call[c].pc = "add" /\ Created(c)
  /\ AddWorker(c, [call[c] EXCEPT !.threads = @ + 1])
  /\ UNCHANGED <<added, queue, slot, total, persistents, shutdown, age, stopped, held, late>>

(* ThreadPoolInit: one thread after the other, until MinThreads run or one  *)
(* cannot be created.                                                       *)
PoolInit ==
  /\ call[Main].pc = "init" /\ Created(Main)
  /\ \/ total < MinThreads /\ Create(Main, call[Main])
     \/ /\ call' = [call EXCEPT ![Main] =
                      [NoCall EXCEPT !.pc = IF total < MinThreads THEN "failed" ELSE "idle"]]
        /\ UNCHANGED <<work, crossed>>
  /\ UNCHANGED <<added, queue, slot, total, persistents, shutdown, age, stopped, held, late>>

(* ThreadPoolAddPersistent.  A thread that cannot be created is no error;  *)
(* a call that returns EMAXTHREADS changes nothing.                        *)
FillSlot(j) ==
  /\ slot' = j
  /\ held' = held \cup {j}
  /\ Signal
  /\ call' = [call EXCEPT ![Main] = [NoCall EXCEPT !.pc = "slot", !.job = j]]
  /\ UNCHANGED crossed

AddPersistent(j) ==
  /\ call[Main].pc = "idle" /\ ~stopped /\ ~shutdown
  /\ j \in Lasting \ held
  /\ total >= MaxThreads => total - persistents - 1 # 0
  /\ \/ /\ total < MaxThreads
        /\ Create(Main, [NoCall EXCEPT !.pc = "lasting", !.job = j])
        /\ UNCHANGED <<slot, held>>
     \/ FillSlot(j)
  /\ UNCHANGED <<added, queue, total, persistents, shutdown, age, stopped, late>>

AddPersistentMore ==
  /\ call[Main].pc = "lasting" /\ Created(Main)
  /\ FillSlot(call[Main].job)
  /\ UNCHANGED <<added, queue, total, persistents, shutdown, age, stopped, late>>

PersistentTaken ==
  /\ call[Main].pc = "slot" /\ slot = NoJob
  /\ call' = [call EXCEPT ![Main] = NoCall]
  /\ UNCHANGED <<added, queue, slot, total, persistents, shutdown, age, work, stopped, held, late, crossed>>

(* TimerThreadShutdown or StopMiniServer: the persistent jobs end, which   *)
(* UpnpFinish waits for before it shuts the pool down.                     *)
Stop ==
  /\ call[Main].pc = "idle" /\ ~stopped
  /\ stopped' = TRUE
  /\ UNCHANGED <<added, queue, slot, total, persistents, shutdown, age, work, call, held, late, crossed>>

Freed == UNION {ToSet(queue[l]) : l \in Level}

ThreadPoolShutdown ==
  /\ queue' = [l \in Level |-> <<>>]
  /\ slot' = NoJob
  /\ shutdown' = TRUE
  /\ held' = held \ Freed
  /\ age' = [j \in Job |-> 0]
  /\ work' = [w \in Worker |-> IF work[w].pc = "asleep" THEN [work[w] EXCEPT !.pc = "awake"]
                               ELSE work[w]]
  /\ call' = [call EXCEPT ![Main] = [NoCall EXCEPT !.pc = "drain"]]
  /\ UNCHANGED <<added, total, persistents, stopped, late, crossed>>

Shutdown ==
  call[Main].pc = "idle" /\ stopped /\ held \cap Lasting = {} /\ ThreadPoolShutdown

(* A pool whose first threads cannot be created is shut down at once.       *)
CleanUp == call[Main].pc = "failed" /\ ThreadPoolShutdown

ShutdownDone ==
  /\ call[Main].pc = "drain" /\ total = 0
  /\ call' = [call EXCEPT ![Main] = [NoCall EXCEPT !.pc = "over"]]
  /\ UNCHANGED <<added, queue, slot, total, persistents, shutdown, age, work, stopped, held, late, crossed>>

(* A queued job has waited for longer; so have the jobs before it.  Nobody *)
(* asks for the age of a job in the high queue.                            *)
Tick(l) ==
  \E i \in DOMAIN queue[l] :
    /\ age[queue[l][i]] < 2
    /\ \A k \in 1..(i - 1) : age[queue[l][k]] > age[queue[l][i]]
    /\ age' = [age EXCEPT ![queue[l][i]] = @ + 1]
    /\ UNCHANGED <<added, queue, slot, total, persistents, shutdown, work, call, stopped, held, late, crossed>>

Worked(w) ==
  \/ Start(w) \/ Sleep(w) \/ Die(w) \/ Leave(w)
  \/ PickPersistent(w) \/ Pick(w) \/ Return(w) \/ AddMore(w)

Continued == PoolInit \/ CleanUp \/ AddPersistentMore \/ PersistentTaken \/ ShutdownDone

Over == call[Main].pc = "over" /\ UNCHANGED vars

Next ==
  \/ \E w \in Worker : Worked(w) \/ TimeOut(w) \/ \E j \in Job : Add(w, j)
  \/ Continued
  \/ \E j \in Job : AddPersistent(j)
  \/ Stop
  \/ Shutdown
  \/ Tick("med")
  \/ Tick("low")
  \/ Over

Spec == Init /\ [][Next]_vars

(* Every thread is scheduled and gets the mutex, a started thread runs, a  *)
(* regular job ends, and time passes.                                      *)
FairSpec ==
  /\ Spec
  /\ \A w \in Worker : WF_vars(Worked(w))
  /\ WF_vars(Continued)
  /\ WF_vars(Tick("med")) /\ WF_vars(Tick("low"))

-----------------------------------------------------------------------------
(***************************************************************************)
(* Properties.                                                             *)
(***************************************************************************)
TypeOK ==
  /\ queue \in [Level -> Seq(Job)] /\ slot \in Job \cup {NoJob}
  /\ total \in Nat /\ persistents \in Nat
  /\ shutdown \in BOOLEAN /\ stopped \in BOOLEAN /\ crossed \in BOOLEAN
  /\ age \in [Job -> 0..2]
  /\ work \in [Worker -> [pc : {"none", "starting", "top", "asleep", "awake", "timedout", "running"},
                         job : Job \cup {NoJob}, persistent : BOOLEAN]]
  /\ added \in [Worker -> SUBSET Job]
  /\ call \in [Worker \cup {Main} ->
                [pc : {"idle", "init", "failed", "add", "lasting", "slot", "drain", "over"},
                 job : Job \cup {NoJob}, jobs : Nat, threads : Nat, current : Nat]]
  /\ late \subseteq held /\ held \subseteq Job

Alive == {w \in Worker : work[w].pc \notin {"none", "starting"}}

(* The two counters, which AddWorker and AddPersistent divide and compare, *)
(* are those of the threads there are, whatever job a thread ran before.   *)
CountsExact ==
  /\ total = Cardinality(Alive)
  /\ persistents = Cardinality({w \in Worker : work[w].persistent})

(* A job that was accepted is in one place, a queue, the slot or a thread, *)
(* until it has run or been freed, and one that was not is nowhere: moving *)
(* between queues neither loses a job nor runs it twice, and when the      *)
(* shutdown is over, only jobs that came after it are left.                *)
Places(j) ==
  {p \in Level \X (1..Queued) : p[2] <= Len(queue[p[1]]) /\ queue[p[1]][p[2]] = j}
    \cup {w \in Worker : work[w].pc = "running" /\ work[w].job = j}
    \cup (IF slot = j THEN {Main} ELSE {})

JobsOnce ==
  /\ \A j \in Job : Cardinality(Places(j)) = IF j \in held THEN 1 ELSE 0
  /\ call[Main].pc = "over" => held = late

(* "A thread pool will never have more than maxThreads threads", and none  *)
(* that starts after the shutdown has destroyed the mutex: as long as no   *)
(* two CreateWorker overlap and none is overtaken by a thread that leaves. *)
(* And as idle threads time out together, minThreads of them stay.         *)
ThreadsBounded ==
  /\ call[Main].pc \notin {"init", "failed"} /\ ~shutdown => total >= MinThreads
  /\ ~crossed => /\ Cardinality(Alive \cup With("starting")) <= MaxThreads
                 /\ call[Main].pc = "over" => With("starting") = {}

(* No more threads could be created than those that run persistent jobs.    *)
Occupied ==
  call[Main].pc \notin {"init", "failed"} /\ ~shutdown /\ total = persistents

(* An accepted job is run, or freed by the shutdown, however many jobs of  *)
(* a higher priority keep coming, unless all threads that can be created   *)
(* have persistent jobs.                                                    *)
JobsEnd ==
  \A j \in Job \ Lasting :
    <>[]Occupied \/ (j \in held \ late ~> (j \notin held \ late \/ crossed))

(* No call waits for ever: for a thread it created, for its persistent job *)
(* to be picked up, for the threads to leave; though ThreadPoolAddPersistent *)
(* does, when all the threads that can be created have persistent jobs.     *)
CallsReturn ==
  \A c \in Worker \cup {Main} :
    \/ <>[]Occupied
    \/ call[c].pc \notin {"idle", "over"} ~> (call[c].pc \in {"idle", "over"} \/ crossed)
=============================================================================
