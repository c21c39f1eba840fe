-------------------------- MODULE AdaptiveScheduler --------------------------
(***************************************************************************)
(* src/scheduler: AdaptiveScheduler over CPUWorker, VulkanWorker and       *)
(* CUDAWorker, which share one shape: a queue, a map of jobs, one thread   *)
(* and two condition variables, under one mutex per worker.  Client        *)
(* threads schedule workloads and wait for handles; the owner destroys the *)
(* scheduler when no client is in a call.                                  *)
(*                                                                         *)
(* A thread that sleeps on a condition variable runs again only when it is *)
(* notified, so that a lost notification would show (spurious wakeups only *)
(* repeat the test of the predicate).  The cost model takes the cheapest   *)
(* of the feasible backends; the costs come from measured times, so that   *)
(* it is any of them.  A workload is the backends it has a callback for    *)
(* and the bytes it moves; whether the callback succeeds is open.  Handles *)
(* of a worker, and of the scheduler, are positions in a sequence, as the  *)
(* counters are.                                                           *)
(***************************************************************************)
EXTENDS Integers, Sequences, FiniteSets

CONSTANTS
    Backends,       \* the workers
    destroyOrder,   \* the workers in the order they are destroyed
    CPU,            \* the worker that the cost model falls back to
    memory,         \* memory_available of the devices that are available, 0 if unknown
    Workloads,      \* workloads: callbacks and bytes
    Clients,        \* client threads
    MaxTasks,       \* bound: workloads scheduled
    MaxSamples      \* bound: a worker with this many samples is not waited for again

ASSUME SchedulerAssumption ==
    /\ IsFiniteSet(Backends)
    /\ destroyOrder \in [1..Cardinality(Backends) -> Backends]
    /\ \A b \in Backends : \E i \in DOMAIN destroyOrder : destroyOrder[i] = b
    /\ CPU \in Backends /\ DOMAIN memory \subseteq Backends
    /\ MaxTasks \in Nat /\ MaxSamples \in Nat

VARIABLES
    jobs,       \* jobs_ of a worker, by handle: whether the callback succeeds, and the status
    queue,      \* queue_ of a worker
    stop,       \* stop_ of a worker
    worker,     \* the thread of a worker
    records,    \* records_ of the scheduler, by handle
    samples,    \* sample_count of PerformanceHistory
    client,     \* the call each client is in
    owner       \* the destructor: next worker to destroy, and how far it is

workerVars == <<jobs, queue, stop, worker>>
schedVars  == <<records, samples>>
vars == <<workerVars, schedVars, client, owner>>

Final == {"COMPLETED", "FAILED"}

Idle == [pc |-> "idle"]

Init ==
    /\ jobs = [b \in Backends |-> <<>>]
    /\ queue = [b \in Backends |-> <<>>]
    /\ stop = [b \in Backends |-> FALSE]
    /\ worker = [b \in Backends |-> [pc |-> "lock", handle |-> 0]]
    /\ records = <<>>
    /\ samples = [b \in Backends |-> 0]
    /\ client = [c \in Clients |-> Idle]
    /\ owner = [pc |-> "alive", next |-> 1]

Scheduled == Len(records) + Cardinality({c \in Clients : client[c].pc = "record"})

-----------------------------------------------------------------------------
(* Worker threads: workerLoop.                                              *)

\* notify_one on cv_queue_, on which only the worker's thread sleeps.
Woken(w) == IF w.pc = "asleep" THEN [w EXCEPT !.pc = "lock"] ELSE w

WorkerSleeps(b) ==
    /\ worker[b].pc = "lock"
    /\ ~stop[b] /\ queue[b] = <<>>
    /\ worker' = [worker EXCEPT ![b].pc = "asleep"]
    /\ UNCHANGED <<jobs, queue, stop, schedVars, client, owner>>

\* Mutant: a stopped worker leaves without draining its queue.
WorkerExitsAtOnce(b) ==
    /\ worker[b].pc = "lock"
    /\ stop[b]
    /\ worker' = [worker EXCEPT ![b].pc = "exited"]
    /\ UNCHANGED <<jobs, queue, stop, schedVars, client, owner>>

WorkerExits(b) ==
    /\ worker[b].pc = "lock"
    /\ stop[b] /\ queue[b] = <<>>
    /\ worker' = [worker EXCEPT ![b].pc = "exited"]
    /\ UNCHANGED <<jobs, queue, stop, schedVars, client, owner>>

\* Also after stop_: the queue is drained.
WorkerTakes(b) ==
    LET h == Head(queue[b]) IN
    /\ worker[b].pc = "lock"
    /\ queue[b] # <<>>
    /\ queue' = [queue EXCEPT ![b] = Tail(@)]
    /\ jobs' = [jobs EXCEPT ![b][h].status = "RUNNING"]
    /\ worker' = [worker EXCEPT ![b] = [pc |-> "run", handle |-> h]]
    /\ UNCHANGED <<stop, schedVars, client, owner>>

\* The callback has run, without the lock; a missing callback and one that
\* throws a std::exception fail.
WorkerRuns(b) ==
    LET h == worker[b].handle IN
    /\ worker[b].pc = "run"
    /\ jobs' = [jobs EXCEPT ![b][h].status =
                   IF jobs[b][h].ok THEN "COMPLETED" ELSE "FAILED"]
    /\ worker' = [worker EXCEPT ![b].pc = "notify"]
    /\ UNCHANGED <<queue, stop, schedVars, client, owner>>

\* Mutant: one waiter is notified instead of all.
WorkerNotifiesOne(b) ==
    LET asleep == {c \in Clients : client[c].pc = "asleep" /\ client[c].backend = b} IN
    /\ worker[b].pc = "notify"
    /\ IF asleep = {} THEN UNCHANGED client
       ELSE \E c \in asleep : client' = [client EXCEPT ![c].pc = "lock"]
    /\ worker' = [worker EXCEPT ![b].pc = "lock"]
    /\ UNCHANGED <<jobs, queue, stop, schedVars, owner>>

\* notify_all on cv_result_, after the lock is released.
WorkerNotifies(b) ==
    /\ worker[b].pc = "notify"
    /\ client' = [c \in Clients |->
                     IF client[c].pc = "asleep" /\ client[c].backend = b
                     THEN [client[c] EXCEPT !.pc = "lock"] ELSE client[c]]
    /\ worker' = [worker EXCEPT ![b].pc = "lock"]
    /\ UNCHANGED <<jobs, queue, stop, schedVars, owner>>

WorkerStep(b) ==
    WorkerSleeps(b) \/ WorkerExits(b) \/ WorkerTakes(b) \/ WorkerRuns(b) \/ WorkerNotifies(b)

-----------------------------------------------------------------------------
(* CostModel.                                                               *)

\* evaluateCandidate gives a finite cost: the device's memory is unknown or
\* enough, and the workload has a callback for its backend.
feasible(w, b) ==
    /\ w.bytes > 0 /\ memory[b] > 0 => w.bytes <= memory[b]
    /\ b \in w.callbacks

\* evaluate: one of the feasible available devices, or else the CPU.
evaluate(w) ==
    LET candidates == {b \in DOMAIN memory : feasible(w, b)}
    IN  IF candidates = {} THEN {CPU} ELSE candidates

-----------------------------------------------------------------------------
(* Client threads.                                                          *)

\* The worker's submit.  The worker may run the job before the scheduler has
\* a record of it.
submit(c, b, ok) ==
    /\ owner.pc = "alive" /\ client[c] = Idle
    /\ Scheduled < MaxTasks
    /\ jobs' = [jobs EXCEPT ![b] = Append(@, [ok |-> ok, status |-> "QUEUED"])]
    /\ queue' = [queue EXCEPT ![b] = Append(@, Len(jobs'[b]))]
    /\ worker' = [worker EXCEPT ![b] = Woken(@)]
    /\ client' = [client EXCEPT ![c] =
                     [pc |-> "record", backend |-> b, handle |-> Len(jobs'[b]), ok |-> ok]]
    /\ UNCHANGED <<stop, schedVars, owner>>

\* A workload without a callback for its backend fails.
schedule(c, w, ok) ==
    \E b \in evaluate(w) : (ok => b \in w.callbacks) /\ submit(c, b, ok)

\* The caller names the backend, whatever it costs.
scheduleToBackend(c, w, b, ok) == (ok => b \in w.callbacks) /\ submit(c, b, ok)

\* The rest of submitToWorker, under the scheduler's mutex.
submitToWorker(c) ==
    /\ client[c].pc = "record"
    /\ records' = Append(records, [backend |-> client[c].backend, handle |-> client[c].handle,
                                   ok |-> client[c].ok])
    /\ client' = [client EXCEPT ![c] = Idle]
    /\ UNCHANGED <<workerVars, samples, owner>>

\* Mutant: the job is waited for on a fixed worker.
waitElsewhere(c, h) ==
    /\ owner.pc = "alive" /\ client[c] = Idle
    /\ samples[records[h].backend] < MaxSamples
    /\ client' = [client EXCEPT ![c] = [pc |-> "lock", backend |-> destroyOrder[1],
                                        handle |-> records[h].handle, task |-> h]]
    /\ UNCHANGED <<workerVars, schedVars, owner>>

\* wait: the record says which worker, and which of its handles.  A handle
\* without a record returns an error at once.
wait(c, h) ==
    /\ owner.pc = "alive" /\ client[c] = Idle
    /\ samples[records[h].backend] < MaxSamples
    /\ client' = [client EXCEPT ![c] = [pc |-> "lock", backend |-> records[h].backend,
                                        handle |-> records[h].handle, task |-> h]]
    /\ UNCHANGED <<workerVars, schedVars, owner>>

\* The predicate of cv_result_.
Ready(c) ==
    /\ client[c].handle \in DOMAIN jobs[client[c].backend]
    /\ jobs[client[c].backend][client[c].handle].status \in Final

WaitSleeps(c) ==
    /\ client[c].pc = "lock" /\ ~Ready(c)
    /\ client' = [client EXCEPT ![c].pc = "asleep"]
    /\ UNCHANGED <<workerVars, schedVars, owner>>

\* The worker's wait returns the result of the job.
WaitGets(c) ==
    LET j == jobs[client[c].backend][client[c].handle] IN
    /\ client[c].pc = "lock" /\ Ready(c)
    /\ client' = [client EXCEPT ![c] = [pc |-> "feedback", task |-> client[c].task,
                                        success |-> j.status = "COMPLETED"]]
    /\ UNCHANGED <<workerVars, schedVars, owner>>

\* recordCompletion: a success is a sample of the backend's rates.
recordCompletion(b, success) ==
    samples' = IF success THEN [samples EXCEPT ![b] = @ + 1] ELSE samples

\* Back in the scheduler, the result is fed into the history.
WaitReturns(c) ==
    /\ client[c].pc = "feedback"
    /\ recordCompletion(records[client[c].task].backend, client[c].success)
    /\ client' = [client EXCEPT ![c] = Idle]
    /\ UNCHANGED <<workerVars, records, owner>>

ClientStep(c) ==
    submitToWorker(c) \/ WaitSleeps(c) \/ WaitGets(c) \/ WaitReturns(c)

-----------------------------------------------------------------------------
(* ~AdaptiveScheduler: the workers are destroyed one after the other.       *)

Destroy ==
    /\ owner.pc = "alive" /\ \A c \in Clients : client[c] = Idle
    /\ owner' = [owner EXCEPT !.pc = "stop"]
    /\ UNCHANGED <<workerVars, schedVars, client>>

Victim == destroyOrder[owner.next]

DestroyStop ==
    /\ owner.pc = "stop"
    /\ stop' = [stop EXCEPT ![Victim] = TRUE]
    /\ owner' = [owner EXCEPT !.pc = "notify"]
    /\ UNCHANGED <<jobs, queue, worker, schedVars, client>>

\* Mutant: the destructor joins without waking the thread.
DestroyNotifyNobody ==
    /\ owner.pc = "notify"
    /\ owner' = [owner EXCEPT !.pc = "join"]
    /\ UNCHANGED <<workerVars, schedVars, client>>

\* The thread is notified after the lock is released.
DestroyNotify ==
    /\ owner.pc = "notify"
    /\ worker' = [worker EXCEPT ![Victim] = Woken(@)]
    /\ owner' = [owner EXCEPT !.pc = "join"]
    /\ UNCHANGED <<jobs, queue, stop, schedVars, client>>

DestroyJoin ==
    /\ owner.pc = "join" /\ worker[Victim].pc = "exited"
    /\ owner' = [pc |-> IF owner.next = Cardinality(Backends) THEN "gone" ELSE "stop",
                 next |-> owner.next + 1]
    /\ UNCHANGED <<workerVars, schedVars, client>>

OwnerStep == DestroyStop \/ DestroyNotify \/ DestroyJoin

-----------------------------------------------------------------------------
Next ==
    \/ \E b \in Backends : WorkerStep(b)
    \/ \E c \in Clients : ClientStep(c)
    \/ \E c \in Clients, w \in Workloads, ok \in BOOLEAN :
           schedule(c, w, ok) \/ \E b \in Backends : scheduleToBackend(c, w, b, ok)
    \/ \E c \in Clients : \E h \in DOMAIN records : wait(c, h)
    \/ Destroy \/ OwnerStep

\* Threads that can go on do, and callbacks return; nobody must call.
Fairness ==
    /\ \A b \in Backends : WF_vars(WorkerStep(b))
    /\ \A c \in Clients : WF_vars(ClientStep(c))
    /\ WF_vars(OwnerStep)

Spec == Init /\ [][Next]_vars /\ Fairness

-----------------------------------------------------------------------------
(* Properties.                                                              *)

\* The handles of different workers overlap; still, a wait that returns has
\* the result of the workload whose handle it was given.
ResultOfOwnTask ==
    \A c \in Clients :
        client[c].pc = "feedback" => client[c].success = records[client[c].task].ok

\* A job that is not finished is in exactly one place, in the queue or with
\* the thread of its worker; and a worker that was destroyed has left none.
NoJobLost ==
    \A b \in Backends : \A h \in DOMAIN jobs[b] :
        LET places == {i \in DOMAIN queue[b] : queue[b][i] = h} IN
        /\ worker[b].pc = "exited" => jobs[b][h].status \in Final
        /\ CASE jobs[b][h].status = "QUEUED"  -> Cardinality(places) = 1
             [] jobs[b][h].status = "RUNNING" -> places = {} /\ worker[b].handle = h
                                                 /\ worker[b].pc = "run"
             [] OTHER -> places = {} /\ jobs[b][h].status \in Final

\* IWorker.h: wait blocks "until the task completes", not longer: every
\* client that waits returns, whoever else waits for the same worker.
WaitsReturn == \A c \in Clients : client[c].pc \in {"lock", "asleep"} ~> client[c].pc = "idle"

\* The destructor comes to an end, whenever it starts: the worker's thread
\* does not sleep through stop_.
DestructorEnds == owner.pc # "alive" ~> owner.pc = "gone"
=============================================================================
