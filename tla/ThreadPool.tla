------------------------------ MODULE ThreadPool ------------------------------
(***************************************************************************)
(* ThreadHelpers::ThreadPool, the pool that serves the HTTP connections,   *)
(* driven through ThreadPoolAdaptor by its only client: the thread that    *)
(* runs httplib's accept loop.  That thread calls enqueue() for every      *)
(* accepted socket, shutdown() when the loop ends, and then destroys the   *)
(* pool.                                                                   *)
(*                                                                         *)
(* One step is what can be seen by another thread as one step: a critical  *)
(* section under tasks_mutex_, a read or a write of an atomic, a notify.   *)
(* condition_variable::wait(lock, pred) is its loop: evaluate pred, then   *)
(* (a separate step, still under the mutex) block and release the mutex.   *)
(* A notify wakes only the threads that are already blocked.               *)
(***************************************************************************)
EXTENDS Integers, Sequences, FiniteSets

CONSTANTS
    Workers,    \* the threads of the pool (http_threads_count of them)
    Capacity,   \* tasks_max_capacity_ (http_queue_capacity)
    MaxTasks,   \* bound of the model: how many tasks the client submits
    Callbacks   \* which add_task calls are made: with (TRUE), without (FALSE) a cb

ASSUME WorkersAssumption   == IsFiniteSet(Workers) /\ Workers # {}
ASSUME CapacityAssumption  == Capacity \in Nat \ {0}
ASSUME MaxTasksAssumption  == MaxTasks \in Nat
ASSUME CallbacksAssumption == Callbacks \subseteq BOOLEAN

VARIABLES
    tasks_last_id, tasks_completed_count, tasks_refused_count,  \* statistic_
    threads_stop,   \* threads_stop_
    tasks,          \* tasks_: the ids of the queued tasks, oldest first
    pc,             \* where each worker is in run()
    current,        \* the task a worker took from the queue, or NoTask
    owner,          \* where the client is: serving, in wait_all(), in ~ThreadPool()
    acked,          \* history: ids that add_task returned (enqueue returned true)
    turnedAway      \* history: ids that add_task refused

counters == <<tasks_last_id, tasks_completed_count, tasks_refused_count>>
vars == <<counters, threads_stop, tasks, pc, current, owner, acked, turnedAway>>

-----------------------------------------------------------------------------
NoTask  == -1
TaskIds == 0 .. MaxTasks - 1

\* Worker positions: "loop" while(!threads_stop_); "lock" about to lock
\* tasks_mutex_; "block" the predicate was false, about to block; "asleep"
\* blocked in tasks_condition_; "busy" running a task; "announce" before
\* notify_all; "skip" the same, but still under tasks_mutex_ (no task was taken).
WorkerPlaces == {"loop", "lock", "block", "asleep", "busy", "announce", "skip", "exit"}

\* Client positions: "serving" in the accept loop; "waitTest", "waitBlock" and
\* "waitAsleep" in wait_all(); "destroy", "notify" and "join" in ~ThreadPool().
OwnerPlaces == {"serving", "waitTest", "waitBlock", "waitAsleep",
                "destroy", "notify", "join", "destroyed"}

At(place) == {w \in Workers : pc[w] = place}
MutexFree == At("block") \cup At("skip") = {}       \* tasks_mutex_ can be locked

\* Variant with a bug: wait_all() looks at the queue only.
AllCountedWhenQueueEmpty == tasks = <<>>

AllCounted == tasks_completed_count + tasks_refused_count = tasks_last_id

Init ==
    /\ tasks_last_id = 0 /\ tasks_completed_count = 0 /\ tasks_refused_count = 0
    /\ threads_stop = FALSE
    /\ tasks = <<>>
    /\ pc = [w \in Workers |-> "loop"]
    /\ current = [w \in Workers |-> NoTask]
    /\ owner = "serving"
    /\ acked = {} /\ turnedAway = {}

-----------------------------------------------------------------------------

\* Variant with a bug: add_task does not notify.
NotifyNobody == pc' = pc

(* tasks_condition_.notify_one(): one blocked worker, if there is one.     *)
NotifyOne ==
    IF At("asleep") = {}
    THEN pc' = pc
    ELSE \E w \in At("asleep") : pc' = [pc EXCEPT ![w] = "lock"]

\* Variant with a bug: the capacity test is off by one.
HasRoomForOneMore == Len(tasks) <= Capacity
HasRoom == Len(tasks) < Capacity

Emplace ==
    /\ HasRoom
    /\ tasks' = Append(tasks, tasks_last_id)
    /\ NotifyOne
    /\ UNCHANGED <<tasks_refused_count, turnedAway>>

\* Variant with a bug: a refused task is not counted, wait_all() waits for it.
CountNothing == UNCHANGED tasks_refused_count
CountRefused == tasks_refused_count' = tasks_refused_count + 1

Refuse ==
    /\ ~HasRoom
    /\ CountRefused
    /\ turnedAway' = turnedAway \cup {tasks_last_id}
    /\ UNCHANGED <<tasks, pc>>

\* What add_task returns: nullopt only for a refused task that has a callback.
Returns(cb, refused) == IF refused /\ cb THEN {} ELSE {tasks_last_id}

(* ThreadPoolAdaptor::enqueue -> add_task(cb, fn), one critical section.   *)
AddTask(cb) ==
    /\ owner = "serving"
    /\ tasks_last_id < MaxTasks
    /\ MutexFree
    /\ tasks_last_id' = tasks_last_id + 1
    /\ Emplace \/ Refuse
    /\ acked' = acked \cup Returns(cb, ~HasRoom)
    /\ UNCHANGED <<tasks_completed_count, threads_stop, current, owner>>

-----------------------------------------------------------------------------
OwnerMoves(from, to) ==
    /\ owner = from
    /\ owner' = to
    /\ UNCHANGED <<counters, tasks, current, acked, turnedAway>>

(* ThreadPoolAdaptor::shutdown -> wait_all().  Nobody else locks           *)
(* task_results_all_mutex_: the notifying workers do not.                  *)
Shutdown   == OwnerMoves("serving", "waitTest") /\ UNCHANGED <<threads_stop, pc>>
WaitTest   == /\ OwnerMoves("waitTest", IF AllCounted THEN "destroy" ELSE "waitBlock")
              /\ UNCHANGED <<threads_stop, pc>>
WaitBlock  == OwnerMoves("waitBlock", "waitAsleep") /\ UNCHANGED <<threads_stop, pc>>
SpuriousOwner == OwnerMoves("waitAsleep", "waitTest") /\ UNCHANGED <<threads_stop, pc>>

(* ~ThreadPool(): threads_stop_ is set and notify_all called without        *)
(* tasks_mutex_, then every thread is joined.                              *)
SetStop    == OwnerMoves("destroy", "notify") /\ threads_stop' = TRUE /\ UNCHANGED pc
NotifyStop == /\ OwnerMoves("notify", "join")
              /\ pc' = [w \in Workers |-> IF pc[w] = "asleep" THEN "lock" ELSE pc[w]]
              /\ UNCHANGED threads_stop
Join       == /\ At("exit") = Workers
              /\ OwnerMoves("join", "destroyed")
              /\ UNCHANGED <<threads_stop, pc>>

Owner == WaitTest \/ WaitBlock \/ SetStop \/ NotifyStop \/ Join

-----------------------------------------------------------------------------
(* ThreadPool::run(), one worker.                                          *)
Moves(w, from, to) == pc[w] = from /\ pc' = [pc EXCEPT ![w] = to]

\* Variant with a bug: the thread does not look at threads_stop_.
Forever == TRUE
Continues == ~threads_stop

Loop(w) ==
    /\ Moves(w, "loop", IF Continues THEN "lock" ELSE "exit")
    /\ UNCHANGED <<counters, threads_stop, tasks, current, owner, acked, turnedAway>>

\* Variant with a bug: tasks_.pop() is missing.
PopNothing == UNCHANGED tasks
Pop == tasks' = Tail(tasks)

\* The predicate holds and so does the test behind it: take a task, unlock.
Take(w) ==
    /\ MutexFree
    /\ tasks # <<>> /\ ~threads_stop
    /\ Moves(w, "lock", "busy")
    /\ current' = [current EXCEPT ![w] = Head(tasks)]
    /\ Pop
    /\ UNCHANGED <<counters, threads_stop, owner, acked, turnedAway>>

\* The predicate holds because of the stop: no task, and the mutex is kept.
Skip(w) ==
    /\ MutexFree
    /\ threads_stop
    /\ Moves(w, "lock", "skip")
    /\ UNCHANGED <<counters, threads_stop, tasks, current, owner, acked, turnedAway>>

\* The predicate is false: the worker is going to block, under the mutex ...
Doze(w) ==
    /\ MutexFree
    /\ tasks = <<>> /\ ~threads_stop
    /\ Moves(w, "lock", "block")
    /\ UNCHANGED <<counters, threads_stop, tasks, current, owner, acked, turnedAway>>

\* ... and blocks, which releases it.
Block(w) ==
    /\ Moves(w, "block", "asleep")
    /\ UNCHANGED <<counters, threads_stop, tasks, current, owner, acked, turnedAway>>

SpuriousWorker(w) ==
    /\ Moves(w, "asleep", "lock")
    /\ UNCHANGED <<counters, threads_stop, tasks, current, owner, acked, turnedAway>>

\* Variant with a bug: the worker keeps the task it has finished.
KeepTask(w) == UNCHANGED current
DropTask(w) == current' = [current EXCEPT ![w] = NoTask]

\* The task returns or throws a std::exception; then it is counted.
Finish(w) ==
    /\ Moves(w, "busy", "announce")
    /\ DropTask(w)
    /\ tasks_completed_count' = tasks_completed_count + 1
    /\ UNCHANGED <<tasks_last_id, tasks_refused_count, threads_stop, tasks,
                   owner, acked, turnedAway>>

\* Variant with a bug: nobody tells wait_all() that a task is complete.
WakeNobody == UNCHANGED owner
WakeOwner == owner' = IF owner = "waitAsleep" THEN "waitTest" ELSE owner

\* task_results_all_condition_.notify_all(), then the end of the iteration.
Announce(w) ==
    /\ Moves(w, "announce", "loop") \/ Moves(w, "skip", "loop")
    /\ WakeOwner
    /\ UNCHANGED <<counters, threads_stop, tasks, current, acked, turnedAway>>

Worker(w) == \/ Loop(w) \/ Take(w) \/ Skip(w) \/ Doze(w) \/ Block(w)
             \/ Finish(w) \/ Announce(w)

-----------------------------------------------------------------------------
Terminated == owner = "destroyed" /\ UNCHANGED vars

Next ==
    \/ \E cb \in Callbacks : AddTask(cb)
    \/ Shutdown
    \/ Owner
    \/ SpuriousOwner
    \/ \E w \in Workers : Worker(w) \/ SpuriousWorker(w)
    \/ Terminated

Spec == Init /\ [][Next]_vars

\* Every thread that can step does so at last (tasks end: httplib's timeouts).
\* Nothing makes the client submit or shut down, nor a wait end spuriously.
Fairness == WF_vars(Owner) /\ \A w \in Workers : WF_vars(Worker(w))
FairSpec == Spec /\ Fairness

-----------------------------------------------------------------------------
\* The variables have their types; a worker has a task exactly while it is busy.
TypeOK ==
    /\ tasks_last_id \in 0 .. MaxTasks
    /\ tasks_completed_count \in Nat
    /\ tasks_refused_count \in Nat
    /\ threads_stop \in BOOLEAN
    /\ tasks \in Seq(Nat)
    /\ pc \in [Workers -> WorkerPlaces]
    /\ current \in [Workers -> Nat \cup {NoTask}]
    /\ \A w \in Workers : pc[w] = "busy" <=> current[w] # NoTask
    /\ owner \in OwnerPlaces
    /\ acked \subseteq Nat /\ turnedAway \subseteq Nat

\* The three counters, which wait_all compares, add up with the queue and the
\* workers at every step: no task is counted twice, lost or counted early.
Accounting ==
    tasks_last_id = tasks_completed_count + tasks_refused_count
                    + Len(tasks) + Cardinality(At("busy"))

\* Tasks are started in the order of their ids, each by one worker: whatever
\* is queued is younger than whatever was taken, and no id is held twice.
FirstInFirstOut ==
    /\ \A i, j \in 1 .. Len(tasks) : i < j => tasks[i] < tasks[j]
    /\ \A w \in Workers, i \in 1 .. Len(tasks) : current[w] < tasks[i]
    /\ \A v, w \in At("busy") : v # w => current[v] # current[w]

\* No task waits behind a sleeping worker: as long as one worker is blocked
\* in tasks_condition_, there is for each queued task a worker that is awake
\* and on its way to the queue (add_task notifies one worker under the mutex).
Coming == At("loop") \cup At("lock") \cup At("announce")
NoTaskForgotten ==
    At("asleep") # {} /\ ~threads_stop => Len(tasks) <= Cardinality(Coming)

\* wait_all() returns, and the destructor raises threads_stop_ after which
\* queued tasks are abandoned, only when every accepted task was executed.
DrainedBeforeStop ==
    owner \in {"destroy", "notify", "join", "destroyed"}
        => tasks = <<>> /\ At("busy") = {}

\* The comment in ThreadPoolAdaptor::enqueue: true only if the task was
\* actually enqueued.  (The code returns the id of a refused task as well.)
EnqueueTellsTheTruth == acked \cap turnedAway = {}

-----------------------------------------------------------------------------
\* The client is blocked in wait_all() and no notify_all is still to come.
WaitHung == owner = "waitAsleep" /\ AllCounted /\ At("announce") = {}
\* The destructor joins a worker that went to sleep after its notify_all.
JoinHung == owner = "join" /\ At("asleep") # {}

\* wait_all() and the destructor notify and test without the mutex, so a
\* wakeup can be lost; it is lost only in the gap between a false predicate
\* and the block, never by a thread that was already blocked.
LostOnlyInTheGap ==
    [][/\ ~WaitHung /\ WaitHung' => owner = "waitBlock"
       /\ ~JoinHung /\ JoinHung' => At("block") # {}]_vars

\* Shutdown and destruction end, but for the two lost wakeups above.
ShutdownEnds == owner # "serving" ~> owner = "destroyed" \/ WaitHung \/ JoinHung

=============================================================================
