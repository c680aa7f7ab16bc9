--------------------------- MODULE ThreadPoolProofs ---------------------------
(* What TLAPS proves of ThreadPool, for any pool size, capacity and load:   *)
(* its invariants, when a wakeup is lost and what that can stop, and that   *)
(* the pool implements TaskService.                                         *)
EXTENDS MCThreadPool, FiniteSetTheorems, TLAPS

-----------------------------------------------------------------------------
(* Type correctness.                                                       *)
LEMMA TypeInit == Init => TypeOK
<1> SUFFICES ASSUME Init PROVE TypeOK
    OBVIOUS
<1>1. tasks \in Seq(Nat)
  BY DEF Init
<1>2. /\ pc \in [Workers -> WorkerPlaces]
      /\ current \in [Workers -> Nat \cup {NoTask}]
      /\ \A w \in Workers : pc[w] = "busy" <=> current[w] # NoTask
  BY DEF Init, WorkerPlaces
<1>3. /\ tasks_last_id \in 0 .. MaxTasks
      /\ tasks_completed_count \in Nat /\ tasks_refused_count \in Nat
  BY MaxTasksAssumption DEF Init
<1>4. /\ threads_stop \in BOOLEAN /\ owner \in OwnerPlaces
      /\ acked \subseteq Nat /\ turnedAway \subseteq Nat
  BY DEF Init, OwnerPlaces
<1> QED BY <1>1, <1>2, <1>3, <1>4 DEF TypeOK

LEMMA TypeStep == TypeOK /\ [Next]_vars => TypeOK'
<1> SUFFICES ASSUME TypeOK, [Next]_vars PROVE TypeOK'
    OBVIOUS
<1> USE DEF TypeOK, WorkerPlaces, OwnerPlaces
<1>1. ASSUME NEW cb \in Callbacks, AddTask(cb) PROVE TypeOK'
  <2> USE <1>1 DEF AddTask, NoTask
  <2>1. tasks_last_id' \in 0 .. MaxTasks /\ tasks_completed_count' \in Nat
    BY MaxTasksAssumption
  <2> tasks_last_id \in Nat
    BY MaxTasksAssumption
  <2>2. tasks_refused_count' \in Nat
    BY DEF Emplace, HasRoom, Refuse, CountRefused
  <2>6. turnedAway' \subseteq Nat
    BY DEF Emplace, HasRoom, Refuse, CountRefused
  <2>3. tasks' \in Seq(Nat)
    <3>1. tasks \in Seq(Nat)
      OBVIOUS
    <3>2. tasks' = tasks \/ tasks' = Append(tasks, tasks_last_id)
      BY DEF Emplace, HasRoom, Refuse, CountRefused
    <3> QED BY ONLY <3>1, <3>2, tasks_last_id \in Nat
  <2>4. /\ pc' \in [Workers -> WorkerPlaces]
        /\ \A w \in Workers : pc'[w] = "busy" <=> current'[w] # NoTask
    BY DEF Emplace, HasRoom, Refuse, CountRefused, NotifyOne, At
  <2>5. acked' \subseteq Nat
    BY DEF Returns
  <2> QED BY <2>1, <2>2, <2>3, <2>4, <2>5, <2>6
<1>2. ASSUME Shutdown \/ WaitTest \/ WaitBlock \/ SpuriousOwner PROVE TypeOK'
  BY <1>2 DEF Shutdown, WaitTest, WaitBlock, SpuriousOwner, OwnerMoves, counters
<1>3. ASSUME SetStop \/ NotifyStop \/ Join PROVE TypeOK'
  BY <1>3 DEF SetStop, NotifyStop, Join, OwnerMoves, counters, NoTask
<1>4. ASSUME NEW w \in Workers, Loop(w) \/ Skip(w) \/ Doze(w) \/ Block(w) \/ SpuriousWorker(w)
      PROVE  TypeOK'
  BY <1>4 DEF Loop, Continues, Skip, Doze, Block, SpuriousWorker, Moves, counters
<1>5. ASSUME NEW w \in Workers, Take(w) PROVE TypeOK'
  <2>1. Head(tasks) \in Nat /\ tasks' \in Seq(Nat)
    BY <1>5 DEF Take, Pop
  <2> QED BY <1>5, <2>1 DEF Take, Pop, Moves, counters, NoTask
<1>6. ASSUME NEW w \in Workers, Finish(w) PROVE TypeOK'
  BY <1>6 DEF Finish, DropTask, Moves
<1>7. ASSUME NEW w \in Workers, Announce(w) PROVE TypeOK'
  BY <1>7 DEF Announce, WakeOwner, Moves, counters
<1>8. CASE UNCHANGED vars
  BY <1>8 DEF vars, counters
<1> QED BY <1>1, <1>2, <1>3, <1>4, <1>5, <1>6, <1>7, <1>8
        DEF Next, Owner, Worker, Terminated

\* Every variable keeps its type, and a worker holds a task exactly while it
\* is busy, whatever the number of workers, the capacity and the load.
THEOREM TypeCorrect == Spec => []TypeOK
BY TypeInit, TypeStep, PTL DEF Spec

-----------------------------------------------------------------------------
(* The accounting of the counters, by counting the busy workers.           *)
LEMMA BusyFinite == IsFiniteSet(At("busy")) /\ Cardinality(At("busy")) \in Nat
BY WorkersAssumption, FS_Subset, FS_CardinalityType DEF At

LEMMA AccountingStep ==
    TypeOK /\ Accounting /\ [Next]_vars => Accounting'
<1> SUFFICES ASSUME TypeOK, Accounting, [Next]_vars PROVE Accounting'
    OBVIOUS
<1> DEFINE Busy == At("busy")
<1>a. /\ tasks_last_id \in Nat /\ tasks_completed_count \in Nat
      /\ tasks_refused_count \in Nat /\ tasks \in Seq(Nat)
      /\ pc \in [Workers -> WorkerPlaces]
  BY MaxTasksAssumption DEF TypeOK
<1>b. IsFiniteSet(Busy) /\ Cardinality(Busy) \in Nat
  BY BusyFinite
<1>c. ASSUME Busy' = Busy, UNCHANGED <<counters, tasks>> PROVE Accounting'
  BY <1>c DEF Accounting, counters
<1>1. ASSUME NEW cb \in Callbacks, AddTask(cb) PROVE Accounting'
  <2>1. Busy' = Busy
    BY <1>1, <1>a DEF AddTask, Emplace, HasRoom, Refuse, CountRefused, NotifyOne, At
  <2>2. CASE Emplace
    <3>1. Len(tasks') = Len(tasks) + 1 /\ UNCHANGED tasks_refused_count
      BY <2>2, <1>1, <1>a DEF Emplace, HasRoom, AddTask
    <3> QED BY <1>1, <1>a, <1>b, <2>1, <3>1 DEF AddTask, Accounting
  <2>3. CASE Refuse
    BY <1>1, <1>a, <1>b, <2>1, <2>3 DEF AddTask, Refuse, CountRefused, Accounting
  <2> QED BY <1>1, <2>2, <2>3 DEF AddTask
<1>2. ASSUME Shutdown \/ WaitTest \/ WaitBlock \/ SpuriousOwner PROVE Accounting'
  BY <1>2, <1>c DEF Shutdown, WaitTest, WaitBlock, SpuriousOwner, OwnerMoves, At
<1>3. ASSUME SetStop \/ NotifyStop \/ Join PROVE Accounting'
  <2>1. Busy' = Busy
    BY <1>3, <1>a DEF SetStop, NotifyStop, Join, OwnerMoves, At
  <2> QED BY <1>3, <1>c, <2>1 DEF SetStop, NotifyStop, Join, OwnerMoves
<1>4. ASSUME NEW w \in Workers,
             Loop(w) \/ Skip(w) \/ Doze(w) \/ Block(w) \/ SpuriousWorker(w) \/ Announce(w)
      PROVE  Accounting'
  <2>1. Busy' = Busy
    BY <1>4, <1>a DEF Loop, Continues, Skip, Doze, Block, SpuriousWorker, Announce, WakeOwner, Moves, At
  <2> QED BY <1>4, <1>c, <2>1
          DEF Loop, Continues, Skip, Doze, Block, SpuriousWorker, Announce, WakeOwner, counters
<1>5. ASSUME NEW w \in Workers, Take(w) PROVE Accounting'
  <2>1. Busy' = Busy \cup {w} /\ w \notin Busy
    BY <1>5, <1>a DEF Take, Pop, Moves, At
  <2>2. Cardinality(Busy') = Cardinality(Busy) + 1
    BY <2>1, <1>b, FS_AddElement
  <2>3. Len(tasks') = Len(tasks) - 1 /\ Len(tasks) \in Nat
    BY <1>5, <1>a DEF Take, Pop
  <2> QED BY <1>5, <1>a, <1>b, <2>2, <2>3 DEF Take, Pop, counters, Accounting
<1>6. ASSUME NEW w \in Workers, Finish(w) PROVE Accounting'
  <2>1. Busy' = Busy \ {w} /\ w \in Busy
    BY <1>6, <1>a DEF Finish, DropTask, Moves, At
  <2>2. Cardinality(Busy') = Cardinality(Busy) - 1
    BY <2>1, <1>b, FS_RemoveElement
  <2>3. Len(tasks) \in Nat
    BY <1>a
  <2> QED BY <1>6, <1>a, <1>b, <2>2, <2>3 DEF Finish, DropTask, Accounting
<1>7. CASE UNCHANGED vars
  BY <1>7, <1>c DEF vars, At
<1> QED BY <1>1, <1>2, <1>3, <1>4, <1>5, <1>6, <1>7
        DEF Next, Owner, Worker, Terminated

LEMMA AccountingInit == Init => Accounting
<1> SUFFICES ASSUME Init PROVE Accounting
    OBVIOUS
<1>1. At("busy") = {}
  BY DEF Init, At
<1> QED BY <1>1, FS_EmptySet DEF Init, Accounting

\* At every step the counters that wait_all compares account for each task
\* once: executed, refused, queued or held by a worker.
THEOREM CountersAddUp == Spec => []Accounting
BY TypeInit, TypeStep, AccountingInit, AccountingStep, PTL DEF Spec

-----------------------------------------------------------------------------
(* The drain: once wait_all() has returned the counters stay balanced, and *)
(* balanced counters leave no task queued or running.                      *)
Returned == owner \in {"destroy", "notify", "join", "destroyed"}
StaysCounted == Returned => AllCounted

LEMMA CountedIsDrained ==
    TypeOK /\ Accounting /\ AllCounted => tasks = <<>> /\ At("busy") = {}
<1> SUFFICES ASSUME TypeOK, Accounting, AllCounted
             PROVE  tasks = <<>> /\ At("busy") = {}
    OBVIOUS
<1>1. Len(tasks) \in Nat /\ tasks \in Seq(Nat)
  BY DEF TypeOK
<1>2. Len(tasks) = 0 /\ Cardinality(At("busy")) = 0
  BY <1>1, BusyFinite, MaxTasksAssumption DEF TypeOK, Accounting, AllCounted
<1> QED BY <1>1, <1>2, BusyFinite, FS_EmptySet

LEMMA StaysCountedStep ==
    TypeOK /\ Accounting /\ StaysCounted /\ [Next]_vars => StaysCounted'
<1> SUFFICES ASSUME TypeOK, Accounting, StaysCounted, [Next]_vars, Returned'
             PROVE  AllCounted'
    BY DEF StaysCounted
<1> USE DEF StaysCounted, Returned, AllCounted, counters
<1>1. ASSUME NEW cb \in Callbacks, AddTask(cb) PROVE AllCounted'
  BY <1>1 DEF AddTask
<1>2. ASSUME Shutdown \/ WaitTest \/ WaitBlock \/ SpuriousOwner PROVE AllCounted'
  BY <1>2 DEF Shutdown, WaitTest, WaitBlock, SpuriousOwner, OwnerMoves
<1>3. ASSUME SetStop \/ NotifyStop \/ Join PROVE AllCounted'
  BY <1>3 DEF SetStop, NotifyStop, Join, OwnerMoves
<1>4. ASSUME NEW w \in Workers,
             \/ Loop(w) \/ Take(w) \/ Skip(w) \/ Doze(w) \/ Block(w)
             \/ SpuriousWorker(w) \/ Announce(w)
      PROVE  AllCounted'
  BY <1>4 DEF Loop, Continues, Take, Pop, Skip, Doze, Block, SpuriousWorker, Announce, WakeOwner
<1>5. ASSUME NEW w \in Workers, Finish(w) PROVE AllCounted'
  <2>1. w \in At("busy")
    BY <1>5 DEF Finish, DropTask, Moves, At
  <2> QED BY <1>5, <2>1, CountedIsDrained DEF Finish, DropTask
<1>6. CASE UNCHANGED vars
  BY <1>6 DEF vars
<1> QED BY <1>1, <1>2, <1>3, <1>4, <1>5, <1>6 DEF Next, Owner, Worker, Terminated

\* The pool is destroyed only when every accepted task has been executed:
\* raising threads_stop_, which abandons the queue, abandons nothing.
THEOREM NothingAbandoned == Spec => []DrainedBeforeStop
<1>1. Init => StaysCounted
  BY DEF Init, StaysCounted, Returned
<1>2. TypeOK /\ Accounting /\ StaysCounted => DrainedBeforeStop
  BY CountedIsDrained DEF StaysCounted, Returned, DrainedBeforeStop
<1> QED BY <1>1, <1>2, TypeInit, TypeStep, AccountingInit, AccountingStep,
           StaysCountedStep, PTL DEF Spec

-----------------------------------------------------------------------------
(* The order of the tasks: ids are handed out in increasing order.         *)
IdsBelowLast ==
    /\ \A i \in 1 .. Len(tasks) : tasks[i] < tasks_last_id
    /\ \A w \in Workers : current[w] < tasks_last_id
OrderInv == FirstInFirstOut /\ IdsBelowLast

LEMMA OrderInit == Init => OrderInv
BY DEF Init, OrderInv, IdsBelowLast, FirstInFirstOut, At, NoTask

LEMMA OrderStep == TypeOK /\ OrderInv /\ [Next]_vars => OrderInv'
<1> SUFFICES ASSUME TypeOK, OrderInv, [Next]_vars PROVE OrderInv'
    OBVIOUS
<1>a. /\ tasks_last_id \in Nat /\ tasks \in Seq(Nat)
      /\ pc \in [Workers -> WorkerPlaces]
      /\ current \in [Workers -> Nat \cup {NoTask}]
      /\ \A w \in Workers : pc[w] = "busy" <=> current[w] # NoTask
  BY MaxTasksAssumption DEF TypeOK
<1>b. ASSUME UNCHANGED <<tasks_last_id, tasks, current>>, At("busy")' = At("busy")
      PROVE  OrderInv'
  BY <1>b DEF OrderInv, FirstInFirstOut, IdsBelowLast
<1>1. ASSUME NEW cb \in Callbacks, AddTask(cb) PROVE OrderInv'
  <2>1. UNCHANGED current /\ At("busy")' = At("busy") /\ tasks_last_id' = tasks_last_id + 1
    BY <1>1, <1>a DEF AddTask, Emplace, HasRoom, Refuse, CountRefused, NotifyOne, At
  <2>2. CASE Emplace
    <3>1. /\ Len(tasks') = Len(tasks) + 1 /\ Len(tasks) \in Nat
          /\ \A i \in 1 .. Len(tasks) : tasks'[i] = tasks[i] /\ tasks[i] \in Nat
          /\ tasks'[Len(tasks) + 1] = tasks_last_id
      BY <2>2, <1>a DEF Emplace, HasRoom
    <3>2. \A w \in Workers : current[w] \in Int
      BY <1>a DEF NoTask
    <3>3. \A i, j \in 1 .. Len(tasks') : i < j => tasks'[i] < tasks'[j]
      <4> SUFFICES ASSUME NEW i \in 1 .. Len(tasks'), NEW j \in 1 .. Len(tasks'), i < j
                   PROVE  tasks'[i] < tasks'[j]
          OBVIOUS
      <4>1. i \in 1 .. Len(tasks) /\ tasks'[i] = tasks[i]
        BY <3>1
      <4>2. CASE j \in 1 .. Len(tasks)
        BY <3>1, <4>1, <4>2 DEF OrderInv, FirstInFirstOut
      <4>3. CASE j = Len(tasks) + 1
        BY <3>1, <4>1, <4>3 DEF OrderInv, IdsBelowLast
      <4> QED BY <3>1, <4>2, <4>3
    <3>4. \A w \in Workers, i \in 1 .. Len(tasks') : current'[w] < tasks'[i]
      BY <3>1, <2>1 DEF OrderInv, FirstInFirstOut, IdsBelowLast
    <3>5. IdsBelowLast'
      <4>1. \A i \in 1 .. Len(tasks') : tasks'[i] < tasks_last_id'
        BY <3>1, <2>1, <1>a DEF OrderInv, IdsBelowLast
      <4>2. \A w \in Workers : current'[w] < tasks_last_id'
        BY <3>2, <2>1, <1>a DEF OrderInv, IdsBelowLast
      <4> QED BY <4>1, <4>2 DEF IdsBelowLast
    <3> QED BY <3>3, <3>4, <3>5, <2>1 DEF OrderInv, FirstInFirstOut
  <2>3. CASE Refuse
    <3>1. \A w \in Workers : current[w] \in Int
      BY <1>a DEF NoTask
    <3>2. IdsBelowLast'
      BY <3>1, <2>1, <2>3, <1>a DEF Refuse, CountRefused, OrderInv, IdsBelowLast
    <3> QED BY <3>2, <2>1, <2>3 DEF Refuse, CountRefused, OrderInv, FirstInFirstOut
  <2> QED BY <1>1, <2>2, <2>3 DEF AddTask
<1>2. ASSUME Shutdown \/ WaitTest \/ WaitBlock \/ SpuriousOwner PROVE OrderInv'
  BY <1>2, <1>b DEF Shutdown, WaitTest, WaitBlock, SpuriousOwner, OwnerMoves, counters, At
<1>3. ASSUME SetStop \/ NotifyStop \/ Join PROVE OrderInv'
  <2>1. At("busy")' = At("busy")
    BY <1>3, <1>a DEF SetStop, NotifyStop, Join, OwnerMoves, At
  <2> QED BY <1>3, <1>b, <2>1 DEF SetStop, NotifyStop, Join, OwnerMoves, counters
<1>4. ASSUME NEW w \in Workers,
             Loop(w) \/ Skip(w) \/ Doze(w) \/ Block(w) \/ SpuriousWorker(w) \/ Announce(w)
      PROVE  OrderInv'
  <2>1. At("busy")' = At("busy")
    BY <1>4, <1>a DEF Loop, Continues, Skip, Doze, Block, SpuriousWorker, Announce, WakeOwner, Moves, At
  <2> QED BY <1>4, <1>b, <2>1
          DEF Loop, Continues, Skip, Doze, Block, SpuriousWorker, Announce, WakeOwner, counters
<1>5. ASSUME NEW w \in Workers, Take(w) PROVE OrderInv'
  <2>1. /\ Len(tasks) \in Nat \ {0} /\ Len(tasks') = Len(tasks) - 1
        /\ \A i \in 1 .. Len(tasks') : tasks'[i] = tasks[i + 1]
        /\ Head(tasks) = tasks[1]
    BY <1>5, <1>a DEF Take, Pop
  <2>2. /\ current' = [current EXCEPT ![w] = tasks[1]] /\ UNCHANGED tasks_last_id
        /\ At("busy")' = At("busy") \cup {w} /\ current[w] = NoTask
    BY <1>5, <2>1, <1>a DEF Take, Pop, Moves, At, counters
  <2>3. \A i, j \in 1 .. Len(tasks') : i < j => tasks'[i] < tasks'[j]
    BY <2>1 DEF OrderInv, FirstInFirstOut
  <2>4. \A v \in Workers, i \in 1 .. Len(tasks') : current'[v] < tasks'[i]
    <3> TAKE v \in Workers, i \in 1 .. Len(tasks')
    <3>1. CASE v = w
      <4>1. current'[v] = tasks[1] /\ tasks'[i] = tasks[i + 1]
        BY <3>1, <2>1, <2>2, <1>a
      <4>2. 1 \in 1 .. Len(tasks) /\ i + 1 \in 1 .. Len(tasks) /\ 1 < i + 1
        BY <2>1
      <4> QED BY <4>1, <4>2 DEF OrderInv, FirstInFirstOut
    <3>2. CASE v # w
      <4>1. current'[v] = current[v] /\ tasks'[i] = tasks[i + 1]
        BY <3>2, <2>1, <2>2, <1>a
      <4>2. i + 1 \in 1 .. Len(tasks)
        BY <2>1
      <4> QED BY <4>1, <4>2 DEF OrderInv, FirstInFirstOut
    <3> QED BY <3>1, <3>2
  <2>5. \A v \in Workers : current[v] < tasks[1] /\ tasks[1] \in Nat /\ current[v] \in Int
    BY <2>1, <1>a DEF OrderInv, FirstInFirstOut, NoTask
  <2>6. \A u, v \in At("busy")' : u # v => current'[u] # current'[v]
    <3> SUFFICES ASSUME NEW u \in At("busy")', NEW v \in At("busy")', u # v
                 PROVE  current'[u] # current'[v]
        OBVIOUS
    <3>1. u \in Workers /\ v \in Workers
      BY DEF At
    <3>2. CASE u = w \/ v = w
      BY <3>1, <3>2, <2>2, <2>5, <1>a
    <3>3. CASE u # w /\ v # w
      <4>1. u \in At("busy") /\ v \in At("busy")
        BY <3>3, <2>2
      <4> QED BY <4>1, <3>1, <3>3, <2>2, <1>a DEF OrderInv, FirstInFirstOut
    <3> QED BY <3>2, <3>3
  <2>7. IdsBelowLast'
    <3>1. \A i \in 1 .. Len(tasks') : tasks'[i] < tasks_last_id'
      BY <2>1, <2>2 DEF OrderInv, IdsBelowLast
    <3>2. \A v \in Workers : current'[v] < tasks_last_id'
      <4> TAKE v \in Workers
      <4>1. current'[v] \in {current[v], tasks[1]} /\ 1 \in 1 .. Len(tasks)
        BY <2>1, <2>2, <1>a
      <4> QED BY <4>1, <2>2 DEF OrderInv, IdsBelowLast
    <3> QED BY <3>1, <3>2 DEF IdsBelowLast
  <2> QED BY <2>3, <2>4, <2>6, <2>7 DEF OrderInv, FirstInFirstOut
<1>6. ASSUME NEW w \in Workers, Finish(w) PROVE OrderInv'
  <2>1. /\ current' = [current EXCEPT ![w] = NoTask]
        /\ UNCHANGED <<tasks, tasks_last_id>>
        /\ At("busy")' = At("busy") \ {w}
    BY <1>6, <1>a DEF Finish, DropTask, Moves, At
  <2>2. \A i \in 1 .. Len(tasks) : tasks[i] \in Nat
    BY <1>a
  <2>3. \A v \in Workers, i \in 1 .. Len(tasks) : current'[v] < tasks[i]
    BY <2>1, <2>2, <1>a DEF OrderInv, FirstInFirstOut, NoTask
  <2>4. \A v \in Workers : current'[v] < tasks_last_id
    BY <2>1, <1>a DEF OrderInv, IdsBelowLast, NoTask
  <2>5. \A u, v \in At("busy")' : u # v => current'[u] # current'[v]
    <3> SUFFICES ASSUME NEW u \in At("busy")', NEW v \in At("busy")', u # v
                 PROVE  current'[u] # current'[v]
        OBVIOUS
    <3>1. u \in At("busy") /\ v \in At("busy") /\ u # w /\ v # w
      BY <2>1
    <3>2. current'[u] = current[u] /\ current'[v] = current[v]
      BY <3>1, <2>1, <1>a DEF At
    <3> QED BY <3>1, <3>2 DEF OrderInv, FirstInFirstOut
  <2> QED BY <2>1, <2>3, <2>4, <2>5 DEF OrderInv, FirstInFirstOut, IdsBelowLast
<1>7. CASE UNCHANGED vars
  BY <1>7, <1>b DEF vars, counters, At
<1> QED BY <1>1, <1>2, <1>3, <1>4, <1>5, <1>6, <1>7
        DEF Next, Owner, Worker, Terminated

\* Tasks are started in the order in which add_task gave them their ids, and
\* no task is ever held by two workers.
THEOREM StartedInOrder == Spec => []FirstInFirstOut
<1>1. OrderInv => FirstInFirstOut
  BY DEF OrderInv
<1> QED BY <1>1, TypeInit, TypeStep, OrderInit, OrderStep, PTL DEF Spec

-----------------------------------------------------------------------------
(* Wakeups: while a worker sleeps, enough others are on their way.         *)

\* A worker that has found the queue empty keeps the mutex until it blocks, so
\* the queue is empty when it falls asleep.
DozesOnEmpty == At("block") # {} => tasks = <<>>
AwakeInv == NoTaskForgotten /\ DozesOnEmpty

LEMMA ComingFinite == IsFiniteSet(Coming) /\ Cardinality(Coming) \in Nat
<1>1. Coming \in SUBSET Workers
  BY DEF Coming, At
<1> QED BY <1>1, WorkersAssumption, FS_Subset, FS_CardinalityType

\* A step that takes a sleeping worker, or one that was busy, to the others.
LEMMA OneMoreComes ==
    ASSUME AwakeInv, NEW w \in Workers, w \notin Coming, Coming' = Coming \cup {w},
           At("asleep")' \subseteq At("asleep"), At("block")' = At("block"),
           UNCHANGED <<tasks, threads_stop>>, TypeOK
    PROVE  AwakeInv'
<1>1. Cardinality(Coming') = Cardinality(Coming) + 1
  BY ComingFinite, FS_AddElement
<1>2. Len(tasks) \in Nat /\ Cardinality(Coming) \in Nat
  BY ComingFinite DEF TypeOK
<1>3. At("asleep")' # {} => At("asleep") # {}
  OBVIOUS
<1>4. NoTaskForgotten'
  BY <1>1, <1>2, <1>3 DEF AwakeInv, NoTaskForgotten
<1> QED BY <1>4 DEF AwakeInv, DozesOnEmpty

LEMMA AwakeStep == TypeOK /\ AwakeInv /\ [Next]_vars => AwakeInv'
<1> SUFFICES ASSUME TypeOK, AwakeInv, [Next]_vars PROVE AwakeInv'
    OBVIOUS
<1>a. tasks \in Seq(Nat) /\ pc \in [Workers -> WorkerPlaces]
  BY DEF TypeOK
<1>b. ASSUME At("asleep")' = At("asleep"), At("block")' = At("block"), Coming' = Coming,
             UNCHANGED <<tasks, threads_stop>>
      PROVE  AwakeInv'
  BY <1>b DEF AwakeInv, NoTaskForgotten, DozesOnEmpty
<1>1. ASSUME NEW cb \in Callbacks, AddTask(cb) PROVE AwakeInv'
  <2>1. At("block") = {} /\ UNCHANGED threads_stop
    BY <1>1 DEF AddTask, MutexFree
  <2>2. CASE Refuse
    BY <1>1, <1>b, <2>1, <2>2 DEF Refuse, At, Coming
  <2>3. CASE Emplace /\ At("asleep") = {}
    <3>1. pc' = pc
      BY <2>3 DEF Emplace, NotifyOne
    <3>2. At("asleep")' = {} /\ At("block")' = {}
      BY <2>1, <2>3, <3>1 DEF At
    <3> QED BY <3>2 DEF AwakeInv, NoTaskForgotten, DozesOnEmpty
  <2>4. CASE Emplace /\ At("asleep") # {}
    <3>1. PICK w \in At("asleep") : pc' = [pc EXCEPT ![w] = "lock"]
      BY <2>4 DEF Emplace, NotifyOne
    <3>2. /\ w \notin Coming /\ Coming' = Coming \cup {w} /\ At("block")' = {}
      BY <1>a, <2>1, <3>1 DEF Coming, At
    <3>3. Cardinality(Coming') = Cardinality(Coming) + 1
      BY <3>2, ComingFinite, FS_AddElement
    <3>4. Len(tasks') = Len(tasks) + 1 /\ Len(tasks) \in Nat
      BY <1>a, <2>4 DEF Emplace, HasRoom, AddTask
    <3>5. ~threads_stop => Len(tasks) <= Cardinality(Coming)
      BY <2>4 DEF AwakeInv, NoTaskForgotten
    <3>6. ~threads_stop' => Len(tasks') <= Cardinality(Coming')
      BY <2>1, <3>3, <3>4, <3>5, ComingFinite
    <3> QED BY <3>2, <3>6 DEF AwakeInv, NoTaskForgotten, DozesOnEmpty
  <2> QED BY <1>1, <2>2, <2>3, <2>4 DEF AddTask
<1>2. ASSUME Shutdown \/ WaitTest \/ WaitBlock \/ SpuriousOwner \/ Join PROVE AwakeInv'
  BY <1>2, <1>b DEF Shutdown, WaitTest, WaitBlock, SpuriousOwner, Join, OwnerMoves, At, Coming
<1>3. ASSUME SetStop PROVE AwakeInv'
  <2>1. threads_stop' /\ At("block")' = At("block") /\ UNCHANGED tasks
    BY <1>3 DEF SetStop, OwnerMoves, At
  <2> QED BY <2>1 DEF AwakeInv, NoTaskForgotten, DozesOnEmpty
<1>4. ASSUME NotifyStop PROVE AwakeInv'
  <2>1. At("asleep")' = {} /\ At("block")' = At("block") /\ UNCHANGED tasks
    BY <1>4, <1>a DEF NotifyStop, OwnerMoves, At
  <2> QED BY <2>1 DEF AwakeInv, NoTaskForgotten, DozesOnEmpty
<1>5. ASSUME NEW w \in Workers, Loop(w) PROVE AwakeInv'
  <2>1. At("asleep")' = At("asleep") /\ At("block")' = At("block") /\ UNCHANGED <<tasks, threads_stop>>
    BY <1>5, <1>a DEF Loop, Continues, Moves, At
  <2>2. ~threads_stop => Coming' = Coming
    BY <1>5, <1>a DEF Loop, Continues, Moves, At, Coming
  <2> QED BY <2>1, <2>2 DEF AwakeInv, NoTaskForgotten, DozesOnEmpty
<1>6. ASSUME NEW w \in Workers, Take(w) PROVE AwakeInv'
  <2>1. /\ w \in Coming /\ Coming' = Coming \ {w} /\ UNCHANGED threads_stop
        /\ At("asleep")' = At("asleep") /\ At("block")' = {}
    BY <1>6, <1>a DEF Take, MutexFree, Moves, At, Coming
  <2>2. Cardinality(Coming') = Cardinality(Coming) - 1
    BY <2>1, ComingFinite, FS_RemoveElement
  <2>3. Len(tasks') = Len(tasks) - 1 /\ Len(tasks) \in Nat
    BY <1>6, <1>a DEF Take, Pop
  <2>4. NoTaskForgotten'
    BY <2>1, <2>2, <2>3, ComingFinite DEF AwakeInv, NoTaskForgotten
  <2> QED BY <2>1, <2>4 DEF AwakeInv, DozesOnEmpty
<1>7. ASSUME NEW w \in Workers, Skip(w) PROVE AwakeInv'
  <2>1. threads_stop' /\ At("block")' = At("block") /\ UNCHANGED tasks
    BY <1>7, <1>a DEF Skip, Moves, At
  <2> QED BY <2>1 DEF AwakeInv, NoTaskForgotten, DozesOnEmpty
<1>8. ASSUME NEW w \in Workers, Doze(w) \/ Block(w) PROVE AwakeInv'
  <2>1. tasks = <<>> /\ UNCHANGED <<tasks, threads_stop>>
    BY <1>8 DEF Doze, Block, Moves, At, AwakeInv, DozesOnEmpty
  <2>2. Len(tasks') = 0 /\ Cardinality(Coming') \in Nat
    <3>1. IsFiniteSet(Coming') /\ Coming' \subseteq Workers
      BY WorkersAssumption, FS_Subset DEF Coming, At
    <3> QED BY <2>1, <3>1, FS_CardinalityType
  <2>3. Len(tasks') <= Cardinality(Coming')
    BY <2>2
  <2> QED BY <2>1, <2>3 DEF AwakeInv, NoTaskForgotten, DozesOnEmpty
<1>9. ASSUME NEW w \in Workers, SpuriousWorker(w) \/ Finish(w) PROVE AwakeInv'
  <2>1. /\ w \notin Coming /\ Coming' = Coming \cup {w} /\ UNCHANGED <<tasks, threads_stop>>
        /\ At("asleep")' \subseteq At("asleep") /\ At("block")' = At("block")
    BY <1>9, <1>a DEF SpuriousWorker, Finish, Moves, At, Coming
  <2> QED BY <2>1, OneMoreComes
<1>10. ASSUME NEW w \in Workers, Announce(w) PROVE AwakeInv'
  <2>1. /\ UNCHANGED <<tasks, threads_stop>>
        /\ At("asleep")' = At("asleep") /\ At("block")' = At("block")
    BY <1>10, <1>a DEF Announce, Moves, At
  <2>2. CASE pc[w] = "announce"
    <3>1. Coming' = Coming
      BY <1>10, <1>a, <2>2 DEF Announce, Moves, At, Coming
    <3> QED BY <2>1, <3>1, <1>b
  <2>3. CASE pc[w] = "skip"
    <3>1. w \notin Coming /\ Coming' = Coming \cup {w}
      BY <1>10, <1>a, <2>3 DEF Announce, Moves, At, Coming
    <3> QED BY <2>1, <3>1, OneMoreComes
  <2> QED BY <1>10, <2>2, <2>3 DEF Announce, Moves
<1>11. CASE UNCHANGED vars
  BY <1>11, <1>b DEF vars, At, Coming
<1> QED BY <1>1, <1>2, <1>3, <1>4, <1>5, <1>6, <1>7, <1>8, <1>9, <1>10, <1>11
        DEF Next, Owner, Worker, Terminated

\* No task waits behind a sleeping worker: notify_one() under the mutex is
\* enough, with any number of workers and any capacity.
THEOREM NobodySleepsOverATask == Spec => []NoTaskForgotten
<1>1. Init => AwakeInv
  BY DEF Init, At, AwakeInv, NoTaskForgotten, DozesOnEmpty
<1>2. AwakeInv => NoTaskForgotten
  BY DEF AwakeInv
<1> QED BY <1>1, <1>2, TypeInit, TypeStep, AwakeStep, PTL DEF Spec

-----------------------------------------------------------------------------
(* Lost wakeups.                                                           *)

\* A wakeup is lost only in the gap between a false predicate and the block:
\* wait_all() hangs only from "waitBlock" (a worker that completes the last task
\* announces it afterwards, which wakes an owner that is blocked by then),
\* and the destructor hangs only if a worker was about to block when it notified.
THEOREM WakeupsLostOnlyInTheGap == Spec => LostOnlyInTheGap
<1> DEFINE Step == /\ ~WaitHung /\ WaitHung' => owner = "waitBlock"
                   /\ ~JoinHung /\ JoinHung' => At("block") # {}
<1>1. TypeOK /\ [Next]_vars => [Step]_vars
  <2> SUFFICES ASSUME TypeOK, [Next]_vars PROVE Step \/ UNCHANGED vars
      OBVIOUS
  <2>a. pc \in [Workers -> WorkerPlaces]
    BY DEF TypeOK
  <2> USE DEF WaitHung, JoinHung
  <2>1. ASSUME NEW cb \in Callbacks, AddTask(cb) PROVE Step
    BY <2>1 DEF AddTask
  <2>2. CASE Shutdown \/ WaitTest \/ WaitBlock \/ SpuriousOwner \/ SetStop
    BY <2>2 DEF Shutdown, WaitTest, WaitBlock, SpuriousOwner, SetStop, OwnerMoves
  <2>3. CASE NotifyStop
    <3>1. At("asleep")' = {}
      BY <2>3, <2>a DEF NotifyStop, At
    <3> QED BY <2>3, <3>1 DEF NotifyStop, OwnerMoves
  <2>4. CASE Join
    BY <2>4 DEF Join, OwnerMoves
  <2>5. ASSUME NEW w \in Workers, Loop(w) \/ Take(w) \/ Skip(w) \/ Doze(w) \/ SpuriousWorker(w)
        PROVE  Step
    <3>1. At("asleep")' \subseteq At("asleep") /\ At("announce")' = At("announce")
      BY <2>5, <2>a DEF Loop, Take, Skip, Doze, SpuriousWorker, Moves, At
    <3>2. UNCHANGED <<counters, owner>>
      BY <2>5 DEF Loop, Take, Skip, Doze, SpuriousWorker
    <3> QED BY <3>1, <3>2 DEF AllCounted, counters
  <2>6. ASSUME NEW w \in Workers, Block(w) PROVE Step
    <3>1. w \in At("block") /\ At("announce")' = At("announce")
      BY <2>6, <2>a DEF Block, Moves, At
    <3> QED BY <2>6, <3>1 DEF Block, AllCounted, counters
  <2>7. ASSUME NEW w \in Workers, Finish(w) PROVE Step
    <3>1. At("announce")' # {} /\ At("asleep")' = At("asleep")
      BY <2>7, <2>a DEF Finish, Moves, At
    <3> QED BY <2>7, <3>1 DEF Finish
  <2>8. ASSUME NEW w \in Workers, Announce(w) PROVE Step
    <3>1. owner' # "waitAsleep" /\ (owner' = "join" => owner = "join")
      BY <2>8 DEF Announce, WakeOwner
    <3>2. At("asleep")' = At("asleep")
      BY <2>8, <2>a DEF Announce, Moves, At
    <3> QED BY <3>1, <3>2
  <2> QED BY <2>1, <2>2, <2>3, <2>4, <2>5, <2>6, <2>7, <2>8
          DEF Next, Owner, Worker, Terminated
<1> QED BY <1>1, TypeCorrect, PTL DEF Spec, LostOnlyInTheGap

\* Threads end only when they are told to.
EndsWhenTold ==
    /\ threads_stop <=> owner \in {"notify", "join", "destroyed"}
    /\ ~threads_stop => At("exit") = {}

LEMMA EndsWhenToldStep == TypeOK /\ EndsWhenTold /\ [Next]_vars => EndsWhenTold'
<1> SUFFICES ASSUME TypeOK, EndsWhenTold, [Next]_vars PROVE EndsWhenTold'
    OBVIOUS
<1>a. pc \in [Workers -> WorkerPlaces]
  BY DEF TypeOK
<1> USE DEF EndsWhenTold
<1>1. ASSUME NEW cb \in Callbacks, AddTask(cb) PROVE EndsWhenTold'
  <2>1. At("exit")' = At("exit")
    BY <1>1, <1>a DEF AddTask, Emplace, Refuse, NotifyOne, At
  <2> QED BY <1>1, <2>1 DEF AddTask
<1>2. CASE Shutdown \/ WaitTest \/ WaitBlock \/ SpuriousOwner
  BY <1>2 DEF Shutdown, WaitTest, WaitBlock, SpuriousOwner, OwnerMoves, At
<1>3. CASE SetStop \/ NotifyStop \/ Join
  BY <1>3 DEF SetStop, NotifyStop, Join, OwnerMoves
<1>4. ASSUME NEW w \in Workers, Loop(w) PROVE EndsWhenTold'
  BY <1>4, <1>a DEF Loop, Continues, Moves, At
<1>5. ASSUME NEW w \in Workers, Take(w) \/ Skip(w) \/ Doze(w) \/ Block(w) \/ SpuriousWorker(w) \/ Finish(w)
      PROVE  EndsWhenTold'
  BY <1>5, <1>a DEF Take, Skip, Doze, Block, SpuriousWorker, Finish, Moves, At
<1>6. ASSUME NEW w \in Workers, Announce(w) PROVE EndsWhenTold'
  <2>1. At("exit")' = At("exit")
    BY <1>6, <1>a DEF Announce, Moves, At
  <2> QED BY <1>6, <2>1 DEF Announce, WakeOwner
<1>7. CASE UNCHANGED vars
  BY <1>7 DEF vars, At
<1> QED BY <1>1, <1>2, <1>3, <1>4, <1>5, <1>6, <1>7 DEF Next, Owner, Worker, Terminated

\* Some step of worker w can be taken (of its own: not a spurious wakeup).
MayStep(w) ==
    \/ pc[w] \in {"loop", "block", "busy", "announce", "skip"}
    \/ pc[w] = "lock" /\ MutexFree

\* Nobody waits on somebody who waits: while tasks are queued or running a worker
\* can go on, and from shutdown() on either the client or a worker can, unless
\* one of the two wakeups has been lost.
NobodyWaitsInACircle ==
    /\ (tasks # <<>> \/ At("busy") # {}) /\ ~threads_stop => \E w \in Workers : MayStep(w)
    /\ ~WaitHung /\ ~JoinHung =>
          \/ owner \in {"serving", "waitTest", "waitBlock", "destroy", "notify", "destroyed"}
          \/ owner = "join" /\ At("exit") = Workers
          \/ \E w \in Workers : MayStep(w)

\* A worker that neither sleeps nor has ended can step, or waits for one that can.
LEMMA SomebodyMayStep ==
    ASSUME TypeOK, NEW v \in Workers, pc[v] \notin {"asleep", "exit"}
    PROVE  \E w \in Workers : MayStep(w)
BY DEF TypeOK, WorkerPlaces, MayStep, MutexFree, At

\* Every circle of waiting has a thread that can go on, with any number of
\* workers, any capacity and any load: what ShutdownEnds needs beside fairness.
THEOREM NoCircle == Spec => []NobodyWaitsInACircle
<1>1. TypeOK /\ Accounting /\ AwakeInv /\ EndsWhenTold => NobodyWaitsInACircle
  <2> SUFFICES ASSUME TypeOK, Accounting, AwakeInv, EndsWhenTold PROVE NobodyWaitsInACircle
      OBVIOUS
  <2>1. ASSUME tasks # <<>> \/ At("busy") # {}, ~threads_stop
        PROVE  \E w \in Workers : MayStep(w)
    <3>1. CASE At("busy") # {}
      BY <3>1 DEF At, MayStep
    <3>2. CASE tasks # <<>> /\ At("asleep") = Workers
      <4>1. Coming = {}
        BY <3>2 DEF Coming, At
      <4>2. Len(tasks) <= 0
        BY <3>2, <4>1, <2>1, WorkersAssumption, FS_EmptySet DEF AwakeInv, NoTaskForgotten
      <4> QED BY <3>2, <4>2 DEF TypeOK
    <3>3. CASE \E w \in Workers : pc[w] # "asleep"
      BY <3>3, <2>1, SomebodyMayStep DEF EndsWhenTold, At
    <3> QED BY <2>1, <3>1, <3>2, <3>3 DEF At
  <2>2. ASSUME ~WaitHung, owner = "waitAsleep" PROVE \E w \in Workers : MayStep(w)
    <3>1. CASE At("announce") # {}
      BY <3>1 DEF At, MayStep
    <3>2. CASE ~AllCounted
      <4>1. Len(tasks) + Cardinality(At("busy")) # 0
        <5>1. tasks_last_id \in Nat /\ tasks_completed_count \in Nat /\ tasks_refused_count \in Nat
              /\ Len(tasks) \in Nat
          BY MaxTasksAssumption DEF TypeOK
        <5> QED BY <3>2, <5>1, BusyFinite DEF Accounting, AllCounted
      <4>2. tasks # <<>> \/ At("busy") # {}
        BY <4>1, FS_EmptySet
      <4> QED BY <2>1, <2>2, <4>2 DEF EndsWhenTold
    <3> QED BY <2>2, <3>1, <3>2 DEF WaitHung
  <2>3. ASSUME ~JoinHung, owner = "join", At("exit") # Workers PROVE \E w \in Workers : MayStep(w)
    <3>1. PICK w \in Workers : pc[w] # "exit"
      BY <2>3 DEF At
    <3> QED BY <2>3, <3>1, SomebodyMayStep DEF JoinHung, At
  <2>4. owner \in OwnerPlaces
    BY DEF TypeOK
  <2> QED BY <2>1, <2>2, <2>3, <2>4 DEF NobodyWaitsInACircle, OwnerPlaces
<1>2. Init => AwakeInv /\ EndsWhenTold
  BY DEF Init, At, AwakeInv, NoTaskForgotten, DozesOnEmpty, EndsWhenTold
<1>3. Spec => [](TypeOK /\ AwakeInv /\ EndsWhenTold)
  BY <1>2, TypeInit, TypeStep, AwakeStep, EndsWhenToldStep, PTL DEF Spec
<1> QED BY <1>1, <1>3, CountersAddUp, PTL

-----------------------------------------------------------------------------
(***************************************************************************)
(* The pool of threads implements TaskService, for every number of workers *)
(* and every capacity: each of its steps is one of the service, or none.   *)
(* The mapping is that of MCThreadPool.  What it relies on is the order of *)
(* the ids, the counters, and that a refused id turns up nowhere else.     *)
(***************************************************************************)

IsQueued(k) == \E i \in 1 .. Len(tasks) : tasks[i] = k
IsRunning(k) == \E w \in Workers : current[w] = k

RefusedForGood ==
    /\ \A k \in turnedAway : k < tasks_last_id
    /\ \A i \in 1 .. Len(tasks) : tasks[i] \notin turnedAway
    /\ \A w \in Workers : current[w] \notin turnedAway

MapInv == TypeOK /\ Accounting /\ StaysCounted /\ OrderInv /\ RefusedForGood

\* What of TypeOK the mapping needs.
LEMMA Typed ==
    ASSUME TypeOK
    PROVE  /\ tasks_last_id \in Nat /\ tasks_last_id <= MaxTasks /\ MaxTasks \in Nat
           /\ tasks \in Seq(Nat) /\ Len(tasks) \in Nat
           /\ pc \in [Workers -> WorkerPlaces]
           /\ current \in [Workers -> Nat \cup {NoTask}]
           /\ \A w \in Workers : pc[w] = "busy" <=> current[w] # NoTask
BY MaxTasksAssumption DEF TypeOK

-----------------------------------------------------------------------------
LEMMA RefusedStep == TypeOK /\ OrderInv /\ RefusedForGood /\ [Next]_vars => RefusedForGood'
<1> SUFFICES ASSUME TypeOK, OrderInv, RefusedForGood, [Next]_vars PROVE RefusedForGood'
    OBVIOUS
<1> USE Typed
<1>b. ASSUME UNCHANGED <<tasks_last_id, tasks, current, turnedAway>> PROVE RefusedForGood'
  BY <1>b DEF RefusedForGood
<1>1. ASSUME NEW cb \in Callbacks, AddTask(cb) PROVE RefusedForGood'
  <2>1. UNCHANGED current /\ tasks_last_id' = tasks_last_id + 1
    BY <1>1 DEF AddTask
  <2>2. CASE Emplace
    <3>1. /\ Len(tasks') = Len(tasks) + 1 /\ turnedAway' = turnedAway
          /\ \A i \in 1 .. Len(tasks) : tasks'[i] = tasks[i]
          /\ tasks'[Len(tasks) + 1] = tasks_last_id
      BY <2>2 DEF Emplace, HasRoom
    <3>2. \A k \in turnedAway : k \in Nat /\ k < tasks_last_id + 1 /\ k # tasks_last_id
      BY DEF RefusedForGood, TypeOK
    <3>3. ASSUME NEW i \in 1 .. Len(tasks') PROVE tasks'[i] \notin turnedAway
      <4>1. CASE i \in 1 .. Len(tasks)
        BY <3>1, <4>1 DEF RefusedForGood
      <4>2. CASE i = Len(tasks) + 1
        BY <3>1, <3>2, <4>2
      <4> QED BY <3>1, <4>1, <4>2
    <3> QED BY <2>1, <3>1, <3>2, <3>3 DEF RefusedForGood
  <2>3. CASE Refuse
    <3>1. tasks' = tasks /\ turnedAway' = turnedAway \cup {tasks_last_id}
      BY <2>3 DEF Refuse
    <3>2. \A k \in turnedAway' : k < tasks_last_id'
      BY <2>1, <3>1 DEF RefusedForGood, TypeOK
    <3>3. \A i \in 1 .. Len(tasks) : tasks[i] \in Nat /\ tasks[i] # tasks_last_id
      BY DEF OrderInv, IdsBelowLast
    <3>4. \A w \in Workers : current[w] # tasks_last_id
      BY DEF OrderInv, IdsBelowLast, NoTask
    <3> QED BY <2>1, <3>1, <3>2, <3>3, <3>4 DEF RefusedForGood
  <2> QED BY <1>1, <2>2, <2>3 DEF AddTask
<1>2. ASSUME Shutdown \/ WaitTest \/ WaitBlock \/ SpuriousOwner \/ SetStop \/ NotifyStop \/ Join
      PROVE  RefusedForGood'
  BY <1>2, <1>b DEF Shutdown, WaitTest, WaitBlock, SpuriousOwner, SetStop, NotifyStop, Join,
     OwnerMoves, counters
<1>3. ASSUME NEW w \in Workers,
             Loop(w) \/ Skip(w) \/ Doze(w) \/ Block(w) \/ SpuriousWorker(w) \/ Announce(w)
      PROVE  RefusedForGood'
  BY <1>3, <1>b DEF Loop, Skip, Doze, Block, SpuriousWorker, Announce, counters
<1>4. ASSUME NEW w \in Workers, Take(w) PROVE RefusedForGood'
  <2>1. /\ tasks # <<>> /\ tasks' = Tail(tasks) /\ UNCHANGED <<tasks_last_id, turnedAway>>
        /\ current' = [current EXCEPT ![w] = Head(tasks)]
    BY <1>4 DEF Take, Pop, counters
  <2>2. /\ Len(tasks') = Len(tasks) - 1 /\ 1 \in 1 .. Len(tasks) /\ Head(tasks) = tasks[1]
        /\ \A i \in 1 .. Len(tasks') : tasks'[i] = tasks[i + 1] /\ i + 1 \in 1 .. Len(tasks)
    BY <2>1
  <2> QED BY <2>1, <2>2 DEF RefusedForGood
<1>5. ASSUME NEW w \in Workers, Finish(w) PROVE RefusedForGood'
  <2>1. current' = [current EXCEPT ![w] = NoTask] /\ UNCHANGED <<tasks, tasks_last_id, turnedAway>>
    BY <1>5 DEF Finish, DropTask
  <2>2. NoTask \notin turnedAway
    BY DEF TypeOK, NoTask
  <2> QED BY <2>1, <2>2 DEF RefusedForGood
<1>6. CASE UNCHANGED vars
  BY <1>6, <1>b DEF vars, counters
<1> QED BY <1>1, <1>2, <1>3, <1>4, <1>5, <1>6 DEF Next, Owner, Worker, Terminated

THEOREM MapInvariant == Spec => []MapInv
<1>1. Init => StaysCounted /\ RefusedForGood
  BY DEF Init, StaysCounted, Returned, RefusedForGood
<1>2. MapInv /\ [Next]_vars => MapInv'
  BY TypeStep, AccountingStep, StaysCountedStep, OrderStep, RefusedStep DEF MapInv
<1> QED BY <1>1, <1>2, TypeInit, AccountingInit, OrderInit, PTL DEF Spec, MapInv

-----------------------------------------------------------------------------
(* The mapping.                                                            *)
LEMMA StatusIs ==
    /\ TaskStatus = [k \in TaskIds |-> TaskStatus[k]]
    /\ \A k \in TaskIds :
          TaskStatus[k] = IF k >= tasks_last_id THEN "new"
                          ELSE IF k \in turnedAway THEN "refused"
                          ELSE IF IsQueued(k) THEN "queued"
                          ELSE IF IsRunning(k) THEN "running" ELSE "done"
BY DEF TaskStatus, IsQueued, IsRunning

LEMMA StatusChanges ==
    ASSUME NEW k \in TaskIds, NEW s, TaskStatus'[k] = s,
           \A j \in TaskIds : j # k => TaskStatus'[j] = TaskStatus[j]
    PROVE  TaskStatus' = [TaskStatus EXCEPT ![k] = s]
<1>1. /\ TaskStatus = [j \in TaskIds |-> TaskStatus[j]]
      /\ TaskStatus' = [j \in TaskIds |-> TaskStatus'[j]]
  BY DEF TaskStatus
<1> QED BY <1>1

LEMMA StatusStays ==
    ASSUME UNCHANGED <<tasks_last_id, tasks, current, turnedAway>>
    PROVE  TaskStatus' = TaskStatus
BY DEF TaskStatus

\* TaskService counts as ThreadPool does.
LEMMA SameCardinality == \A S : Service!Cardinality(S) = Cardinality(S)
BY SMTT(40) DEF Service!Cardinality, Cardinality

LEMMA QueuedAre ==
    ASSUME MapInv
    PROVE  /\ Service!In("queued") = {tasks[i] : i \in 1 .. Len(tasks)}
           /\ Cardinality(Service!In("queued")) = Len(tasks)
<1> DEFINE Q == {tasks[i] : i \in 1 .. Len(tasks)}
<1>1. \A i \in 1 .. Len(tasks) : /\ tasks[i] \in TaskIds /\ tasks[i] < tasks_last_id
                                 /\ tasks[i] \notin turnedAway
  BY Typed DEF MapInv, OrderInv, IdsBelowLast, RefusedForGood, TaskIds
<1>2. \A k \in TaskIds : TaskStatus[k] = "queued" <=> k \in Q
  <2>1. ASSUME NEW k \in TaskIds PROVE TaskStatus[k] = "queued" <=> k \in Q
    <3>1. k \in Q <=> IsQueued(k)
      BY DEF IsQueued
    <3>2. k \in Q => k < tasks_last_id /\ k \notin turnedAway
      BY <1>1
    <3>3. k \in Q => ~(k >= tasks_last_id)
      BY <3>2, Typed DEF MapInv, TaskIds
    <3> HIDE DEF Q
    <3> QED BY <3>1, <3>2, <3>3, StatusIs
  <2> QED BY <2>1
<1>3. Q \subseteq TaskIds
  BY <1>1
<1>4. Service!In("queued") = Q
  <2> HIDE DEF Q
  <2> QED BY <1>2, <1>3 DEF Service!In, Service!Ids, TaskIds
<1>5. Cardinality(Q) = Len(tasks)
  <2> DEFINE f == [i \in 1 .. Len(tasks) |-> tasks[i]]
  <2>1. \A i, j \in 1 .. Len(tasks) : i # j => tasks[i] # tasks[j]
    <3> SUFFICES ASSUME NEW i \in 1 .. Len(tasks), NEW j \in 1 .. Len(tasks), i # j
                 PROVE  tasks[i] # tasks[j]
        OBVIOUS
    <3>1. tasks[i] \in Nat /\ tasks[j] \in Nat /\ (i < j \/ j < i)
      BY Typed DEF MapInv
    <3> QED BY <3>1 DEF MapInv, OrderInv, FirstInFirstOut
  <2>2. f \in Bijection(1 .. Len(tasks), Q)
    BY <2>1 DEF Bijection, Injection, Surjection, IsInjective
  <2>3. ExistsBijection(1 .. Len(tasks), Q)
    BY <2>2 DEF ExistsBijection
  <2>4. IsFiniteSet(1 .. Len(tasks)) /\ Cardinality(1 .. Len(tasks)) = Len(tasks)
    <3>1. Len(tasks) \in Nat
      BY Typed DEF MapInv
    <3>2. /\ IsFiniteSet(1 .. Len(tasks))
          /\ Cardinality(1 .. Len(tasks)) = IF 1 > Len(tasks) THEN 0 ELSE Len(tasks) - 1 + 1
      BY <3>1, FS_Interval
    <3> QED BY <3>1, <3>2
  <2> QED BY <2>3, <2>4, FS_Bijection
<1> QED BY <1>4, <1>5

LEMMA RunningAre ==
    ASSUME MapInv
    PROVE  Service!In("running") = {current[w] : w \in At("busy")}
<1>1. \A w \in At("busy") : /\ w \in Workers /\ current[w] \in TaskIds
                            /\ current[w] < tasks_last_id /\ current[w] \notin turnedAway
                            /\ ~IsQueued(current[w])
  <2>1. ASSUME NEW w \in At("busy")
        PROVE  /\ w \in Workers /\ current[w] \in TaskIds
               /\ current[w] < tasks_last_id /\ current[w] \notin turnedAway
               /\ ~IsQueued(current[w])
    <3>1. w \in Workers /\ current[w] \in Nat /\ current[w] < tasks_last_id
      BY Typed DEF MapInv, At, OrderInv, IdsBelowLast
    <3>2. current[w] \in TaskIds
      BY <3>1, Typed DEF MapInv, TaskIds
    <3>3. current[w] \notin turnedAway
      BY <3>1 DEF MapInv, RefusedForGood
    <3>4. \A i \in 1 .. Len(tasks) : tasks[i] \in Nat /\ current[w] < tasks[i]
      BY <3>1, Typed DEF MapInv, OrderInv, FirstInFirstOut
    <3>5. ~IsQueued(current[w])
      BY <3>1, <3>4 DEF IsQueued
    <3> QED BY <3>1, <3>2, <3>3, <3>5
  <2> QED BY <2>1
<1>2. \A k \in TaskIds : TaskStatus[k] = "running" <=> \E w \in At("busy") : current[w] = k
  <2>1. ASSUME NEW k \in TaskIds
        PROVE  TaskStatus[k] = "running" <=> \E w \in At("busy") : current[w] = k
    <3>1. (\E w \in At("busy") : current[w] = k) <=> IsRunning(k)
      <4>1. k # NoTask
        BY DEF TaskIds, NoTask
      <4> QED BY <4>1, Typed DEF MapInv, IsRunning, At
    <3>2. IsRunning(k) => ~(k >= tasks_last_id) /\ k \notin turnedAway /\ ~IsQueued(k)
      <4>1. IsRunning(k) => k < tasks_last_id /\ k \notin turnedAway /\ ~IsQueued(k)
        BY <1>1, <3>1
      <4> QED BY <4>1, Typed DEF MapInv, TaskIds
    <3> QED BY <3>1, <3>2, StatusIs
  <2> QED BY <2>1
<1>3. {current[w] : w \in At("busy")} \subseteq TaskIds
  BY <1>1
<1> QED BY <1>2, <1>3 DEF Service!In, Service!Ids, TaskIds

\* A worker that is not busy leaves room for another task that runs.
LEMMA FewerRun ==
    ASSUME MapInv, NEW w \in Workers, w \notin At("busy")
    PROVE  Cardinality(Service!In("running")) < Cardinality(Workers)
<1> DEFINE Busy == At("busy")
           f == [v \in Busy |-> current[v]]
           R == {current[v] : v \in Busy}
<1>1. f \in Surjection(Busy, R)
  BY DEF Surjection
<1>2. IsFiniteSet(Busy) /\ Cardinality(Busy) \in Nat
  BY BusyFinite
<1>3. Cardinality(R) <= Cardinality(Busy) /\ IsFiniteSet(R)
  BY <1>1, <1>2, FS_Surjection
<1>4. IsFiniteSet(Workers \ {w}) /\ Cardinality(Workers \ {w}) = Cardinality(Workers) - 1
  BY WorkersAssumption, FS_RemoveElement
<1>5. Cardinality(Busy) <= Cardinality(Workers \ {w})
  <2>1. Busy \in SUBSET (Workers \ {w})
    BY DEF At
  <2> QED BY <2>1, <1>4, FS_Subset
<1>6. Cardinality(Workers) \in Nat /\ Cardinality(R) \in Nat
  BY <1>3, WorkersAssumption, FS_CardinalityType
<1>7. Cardinality(R) < Cardinality(Workers)
  <2> HIDE DEF R, Busy
  <2> QED BY <1>2, <1>3, <1>4, <1>5, <1>6
<1> QED BY <1>7, RunningAre

-----------------------------------------------------------------------------
(* The steps.                                                              *)
Open == owner \in {"serving", "waitTest", "waitBlock", "waitAsleep"}

LEMMA AddTaskSubmits ==
    ASSUME MapInv, NEW cb \in Callbacks, AddTask(cb)
    PROVE  \E k \in Service!Ids : Service!Submit(k)
<1> USE DEF MapInv
<1>1. PICK k \in TaskIds : k = tasks_last_id
  BY Typed DEF AddTask, TaskIds
<1>2. /\ tasks_last_id' = tasks_last_id + 1 /\ UNCHANGED current
      /\ owner = "serving" /\ owner' = owner
  BY DEF AddTask
<1>3. Open /\ Open' = Open
  BY <1>2 DEF Open
<1>4. k \in Service!In("new") /\ \A j \in Service!In("new") : k <= j
  <2>1. TaskStatus[k] = "new"
    BY <1>1, StatusIs, Typed
  <2>2. ASSUME NEW j \in TaskIds, TaskStatus[j] = "new" PROVE k <= j
    <3>1. j >= tasks_last_id
      BY <2>2, StatusIs
    <3> QED BY <1>1, <3>1, Typed DEF TaskIds
  <2> QED BY <2>1, <2>2 DEF Service!In, Service!Ids, TaskIds
<1>5. Service!Room <=> HasRoom
  <2>1. Cardinality(Service!In("queued")) = Len(tasks)
    BY QueuedAre
  <2> QED BY ONLY <2>1, SameCardinality DEF Service!Room, HasRoom
<1>6. k \notin turnedAway /\ ~IsQueued(k) /\ ~IsRunning(k)
  <2>1. k \notin turnedAway
    BY <1>1, Typed DEF RefusedForGood, TaskIds
  <2>2. ~IsQueued(k)
    BY <1>1, Typed DEF OrderInv, IdsBelowLast, IsQueued
  <2>3. ~IsRunning(k)
    BY <1>1, Typed DEF OrderInv, IdsBelowLast, IsRunning, NoTask
  <2> QED BY <2>1, <2>2, <2>3
<1>7. \A j \in TaskIds : j # k => (j >= tasks_last_id' <=> j >= tasks_last_id)
  BY <1>1, <1>2, Typed DEF TaskIds
<1>8. ~(k >= tasks_last_id')
  BY <1>1, <1>2, Typed
<1>9. /\ \A j \in TaskIds :
            TaskStatus'[j] = IF j >= tasks_last_id' THEN "new"
                             ELSE IF j \in turnedAway' THEN "refused"
                             ELSE IF IsQueued(j)' THEN "queued"
                             ELSE IF IsRunning(j)' THEN "running" ELSE "done"
  BY DEF TaskStatus, IsQueued, IsRunning
<1>10. \A j : IsRunning(j)' <=> IsRunning(j)
  BY <1>2 DEF IsRunning
<1>11. CASE Emplace
  <2>1. \A j : IsQueued(j)' <=> IsQueued(j) \/ j = k
    <3>1. /\ Len(tasks') = Len(tasks) + 1 /\ Len(tasks) \in Nat
          /\ \A i \in 1 .. Len(tasks) : tasks'[i] = tasks[i]
          /\ tasks'[Len(tasks) + 1] = k
      BY <1>1, <1>11, Typed DEF Emplace, HasRoom
    <3>2. \A i \in 1 .. Len(tasks') : i \in 1 .. Len(tasks) \/ i = Len(tasks) + 1
      BY <3>1
    <3>3. 1 .. Len(tasks) \subseteq 1 .. Len(tasks') /\ Len(tasks) + 1 \in 1 .. Len(tasks')
      BY <3>1
    <3> QED BY <3>1, <3>2, <3>3 DEF IsQueued
  <2>2. turnedAway' = turnedAway /\ HasRoom
    BY <1>11 DEF Emplace
  <2>3. TaskStatus'[k] = "queued"
    BY <1>6, <1>8, <1>9, <2>1, <2>2
  <2>4. \A j \in TaskIds : j # k => TaskStatus'[j] = TaskStatus[j]
    BY <1>7, <1>9, <1>10, <2>1, <2>2, StatusIs
  <2>5. TaskStatus' = [TaskStatus EXCEPT ![k] = "queued"]
    BY <2>3, <2>4, StatusChanges
  <2> QED BY <1>3, <1>4, <1>5, <2>2, <2>5 DEF Service!Submit, Service!Ids, TaskIds, Open
<1>12. CASE Refuse
  <2>1. turnedAway' = turnedAway \cup {k} /\ UNCHANGED tasks /\ ~HasRoom
    BY <1>1, <1>12 DEF Refuse
  <2>2. \A j : IsQueued(j)' <=> IsQueued(j)
    BY <2>1 DEF IsQueued
  <2>3. TaskStatus'[k] = "refused"
    BY <1>8, <1>9, <2>1
  <2>4. \A j \in TaskIds : j # k => TaskStatus'[j] = TaskStatus[j]
    BY <1>7, <1>9, <1>10, <2>1, <2>2, StatusIs
  <2>5. TaskStatus' = [TaskStatus EXCEPT ![k] = "refused"]
    BY <2>3, <2>4, StatusChanges
  <2> QED BY <1>3, <1>4, <1>5, <2>1, <2>5 DEF Service!Submit, Service!Ids, TaskIds, Open
<1> QED BY <1>11, <1>12 DEF AddTask

LEMMA TakeStarts ==
    ASSUME MapInv, NEW w \in Workers, Take(w)
    PROVE  \E k \in Service!Ids : Service!Start(k)
<1> USE DEF MapInv
<1>1. PICK k \in TaskIds : k = tasks[1] /\ k = Head(tasks) /\ 1 \in 1 .. Len(tasks)
  <2>1. 1 \in 1 .. Len(tasks) /\ Head(tasks) = tasks[1] /\ tasks[1] \in Nat
    BY Typed DEF Take
  <2>2. tasks[1] \in TaskIds
    BY <2>1, Typed DEF OrderInv, IdsBelowLast, TaskIds
  <2> QED BY <2>1, <2>2
<1>2. /\ tasks' = Tail(tasks) /\ tasks # <<>> /\ pc[w] = "lock"
      /\ current' = [current EXCEPT ![w] = k]
      /\ UNCHANGED <<tasks_last_id, turnedAway, owner>>
  BY <1>1 DEF Take, Pop, Moves, counters
<1>3. /\ Len(tasks') = Len(tasks) - 1
      /\ \A i \in 1 .. Len(tasks') : tasks'[i] = tasks[i + 1] /\ i + 1 \in 1 .. Len(tasks)
  BY <1>2, Typed
<1>4. k \in Service!In("queued") /\ Service!Oldest(k)
  <2>1. \A i \in 1 .. Len(tasks) : tasks[1] <= tasks[i]
    <3> TAKE i \in 1 .. Len(tasks)
    <3>1. tasks[1] \in Nat /\ tasks[i] \in Nat /\ (i = 1 \/ 1 < i)
      BY <1>1, Typed
    <3> QED BY <1>1, <3>1 DEF OrderInv, FirstInFirstOut
  <2> QED BY <1>1, <2>1, QueuedAre DEF Service!Oldest
<1>5. w \notin At("busy") /\ current[w] = NoTask
  BY <1>2, Typed DEF At
<1>6. Cardinality(Service!In("running")) < Cardinality(Workers)
  BY <1>5, FewerRun
<1>7. k < tasks_last_id /\ k \notin turnedAway /\ tasks_last_id \in Nat
  BY <1>1, Typed DEF OrderInv, IdsBelowLast, RefusedForGood
<1>8. \A j \in TaskIds :
          TaskStatus'[j] = IF j >= tasks_last_id THEN "new"
                           ELSE IF j \in turnedAway THEN "refused"
                           ELSE IF IsQueued(j)' THEN "queued"
                           ELSE IF IsRunning(j)' THEN "running" ELSE "done"
  BY <1>2 DEF TaskStatus, IsQueued, IsRunning
<1>9. \A j \in TaskIds : IsQueued(j)' <=> IsQueued(j) /\ j # k
  <2> TAKE j \in TaskIds
  <2>1. IsQueued(j)' => IsQueued(j) /\ j # k
    <3> SUFFICES ASSUME NEW i \in 1 .. Len(tasks'), tasks'[i] = j PROVE IsQueued(j) /\ j # k
        BY DEF IsQueued
    <3>1. tasks[i + 1] = j /\ i + 1 \in 1 .. Len(tasks) /\ 1 < i + 1
      BY <1>3
    <3>2. tasks[1] < tasks[i + 1] /\ tasks[1] \in Nat /\ tasks[i + 1] \in Nat
      BY <1>1, <3>1, Typed DEF OrderInv, FirstInFirstOut
    <3> QED BY <1>1, <3>1, <3>2 DEF IsQueued
  <2>2. IsQueued(j) /\ j # k => IsQueued(j)'
    <3> SUFFICES ASSUME NEW i \in 1 .. Len(tasks), tasks[i] = j, j # k PROVE IsQueued(j)'
        BY DEF IsQueued
    <3>1. i # 1
      BY <1>1
    <3>2. i - 1 \in 1 .. Len(tasks') /\ (i - 1) + 1 = i
      BY <1>3, <3>1, Typed
    <3>3. tasks'[i - 1] = j
      BY <1>3, <3>2
    <3> QED BY <3>2, <3>3 DEF IsQueued
  <2> QED BY <2>1, <2>2
<1>10. \A j \in TaskIds : IsRunning(j)' <=> IsRunning(j) \/ j = k
  <2>1. \A j \in TaskIds : j # NoTask
    BY DEF TaskIds, NoTask
  <2> QED BY <1>2, <1>5, <2>1, Typed DEF IsRunning
<1>11. TaskStatus'[k] = "running"
  <2>1. ~(k >= tasks_last_id)
    BY <1>7 DEF TaskIds
  <2> QED BY <1>7, <1>8, <1>9, <1>10, <2>1
<1>12. \A j \in TaskIds : j # k => TaskStatus'[j] = TaskStatus[j]
  BY <1>8, <1>9, <1>10, StatusIs
<1>13. TaskStatus' = [TaskStatus EXCEPT ![k] = "running"]
  BY <1>11, <1>12, StatusChanges
<1>14. Open' = Open
  BY <1>2 DEF Open
<1>15. Service!Start(k)
  <2> HIDE DEF MapInv
  <2> QED BY <1>4, <1>6, <1>13, <1>14, SameCardinality DEF Service!Start, Open
<1> QED BY <1>15 DEF Service!Ids, TaskIds

LEMMA FinishEnds ==
    ASSUME MapInv, NEW w \in Workers, Finish(w)
    PROVE  \E k \in Service!Ids : Service!End(k)
<1> USE DEF MapInv
<1>1. w \in At("busy") /\ current[w] # NoTask
  BY Typed DEF Finish, Moves, At
<1>2. PICK k \in TaskIds : k = current[w] /\ k \in Service!In("running")
  <2>1. current[w] \in Service!In("running")
    BY <1>1, RunningAre
  <2> QED BY <2>1 DEF Service!In, Service!Ids, TaskIds
<1>3. current' = [current EXCEPT ![w] = NoTask]
      /\ UNCHANGED <<tasks, tasks_last_id, turnedAway, owner>>
  BY DEF Finish, DropTask
<1>4. \A j \in TaskIds :
          TaskStatus'[j] = IF j >= tasks_last_id THEN "new"
                           ELSE IF j \in turnedAway THEN "refused"
                           ELSE IF IsQueued(j) THEN "queued"
                           ELSE IF IsRunning(j)' THEN "running" ELSE "done"
  BY <1>3 DEF TaskStatus, IsQueued, IsRunning
<1>5. TaskStatus[k] = "running"
  BY <1>2 DEF Service!In
<1>6. \A j \in TaskIds : IsRunning(j)' <=> IsRunning(j) /\ j # k
  <2> TAKE j \in TaskIds
  <2>1. j # NoTask
    BY DEF TaskIds, NoTask
  <2>2. \A v \in Workers : v # w /\ current[v] # NoTask => current[v] # k
    BY <1>1, <1>2, Typed DEF At, OrderInv, FirstInFirstOut
  <2>3. \A v \in Workers : current'[v] = IF v = w THEN NoTask ELSE current[v]
    BY <1>3, Typed
  <2> QED BY <1>2, <2>1, <2>2, <2>3 DEF IsRunning
<1>7. TaskStatus'[k] = "done"
  BY <1>4, <1>5, <1>6, StatusIs
<1>8. \A j \in TaskIds : j # k => TaskStatus'[j] = TaskStatus[j]
  BY <1>4, <1>6, StatusIs
<1>9. TaskStatus' = [TaskStatus EXCEPT ![k] = "done"]
  BY <1>7, <1>8, StatusChanges
<1> QED BY <1>2, <1>3, <1>9 DEF Service!End, Service!Ids, TaskIds

\* wait_all() returns when the counters agree: then nothing is queued or runs.
LEMMA WaitTestCloses ==
    ASSUME MapInv, WaitTest
    PROVE  Service!Close \/ UNCHANGED Service!serviceVars
<1>1. /\ owner = "waitTest" /\ owner' = IF AllCounted THEN "destroy" ELSE "waitBlock"
      /\ UNCHANGED <<tasks_last_id, tasks, current, turnedAway>>
  BY DEF WaitTest, OwnerMoves, counters
<1>2. TaskStatus' = TaskStatus
  BY <1>1, StatusStays
<1>3. CASE AllCounted
  <2>1. tasks = <<>> /\ At("busy") = {}
    BY <1>3, CountedIsDrained DEF MapInv
  <2>2. Service!In("queued") = {} /\ Service!In("running") = {}
    BY <2>1, QueuedAre, RunningAre
  <2> QED BY <1>1, <1>2, <1>3, <2>2 DEF Service!Close
<1>4. CASE ~AllCounted
  BY <1>1, <1>2, <1>4 DEF Service!serviceVars
<1> QED BY <1>3, <1>4

LEMMA StepIsServiceStep == MapInv /\ [Next]_vars => [Service!ServiceNext]_(Service!serviceVars)
<1> SUFFICES ASSUME MapInv, [Next]_vars
             PROVE  Service!ServiceNext \/ UNCHANGED Service!serviceVars
    OBVIOUS
<1>b. ASSUME UNCHANGED <<tasks_last_id, tasks, current, turnedAway>>, Open' = Open
      PROVE  UNCHANGED Service!serviceVars
  BY <1>b, StatusStays DEF Service!serviceVars, Open
<1>1. ASSUME NEW cb \in Callbacks, AddTask(cb) PROVE Service!ServiceNext
  BY <1>1, AddTaskSubmits DEF Service!ServiceNext
<1>2. ASSUME NEW w \in Workers, Take(w) PROVE Service!ServiceNext
  BY <1>2, TakeStarts DEF Service!ServiceNext
<1>3. ASSUME NEW w \in Workers, Finish(w) PROVE Service!ServiceNext
  BY <1>3, FinishEnds DEF Service!ServiceNext
<1>4. ASSUME WaitTest PROVE Service!ServiceNext \/ UNCHANGED Service!serviceVars
  BY <1>4, WaitTestCloses DEF Service!ServiceNext
<1>5. ASSUME Shutdown \/ WaitBlock \/ SpuriousOwner \/ SetStop \/ NotifyStop \/ Join
      PROVE  UNCHANGED Service!serviceVars
  BY <1>5, <1>b DEF Shutdown, WaitBlock, SpuriousOwner, SetStop, NotifyStop, Join,
     OwnerMoves, counters, Open
<1>6. ASSUME NEW w \in Workers,
             Loop(w) \/ Skip(w) \/ Doze(w) \/ Block(w) \/ SpuriousWorker(w) \/ Announce(w)
      PROVE  UNCHANGED Service!serviceVars
  BY <1>6, <1>b DEF Loop, Skip, Doze, Block, SpuriousWorker, Announce, WakeOwner, counters, Open
<1>7. CASE UNCHANGED vars
  BY <1>7, <1>b DEF vars, counters, Open
<1> QED BY <1>1, <1>2, <1>3, <1>4, <1>5, <1>6, <1>7 DEF Next, Owner, Worker, Terminated

\* The safety half of ImplementsTaskService: from its first state on, the pool
\* of threads does what the service does, for every number of workers, capacity
\* and load.
THEOREM PoolImplementsService ==
    Spec => Service!ServiceInit /\ [][Service!ServiceNext]_(Service!serviceVars)
<1>1. Init => Service!ServiceInit
  <2> SUFFICES ASSUME Init PROVE Service!ServiceInit
      OBVIOUS
  <2>1. owner = "serving" /\ tasks_last_id = 0
    BY DEF Init
  <2>2. TaskStatus = [k \in TaskIds |-> "new"]
    <3>1. \A k \in TaskIds : TaskStatus[k] = "new"
      BY <2>1, StatusIs DEF TaskIds
    <3> QED BY <3>1, StatusIs
  <2> QED BY <2>1, <2>2 DEF Service!ServiceInit, Service!Ids, TaskIds
<1> QED BY <1>1, StepIsServiceStep, MapInvariant, PTL DEF Spec

================================================================================
