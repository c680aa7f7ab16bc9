----------------------------- MODULE MCThreadPool -----------------------------
(* Small pools for TLC, and the refinement to TaskService.                 *)
EXTENDS ThreadPool

\* The state of each task, read off the pool.
TaskStatus ==
    [k \in TaskIds |->
        IF k >= tasks_last_id THEN "new"
        ELSE IF k \in turnedAway THEN "refused"
        ELSE IF \E i \in 1 .. Len(tasks) : tasks[i] = k THEN "queued"
        ELSE IF \E w \in Workers : current[w] = k THEN "running"
        ELSE "done"]

Service == INSTANCE TaskService WITH
    Servers <- Cardinality(Workers),
    status  <- TaskStatus,
    open    <- owner \in {"serving", "waitTest", "waitBlock", "waitAsleep"}

\* The pool of threads implements the service, with its liveness: accepted
\* tasks are all executed, in order, before wait_all() lets the pool go.
ImplementsTaskService == Service!ServiceSpec

=============================================================================
