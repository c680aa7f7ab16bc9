---------------------------- MODULE FileLoggerProofs ----------------------------
(***************************************************************************)
(* LoggerFile, for any number of threads, lines, intervals and failures of *)
(* the file system.  What the tests of log() and reopen() rely on is the   *)
(* mutex, which exactly the thread between close() and open() holds, and   *)
(* that nothing but a failed open() leaves the file closed without it.     *)
(***************************************************************************)
EXTENDS FileLogger, FiniteSetTheorems, TLAPS

\* mutex_ is held by the thread that is reopening the file.
Holds == \A t \in Loggers : t \in mutex <=> pc[t] = "reopening"

\* A thread is in log() only while the logger is up, and then there is a stream.
Alive ==
    /\ \A t \in Loggers : pc[t] # "idle" => instance = "up"
    /\ instance = "up" => file # "null"

\* The stream is closed under the mutex or by a failure, and each failure is one
\* of the file system.
Closed ==
    /\ file = "closed" => mutex # {} \/ failing
    /\ failing \/ ~usable => faults > 0

\* An interval that has elapsed is one that no reopen() has used yet.
Spent ==
    /\ reopens <= intervals
    /\ instance = "up" /\ due => reopens < intervals

LoggerInv ==
    /\ LoggerTypeOK /\ dropped \in Nat
    /\ Holds /\ Alive /\ Closed /\ Spent
    /\ TestedIsWritten

USE LoggersAssumption, LoggerBoundsAssumption

LEMMA InitInv == LoggerInit => LoggerInv
<1> SUFFICES ASSUME LoggerInit PROVE LoggerInv
    OBVIOUS
<1>1. mutex \subseteq Loggers /\ Cardinality(mutex) <= 1
  <2>1. mutex = {} /\ Cardinality({}) = 0
    BY FS_EmptySet DEF LoggerInit
  <2> QED BY <2>1
<1>2. LoggerTypeOK
  <2>1. /\ config \in Configs /\ interval \in {10, def_reopen_interval}
        /\ instance \in {"none", "up", "thrown", "destroyed"}
        /\ file \in {"null", "open", "closed"}
        /\ due \in BOOLEAN /\ usable \in BOOLEAN /\ failing \in BOOLEAN
    BY DEF LoggerInit
  <2>2. pc \in [Loggers -> {"idle", "test", "write", "reopen", "reopening"}]
    BY DEF LoggerInit
  <2>3. /\ logged \in 0 .. MaxMessages /\ reopens \in 0 .. MaxIntervals
        /\ intervals \in 0 .. MaxIntervals /\ faults \in 0 .. MaxFaults
    BY DEF LoggerInit
  <2> QED BY <1>1, <2>1, <2>2, <2>3 DEF LoggerTypeOK
<1> QED BY <1>2 DEF LoggerInit, LoggerInv, Holds, Alive, Closed, Spent, TestedIsWritten

\* The three steps that leave the stream and the mutex alone.
Passes(t) == Test(t) \/ Write(t) \/ NotDue(t)

LEMMA PassesInv ==
    ASSUME LoggerInv, NEW t \in Loggers, Passes(t) PROVE LoggerInv'
<1> USE DEF LoggerInv
<1>1. /\ UNCHANGED <<config, instance, interval, file, due, mutex, usable, logged,
                     intervals, faults, reopens, failing>>
      /\ \E to \in {"write", "reopen", "idle"} : pc' = [pc EXCEPT ![t] = to]
      /\ pc[t] \in {"test", "write", "reopen"}
  BY DEF Passes, Test, Write, NotDue, Goes, Elsewhere
<1>2. instance = "up"
  BY <1>1 DEF Alive
<1>3. LoggerTypeOK'
  <2>1. pc' \in [Loggers -> {"idle", "test", "write", "reopen", "reopening"}]
    BY <1>1 DEF LoggerTypeOK
  <2> QED BY <1>1, <2>1 DEF LoggerTypeOK
<1>4. Holds' /\ Alive'
  BY <1>1, <1>2 DEF Holds, Alive, LoggerTypeOK
<1>5. Closed' /\ Spent'
  BY <1>1 DEF Closed, Spent
<1>6. dropped' \in Nat /\ TestedIsWritten'
  <2>1. CASE file = "open" \/ ~Write(t)
    BY <1>1, <2>1 DEF Passes, Test, Write, NotDue, TestedIsWritten
  <2>2. CASE file # "open" /\ Write(t)
    <3>1. file = "closed" /\ mutex = {}
      BY <1>2, <2>2 DEF Alive, LoggerTypeOK, Write, WriteLock
    <3>2. faults > 0 /\ faults' = faults
      BY <1>1, <3>1 DEF Closed
    <3>3. dropped' = dropped + 1
      BY <2>2 DEF Write
    <3> QED BY <3>2, <3>3 DEF TestedIsWritten
  <2> QED BY <2>1, <2>2
<1> QED BY <1>3, <1>4, <1>5, <1>6

LEMMA ReopenInv ==
    ASSUME LoggerInv, NEW t \in Loggers, CloseFile(t) \/ OpenFile(t) \/ OpenFails(t)
    PROVE  LoggerInv'
<1> USE DEF LoggerInv
<1>1. CASE CloseFile(t)
  <2>1. /\ UNCHANGED <<config, instance, interval, usable, logged, intervals, faults, failing, dropped>>
        /\ mutex = {} /\ mutex' = {t} /\ due /\ due' = FALSE
        /\ file' = "closed" /\ reopens' = reopens + 1
        /\ pc[t] = "reopen" /\ pc' = [pc EXCEPT ![t] = "reopening"]
    BY <1>1 DEF CloseFile, Goes, Elsewhere, SetLastReopen
  <2>2. instance = "up"
    BY <2>1 DEF Alive
  <2>3. /\ reopens \in Nat /\ intervals \in Nat /\ MaxIntervals \in Nat
        /\ reopens < intervals /\ intervals <= MaxIntervals
    BY <2>1, <2>2 DEF Spent, LoggerTypeOK
  <2>4. Cardinality(mutex') <= 1
    <3>1. Cardinality({t}) = 1
      BY FS_Singleton
    <3> QED BY <2>1, <3>1
  <2>5. pc' \in [Loggers -> {"idle", "test", "write", "reopen", "reopening"}]
    BY <2>1 DEF LoggerTypeOK
  <2>6. reopens' \in 0 .. MaxIntervals
    BY <2>1, <2>3
  <2>7. LoggerTypeOK'
    BY <2>1, <2>4, <2>5, <2>6 DEF LoggerTypeOK
  <2>8. Holds' /\ Alive'
    BY <2>1, <2>2 DEF Holds, Alive, LoggerTypeOK
  <2>9. Closed' /\ TestedIsWritten'
    BY <2>1 DEF Closed, TestedIsWritten
  <2>10. Spent'
    BY <2>1, <2>3 DEF Spent
  <2> QED BY <2>1, <2>7, <2>8, <2>9, <2>10
<1>2. CASE OpenFile(t) \/ OpenFails(t)
  <2>1. /\ UNCHANGED <<config, instance, interval, usable, logged, intervals, faults, dropped, due, reopens>>
        /\ mutex' = {} /\ pc[t] = "reopening" /\ pc' = [pc EXCEPT ![t] = "idle"]
    BY <1>2 DEF OpenFile, OpenFails, Goes, Elsewhere, UnlockInCatch
  <2>2. \/ usable /\ file' = "open" /\ failing' = FALSE
        \/ ~usable /\ file' = file /\ failing' = TRUE
    BY <1>2 DEF OpenFile, OpenFails, OpenStream
  <2>3. \A u \in Loggers : u # t => pc[u] # "reopening"
    <3>1. SUFFICES ASSUME NEW u \in Loggers, u # t, pc[u] = "reopening" PROVE FALSE
      OBVIOUS
    <3>2. {t, u} \subseteq mutex /\ IsFiniteSet(mutex)
      BY <2>1, <3>1, FS_Subset DEF Holds, LoggerTypeOK
    <3>3. Cardinality({t, u}) <= Cardinality(mutex) /\ Cardinality(mutex) <= 1
      BY <3>2, FS_Subset DEF LoggerTypeOK
    <3>4. Cardinality({t, u}) = 2
      <4>1. IsFiniteSet({t}) /\ Cardinality({t}) = 1 /\ u \notin {t}
        BY <3>1, FS_Singleton
      <4>2. Cardinality({t} \cup {u}) = Cardinality({t}) + 1
        BY <4>1, FS_AddElement
      <4>3. {t, u} = {t} \cup {u}
        OBVIOUS
      <4> QED BY <4>1, <4>2, <4>3
    <3>5. Cardinality(mutex) \in Nat
      BY <3>2, FS_CardinalityType
    <3> QED BY <3>3, <3>4, <3>5
  <2>4. LoggerTypeOK'
    <3>1. Cardinality(mutex') <= 1
      <4>1. Cardinality({}) = 0
        BY FS_EmptySet
      <4> QED BY <2>1, <4>1
    <3>2. pc' \in [Loggers -> {"idle", "test", "write", "reopen", "reopening"}]
      BY <2>1 DEF LoggerTypeOK
    <3>3. file' \in {"null", "open", "closed"} /\ failing' \in BOOLEAN
      BY <2>2 DEF LoggerTypeOK
    <3> QED BY <2>1, <3>1, <3>2, <3>3 DEF LoggerTypeOK
  <2>5. Holds' /\ Alive'
    BY <2>1, <2>2, <2>3 DEF Holds, Alive, LoggerTypeOK
  <2>6. Closed' /\ Spent' /\ TestedIsWritten'
    BY <2>1, <2>2 DEF Closed, Spent, TestedIsWritten
  <2> QED BY <2>1, <2>4, <2>5, <2>6
<1> QED BY <1>1, <1>2

LEMMA StepInv == LoggerInv /\ [LoggerNext]_vars => LoggerInv'
<1> SUFFICES ASSUME LoggerInv, [LoggerNext]_vars PROVE LoggerInv'
    OBVIOUS
<1> USE DEF LoggerInv
<1>1. CASE Construct
  <2>1. /\ UNCHANGED <<config, mutex, pc, usable, logged, dropped, intervals, faults, reopens, failing>>
        /\ instance = "none" /\ instance' \in {"up", "thrown"}
        /\ \/ instance' = "up" /\ interval' = IntervalOf(config) /\ file' = "open" /\ due' = FALSE
           \/ instance' = "thrown" /\ interval' = interval /\ file' = file /\ due' = due
    BY <1>1 DEF Construct
  <2>2. IntervalOf(config) \in {10, def_reopen_interval}
    BY DEF LoggerTypeOK, IntervalOf, Configs, NotANumber
  <2>3. LoggerTypeOK'
    BY <2>1, <2>2 DEF LoggerTypeOK
  <2>4. Holds' /\ Alive'
    BY <2>1 DEF Holds, Alive
  <2>5. Closed' /\ Spent' /\ TestedIsWritten'
    BY <2>1 DEF Closed, Spent, TestedIsWritten
  <2> QED BY <2>1, <2>3, <2>4, <2>5
<1>2. CASE Destroy
  BY <1>2 DEF Destroy, LoggerTypeOK, Holds, Alive, Closed, Spent, TestedIsWritten
<1>3. CASE IntervalElapses
  <2>1. /\ UNCHANGED <<config, instance, interval, file, mutex, pc, usable, logged, dropped, faults, reopens, failing>>
        /\ due' = TRUE /\ intervals' = intervals + 1 /\ intervals < MaxIntervals
    BY <1>3 DEF IntervalElapses
  <2>2. LoggerTypeOK'
    BY <2>1 DEF LoggerTypeOK
  <2>3. Spent'
    BY <2>1 DEF Spent, LoggerTypeOK
  <2> QED BY <2>1, <2>2, <2>3 DEF Holds, Alive, Closed, TestedIsWritten
<1>4. CASE FileSystemChanges
  <2>1. /\ UNCHANGED <<config, instance, interval, file, due, mutex, pc, logged, dropped, intervals, reopens, failing>>
        /\ usable' = ~usable
        /\ faults' = IF usable THEN faults + 1 ELSE faults
        /\ usable => faults < MaxFaults
        /\ faults \in Nat /\ faults <= MaxFaults /\ MaxFaults \in Nat
    BY <1>4 DEF FileSystemChanges, LoggerTypeOK
  <2>2. faults' \in 0 .. MaxFaults /\ faults' >= faults
    BY <2>1
  <2>3. LoggerTypeOK'
    <3>1. usable' \in BOOLEAN
      BY <2>1
    <3> QED BY <2>1, <2>2, <3>1 DEF LoggerTypeOK
  <2>4. ~usable' => faults' > 0
    <3>1. ~usable' => faults' = faults + 1
      BY <2>1
    <3>2. faults + 1 > 0
      BY <2>1
    <3> QED BY <3>1, <3>2
  <2>5. faults > 0 => faults' > 0
    BY <2>1, <2>2
  <2>6. Closed'
    BY <2>1, <2>4, <2>5 DEF Closed
  <2>7. TestedIsWritten'
    BY <2>1, <2>2 DEF TestedIsWritten
  <2> QED BY <2>1, <2>3, <2>6, <2>7 DEF Holds, Alive, Spent
<1>5. ASSUME NEW t \in Loggers, Log(t) PROVE LoggerInv'
  <2>1. /\ UNCHANGED <<config, instance, interval, usable, intervals, faults, file, due, mutex, dropped, reopens, failing>>
        /\ instance = "up" /\ logged < MaxMessages /\ logged' = logged + 1
        /\ pc[t] = "idle" /\ pc' = [pc EXCEPT ![t] = "test"]
    BY <1>5 DEF Log, Goes, Elsewhere
  <2>2. LoggerTypeOK'
    <3>1. logged' \in 0 .. MaxMessages
      BY <2>1 DEF LoggerTypeOK
    <3>2. pc' \in [Loggers -> {"idle", "test", "write", "reopen", "reopening"}]
      BY <2>1 DEF LoggerTypeOK
    <3> QED BY <2>1, <3>1, <3>2 DEF LoggerTypeOK
  <2>3. Holds' /\ Alive'
    BY <2>1 DEF Holds, Alive, LoggerTypeOK
  <2> QED BY <2>1, <2>2, <2>3 DEF Closed, Spent, TestedIsWritten
<1>6. ASSUME NEW t \in Loggers, LogStep(t) PROVE LoggerInv'
  BY <1>6, PassesInv, ReopenInv DEF LogStep, Passes
<1>7. CASE UNCHANGED vars
  BY <1>7 DEF vars, LoggerTypeOK, Holds, Alive, Closed, Spent, TestedIsWritten
<1> QED BY <1>1, <1>2, <1>3, <1>4, <1>5, <1>6, <1>7 DEF LoggerNext

\* The invariant holds in every state of the logger.
THEOREM LoggerInvariant == LoggerSpec => []LoggerInv
<1> QED BY InitInv, StepInv, PTL DEF LoggerSpec

\* Writing a line and reopening the file exclude each other, for any number of
\* threads: a line that passed is_open() is lost only after the file could not
\* be opened again (log() and reopen()).
THEOREM TestedLinesAreWritten == LoggerSpec => []TestedIsWritten
<1>1. LoggerInv => TestedIsWritten
  BY DEF LoggerInv
<1> QED BY <1>1, LoggerInvariant, PTL

\* The stream of reopen() is closed only under the mutex, or after a failure.
THEOREM ClosedOnlyForCause == LoggerSpec => []ClosedForCause
<1>1. LoggerInv => ClosedForCause
  BY DEF LoggerInv, Closed, ClosedForCause
<1> QED BY <1>1, LoggerInvariant, PTL

\* reopen() closes the file at most once in an interval, whatever number of
\* threads finds the interval elapsed.
THEOREM ReopenedOncePerInterval == LoggerSpec => []OncePerInterval
<1>1. LoggerInv => OncePerInterval
  BY DEF LoggerInv, Spent, OncePerInterval
<1> QED BY <1>1, LoggerInvariant, PTL

================================================================================
