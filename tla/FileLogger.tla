------------------------------ MODULE FileLogger ------------------------------
(***************************************************************************)
(* LoggerFile: threads write lines to one std::ofstream, which the call    *)
(* that finds the interval elapsed closes and opens again by name, so that *)
(* a moved file is left behind.  The test is_open() is made without mutex_ *)
(* while another thread may be reopening: it reads either value.           *)
(***************************************************************************)
EXTENDS Integers, FiniteSets

CONSTANTS
    Loggers,        \* threads that call log()
    MaxMessages,    \* bound of the model: lines logged
    MaxIntervals,   \* bound of the model: how often reopen_interval_ elapses
    MaxFaults       \* bound of the model: how often the file cannot be opened

ASSUME LoggersAssumption == IsFiniteSet(Loggers)
ASSUME LoggerBoundsAssumption ==
    MaxMessages \in Nat /\ MaxIntervals \in Nat /\ MaxFaults \in Nat

VARIABLES
    config,     \* what the logger is constructed with
    instance,   \* "none", "up", "thrown" by the constructor, "destroyed"
    interval,   \* reopen_interval_, in seconds
    file,       \* file_: "null", "open" or "closed"
    due,        \* now - last_reopen_ > reopen_interval_
    mutex,      \* mutex_: {} or {the thread that holds it}
    pc,         \* where each thread is in log() and reopen()
    usable,     \* external: the directory and the file can be created and opened
    logged, dropped, refused,           \* history: lines, and what became of them
    intervals, faults, reopens, failing \* counts; the last reopen() has failed

vars == <<config, instance, interval, file, due, mutex, pc, usable, logged,
          dropped, refused, intervals, faults, reopens, failing>>

NotANumber == -1        \* std::stol throws

\* file_name: not there, empty (def_file_name is taken), without a directory,
\* with one; the key that gives an interval, and std::stol of its value.
Configs ==
    [file_name : {"missing", "empty", "bare", "inDirectory"},
     key       : {"none", "reopen_interval", "file_reopen_interval"},
     value     : {NotANumber, 0, 10}]

def_reopen_interval == 300

IntervalOf(c) ==
    IF c.key = "file_reopen_interval" /\ c.value > 0
    THEN c.value ELSE def_reopen_interval

\* The parent of a name without a directory is the empty path: it is not a
\* directory, and create_directories() cannot make one.
HasDirectory(c) == c.file_name = "inDirectory"

Constructible(c) ==
    /\ c.file_name # "missing"
    /\ ~(c.key = "file_reopen_interval" /\ c.value = NotANumber)
    /\ HasDirectory(c)
    /\ usable

LoggerInit ==
    /\ config \in Configs
    /\ instance = "none" /\ interval = def_reopen_interval
    /\ file = "null" /\ due = TRUE /\ mutex = {}
    /\ pc = [t \in Loggers |-> "idle"]
    /\ usable = TRUE
    /\ logged = 0 /\ dropped = 0 /\ refused = 0
    /\ intervals = 0 /\ faults = 0 /\ reopens = 0 /\ failing = FALSE

-----------------------------------------------------------------------------
(* The constructor, with the first reopen().                               *)
Construct ==
    /\ instance = "none"
    /\ IF Constructible(config)
       THEN instance' = "up" /\ interval' = IntervalOf(config) /\ file' = "open" /\ due' = FALSE
       ELSE instance' = "thrown" /\ UNCHANGED <<interval, file, due>>
    /\ UNCHANGED <<config, mutex, pc, usable, logged, dropped, refused,
                   intervals, faults, reopens, failing>>

Goes(t, from, to) == pc[t] = from /\ pc' = [pc EXCEPT ![t] = to]
Elsewhere == UNCHANGED <<config, instance, interval, usable, intervals, faults>>

Log(t) ==
    /\ instance = "up" /\ logged < MaxMessages
    /\ Goes(t, "idle", "test")
    /\ logged' = logged + 1
    /\ UNCHANGED <<file, due, mutex, dropped, refused, reopens, failing>> /\ Elsewhere

(* if (file_->is_open()): without the mutex.                               *)
Test(t) ==
    /\ Goes(t, "test", IF file = "open" THEN "write" ELSE "reopen")
    /\ refused' = IF file = "open" THEN refused ELSE refused + 1
    /\ UNCHANGED <<file, due, mutex, logged, dropped, reopens, failing>> /\ Elsewhere

\* Variant with a bug: the line is written without the mutex.
AtAnyTime == TRUE
WriteLock == mutex = {}

\* The line goes to the file, or nowhere when a reopen() in between has failed.
Write(t) ==
    /\ WriteLock
    /\ Goes(t, "write", "reopen")
    /\ dropped' = IF file = "open" THEN dropped ELSE dropped + 1
    /\ UNCHANGED <<file, due, mutex, logged, refused, reopens, failing>> /\ Elsewhere

(* reopen(): nothing to do yet ...                                         *)
NotDue(t) ==
    /\ mutex = {} /\ ~due
    /\ Goes(t, "reopen", "idle")
    /\ UNCHANGED <<file, due, mutex, logged, dropped, refused, reopens, failing>> /\ Elsewhere

\* Variant with a bug: last_reopen_ keeps its old value.
StillDue == UNCHANGED due
SetLastReopen == due' = FALSE

\* ... or the file is closed, the mutex held, ...
CloseFile(t) ==
    /\ mutex = {} /\ due
    /\ Goes(t, "reopen", "reopening")
    /\ mutex' = {t} /\ SetLastReopen
    /\ file' = "closed" /\ reopens' = reopens + 1
    /\ UNCHANGED <<logged, dropped, refused, failing>> /\ Elsewhere

\* Variant with a bug: only a stream that is new is opened.
LeaveAsItIs == UNCHANGED file
OpenStream == file' = "open"

\* ... and opened again ...
OpenFile(t) ==
    /\ usable
    /\ Goes(t, "reopening", "idle")
    /\ mutex' = {} /\ OpenStream /\ failing' = FALSE
    /\ UNCHANGED <<due, logged, dropped, refused, reopens>> /\ Elsewhere

\* Variant with a bug: the exception is thrown with the mutex locked.
StayLocked == UNCHANGED mutex
UnlockInCatch == mutex' = {}

\* ... or cannot be opened: the exception leaves log().
OpenFails(t) ==
    /\ ~usable
    /\ Goes(t, "reopening", "idle")
    /\ UnlockInCatch /\ failing' = TRUE
    /\ UNCHANGED <<file, due, logged, dropped, refused, reopens>> /\ Elsewhere

LogStep(t) ==
    \/ Test(t) \/ Write(t) \/ NotDue(t) \/ CloseFile(t) \/ OpenFile(t) \/ OpenFails(t)

Destroy ==
    /\ instance = "up" /\ \A t \in Loggers : pc[t] = "idle"
    /\ instance' = "destroyed" /\ file' = "null"
    /\ UNCHANGED <<config, interval, due, mutex, pc, usable, logged, dropped,
                   refused, intervals, faults, reopens, failing>>

-----------------------------------------------------------------------------
(* Time and the file system (external).                                    *)
IntervalElapses ==
    /\ instance = "up" /\ ~due /\ intervals < MaxIntervals
    /\ due' = TRUE /\ intervals' = intervals + 1
    /\ UNCHANGED <<config, instance, interval, file, mutex, pc, usable, logged,
                   dropped, refused, faults, reopens, failing>>
FileSystemChanges ==
    /\ usable => faults < MaxFaults
    /\ usable' = ~usable /\ faults' = faults + (IF usable THEN 1 ELSE 0)
    /\ UNCHANGED <<config, instance, interval, file, due, mutex, pc, logged,
                   dropped, refused, intervals, reopens, failing>>

LoggerNext ==
    \/ Construct \/ Destroy \/ IntervalElapses \/ FileSystemChanges
    \/ \E t \in Loggers : Log(t) \/ LogStep(t)

LoggerSpec == LoggerInit /\ [][LoggerNext]_vars

\* A thread inside log() goes on; nobody must log, and time may stand still.
FairLoggerSpec == LoggerSpec /\ \A t \in Loggers : WF_vars(LogStep(t))

-----------------------------------------------------------------------------
\* The variables have their types.
LoggerTypeOK ==
    /\ config \in Configs /\ interval \in {10, def_reopen_interval}
    /\ instance \in {"none", "up", "thrown", "destroyed"}
    /\ file \in {"null", "open", "closed"}
    /\ due \in BOOLEAN /\ usable \in BOOLEAN /\ failing \in BOOLEAN
    /\ mutex \subseteq Loggers /\ Cardinality(mutex) <= 1
    /\ pc \in [Loggers -> {"idle", "test", "write", "reopen", "reopening"}]
    /\ logged \in 0 .. MaxMessages /\ reopens \in 0 .. MaxIntervals
    /\ intervals \in 0 .. MaxIntervals /\ faults \in 0 .. MaxFaults

\* A line that has passed the test is lost only if the file could not be opened
\* again: writing and reopening exclude each other.
TestedIsWritten == faults = 0 => dropped = 0

\* The file is found closed only while a thread is reopening it or after that
\* has failed: a file system that works again is used again.
ClosedForCause == file = "closed" => mutex # {} \/ failing

\* However many threads log at once, each interval reopens the file once.
OncePerInterval == reopens <= intervals

\* Every call of log() returns, by exception if need be: no path keeps mutex_.
LogReturns == \A t \in Loggers : pc[t] # "idle" ~> pc[t] = "idle"

\* logger_file.h: the logger directs its output to the file.  (A line whose
\* test falls into the reopening by another thread is silently left out.)
OutputReachesFile == faults = 0 => refused = 0

=============================================================================
