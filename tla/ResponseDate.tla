------------------------------ MODULE ResponseDate ------------------------------
(***************************************************************************)
(* The date in the header of every response (time_gmt_str_) and in every   *)
(* line of the access log (time_local_str_).  Both call std::localtime,    *)
(* which fills one static buffer for the whole process (under the lock of  *)
(* the C library) and returns its address; std::put_time then reads the    *)
(* fields one after the other, without a lock, while other threads convert *)
(* times of their own.                                                     *)
(***************************************************************************)
EXTENDS Integers, FiniteSets

CONSTANTS
    Threads,    \* threads that send responses
    Zones,      \* offsets of local time from GMT that are considered
    MaxTime,    \* bound of the model: the clock stops here
    MaxDates    \* bound of the model: dates formatted

ASSUME ThreadsAssumption == IsFiniteSet(Threads)
ASSUME ClockAssumption == Zones \subseteq Int /\ MaxTime \in Nat /\ MaxDates \in Nat

VARIABLES
    zone,       \* the time zone of the process
    now,        \* the system clock
    buffer,     \* the static std::tm of the C library
    pc,         \* where each thread is in time_gmt_str_ or time_local_str_
    t,          \* its local variable t: the instant to format
    text,       \* what put_time has read so far
    disturbed,  \* history: somebody else has converted since this thread did
    dates       \* bound: how many dates have been started

vars == <<zone, now, buffer, pc, t, text, disturbed, dates>>

Hour == 2       \* in ticks of the clock of the model

gmtime(time)    == [hour |-> time \div Hour, minute |-> time % Hour]
localtime(time) == [hour |-> time \div Hour + zone, minute |-> time % Hour]

DateInit ==
    /\ zone \in Zones
    /\ now = 0
    /\ buffer = gmtime(0)
    /\ pc = [w \in Threads |-> "idle"]
    /\ t = [w \in Threads |-> 0]
    /\ text = [w \in Threads |-> gmtime(0)]
    /\ disturbed = [w \in Threads |-> FALSE]
    /\ dates = 0

Tick ==
    /\ now < MaxTime
    /\ now' = now + 1
    /\ UNCHANGED <<zone, buffer, pc, t, text, disturbed, dates>>

Goes(w, from, to) == pc[w] = from /\ pc' = [pc EXCEPT ![w] = to]

\* system_clock::now(), to_time_t(); time_gmt_str_ also fills gmt_tm, unused.
ReadClock(w) ==
    /\ dates < MaxDates /\ dates' = dates + 1
    /\ Goes(w, "idle", "convert")
    /\ t' = [t EXCEPT ![w] = now]
    /\ UNCHANGED <<zone, now, buffer, text, disturbed>>

\* Variant with a bug: put_time is given the buffer as it is.
FillNothing(w) == UNCHANGED buffer
Fill(w) == buffer' = localtime(t[w])

\* std::localtime(&t).
Convert(w) ==
    /\ Goes(w, "convert", "hour")
    /\ Fill(w)
    /\ disturbed' = [v \in Threads |-> IF v = w THEN FALSE ELSE disturbed[v] \/ pc[v] \in {"hour", "minute"}]
    /\ UNCHANGED <<zone, now, t, text, dates>>

\* put_time: one conversion specifier after the other.
PutHour(w) ==
    /\ Goes(w, "hour", "minute")
    /\ text' = [text EXCEPT ![w] = [hour |-> buffer.hour, minute |-> @.minute]]
    /\ UNCHANGED <<zone, now, buffer, t, disturbed, dates>>
PutMinute(w) ==
    /\ Goes(w, "minute", "done")
    /\ text' = [text EXCEPT ![w] = [hour |-> @.hour, minute |-> buffer.minute]]
    /\ UNCHANGED <<zone, now, buffer, t, disturbed, dates>>

\* The date goes into the header or the log.
Use(w) ==
    /\ Goes(w, "done", "idle")
    /\ UNCHANGED <<zone, now, buffer, t, text, disturbed, dates>>

DateNext ==
    \/ Tick
    \/ \E w \in Threads : ReadClock(w) \/ Convert(w) \/ PutHour(w) \/ PutMinute(w) \/ Use(w)

DateSpec == DateInit /\ [][DateNext]_vars

-----------------------------------------------------------------------------
\* A date is the local time at which its thread read the clock, unless another
\* thread converted a time of its own before the last field was read: only
\* then can it mix two instants, or name one before the request came in.
WrongOnlyByOthers ==
    \A w \in Threads :
        pc[w] = "done" /\ ~disturbed[w] => text[w] = localtime(t[w])

=============================================================================
