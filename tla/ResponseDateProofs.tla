--------------------------- MODULE ResponseDateProofs ---------------------------
(***************************************************************************)
(* Theorems about ResponseDate, for any number of threads and any clock.   *)
(***************************************************************************)
EXTENDS ResponseDate, TLAPS

Places == {"idle", "convert", "hour", "minute", "done"}
Tm == [hour : Int, minute : Int]

DateTypeOK ==
    /\ zone \in Int /\ now \in Nat
    /\ buffer \in Tm
    /\ pc \in [Threads -> Places]
    /\ t \in [Threads -> Nat]
    /\ text \in [Threads -> Tm]
    /\ disturbed \in [Threads -> BOOLEAN]

\* As long as nobody disturbs a thread, the buffer holds its date, and so does
\* what it has read of it.
ReadSoFar ==
    \A w \in Threads : ~disturbed[w] =>
        /\ pc[w] \in {"hour", "minute"} => buffer = localtime(t[w])
        /\ pc[w] = "minute" => text[w].hour = localtime(t[w]).hour
        /\ pc[w] = "done" => text[w] = localtime(t[w])

DateInv == DateTypeOK /\ ReadSoFar

LEMMA Conversions ==
    ASSUME zone \in Int, NEW time \in Nat
    PROVE  gmtime(time) \in Tm /\ localtime(time) \in Tm
BY DEF gmtime, localtime, Tm, Hour

LEMMA DateInvInit == DateInit => DateInv
BY ClockAssumption, Conversions DEF DateInit, DateInv, DateTypeOK, ReadSoFar, Places, gmtime, Tm, Hour

LEMMA DateTypeStep == DateTypeOK /\ [DateNext]_vars => DateTypeOK'
<1> SUFFICES ASSUME DateTypeOK, [DateNext]_vars PROVE DateTypeOK'
    OBVIOUS
<1> USE DEF DateTypeOK, Places
<1>1. CASE Tick
  BY <1>1 DEF Tick
<1>2. ASSUME NEW w \in Threads, ReadClock(w) PROVE DateTypeOK'
  BY <1>2 DEF ReadClock, Goes
<1>3. ASSUME NEW w \in Threads, Convert(w) PROVE DateTypeOK'
  <2>1. t[w] \in Nat
    OBVIOUS
  <2>2. localtime(t[w]) \in Tm
    BY <2>1, Conversions
  <2>3. disturbed' \in [Threads -> BOOLEAN]
    BY <1>3 DEF Convert
  <2> QED BY <1>3, <2>2, <2>3 DEF Convert, Goes, Fill
<1>4. ASSUME NEW w \in Threads, PutHour(w) PROVE DateTypeOK'
  BY <1>4 DEF PutHour, Goes, Tm
<1>5. ASSUME NEW w \in Threads, PutMinute(w) PROVE DateTypeOK'
  BY <1>5 DEF PutMinute, Goes, Tm
<1>6. ASSUME NEW w \in Threads, Use(w) PROVE DateTypeOK'
  BY <1>6 DEF Use, Goes
<1>7. CASE UNCHANGED vars
  BY <1>7 DEF vars
<1> QED BY <1>1, <1>2, <1>3, <1>4, <1>5, <1>6, <1>7 DEF DateNext

LEMMA ReadSoFarStep == DateInv /\ [DateNext]_vars => ReadSoFar'
<1> SUFFICES ASSUME DateInv, [DateNext]_vars, NEW v \in Threads, ~disturbed'[v]
             PROVE  /\ pc'[v] \in {"hour", "minute"} => buffer' = localtime(t[v])'
                    /\ pc'[v] = "minute" => text'[v].hour = localtime(t[v]).hour'
                    /\ pc'[v] = "done" => text'[v] = localtime(t[v])'
    BY DEF ReadSoFar
<1> USE DEF DateInv, DateTypeOK, ReadSoFar, localtime
<1>1. CASE Tick
  BY <1>1 DEF Tick
<1>2. ASSUME NEW w \in Threads, ReadClock(w)
      PROVE  /\ pc'[v] \in {"hour", "minute"} => buffer' = localtime(t[v])'
             /\ pc'[v] = "minute" => text'[v].hour = localtime(t[v]).hour'
             /\ pc'[v] = "done" => text'[v] = localtime(t[v])'
  BY <1>2 DEF ReadClock, Goes
<1>3. ASSUME NEW w \in Threads, Convert(w)
      PROVE  /\ pc'[v] \in {"hour", "minute"} => buffer' = localtime(t[v])'
             /\ pc'[v] = "minute" => text'[v].hour = localtime(t[v]).hour'
             /\ pc'[v] = "done" => text'[v] = localtime(t[v])'
  <2>1. CASE v = w
    BY <1>3, <2>1 DEF Convert, Goes, Fill
  <2>2. CASE v # w
    <3>1. ~disturbed[v] /\ pc[v] \notin {"hour", "minute"}
      BY <1>3, <2>2 DEF Convert
    <3> QED BY <1>3, <2>2, <3>1 DEF Convert, Goes
  <2> QED BY <2>1, <2>2
<1>4. ASSUME NEW w \in Threads, PutHour(w)
      PROVE  /\ pc'[v] \in {"hour", "minute"} => buffer' = localtime(t[v])'
             /\ pc'[v] = "minute" => text'[v].hour = localtime(t[v]).hour'
             /\ pc'[v] = "done" => text'[v] = localtime(t[v])'
  BY <1>4 DEF PutHour, Goes, Tm
<1>5. ASSUME NEW w \in Threads, PutMinute(w)
      PROVE  /\ pc'[v] \in {"hour", "minute"} => buffer' = localtime(t[v])'
             /\ pc'[v] = "minute" => text'[v].hour = localtime(t[v]).hour'
             /\ pc'[v] = "done" => text'[v] = localtime(t[v])'
  BY <1>5 DEF PutMinute, Goes, Tm, gmtime
<1>6. ASSUME NEW w \in Threads, Use(w)
      PROVE  /\ pc'[v] \in {"hour", "minute"} => buffer' = localtime(t[v])'
             /\ pc'[v] = "minute" => text'[v].hour = localtime(t[v]).hour'
             /\ pc'[v] = "done" => text'[v] = localtime(t[v])'
  BY <1>6 DEF Use, Goes
<1>7. CASE UNCHANGED vars
  BY <1>7 DEF vars
<1> QED BY <1>1, <1>2, <1>3, <1>4, <1>5, <1>6, <1>7 DEF DateNext

\* A date is wrong only if another thread has converted a time in between, for
\* any number of threads (time_gmt_str_, time_local_str_).
THEOREM DatesWrongOnlyByOthers == DateSpec => []WrongOnlyByOthers
<1>1. DateInv => WrongOnlyByOthers
  BY DEF DateInv, ReadSoFar, WrongOnlyByOthers
<1> QED BY <1>1, DateInvInit, DateTypeStep, ReadSoFarStep, PTL DEF DateSpec, DateInv

=============================================================================
