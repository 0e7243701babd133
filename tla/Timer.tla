------------------------------- MODULE Timer --------------------------------
(***************************************************************************)
(* The time measurement of timer.c: a cycle counter of 32 bits is turned   *)
(* into microseconds, accumulated, and logged in a vector of fixed length. *)
(*                                                                         *)
(* now is the true time in cycles, which never wraps; the program sees it  *)
(* modulo WordModulus.                                                     *)
(***************************************************************************)

EXTENDS Integers

CONSTANTS
    VecLen,         \* length of timevector (128)
    WordModulus,    \* 2^32
    CyclesPerUs,    \* STM32_SYSCLK in MHz (144)
    MaxNow,         \* bound: cycles
    MaxSamples,     \* bound: measurements between two starts
    Preemptible,    \* can another thread or an ISR run inside get_timer_us?
    CallsInTime,    \* is each measurement shorter than the counter's period?
    StopsOnce       \* is stop_timer called on a running timer only?  Nothing
                    \* else depends on it

\* timer->counter is a uint8_t.
ASSUME VecLenAssumption == VecLen \in 2 .. 255
ASSUME TimeAssumption   == WordModulus \in Nat \ {0} /\ CyclesPerUs \in Nat \ {0}
ASSUME BoundAssumption  == MaxNow \in Nat /\ MaxSamples \in Nat
ASSUME UseAssumption    == {Preemptible, CallsInTime, StopsOnce} \subseteq BOOLEAN

VARIABLES
    last,               \* timer.last: a start time or a duration, see chTM...
    accumulated_time,
    timevector,
    counter,
    running,
    inGet,              \* inside get_timer_us, between stop and start
    corrupt,            \* something was written past the end of timevector
    now,                \* true time, in cycles
    started,            \* true time of the last start_timer, -1 if none
    from,               \* true time of the last chTMStartMeasurementX
    upTo,               \* true time of the last chTMStopMeasurementX
    measured,           \* cycles measured since started
    samples,            \* measurements since started
    taken               \* the cycles that the entries of timevector stand for

object  == <<last, accumulated_time, timevector, counter, running>>
history == <<started, from, upTo, measured, samples, taken>>
vars    == <<object, inGet, corrupt, now, history>>

Init ==
    /\ last = 0
    /\ accumulated_time = 0
    /\ timevector = [i \in 0 .. VecLen - 1 |-> 0]
    /\ counter = 0
    /\ running = FALSE
    /\ inGet = FALSE
    /\ corrupt = FALSE
    /\ now = 0 /\ started = -1 /\ from = 0 /\ upTo = 0
    /\ measured = 0 /\ samples = 0
    /\ taken = [i \in 0 .. VecLen - 1 |-> 0]

(***************************************************************************)
(* The kernel's time measurement (chtm.h), outside src/.                   *)
(***************************************************************************)

\* RTC2US(STM32_SYSCLK, n), in the unsigned arithmetic of C.
RTC2US(n) == ((n - 1) % WordModulus) \div CyclesPerUs + 1

\* chTMStartMeasurementX: last becomes the start time.
StartMeasurement == last' = now % WordModulus /\ from' = now

\* chTMStopMeasurementX: last becomes the duration.
StopMeasurement ==
    /\ last' = (now - last) % WordModulus
    /\ upTo' = now
    /\ measured' = measured + now - from
    /\ samples' = samples + 1

\* Time passes between the program's steps.
Advance ==
    /\ ~corrupt
    /\ now < MaxNow
    /\ inGet => Preemptible
    /\ CallsInTime /\ running => now + 1 - from < WordModulus
    /\ now' = now + 1
    /\ UNCHANGED <<object, inGet, corrupt, history>>

(***************************************************************************)
(* timer.c                                                                 *)
(***************************************************************************)

Called ==
    /\ ~corrupt
    /\ ~inGet
    /\ UNCHANGED now

\* running stays: a timer that runs goes on without a start time.
init_timer ==
    /\ Called
    /\ last' = 0
    /\ accumulated_time' = 0
    /\ timevector' = [i \in 0 .. VecLen - 1 |-> 0]
    /\ counter' = 0
    /\ started' = -1
    /\ UNCHANGED <<running, inGet, corrupt, from, upTo, measured, samples, taken>>

\* Mutant: the counter is not set back.
start_timer_noReset ==
    /\ Called
    /\ StartMeasurement
    /\ accumulated_time' = 0
    /\ timevector' = [timevector EXCEPT ![0] = 0]
    /\ running' = TRUE
    /\ started' = now
    /\ measured' = 0 /\ samples' = 0
    /\ UNCHANGED <<counter, inGet, corrupt, upTo, taken>>

start_timer ==
    /\ Called
    /\ StartMeasurement
    /\ accumulated_time' = 0
    /\ timevector' = [timevector EXCEPT ![0] = 0]
    /\ counter' = 1
    /\ running' = TRUE
    /\ started' = now
    /\ measured' = 0 /\ samples' = 0
    /\ UNCHANGED <<inGet, corrupt, upTo, taken>>

\* An entry of the log and, in taken, the measurement it stands for.
Enter(total) ==
    /\ corrupt' = (counter >= VecLen)
    /\ IF counter < VecLen
       THEN /\ timevector' = [timevector EXCEPT ![counter] = total]
            /\ taken' = [taken EXCEPT ![counter] = upTo' - from]
       ELSE UNCHANGED <<timevector, taken>>

\* Mutant: the difference is logged, not the total.
Accumulate_difference(dt) ==
    /\ accumulated_time' = (accumulated_time + dt) % WordModulus
    /\ Enter(dt)

\* accumulated_time += dt, and the log entry.  What a write past the end
\* destroys is not modelled: the model stops there.
Accumulate(dt) ==
    /\ accumulated_time' = (accumulated_time + dt) % WordModulus
    /\ Enter(accumulated_time')

\* The first half of get_timer_us: the measurement is stopped.  Some cycles
\* have passed since it was started.
GetStops ==
    /\ Called
    /\ running
    /\ now > from
    /\ samples < MaxSamples
    /\ StopMeasurement
    /\ inGet' = TRUE
    /\ UNCHANGED <<accumulated_time, timevector, counter, running, corrupt,
                   started, from, taken>>

\* Mutant: the measurement is not started again.
GetRestarts_noStart ==
    /\ inGet
    /\ inGet' = FALSE
    /\ UNCHANGED <<running, now, started, upTo, measured, samples>>
    /\ Accumulate(RTC2US(last))
    /\ counter' = (counter + 1) % VecLen
    /\ from' = now
    /\ UNCHANGED last

\* Mutant: the counter is not wrapped.
GetRestarts_noWrap ==
    /\ inGet
    /\ inGet' = FALSE
    /\ UNCHANGED <<running, now, started, upTo, measured, samples>>
    /\ Accumulate(RTC2US(last))
    /\ StartMeasurement
    /\ counter' = counter + 1

\* The second half: it is started again, and the time accounted for.
GetRestarts ==
    /\ inGet
    /\ inGet' = FALSE
    /\ UNCHANGED <<running, now, started, upTo, measured, samples>>
    /\ Accumulate(RTC2US(last))
    /\ StartMeasurement
    /\ counter' = (counter + 1) % VecLen

\* stop_timer neither tests running nor wraps the counter.
stop_timer ==
    /\ Called
    /\ StopsOnce => running
    /\ now > from
    /\ samples < MaxSamples
    /\ StopMeasurement
    /\ Accumulate(RTC2US(last'))
    /\ counter' = counter + 1
    /\ running' = FALSE
    /\ UNCHANGED <<inGet, started, from>>

-----------------------------------------------------------------------------

Next == Advance \/ init_timer \/ start_timer \/ GetStops \/ GetRestarts \/ stop_timer

Spec == Init /\ [][Next]_vars

-----------------------------------------------------------------------------

\* Type correctness of the timer object.
TypeOK ==
    /\ last \in 0 .. WordModulus - 1
    /\ accumulated_time \in 0 .. WordModulus - 1
    /\ timevector \in [0 .. VecLen - 1 -> 0 .. WordModulus - 1]
    /\ counter \in 0 .. VecLen
    /\ running \in BOOLEAN
    /\ inGet \in BOOLEAN
    /\ corrupt \in BOOLEAN

\* stop_timer, which does not wrap the counter, never writes past timevector
\* when it ends a measurement that was started.
InBounds == ~corrupt

\* A start_timer and at least one measurement since are done.
Accounted == ~inGet /\ started >= 0 /\ samples > 0

\* The cycles by which the total exceeds n cycles.  The total is a number of 32
\* bits in us and wraps, after 71.6 minutes on the board.
Excess(n) == (accumulated_time * CyclesPerUs - n) % (WordModulus * CyclesPerUs)

\* Whatever happens inside get_timer_us, the total is the time measured,
\* rounded up once for each measurement: also when the total has wrapped, but
\* for the wraps.
Accounting == Accounted => Excess(measured) <= samples * (CyclesPerUs - 1)

\* print_timex subtracts consecutive entries below the counter, as unsigned
\* numbers.  What it prints as a difference is the time, rounded up, of the one
\* measurement that made the entry: across a wrap of the total as well, where
\* the entries themselves descend, and after the counter of entries wrapped.
Printed(i) == (timevector[i] - timevector[i - 1]) % WordModulus

PrintedDifferences ==
    ~corrupt => \A i \in 1 .. counter - 1 :
        Printed(i) * CyclesPerUs \in taken[i] .. taken[i] + CyclesPerUs - 1

\* timer.h lines 43 and 53: get_timer_us and stop_timer return the time from
\* start in us; here to within a microsecond for each measurement, and but for
\* the wraps of a number of 32 bits.
ReturnsTimeFromStart ==
    Accounted => Excess(upTo - started) <= samples * CyclesPerUs

=============================================================================
