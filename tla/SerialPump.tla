----------------------------- MODULE SerialPump -----------------------------
(***************************************************************************)
(* The serial range report (my_uart.c): serial_write_range stores a record *)
(* in the one slot range_data and raises serial_data; the Aux1 pump thread *)
(* polls serial_data every millisecond, prints the slot to the UART and    *)
(* clears serial_data.  Nothing locks the slot.                            *)
(*                                                                         *)
(* A record is abstracted to the number of the call that stored it, each   *)
(* of its fields to the number of the call that wrote the field last, and  *)
(* the 64 characters of the UART's output queue to QueueFrames frames.     *)
(***************************************************************************)

EXTENDS Integers, Sequences

CONSTANTS
    Writers,        \* the threads that call serial_write_range
    Pump,           \* the thread Aux1DataPumpTask
    Prio,           \* the priorities of these threads
    QueueFrames,    \* frames that fit into the UART's output queue
    MaxCalls        \* bound: calls of serial_write_range

Threads == Writers \cup {Pump}

Fields == {"node", "range", "rssi"}

ASSUME WritersAssumption == Pump \notin Writers
ASSUME PrioAssumption    == Prio \in [Threads -> Nat]
ASSUME QueueAssumption   == QueueFrames \in Nat \ {0}
ASSUME CallsAssumption   == MaxCalls \in Nat

VARIABLES
    serial_data,    \* "SERIAL_NONE" or "SERIAL_RANGE_RESULT"
    range_data,     \* the slot
    calls,          \* calls of serial_write_range so far
    done,           \* calls that have returned
    call,           \* the number of the call each writer is in, 0 if none
    todo,           \* what each writer's call has still to store
    pump,           \* where the pump thread is
    args,           \* the arguments of chprintf the pump has loaded so far
    queue,          \* the frames in the UART's output queue
    last,           \* the last frame printed
    frames,         \* how many frames were printed
    holder          \* the CPU, see Kernel

slot    == <<serial_data, range_data>>
writers == <<calls, done, call, todo>>
pumping == <<pump, args>>
output  == <<queue, last, frames>>
vars    == <<slot, writers, pumping, output, holder>>

Kernel == INSTANCE Kernel

Frames == [Fields -> 0 .. MaxCalls]

Init ==
    /\ serial_data = "SERIAL_NONE"
    /\ range_data = [f \in Fields |-> 0]
    /\ calls = 0
    /\ done = 0
    /\ call = [w \in Writers |-> 0]
    /\ todo = [w \in Writers |-> {}]
    /\ pump = "sleeping"
    /\ args = << >>
    /\ queue = << >>
    /\ last = [f \in Fields |-> 0]
    /\ frames = 0
    /\ holder \in Kernel!Holders

\* Mutant: chprintf does not wait for room in the queue.
PumpReady_noWait == pump # "sleeping"

\* The pump neither sleeps nor waits for room in the queue.
PumpReady ==
    /\ pump # "sleeping"
    /\ pump = "printing" => Len(queue) < QueueFrames

Ready == {w \in Writers : call[w] # 0} \cup {t \in {Pump} : PumpReady}

\* Mutant: CH_CFG_TIME_QUANTUM above 0, equals preempt one another.
Runs_timeSlice(t, ready) ==
    /\ t \in ready /\ \A u \in ready : Prio[u] <= Prio[t]
    /\ holder' = Kernel!Dispatch(t, holder)

\* Thread t, one of ready, gets the CPU for a step.
Runs(t, ready) ==
    /\ Kernel!MayRun(t, ready, holder)
    /\ holder' = Kernel!Dispatch(t, holder)

(***************************************************************************)
(* serial_write_range                                                      *)
(***************************************************************************)

\* A writer that was waiting elsewhere wakes up and calls.
Call(w) ==
    /\ calls < MaxCalls
    /\ call[w] = 0
    /\ Runs(w, Ready \cup {w})
    /\ calls' = calls + 1
    /\ call' = [call EXCEPT ![w] = calls + 1]
    /\ todo' = [todo EXCEPT ![w] = Fields \cup {"serial_data"}]
    /\ UNCHANGED <<slot, done, pumping, output>>

\* Plain stores to plain variables: the compiler may emit them in any order.
StoreField(w, f) ==
    /\ f \in todo[w]
    /\ Runs(w, Ready)
    /\ range_data' = [range_data EXCEPT ![f] = call[w]]
    /\ todo' = [todo EXCEPT ![w] = @ \ {f}]
    /\ UNCHANGED <<serial_data, calls, done, call, pumping, output>>

StoreFlag(w) ==
    /\ "serial_data" \in todo[w]
    /\ Runs(w, Ready)
    /\ serial_data' = "SERIAL_RANGE_RESULT"
    /\ todo' = [todo EXCEPT ![w] = @ \ {"serial_data"}]
    /\ UNCHANGED <<range_data, calls, done, call, pumping, output>>

Return(w) ==
    /\ call[w] # 0
    /\ todo[w] = {}
    /\ Runs(w, Ready)
    /\ done' = done + 1
    /\ call' = [call EXCEPT ![w] = 0]
    /\ UNCHANGED <<slot, calls, todo, pumping, output>>

InCall(w) == StoreFlag(w) \/ Return(w) \/ \E f \in Fields : StoreField(w, f)

(***************************************************************************)
(* Aux1DataPumpTask.  SERIAL_ROUND_RESULTS is never stored in serial_data. *)
(***************************************************************************)

\* The tick that ends chThdSleepMilliseconds(1).
Tick ==
    /\ pump = "sleeping"
    /\ pump' = "polling"
    /\ UNCHANGED <<slot, writers, args, output, holder>>

\* Mutant: no case for SERIAL_RANGE_RESULT.
Poll_noCase ==
    /\ pump = "polling"
    /\ Runs(Pump, Ready)
    /\ pump' = "sleeping"
    /\ UNCHANGED <<slot, writers, args, output>>

\* switch(serial_data)
Poll ==
    /\ pump = "polling"
    /\ Runs(Pump, Ready)
    /\ pump' = IF serial_data = "SERIAL_NONE" THEN "sleeping" ELSE "loading"
    /\ args' = << >>
    /\ UNCHANGED <<slot, writers, output>>

\* The arguments of chprintf are evaluated before the call, in any order.
LoadArg(f) ==
    /\ pump = "loading"
    /\ f \notin DOMAIN args
    /\ Runs(Pump, Ready)
    /\ args' = [g \in DOMAIN args \cup {f} |->
                    IF g = f THEN range_data[f] ELSE args[g]]
    /\ pump' = IF DOMAIN args' = Fields THEN "printing" ELSE "loading"
    /\ UNCHANGED <<slot, writers, output>>

\* chprintf puts the frame into the output queue, waiting while that is full.
PutFrame ==
    /\ pump = "printing"
    /\ Runs(Pump, Ready)
    /\ queue' = Append(queue, args)
    /\ last' = args
    /\ frames' = frames + 1
    /\ pump' = "clearing"
    /\ UNCHANGED <<slot, writers, args>>

\* Mutant: serial_data is not cleared.
Clear_forgotten ==
    /\ pump = "clearing"
    /\ Runs(Pump, Ready)
    /\ pump' = "sleeping"
    /\ UNCHANGED <<slot, writers, args, output>>

\* serial_data = SERIAL_NONE, whatever was stored since the poll.
Clear ==
    /\ pump = "clearing"
    /\ Runs(Pump, Ready)
    /\ serial_data' = "SERIAL_NONE"
    /\ pump' = "sleeping"
    /\ UNCHANGED <<range_data, writers, args, output>>

PumpStep == Poll \/ PutFrame \/ Clear \/ \E f \in Fields : LoadArg(f)

\* The UART's ISR takes a frame's characters out of the queue (hardware).
Transmit ==
    /\ queue # << >>
    /\ queue' = Tail(queue)
    /\ UNCHANGED <<slot, writers, pumping, last, frames, holder>>

-----------------------------------------------------------------------------

Next == \/ \E w \in Writers : Call(w) \/ InCall(w)
        \/ Tick \/ PumpStep \/ Transmit

\* A ready thread that may run does, ticks and the UART's interrupts come.
\* Nobody has to call serial_write_range.
Fairness ==
    /\ \A w \in Writers : WF_vars(InCall(w))
    /\ WF_vars(PumpStep)
    /\ WF_vars(Tick)
    /\ WF_vars(Transmit)

Spec == Init /\ [][Next]_vars /\ Fairness

-----------------------------------------------------------------------------

\* Type correctness of the slot, the writers, the pump and the queue.
TypeOK ==
    /\ serial_data \in {"SERIAL_NONE", "SERIAL_RANGE_RESULT"}
    /\ range_data \in Frames
    /\ calls \in 0 .. MaxCalls
    /\ done \in 0 .. calls
    /\ call \in [Writers -> 0 .. MaxCalls]
    /\ todo \in [Writers -> SUBSET (Fields \cup {"serial_data"})]
    /\ pump \in {"sleeping", "polling", "loading", "printing", "clearing"}
    /\ args \in UNION {[F -> 0 .. MaxCalls] : F \in SUBSET Fields}
    /\ queue \in Seq(Frames) /\ Len(queue) <= QueueFrames
    /\ last \in Frames
    /\ frames \in 0 .. calls
    /\ holder \in Kernel!Holders

Whole(frame) == frame.node = frame.range /\ frame.range = frame.rssi

\* No frame mixes the fields of two records.  Nothing in my_uart.c locks the
\* slot: this rests on writers and pump sharing one priority.
NoTornFrame == Whole(last)

\* From one frame to the next every field is of a later call: no record is
\* printed twice, although serial_data and the slot are cleared and stored
\* without regard to each other.
FramesAdvance ==
    [][frames' # frames => \A f \in Fields : last'[f] > last[f]]_vars

\* A record stored while the pump is not in the middle of a frame is printed,
\* unless a newer one replaces it.
StoredIsReported ==
    \A n \in 1 .. MaxCalls :
        (pump = "sleeping" /\ serial_data = "SERIAL_RANGE_RESULT"
            /\ \A f \in Fields : range_data[f] = n)
        ~> \A f \in Fields : last[f] >= n

\* The promise of LossyReports: whole records, each at most once, in order.
Reports == INSTANCE LossyReports WITH
    stored <- done,
    sent   <- IF Whole(last) THEN last.node ELSE -1

ReportsSpec == Reports!Spec

\* my_uart.c line 48 says that the pump transmits the content of a buffer: every
\* record put in is printed, the next one after the one printed before it.
NoRecordSkipped ==
    [][frames' # frames => last'.node = last.node + 1]_vars

=============================================================================
