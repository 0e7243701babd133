-------------------------- MODULE SerialPumpProofs --------------------------
(***************************************************************************)
(* Proofs about the serial range report, for any number of writers, of     *)
(* calls and of frames in the output queue: when the threads that report   *)
(* share the priority of the pump, and when they share a higher one.       *)
(***************************************************************************)

EXTENDS SerialPump, FiniteSetTheorems, TLAPS

USE DEF slot, writers, pumping, output

\* The condition under which the unlocked slot is safe.
Cooperative == \A t \in Threads : Prio[t] = Prio[Pump]

Cpu == holder[Prio[Pump]]

Idle == \A w \in Writers : call[w] = 0

\* The parts of the type invariant the argument needs.
Typed ==
    /\ serial_data \in {"SERIAL_NONE", "SERIAL_RANGE_RESULT"}
    /\ calls \in Nat
    /\ done \in Nat
    /\ call \in [Writers -> Nat]
    /\ DOMAIN range_data = Fields
    /\ todo \in [Writers -> SUBSET (Fields \cup {"serial_data"})]
    /\ pump \in {"sleeping", "polling", "loading", "printing", "clearing"}
    /\ holder \in Kernel!Holders

\* Whoever is at the slot has the CPU, and keeps it until he is done.
OneAtTheSlot ==
    /\ \A w \in Writers : call[w] # 0 => Cpu = w
    /\ pump \in {"loading", "clearing"} => Cpu = Pump

\* The slot holds the last record stored, or a writer is replacing that.
SlotInv ==
    /\ Idle => /\ calls = done
               /\ \A f \in Fields : range_data[f] = done
    /\ \A w \in Writers : call[w] # 0 =>
            /\ call[w] = calls /\ calls = done + 1
            /\ \A f \in Fields :
                  range_data[f] = IF f \in todo[w] THEN done ELSE done + 1

\* What the pump has loaded and printed is one record, and not a newer one
\* than the last stored; serial_data stands for a record not yet printed.
PumpInv ==
    /\ last = [f \in Fields |-> last.node]
    /\ last.node \in 0 .. done
    /\ pump \in {"sleeping", "polling", "loading"}
          /\ serial_data = "SERIAL_RANGE_RESULT" => last.node < done \/ ~Idle
    /\ pump = "loading" =>
            /\ serial_data = "SERIAL_RANGE_RESULT"
            /\ DOMAIN args \subseteq Fields
            /\ \A f \in DOMAIN args : args[f] = done
    /\ pump = "printing" =>
            \E v \in last.node + 1 .. done : args = [f \in Fields |-> v]

IInv == Typed /\ OneAtTheSlot /\ SlotInv /\ PumpInv

-----------------------------------------------------------------------------

\* A step of thread t among equals takes the CPU for t, from a thread that is
\* not ready or from t itself.
LEMMA RunsAmongEquals ==
    ASSUME Cooperative, holder \in Kernel!Holders,
           NEW t \in Threads, NEW R, Runs(t, R)
    PROVE  /\ t \in R
           /\ Cpu \in R => Cpu = t
           /\ Cpu' = t
           /\ holder' \in Kernel!Holders
<1>1. Prio[t] = Prio[Pump] /\ Prio[Pump] \in DOMAIN holder
  BY DEF Cooperative, Kernel!Holders, Threads
<1>2. t \in R /\ (Cpu \in R => Cpu = t)
  BY <1>1 DEF Runs, Kernel!MayRun, Cpu
<1>3. holder' = [holder EXCEPT ![Prio[t]] = t]
  BY DEF Runs, Kernel!Dispatch
<1>4. Cpu' = t
  BY <1>1, <1>3 DEF Cpu
<1>5. holder' \in Kernel!Holders
  BY <1>1, <1>3 DEF Kernel!Holders
<1> QED
  BY <1>2, <1>4, <1>5

\* Among equals a writer in its call excludes the other writers and the pump.
LEMMA WriterAlone ==
    ASSUME Cooperative, IInv, NEW w \in Writers, NEW R, Ready \subseteq R,
           Runs(w, R)
    PROVE  /\ \A u \in Writers : call[u] # 0 => u = w
           /\ pump \notin {"loading", "clearing"}
           /\ Cpu' = w
           /\ holder' \in Kernel!Holders
<1>1. w \in Threads /\ holder \in Kernel!Holders /\ w # Pump
  BY WritersAssumption DEF Threads, IInv, Typed
<1>2. (Cpu \in R => Cpu = w) /\ Cpu' = w /\ holder' \in Kernel!Holders
  BY <1>1, RunsAmongEquals
<1>3. ASSUME NEW u \in Writers, call[u] # 0 PROVE u = w
  <2>1. Cpu = u /\ u \in Ready
    BY <1>3 DEF IInv, OneAtTheSlot, Ready
  <2> QED
    BY <2>1, <1>2
<1>4. pump \notin {"loading", "clearing"}
  <2>1. pump \in {"loading", "clearing"} => Cpu = Pump /\ Pump \in Ready
    BY DEF IInv, OneAtTheSlot, Ready, PumpReady
  <2> QED
    BY <2>1, <1>1, <1>2
<1> QED
  BY <1>2, <1>3, <1>4

\* Among equals the pump runs only while no writer is in its call.
LEMMA PumpAlone ==
    ASSUME Cooperative, IInv, Runs(Pump, Ready)
    PROVE  Idle /\ Cpu' = Pump /\ holder' \in Kernel!Holders
<1>1. Pump \in Threads /\ holder \in Kernel!Holders
  BY DEF Threads, IInv, Typed
<1>2. (Cpu \in Ready => Cpu = Pump) /\ Cpu' = Pump /\ holder' \in Kernel!Holders
  BY <1>1, RunsAmongEquals
<1>3. Idle
  <2> SUFFICES ASSUME NEW w \in Writers, call[w] # 0 PROVE FALSE
    BY DEF Idle
  <2>1. Cpu = w /\ w \in Ready /\ w # Pump
    BY WritersAssumption DEF IInv, OneAtTheSlot, Ready
  <2> QED
    BY <2>1, <1>2
<1> QED
  BY <1>2, <1>3

-----------------------------------------------------------------------------

\* The initial states satisfy the inductive invariant.
LEMMA InitIInv == Init => IInv
  BY DEF Init, IInv, Typed, OneAtTheSlot, SlotInv, PumpInv, Idle, Fields

\* Beginning a call, storing and returning keep the inductive invariant.
LEMMA CallIInv ==
    ASSUME Cooperative, IInv, NEW w \in Writers, Call(w) PROVE IInv'
<1>1. Runs(w, Ready \cup {w})
  BY DEF Call
<1>2. /\ \A u \in Writers : call[u] # 0 => u = w
      /\ pump \notin {"loading", "clearing"}
      /\ Cpu' = w
      /\ holder' \in Kernel!Holders
  BY <1>1, WriterAlone
<1>3. Idle /\ call[w] = 0
  BY <1>2 DEF Call, Idle
<1>4. Typed'
  BY <1>2 DEF Call, IInv, Typed
<1>5. OneAtTheSlot'
  BY <1>2, <1>3 DEF Call, IInv, Typed, OneAtTheSlot, Idle
<1>6. call'[w] = calls' /\ ~Idle'
  BY DEF Call, IInv, Typed, Idle
<1>7. SlotInv'
  BY <1>3, <1>6 DEF Call, IInv, Typed, SlotInv, Idle
<1>8. PumpInv'
  BY <1>2, <1>6 DEF Call, IInv, Typed, PumpInv
<1> QED
  BY <1>4, <1>5, <1>7, <1>8 DEF IInv

LEMMA StoreIInv ==
    ASSUME Cooperative, IInv, NEW w \in Writers,
           StoreFlag(w) \/ \E f \in Fields : StoreField(w, f)
    PROVE  IInv'
<1>1. Runs(w, Ready)
  BY DEF StoreFlag, StoreField
<1>2. /\ \A u \in Writers : call[u] # 0 => u = w
      /\ pump \notin {"loading", "clearing"}
      /\ Cpu' = w
      /\ holder' \in Kernel!Holders
  BY <1>1, WriterAlone
<1>3. w \in Ready /\ w # Pump
  BY <1>1, WritersAssumption DEF Runs, Kernel!MayRun
<1>4. call[w] # 0
  BY <1>3 DEF Ready
<1>5. /\ call[w] = done + 1 /\ calls = done + 1
      /\ \A f \in Fields :
            range_data[f] = IF f \in todo[w] THEN done ELSE done + 1
  BY <1>4 DEF IInv, SlotInv
<1>6. ~Idle /\ UNCHANGED <<call, calls, done, pump, args, queue, last>>
  BY <1>4 DEF StoreFlag, StoreField, Idle
<1>7. Typed'
  BY <1>2 DEF StoreFlag, StoreField, IInv, Typed
<1>8. OneAtTheSlot'
  BY <1>2, <1>6 DEF IInv, OneAtTheSlot
<1>9. \A f \in Fields :
            range_data'[f] = IF f \in todo'[w] THEN done ELSE done + 1
  BY <1>5 DEF StoreFlag, StoreField, IInv, Typed, Fields
<1>10. SlotInv'
  BY <1>2, <1>5, <1>6, <1>9 DEF SlotInv, Idle
<1>11. PumpInv'
  BY <1>2, <1>6 DEF IInv, PumpInv, Idle
<1> QED
  BY <1>7, <1>8, <1>10, <1>11 DEF IInv

LEMMA ReturnIInv ==
    ASSUME Cooperative, IInv, NEW w \in Writers, Return(w)
    PROVE  IInv' /\ done' = done + 1
<1>1. Runs(w, Ready)
  BY DEF Return
<1>2. /\ \A u \in Writers : call[u] # 0 => u = w
      /\ pump \notin {"loading", "clearing"}
      /\ Cpu' = w
      /\ holder' \in Kernel!Holders
  BY <1>1, WriterAlone
<1>3. done' = done + 1 /\ done \in Nat
  BY DEF Return, IInv, Typed
<1>4. Typed'
  BY <1>2 DEF Return, IInv, Typed
<1>5. Idle'
  BY <1>2 DEF Return, Idle, IInv, Typed
<1>6. OneAtTheSlot'
  BY <1>2, <1>5 DEF Return, OneAtTheSlot, Idle
<1>7. calls = done + 1 /\ \A f \in Fields : range_data[f] = done + 1
  BY DEF Return, IInv, SlotInv
<1>8. SlotInv'
  BY <1>3, <1>5, <1>7 DEF Return, SlotInv, Idle
<1>9. PumpInv'
  BY <1>2, <1>3 DEF Return, IInv, PumpInv
<1> QED
  BY <1>3, <1>4, <1>6, <1>8, <1>9 DEF IInv

-----------------------------------------------------------------------------

\* The steps of the pump keep the inductive invariant.
LEMMA PollIInv == ASSUME Cooperative, IInv, Poll PROVE IInv'
<1>1. Idle /\ Cpu' = Pump /\ holder' \in Kernel!Holders
  BY PumpAlone DEF Poll
<1>2. Typed'
  BY <1>1 DEF Poll, IInv, Typed
<1>3. OneAtTheSlot' /\ SlotInv'
  BY <1>1 DEF Poll, IInv, OneAtTheSlot, SlotInv, Idle
<1>4. PumpInv'
  BY <1>1 DEF Poll, IInv, Typed, PumpInv, Idle
<1> QED
  BY <1>2, <1>3, <1>4 DEF IInv

LEMMA LoadArgIInv ==
    ASSUME Cooperative, IInv, NEW f \in Fields, LoadArg(f) PROVE IInv'
<1>1. Idle /\ Cpu' = Pump /\ holder' \in Kernel!Holders
  BY PumpAlone DEF LoadArg
<1>2. Typed'
  BY <1>1 DEF LoadArg, IInv, Typed
<1>3. OneAtTheSlot' /\ SlotInv'
  BY <1>1 DEF LoadArg, IInv, OneAtTheSlot, SlotInv, Idle
<1>4. range_data[f] = done /\ last.node < done /\ last.node \in 0 .. done
  BY <1>1 DEF LoadArg, IInv, SlotInv, PumpInv
<1>5. DOMAIN args' \subseteq Fields /\ \A g \in DOMAIN args' : args'[g] = done
  BY <1>4 DEF LoadArg, IInv, PumpInv
<1>6. args' = [g \in DOMAIN args' |-> done]
  BY <1>5 DEF LoadArg
<1>7. PumpInv'
  <2>1. UNCHANGED <<last, done, serial_data, call>>
    BY DEF LoadArg
  <2>2. serial_data = "SERIAL_RANGE_RESULT"
    BY DEF LoadArg, IInv, PumpInv
  <2>3. pump' = "printing" =>
            \E v \in last.node + 1 .. done : args' = [g \in Fields |-> v]
    <3>1. pump' = "printing" => DOMAIN args' = Fields
      BY DEF LoadArg
    <3>2. done \in last.node + 1 .. done
      BY <1>4 DEF IInv, Typed
    <3> QED
      BY <1>6, <3>1, <3>2
  <2> QED
    BY <1>4, <1>5, <2>1, <2>2, <2>3 DEF IInv, PumpInv, Idle
<1> QED
  BY <1>2, <1>3, <1>7 DEF IInv

LEMMA PutFrameIInv ==
    ASSUME Cooperative, IInv, PutFrame
    PROVE  /\ IInv'
           /\ done' = done /\ frames' = frames + 1
           /\ last'.node \in last.node + 1 .. done
<1>1. Idle /\ Cpu' = Pump /\ holder' \in Kernel!Holders
  BY PumpAlone DEF PutFrame
<1>2. Typed'
  BY <1>1 DEF PutFrame, IInv, Typed
<1>3. OneAtTheSlot' /\ SlotInv'
  BY <1>1 DEF PutFrame, IInv, OneAtTheSlot, SlotInv, Idle
<1>4. PICK v \in last.node + 1 .. done : args = [f \in Fields |-> v]
  BY DEF PutFrame, IInv, PumpInv
<1>5. last' = [f \in Fields |-> v] /\ last'.node = v /\ done' = done
  BY <1>4 DEF PutFrame, Fields
<1>8. frames' = frames + 1
  BY DEF PutFrame
<1>6. last.node \in Nat /\ done \in Nat
  BY DEF IInv, Typed, PumpInv
<1>7. PumpInv'
  BY <1>5, <1>6 DEF PutFrame, PumpInv
<1> QED
  BY <1>2, <1>3, <1>4, <1>5, <1>7, <1>8 DEF IInv

LEMMA ClearIInv == ASSUME Cooperative, IInv, Clear PROVE IInv'
<1>1. Idle /\ Cpu' = Pump /\ holder' \in Kernel!Holders
  BY PumpAlone DEF Clear
<1>2. Typed'
  BY <1>1 DEF Clear, IInv, Typed
<1>3. OneAtTheSlot' /\ SlotInv'
  BY <1>1 DEF Clear, IInv, OneAtTheSlot, SlotInv, Idle
<1>4. PumpInv'
  BY <1>1 DEF Clear, IInv, PumpInv
<1> QED
  BY <1>2, <1>3, <1>4 DEF IInv

\* So do the tick, the UART's ISR and a step that changes nothing.
LEMMA OtherIInv ==
    ASSUME IInv, Tick \/ Transmit \/ UNCHANGED vars PROVE IInv'
<1>1. Typed'
  BY DEF Tick, Transmit, vars, IInv, Typed
<1>2. OneAtTheSlot' /\ SlotInv'
  BY DEF Tick, Transmit, vars, IInv, OneAtTheSlot, SlotInv, Idle, Cpu
<1>3. PumpInv'
  BY DEF Tick, Transmit, vars, IInv, PumpInv, Idle
<1> QED
  BY <1>1, <1>2, <1>3 DEF IInv

\* Every step keeps the inductive invariant.
LEMMA NextIInv == ASSUME Cooperative, IInv, [Next]_vars PROVE IInv'
<1>1. CASE \E w \in Writers : Call(w) \/ InCall(w)
  BY <1>1, CallIInv, StoreIInv, ReturnIInv DEF InCall
<1>2. CASE PumpStep
  BY <1>2, PollIInv, LoadArgIInv, PutFrameIInv, ClearIInv DEF PumpStep
<1>3. CASE Tick \/ Transmit \/ UNCHANGED vars
  BY <1>3, OtherIInv
<1> QED
  BY <1>1, <1>2, <1>3 DEF Next

-----------------------------------------------------------------------------

\* Among threads of one priority the slot needs no lock: no frame mixes the
\* fields of two records.
THEOREM CooperativeNoTornFrame ==
    ASSUME Cooperative PROVE Spec => []NoTornFrame
<1>1. Init => IInv
  BY InitIInv
<1>2. IInv /\ [Next]_vars => IInv'
  BY NextIInv
<1>3. IInv => NoTornFrame
  BY DEF IInv, PumpInv, NoTornFrame, Whole, Fields
<1> QED
  BY <1>1, <1>2, <1>3, PTL DEF Spec

\* ... and the pump keeps the promise of LossyReports.
THEOREM CooperativeReports ==
    ASSUME Cooperative PROVE Spec => ReportsSpec
<1> DEFINE Sent == IF Whole(last) THEN last.node ELSE -1
<1>1. Init => Reports!Init
  BY DEF Init, Reports!Init, Whole, Fields
<1>2. IInv => Sent = last.node
  BY DEF IInv, PumpInv, Whole, Fields
<1>3. IInv /\ IInv' /\ [Next]_vars => [Reports!Next]_<<done, Sent, frames>>
  <2> SUFFICES ASSUME IInv, IInv', [Next]_vars
               PROVE  [Reports!Next]_<<done, Sent, frames>>
    OBVIOUS
  <2>1. Sent = last.node /\ Sent' = last'.node
    BY <1>2 DEF IInv, PumpInv, Whole, Fields
  <2>2. CASE \E w \in Writers : Return(w)
    BY <2>1, <2>2, ReturnIInv DEF Return, Reports!Next, Reports!Store
  <2>3. CASE PutFrame
    BY <2>1, <2>3, PutFrameIInv DEF Reports!Next, Reports!Send
  <2>4. CASE \E w \in Writers : Call(w) \/ StoreFlag(w)
                                \/ \E f \in Fields : StoreField(w, f)
    BY <2>4 DEF Call, StoreFlag, StoreField
  <2>5. CASE Tick \/ Transmit \/ Poll \/ Clear \/ \E f \in Fields : LoadArg(f)
    BY <2>5 DEF Tick, Transmit, Poll, Clear, LoadArg
  <2>6. CASE UNCHANGED vars
    BY <2>6 DEF vars
  <2> QED
    BY <2>2, <2>3, <2>4, <2>5, <2>6 DEF Next, InCall, PumpStep
<1>4. Init => IInv
  BY InitIInv
<1>5. IInv /\ [Next]_vars => IInv'
  BY NextIInv
<1> QED
  BY <1>1, <1>3, <1>4, <1>5, PTL DEF Spec, ReportsSpec, Reports!Spec, Reports!vars

\* ... each frame is newer than the one before it.
THEOREM CooperativeFramesAdvance ==
    ASSUME Cooperative PROVE Spec => FramesAdvance
<1>1. IInv /\ [Next]_vars =>
          [frames' # frames => \A f \in Fields : last'[f] > last[f]]_vars
  <2> SUFFICES ASSUME IInv, Next, frames' # frames, NEW f \in Fields
               PROVE  last'[f] > last[f]
    OBVIOUS
  <2>1. PutFrame
    BY DEF Next, InCall, Call, StoreFlag, StoreField, Return, Tick, Transmit,
       PumpStep, Poll, LoadArg, Clear
  <2>2. IInv' /\ last'.node \in last.node + 1 .. done
    BY <2>1, PutFrameIInv
  <2>3. last[f] = last.node /\ last'[f] = last'.node
    BY <2>2 DEF IInv, PumpInv, Fields
  <2>4. last.node \in Nat /\ done \in Nat
    BY DEF IInv, Typed, PumpInv
  <2> QED
    BY <2>2, <2>3, <2>4
<1>2. Init => IInv
  BY InitIInv
<1>3. IInv /\ [Next]_vars => IInv'
  BY NextIInv
<1> QED
  BY <1>1, <1>2, <1>3, PTL DEF Spec, FramesAdvance

-----------------------------------------------------------------------------

(***************************************************************************)
(* What needs no condition on the priorities: the types, among them that   *)
(* no more frames are printed than calls were made, and the bound of the   *)
(* output queue.                                                           *)
(***************************************************************************)

TypeInv ==
    /\ range_data \in Frames /\ last \in Frames
    /\ calls <= MaxCalls
    /\ call \in [Writers -> 0 .. MaxCalls]
    /\ args \in UNION {[F -> 0 .. MaxCalls] : F \in SUBSET Fields}
    /\ pump = "printing" => args \in Frames
    /\ queue \in Seq(Frames) /\ Len(queue) <= QueueFrames

LEMMA NoArgs == << >> \in UNION {[F -> 0 .. MaxCalls] : F \in SUBSET Fields}
<1>1. << >> \in [{} -> 0 .. MaxCalls]
  OBVIOUS
<1>2. {} \in SUBSET Fields
  OBVIOUS
<1> QED
  BY <1>1, <1>2

LEMMA RunsHolders ==
    ASSUME holder \in Kernel!Holders, NEW t \in Threads, NEW R, Runs(t, R)
    PROVE  t \in R /\ holder' \in Kernel!Holders
BY DEF Runs, Kernel!MayRun, Kernel!Dispatch, Kernel!Holders

LEMMA NextTyped == ASSUME Typed, [Next]_vars PROVE Typed'
<1>1. ASSUME NEW w \in Writers, Call(w) \/ InCall(w) PROVE Typed'
  <2>1. holder' \in Kernel!Holders
    BY <1>1, RunsHolders DEF Call, InCall, StoreFlag, StoreField, Return, Threads, Typed
  <2> QED
    BY <1>1, <2>1 DEF Call, InCall, StoreFlag, StoreField, Return, Typed
<1>2. CASE PumpStep
  <2>1. holder' \in Kernel!Holders
    BY <1>2, RunsHolders DEF PumpStep, Poll, LoadArg, PutFrame, Clear, Threads, Typed
  <2> QED
    BY <1>2, <2>1 DEF PumpStep, Poll, LoadArg, PutFrame, Clear, Typed
<1>3. CASE Tick \/ Transmit \/ UNCHANGED vars
  BY <1>3 DEF Tick, Transmit, vars, Typed
<1> QED
  BY <1>1, <1>2, <1>3 DEF Next

LEMMA NextTypeInv == ASSUME Typed, TypeInv, [Next]_vars PROVE TypeInv'
<1> USE CallsAssumption DEF TypeInv, Frames
<1>1. CASE \E w \in Writers : Call(w)
  BY <1>1 DEF Call, Typed
<1>2. ASSUME NEW w \in Writers, StoreFlag(w) \/ Return(w) PROVE TypeInv'
  <2>1. call' \in [Writers -> 0 .. MaxCalls]
    <3>1. 0 \in 0 .. MaxCalls
      OBVIOUS
    <3>2. call' = call \/ call' = [call EXCEPT ![w] = 0]
      BY <1>2 DEF StoreFlag, Return
    <3> QED
      BY <3>1, <3>2
  <2>2. UNCHANGED <<range_data, calls, pump, args, queue, last>>
    BY <1>2 DEF StoreFlag, Return
  <2> QED
    BY <2>1, <2>2
<1>3. ASSUME NEW w \in Writers, NEW f \in Fields, StoreField(w, f) PROVE TypeInv'
  BY <1>3 DEF StoreField
<1>4. CASE Tick \/ Poll \/ Clear \/ UNCHANGED vars
  BY <1>4, NoArgs DEF Tick, Poll, Clear, vars
<1>5. ASSUME NEW f \in Fields, LoadArg(f) PROVE TypeInv'
  <2>1. PICK F \in SUBSET Fields : args \in [F -> 0 .. MaxCalls]
    OBVIOUS
  <2>2. args' \in [F \cup {f} -> 0 .. MaxCalls]
    BY <1>5, <2>1 DEF LoadArg
  <2>3. F \cup {f} \in SUBSET Fields
    OBVIOUS
  <2>4. args' \in UNION {[G -> 0 .. MaxCalls] : G \in SUBSET Fields}
    BY <2>2, <2>3, Zenon
  <2>5. pump' = "printing" => args' \in Frames
    BY <1>5, <2>2 DEF LoadArg
  <2>6. UNCHANGED <<range_data, last, calls, call, queue>>
    BY <1>5 DEF LoadArg
  <2> QED
    BY <2>4, <2>5, <2>6
<1>6. CASE PutFrame
  <2>1. /\ args \in Frames /\ last' = args /\ queue' = Append(queue, args)
        /\ pump' = "clearing" /\ UNCHANGED <<range_data, calls, call, args>>
    BY <1>6 DEF PutFrame
  <2>2. Len(queue) < QueueFrames
    BY <1>6, WritersAssumption DEF PutFrame, Runs, Kernel!MayRun, Ready, PumpReady
  <2>3. queue' \in Seq(Frames) /\ Len(queue') <= QueueFrames
    BY <2>1, <2>2, QueueAssumption
  <2> QED
    BY <2>1, <2>3
<1>7. CASE Transmit
  <2>1. queue' \in Seq(Frames) /\ Len(queue') <= QueueFrames
    BY <1>7, QueueAssumption DEF Transmit
  <2> QED
    BY <1>7, <2>1 DEF Transmit
<1> QED
  BY <1>1, <1>2, <1>3, <1>4, <1>5, <1>6, <1>7 DEF Next, InCall, PumpStep

\* The writers in a call, those that have not raised serial_data yet, and whether
\* it stands for a frame that is to come.
Active    == {w \in Writers : call[w] # 0}
Unflagged == {w \in Writers : "serial_data" \in todo[w]}
FrameDue  == serial_data = "SERIAL_RANGE_RESULT" /\ pump # "clearing"

\* A frame costs a raised serial_data, which costs a call.
CountInv ==
    /\ frames \in Nat
    /\ \A w \in Writers : call[w] = 0 => todo[w] = {}
    /\ pump \in {"loading", "printing"} => serial_data = "SERIAL_RANGE_RESULT"
    /\ IsFiniteSet(Active) /\ calls = done + Cardinality(Active)
    /\ IsFiniteSet(Unflagged) /\ frames + Cardinality(Unflagged) <= calls
    /\ FrameDue => frames + Cardinality(Unflagged) < calls

LEMMA CallCount ==
    ASSUME Typed, CountInv, NEW w \in Writers, Call(w) PROVE CountInv'
<1>1. /\ call[w] = 0 /\ calls' = calls + 1 /\ call' = [call EXCEPT ![w] = calls + 1]
      /\ todo' = [todo EXCEPT ![w] = Fields \cup {"serial_data"}]
      /\ UNCHANGED <<serial_data, pump, frames, done>>
  BY DEF Call
<1>2. Active' = Active \cup {w} /\ w \notin Active
  BY <1>1 DEF Active, Typed
<1>3. Unflagged' = Unflagged \cup {w} /\ w \notin Unflagged
  BY <1>1 DEF Unflagged, Typed, CountInv
<1>4. IsFiniteSet(Active') /\ Cardinality(Active') = Cardinality(Active) + 1
  BY <1>2, FS_AddElement DEF CountInv
<1>5. IsFiniteSet(Unflagged') /\ Cardinality(Unflagged') = Cardinality(Unflagged) + 1
  BY <1>3, FS_AddElement DEF CountInv
<1>6. Cardinality(Active) \in Nat /\ Cardinality(Unflagged) \in Nat
      /\ FrameDue' = FrameDue
  BY <1>1, FS_CardinalityType DEF CountInv, FrameDue
<1>7. \A u \in Writers : call'[u] = 0 => todo'[u] = {}
  BY <1>1 DEF Typed, CountInv
<1> QED
  BY <1>1, <1>4, <1>5, <1>6, <1>7 DEF Typed, CountInv

LEMMA FlagCount ==
    ASSUME Typed, CountInv, NEW w \in Writers, StoreFlag(w) PROVE CountInv'
<1>1. /\ w \in Unflagged /\ serial_data' = "SERIAL_RANGE_RESULT"
      /\ todo' = [todo EXCEPT ![w] = @ \ {"serial_data"}]
      /\ UNCHANGED <<pump, frames, done, calls, call>>
  BY DEF StoreFlag, Unflagged
<1>2. Unflagged' = Unflagged \ {w} /\ Active' = Active
  BY <1>1 DEF Unflagged, Active, Typed
<1>3. IsFiniteSet(Unflagged') /\ Cardinality(Unflagged') = Cardinality(Unflagged) - 1
  BY <1>1, <1>2, FS_RemoveElement DEF CountInv
<1>4. Cardinality(Unflagged) \in Nat
  BY FS_CardinalityType DEF CountInv
<1>5. \A u \in Writers : call'[u] = 0 => todo'[u] = {}
  BY <1>1 DEF Typed, CountInv
<1> QED
  BY <1>1, <1>2, <1>3, <1>4, <1>5 DEF Typed, CountInv

LEMMA ReturnCount ==
    ASSUME Typed, CountInv, NEW w \in Writers, Return(w) PROVE CountInv'
<1>1. /\ w \in Active /\ todo[w] = {} /\ call' = [call EXCEPT ![w] = 0]
      /\ done' = done + 1 /\ UNCHANGED <<serial_data, pump, frames, calls, todo>>
  BY DEF Return, Active
<1>2. Active' = Active \ {w} /\ Unflagged' = Unflagged /\ FrameDue' = FrameDue
  BY <1>1 DEF Unflagged, Active, FrameDue, Typed
<1>3. IsFiniteSet(Active') /\ Cardinality(Active') = Cardinality(Active) - 1
  BY <1>1, <1>2, FS_RemoveElement DEF CountInv
<1>4. Cardinality(Active) \in Nat
  BY FS_CardinalityType DEF CountInv
<1>5. \A u \in Writers : call'[u] = 0 => todo'[u] = {}
  BY <1>1 DEF Typed, CountInv
<1> QED
  BY <1>1, <1>2, <1>3, <1>4, <1>5 DEF Typed, CountInv

\* The pump pays for a frame with the serial_data it found raised.
LEMMA OtherCount ==
    ASSUME Typed, CountInv,
           Tick \/ Transmit \/ PumpStep \/ UNCHANGED vars
              \/ \E w \in Writers, f \in Fields : StoreField(w, f)
    PROVE  CountInv'
<1>1. /\ UNCHANGED <<calls, done, call>> /\ Active' = Active
  BY DEF Tick, Transmit, PumpStep, Poll, LoadArg, PutFrame, Clear, vars, StoreField,
     Active
<1>2. Unflagged' = Unflagged /\ \A w \in Writers : todo'[w] \subseteq todo[w]
  BY DEF Tick, Transmit, PumpStep, Poll, LoadArg, PutFrame, Clear, vars, StoreField,
     Unflagged, Typed, Fields
<1>3. pump' \in {"loading", "printing"} => serial_data' = "SERIAL_RANGE_RESULT"
  BY DEF Tick, Transmit, PumpStep, Poll, LoadArg, PutFrame, Clear, vars, StoreField,
     Typed, CountInv
<1>4. Cardinality(Unflagged) \in Nat
  BY FS_CardinalityType DEF CountInv
<1>5. \/ FrameDue /\ ~FrameDue' /\ frames' = frames + 1
      \/ (FrameDue' => FrameDue) /\ frames' = frames
  BY DEF Tick, Transmit, PumpStep, Poll, LoadArg, PutFrame, Clear, vars, StoreField,
     FrameDue, CountInv
<1>6. \A w \in Writers : call'[w] = 0 => todo'[w] = {}
  BY <1>1, <1>2 DEF CountInv
<1>7. /\ frames' \in Nat /\ frames' + Cardinality(Unflagged) <= calls
      /\ FrameDue' => frames' + Cardinality(Unflagged) < calls
  BY <1>4, <1>5 DEF Typed, CountInv
<1>8. /\ IsFiniteSet(Active') /\ calls' = done' + Cardinality(Active')
      /\ IsFiniteSet(Unflagged')
  BY <1>1, <1>2 DEF CountInv
<1> QED
  BY <1>1, <1>2, <1>3, <1>6, <1>7, <1>8 DEF CountInv

LEMMA InitTypes == Init => Typed /\ TypeInv /\ CountInv
<1> SUFFICES ASSUME Init PROVE Typed /\ TypeInv /\ CountInv
  OBVIOUS
<1>1. range_data \in Frames /\ last \in Frames
  BY CallsAssumption DEF Init, Frames
<1>2. TypeInv
  BY <1>1, NoArgs, CallsAssumption, QueueAssumption DEF Init, TypeInv
<1>3. Active = {} /\ Unflagged = {} /\ ~FrameDue
  BY DEF Init, Active, Unflagged, FrameDue
<1>4. CountInv
  BY <1>3, FS_EmptySet DEF Init, CountInv
<1> QED
  BY <1>2, <1>4 DEF Init, Typed, Fields

\* The report keeps its types, the output queue its bound, and no more frames are
\* printed than calls were made, whatever the priorities of the writers.
THEOREM TypeCorrect == Spec => []TypeOK
<1>1. Typed /\ TypeInv /\ CountInv /\ [Next]_vars => (Typed /\ TypeInv /\ CountInv)'
  BY NextTyped, NextTypeInv, CallCount, FlagCount, ReturnCount, OtherCount
     DEF Next, InCall
<1>2. Typed /\ TypeInv /\ CountInv => TypeOK
  <2> SUFFICES ASSUME Typed, TypeInv, CountInv PROVE TypeOK
    OBVIOUS
  <2>1. Cardinality(Active) \in Nat /\ Cardinality(Unflagged) \in Nat
    BY FS_CardinalityType DEF CountInv
  <2>2. done \in 0 .. calls /\ frames \in 0 .. calls
    BY <2>1 DEF Typed, CountInv
  <2> QED
    BY <2>2, CallsAssumption DEF Typed, TypeInv, TypeOK
<1> QED
  BY <1>1, <1>2, InitTypes, PTL DEF Spec

-----------------------------------------------------------------------------

(***************************************************************************)
(* Writers that preempt the pump, as the interrupt thread does: a frame    *)
(* may now mix records, but no field of it is older than in the frame      *)
(* before.                                                                 *)
(***************************************************************************)

Preemptive ==
    \A w \in Writers : /\ Prio[w] > Prio[Pump]
                       /\ \A u \in Writers : Prio[u] = Prio[w]

Writing == \A w \in Writers : call[w] # 0 => holder[Prio[w]] = w

\* Whatever is on its way to the next frame is newer than the last frame, and
\* serial_data is set only for such a record.
AheadInv ==
    /\ \A f \in Fields : last[f] \in 0 .. done
    /\ pump \in {"sleeping", "polling"} /\ serial_data = "SERIAL_RANGE_RESULT"
          /\ Idle => \A f \in Fields : last[f] < done
    /\ pump = "loading" =>
            /\ \A f \in Fields : last[f] < done
            /\ \A f \in DOMAIN args : args[f] \in last[f] + 1 .. done
    /\ pump = "printing" =>
            \A f \in Fields : args[f] \in last[f] + 1 .. done

PreemptInv == Typed /\ Writing /\ SlotInv /\ AheadInv

\* A writer in its call excludes the other writers, but not the pump.
LEMMA PreemptingWriter ==
    ASSUME Preemptive, PreemptInv, NEW w \in Writers, NEW R, Ready \subseteq R,
           Runs(w, R)
    PROVE  /\ \A u \in Writers : call[u] # 0 => u = w
           /\ w \in R
           /\ holder'[Prio[w]] = w
           /\ holder' \in Kernel!Holders
<1>1. w \in Threads /\ holder \in Kernel!Holders
  BY DEF Threads, PreemptInv, Typed
<1>2. /\ w \in R /\ (holder[Prio[w]] \in R => holder[Prio[w]] = w)
      /\ holder' = [holder EXCEPT ![Prio[w]] = w]
  BY DEF Runs, Kernel!MayRun, Kernel!Dispatch
<1>3. holder' \in Kernel!Holders /\ holder'[Prio[w]] = w
  BY <1>1, <1>2 DEF Kernel!Holders
<1>4. ASSUME NEW u \in Writers, call[u] # 0 PROVE u = w
  <2>1. holder[Prio[u]] = u /\ u \in Ready
    BY <1>4 DEF PreemptInv, Writing, Ready
  <2>2. Prio[u] = Prio[w]
    BY DEF Preemptive
  <2> QED
    BY <1>2, <2>1, <2>2
<1> QED
  BY <1>2, <1>3, <1>4

\* The pump runs only while no writer is in its call.
LEMMA PreemptedPump ==
    ASSUME Preemptive, PreemptInv, Runs(Pump, Ready)
    PROVE  Idle /\ holder' \in Kernel!Holders
<1>1. Pump \in Threads /\ holder \in Kernel!Holders
  BY DEF Threads, PreemptInv, Typed
<1>2. holder' = [holder EXCEPT ![Prio[Pump]] = Pump]
  BY DEF Runs, Kernel!Dispatch
<1>3. holder' \in Kernel!Holders
  BY <1>1, <1>2 DEF Kernel!Holders
<1>4. ASSUME NEW w \in Writers, call[w] # 0 PROVE FALSE
  <2>1. w \in Ready /\ Prio[w] <= Prio[Pump]
    BY <1>4 DEF Ready, Runs, Kernel!MayRun
  <2>2. Prio[w] > Prio[Pump] /\ Prio[w] \in Nat /\ Prio[Pump] \in Nat
    BY PrioAssumption DEF Preemptive, Threads
  <2> QED
    BY <2>1, <2>2
<1> QED
  BY <1>3, <1>4 DEF Idle

\* Each writer's step keeps the invariant: a call, a store, and the return,
\* after which the record is newer than any frame.
LEMMA WriterPreemptInv ==
    ASSUME Preemptive, PreemptInv, NEW w \in Writers, Call(w) \/ InCall(w)
    PROVE  PreemptInv'
<1>1. \E R : Ready \subseteq R /\ Runs(w, R) /\ (~Call(w) => R = Ready)
  BY DEF Call, InCall, StoreFlag, StoreField, Return
<1>2. /\ \A u \in Writers : call[u] # 0 => u = w
      /\ holder'[Prio[w]] = w
      /\ holder' \in Kernel!Holders
  BY <1>1, PreemptingWriter
<1>3. Typed'
  BY <1>2 DEF Call, InCall, StoreFlag, StoreField, Return, PreemptInv, Typed
<1>4. Writing'
  BY <1>2 DEF Call, InCall, StoreFlag, StoreField, Return, PreemptInv, Typed, Writing
<1>5. CASE Call(w)
  <2>1. Idle /\ call'[w] = calls' /\ ~Idle'
    BY <1>2, <1>5 DEF Call, Idle, PreemptInv, Typed
  <2>2. SlotInv'
    BY <1>5, <2>1 DEF Call, PreemptInv, Typed, SlotInv, Idle
  <2>3. AheadInv'
    BY <1>5, <2>1 DEF Call, PreemptInv, AheadInv
  <2> QED
    BY <1>3, <1>4, <2>2, <2>3 DEF PreemptInv
<1>6. CASE StoreFlag(w) \/ \E f \in Fields : StoreField(w, f)
  <2>1. call[w] # 0
    <3>1. Runs(w, Ready) /\ w # Pump
      BY <1>6, WritersAssumption DEF StoreFlag, StoreField
    <3> QED
      BY <3>1 DEF Runs, Kernel!MayRun, Ready
  <2>2. ~Idle /\ ~Idle' /\ UNCHANGED <<call, calls, done, pump, args, last>>
    BY <1>6, <2>1 DEF StoreFlag, StoreField, Idle
  <2>3. \A f \in Fields :
            range_data'[f] = IF f \in todo'[w] THEN done ELSE done + 1
    BY <1>6, <2>1 DEF StoreFlag, StoreField, PreemptInv, Typed, SlotInv, Fields
  <2>4. call[w] = calls /\ calls = done + 1
    BY <2>1 DEF PreemptInv, SlotInv
  <2>5. SlotInv'
    BY <1>2, <2>2, <2>3, <2>4 DEF SlotInv
  <2>6. AheadInv'
    BY <2>2 DEF PreemptInv, AheadInv
  <2> QED
    BY <1>3, <1>4, <2>5, <2>6 DEF PreemptInv
<1>7. CASE Return(w)
  <2>1. Idle' /\ done' = done + 1 /\ done \in Nat
    BY <1>2, <1>7 DEF Return, Idle, PreemptInv, Typed
  <2>2. calls = done + 1 /\ \A f \in Fields : range_data[f] = done + 1
    BY <1>7 DEF Return, PreemptInv, SlotInv
  <2>3. UNCHANGED <<range_data, calls, pump, args, last>>
    BY <1>7 DEF Return
  <2>4. SlotInv'
    BY <2>1, <2>2, <2>3 DEF SlotInv, Idle
  <2>5. AheadInv'
    BY <2>1, <2>3 DEF PreemptInv, AheadInv
  <2> QED
    BY <1>3, <1>4, <2>4, <2>5 DEF PreemptInv
<1> QED
  BY <1>5, <1>6, <1>7 DEF InCall

\* The pump's steps keep it: it polls and loads only whole records.
LEMMA PumpPreemptInv ==
    ASSUME Preemptive, PreemptInv, PumpStep PROVE PreemptInv'
<1>1. Idle /\ holder' \in Kernel!Holders
  BY PreemptedPump DEF PumpStep, Poll, LoadArg, PutFrame, Clear
<1>2. Idle' /\ UNCHANGED <<range_data, calls, done, call, todo>>
  BY <1>1 DEF PumpStep, Poll, LoadArg, PutFrame, Clear, Idle
<1>3. Typed'
  BY <1>1 DEF PumpStep, Poll, LoadArg, PutFrame, Clear, PreemptInv, Typed
<1>4. Writing' /\ SlotInv'
  BY <1>1, <1>2 DEF PreemptInv, Writing, SlotInv, Idle
<1>5. done \in Nat /\ \A f \in Fields : range_data[f] = done
  BY <1>1 DEF PreemptInv, Typed, SlotInv
<1>6. CASE Poll
  BY <1>1, <1>3, <1>4, <1>6 DEF Poll, PreemptInv, Typed, AheadInv
<1>7. ASSUME NEW f \in Fields, LoadArg(f) PROVE PreemptInv'
  <2>1. /\ pump = "loading" /\ UNCHANGED <<last, serial_data, done>>
        /\ pump' = IF DOMAIN args' = Fields THEN "printing" ELSE "loading"
    BY <1>7 DEF LoadArg
  <2>2. /\ \A g \in Fields : last[g] \in 0 .. done /\ last[g] < done
        /\ \A g \in DOMAIN args : args[g] \in last[g] + 1 .. done
    BY <2>1 DEF PreemptInv, AheadInv
  <2>3. args' = [g \in DOMAIN args \cup {f} |-> IF g = f THEN done ELSE args[g]]
    BY <1>5, <1>7 DEF LoadArg
  <2>4. \A g \in DOMAIN args' : args'[g] \in last[g] + 1 .. done
    BY <1>5, <2>2, <2>3
  <2>5. AheadInv'
    BY <2>1, <2>2, <2>4 DEF AheadInv
  <2> QED
    BY <1>3, <1>4, <2>5 DEF PreemptInv
<1>8. CASE PutFrame
  <2>1. \A f \in Fields : last'[f] \in 0 .. done
    BY <1>5, <1>8 DEF PutFrame, PreemptInv, AheadInv
  <2>2. pump' = "clearing" /\ done' = done
    BY <1>8 DEF PutFrame
  <2> QED
    BY <1>3, <1>4, <2>1, <2>2 DEF PreemptInv, AheadInv
<1>9. CASE Clear
  BY <1>3, <1>4, <1>9 DEF Clear, PreemptInv, AheadInv
<1> QED
  BY <1>6, <1>7, <1>8, <1>9 DEF PumpStep

LEMMA NextPreemptInv ==
    ASSUME Preemptive, PreemptInv, [Next]_vars PROVE PreemptInv'
<1>1. CASE \E w \in Writers : Call(w) \/ InCall(w)
  BY <1>1, WriterPreemptInv
<1>2. CASE PumpStep
  BY <1>2, PumpPreemptInv
<1>3. CASE Tick \/ Transmit \/ UNCHANGED vars
  <2>1. Typed' /\ Writing' /\ SlotInv'
    BY <1>3 DEF Tick, Transmit, vars, PreemptInv, Typed, Writing, SlotInv, Idle
  <2>2. AheadInv'
    BY <1>3 DEF Tick, Transmit, vars, PreemptInv, AheadInv, Idle
  <2> QED
    BY <2>1, <2>2 DEF PreemptInv
<1> QED
  BY <1>1, <1>2, <1>3 DEF Next

LEMMA PreemptSpec == ASSUME Preemptive PROVE Spec => []PreemptInv
<1>1. Init => PreemptInv
  BY DEF Init, PreemptInv, Typed, Writing, SlotInv, AheadInv, Idle, Fields
<1>2. PreemptInv /\ [Next]_vars => PreemptInv'
  BY NextPreemptInv
<1> QED
  BY <1>1, <1>2, PTL DEF Spec

\* A frame is printed by PutFrame alone, and a field of it is newer than in the
\* frame before.
LEMMA PreemptedFrame ==
    ASSUME PreemptInv, PutFrame, NEW f \in Fields
    PROVE  last'[f] \in last[f] + 1 .. done
<1>1. pump = "printing" /\ last' = args
  BY DEF PutFrame
<1> QED
  BY <1>1 DEF PreemptInv, AheadInv

\* Though a writer may preempt the pump between any two of its steps, no record
\* is printed twice and no field goes back.
THEOREM PreemptedFramesAdvance ==
    ASSUME Preemptive PROVE Spec => FramesAdvance
<1>1. PreemptInv /\ [Next]_vars =>
          [frames' # frames => \A f \in Fields : last'[f] > last[f]]_vars
  <2> SUFFICES ASSUME PreemptInv, Next, frames' # frames, NEW f \in Fields
               PROVE  last'[f] > last[f]
    OBVIOUS
  <2>1. PutFrame
    BY DEF Next, InCall, Call, StoreFlag, StoreField, Return, Tick, Transmit,
       PumpStep, Poll, LoadArg, Clear
  <2>2. last[f] \in Nat /\ last'[f] \in last[f] + 1 .. done /\ done \in Nat
    BY <2>1, PreemptedFrame DEF PreemptInv, Typed, AheadInv
  <2> QED
    BY <2>2
<1> QED
  BY <1>1, PreemptSpec, PTL DEF Spec, FramesAdvance

\* Each field by itself.
FieldReports(f) == INSTANCE LossyReports WITH stored <- done, sent <- last[f]

\* What is left of the promise of LossyReports when the pump is preempted: each
\* field of the frames keeps it, although the fields of one frame may differ.
THEOREM PreemptedReportsEachField ==
    ASSUME Preemptive, NEW f \in Fields PROVE Spec => FieldReports(f)!Spec
<1>1. Init => FieldReports(f)!Init
  BY DEF Init, FieldReports!Init
<1>2. PreemptInv /\ [Next]_vars => [FieldReports(f)!Next]_(FieldReports(f)!vars)
  <2> SUFFICES ASSUME PreemptInv, [Next]_vars
               PROVE  [FieldReports(f)!Next]_(FieldReports(f)!vars)
    OBVIOUS
  <2> USE DEF FieldReports!Next, FieldReports!vars
  <2>1. CASE \E w \in Writers : Return(w)
    BY <2>1 DEF Return, FieldReports!Store
  <2>2. CASE PutFrame
    BY <2>2, PreemptedFrame DEF PutFrame, FieldReports!Send
  <2>3. CASE \E w \in Writers : Call(w) \/ StoreFlag(w)
                                \/ \E g \in Fields : StoreField(w, g)
    BY <2>3 DEF Call, StoreFlag, StoreField
  <2>4. CASE Tick \/ Transmit \/ Poll \/ Clear \/ \E g \in Fields : LoadArg(g)
    BY <2>4 DEF Tick, Transmit, Poll, Clear, LoadArg
  <2>5. CASE UNCHANGED vars
    BY <2>5 DEF vars
  <2> QED
    BY <2>1, <2>2, <2>3, <2>4, <2>5 DEF Next, InCall, PumpStep
<1> QED
  BY <1>1, <1>2, PreemptSpec, PTL DEF Spec, FieldReports!Spec

-----------------------------------------------------------------------------

\* Record n, or a newer one, is printed or stands where the pump will find it.
Due(n) ==
    \/ \A f \in Fields : last[f] >= n
    \/ /\ pump \in {"sleeping", "polling"}
       /\ serial_data = "SERIAL_RANGE_RESULT"
       /\ \A f \in Fields : range_data[f] >= n
    \/ /\ pump = "loading"
       /\ \A f \in Fields : (IF f \in DOMAIN args THEN args[f] ELSE range_data[f]) >= n
    \/ /\ pump = "printing"
       /\ \A f \in Fields : args[f] >= n

\* The step of the printed frame aside, no step takes a due record back.
LEMMA NextDue ==
    ASSUME Typed, SlotInv, NEW n \in Nat, Due(n), [Next]_vars,
           PutFrame => \A f \in Fields :
                          last[f] \in Nat /\ last'[f] \in Nat /\ last'[f] > last[f]
    PROVE  Due(n)'
<1>1. CASE \E w \in Writers : Call(w) \/ StoreFlag(w) \/ Return(w)
  <2>1. UNCHANGED <<range_data, pump, args, last>>
        /\ serial_data' \in {serial_data, "SERIAL_RANGE_RESULT"}
    BY <1>1 DEF Call, StoreFlag, Return
  <2> QED
    BY <2>1 DEF Due
<1>2. CASE \E w \in Writers, g \in Fields : StoreField(w, g)
  <2>1. PICK w \in Writers, g \in Fields : StoreField(w, g)
    BY <1>2
  <2>2. call[w] # 0
    <3>1. w \in Ready /\ w \in Threads /\ w # Pump
      BY <2>1, WritersAssumption DEF StoreField, Runs, Kernel!MayRun, Threads
    <3> QED
      BY <3>1 DEF Ready
  <2>3. /\ range_data' = [range_data EXCEPT ![g] = done + 1]
        /\ UNCHANGED <<serial_data, pump, args, last>>
    BY <2>1, <2>2 DEF StoreField, SlotInv
  <2>4. \A f \in Fields : range_data[f] \in {done, done + 1} /\ done \in Nat
    BY <2>2 DEF SlotInv, Typed
  <2>5. \A f \in Fields : range_data[f] >= n => range_data'[f] >= n
    BY <2>3, <2>4 DEF Typed
  <2> QED
    BY <2>3, <2>5 DEF Due
<1>3. CASE Tick \/ Poll
  BY <1>3 DEF Tick, Poll, Due
<1>4. CASE \E g \in Fields : LoadArg(g)
  <2>1. PICK g \in Fields : LoadArg(g)
    BY <1>4
  <2>2. /\ pump = "loading" /\ pump' \in {"loading", "printing"}
        /\ args' = [h \in DOMAIN args \cup {g} |->
                       IF h = g THEN range_data[g] ELSE args[h]]
        /\ g \notin DOMAIN args /\ UNCHANGED <<range_data, last>>
    BY <2>1 DEF LoadArg
  <2>3. pump' = "printing" => DOMAIN args' = Fields
    BY <2>1 DEF LoadArg
  <2>4. ASSUME \A f \in Fields :
                  (IF f \in DOMAIN args THEN args[f] ELSE range_data[f]) >= n
        PROVE  \A f \in Fields :
                  (IF f \in DOMAIN args' THEN args'[f] ELSE range_data'[f]) >= n
    BY <2>2, <2>4
  <2> QED
    BY <2>2, <2>3, <2>4 DEF Due
<1>5. CASE PutFrame
  <2>1. pump = "printing" /\ last' = args
    BY <1>5 DEF PutFrame
  <2>2. ASSUME \A f \in Fields : last[f] >= n
        PROVE  \A f \in Fields : last'[f] >= n
    BY <1>5, <2>2
  <2> QED
    BY <2>1, <2>2 DEF Due
<1>6. CASE Clear \/ Transmit \/ UNCHANGED vars
  BY <1>6 DEF Clear, Transmit, vars, Due
<1> QED
  BY <1>1, <1>2, <1>3, <1>4, <1>5, <1>6 DEF Next, InCall, PumpStep

\* Once a whole record stands in the slot and its flag is up while the pump is not
\* in the middle of a frame, neither a writer nor the clearing of the flag takes it
\* away before it, or a newer one, is printed.
THEOREM DueStaysDue ==
    ASSUME Cooperative \/ Preemptive, NEW n \in Nat
    PROVE  Spec => [][Due(n) => Due(n)']_vars
<1>1. ASSUME Cooperative PROVE Spec => [][Due(n) => Due(n)']_vars
  <2>1. IInv /\ [Next]_vars => [Due(n) => Due(n)']_vars
    <3> SUFFICES ASSUME IInv, [Next]_vars, Due(n) PROVE Due(n)'
      OBVIOUS
    <3>1. ASSUME PutFrame, NEW f \in Fields
          PROVE  last[f] \in Nat /\ last'[f] \in Nat /\ last'[f] > last[f]
      <4>1. IInv' /\ last'.node \in last.node + 1 .. done
        BY <1>1, <3>1, PutFrameIInv
      <4>2. last[f] = last.node /\ last'[f] = last'.node
        BY <4>1 DEF IInv, PumpInv, Fields
      <4> QED
        BY <4>1, <4>2 DEF IInv, Typed, PumpInv
    <3> QED
      BY <3>1, NextDue DEF IInv
  <2>2. Init => IInv
    BY InitIInv
  <2>3. IInv /\ [Next]_vars => IInv'
    BY <1>1, NextIInv
  <2> QED
    BY <2>1, <2>2, <2>3, PTL DEF Spec
<1>2. ASSUME Preemptive PROVE Spec => [][Due(n) => Due(n)']_vars
  <2>1. PreemptInv /\ [Next]_vars => [Due(n) => Due(n)']_vars
    <3> SUFFICES ASSUME PreemptInv, [Next]_vars, Due(n) PROVE Due(n)'
      OBVIOUS
    <3>1. ASSUME PutFrame, NEW f \in Fields
          PROVE  last[f] \in Nat /\ last'[f] \in Nat /\ last'[f] > last[f]
      BY <3>1, PreemptedFrame DEF PreemptInv, Typed, AheadInv
    <3> QED
      BY <3>1, NextDue DEF PreemptInv
  <2>2. Spec => []PreemptInv
    BY <1>2, PreemptSpec
  <2> QED
    BY <2>1, <2>2, PTL DEF Spec
<1> QED
  BY <1>1, <1>2

=============================================================================
