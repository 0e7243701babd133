----------------------------- MODULE ExtiProofs -----------------------------
(***************************************************************************)
(* Proofs about the interrupt path of module Exti, for any set of causes.  *)
(***************************************************************************)

EXTENDS Exti, TLAPS

\* What main() has done so far determines the machinery it brings up.
StagesInv ==
    /\ hal <=> main \in {"attached", "running"}
    /\ ext <=> main \in {"extStarted", "attached", "running"}
    /\ irq = "absent" <=> main \in {"boot", "inReset", "released"}
    /\ irq = "created" => main = "thdStarted"
    /\ trp = "irqThread" <=> irq \notin {"absent", "created"}

\* The reset pulse masks the radio until dw1000_init; so nothing is latched,
\* signalled or served before.
QuietInv ==
    /\ mask => main \in {"boot", "running"}
    /\ main = "running" => mask
    /\ rst <=> main # "inReset"
    /\ pending \/ event \/ irq \in {"reading", "acking", "returning"}
            => main = "running"

IInv == TypeOK /\ StagesInv /\ QuietInv /\ NoLostInterrupt

\* The initial states, whatever state the radio was left in, satisfy IInv.
LEMMA InitIInv == Init => IInv
  BY DEF Init, IInv, TypeOK, StagesInv, QuietInv, NoLostInterrupt, Line,
         MainStates, IrqStates, Threads

\* Every step of main(), the ISR, the interrupt thread and the radio keeps the
\* types of the state.
LEMMA NextTypeOK == TypeOK /\ [Next]_vars => TypeOK'
<1> SUFFICES ASSUME TypeOK, [Next]_vars PROVE TypeOK'
  OBVIOUS
<1> USE DEF TypeOK, MainStates, IrqStates, Threads, LatchEdge, Line
<1>1. CASE Main
  BY <1>1 DEF Main, PullReset, ReleaseReset, StartThd, ExtStart, AttachDriver,
              DwInit, MainStep
<1>2. CASE extcb1
  BY <1>2 DEF extcb1
<1>3. CASE IrqThread
  BY <1>3 DEF IrqThread, ThreadEntry, EvtWaitAny, ReadStatus, AckStatus,
              IrqEventReturns
<1>4. CASE \E c \in Causes : RadioRaises(c)
  BY <1>4 DEF RadioRaises
<1>5. CASE UNCHANGED vars
  BY <1>5 DEF vars
<1> QED
  BY <1>1, <1>2, <1>3, <1>4, <1>5 DEF Next

\* A step keeps the stages of the start-up in line with main().
LEMMA NextStages == IInv /\ [Next]_vars => StagesInv'
<1> SUFFICES ASSUME TypeOK, StagesInv, QuietInv, [Next]_vars PROVE StagesInv'
  BY DEF IInv
<1> USE DEF StagesInv
<1>1. CASE Main
  BY <1>1 DEF Main, PullReset, ReleaseReset, StartThd, ExtStart, AttachDriver,
              DwInit, MainStep, MainHasCpu
<1>2. CASE extcb1
  BY <1>2 DEF extcb1
<1>3. CASE IrqThread
  BY <1>3 DEF IrqThread, ThreadEntry, EvtWaitAny, ReadStatus, AckStatus,
              IrqEventReturns
<1>4. CASE \E c \in Causes : RadioRaises(c)
  BY <1>4 DEF RadioRaises
<1>5. CASE UNCHANGED vars
  BY <1>5 DEF vars
<1> QED
  BY <1>1, <1>2, <1>3, <1>4, <1>5 DEF Next

\* A step latches, signals or serves nothing before main() unmasks the radio.
LEMMA NextQuiet == IInv /\ [Next]_vars => QuietInv'
<1> SUFFICES ASSUME TypeOK, StagesInv, QuietInv, [Next]_vars PROVE QuietInv'
  BY DEF IInv
<1> USE DEF StagesInv, QuietInv, LatchEdge, Line
<1>1. CASE Main
  <2>1. CASE PullReset
    BY <2>1 DEF PullReset, MainStep
  <2>2. CASE ReleaseReset
    BY <2>2 DEF ReleaseReset, MainStep
  <2>3. CASE StartThd \/ ExtStart \/ AttachDriver
    BY <2>3 DEF StartThd, ExtStart, AttachDriver, MainStep
  <2>4. CASE DwInit
    BY <2>4 DEF DwInit, MainStep
  <2> QED
    BY <1>1, <2>1, <2>2, <2>3, <2>4 DEF Main
<1>2. CASE extcb1
  BY <1>2 DEF extcb1
<1>3. CASE IrqThread
  <2>1. CASE ThreadEntry \/ EvtWaitAny \/ IrqEventReturns
    BY <2>1 DEF ThreadEntry, EvtWaitAny, IrqEventReturns
  <2>2. CASE ReadStatus
    BY <2>2 DEF ReadStatus
  <2>3. CASE AckStatus
    BY <2>3 DEF AckStatus
  <2> QED
    BY <1>3, <2>1, <2>2, <2>3 DEF IrqThread
<1>4. ASSUME NEW c \in Causes, RadioRaises(c) PROVE QuietInv'
  BY <1>4 DEF RadioRaises
<1>5. CASE UNCHANGED vars
  BY <1>5 DEF vars
<1> QED
  BY <1>1, <1>2, <1>3, <1>4, <1>5 DEF Next

\* A step loses no interrupt: the line rises only together with a latch, the
\* ISR always finds trp set, and the thread leaves its loop on a low line only.
LEMMA NextNoLost == IInv /\ [Next]_vars => NoLostInterrupt'
<1> SUFFICES ASSUME TypeOK, StagesInv, QuietInv, NoLostInterrupt, [Next]_vars
             PROVE  NoLostInterrupt'
  BY DEF IInv
<1> USE DEF NoLostInterrupt, LatchEdge, Line
<1>1. CASE Main
  BY <1>1 DEF Main, PullReset, ReleaseReset, StartThd, ExtStart, AttachDriver,
              DwInit, MainStep, StagesInv, QuietInv
<1>2. CASE extcb1
  BY <1>2 DEF extcb1, StagesInv, QuietInv, TypeOK, Threads
<1>3. CASE IrqThread
  <2>1. CASE ThreadEntry \/ EvtWaitAny
    BY <2>1 DEF ThreadEntry, EvtWaitAny
  <2>2. CASE ReadStatus
    BY <2>2 DEF ReadStatus
  <2>3. CASE AckStatus
    BY <2>3 DEF AckStatus
  <2>4. CASE IrqEventReturns
    BY <2>4 DEF IrqEventReturns
  <2> QED
    BY <1>3, <2>1, <2>2, <2>3, <2>4 DEF IrqThread
<1>4. ASSUME NEW c \in Causes, RadioRaises(c) PROVE NoLostInterrupt'
  BY <1>4 DEF RadioRaises
<1>5. CASE UNCHANGED vars
  BY <1>5 DEF vars
<1> QED
  BY <1>1, <1>2, <1>3, <1>4, <1>5 DEF Next

\* IInv is an inductive invariant of the interrupt path.
THEOREM Invariance == Spec => []IInv
<1>1. IInv /\ [Next]_vars => IInv'
  BY NextTypeOK, NextStages, NextQuiet, NextNoLost DEF IInv
<1> QED
  BY <1>1, InitIInv, PTL DEF Spec

\* Types are respected in every reachable state.
THEOREM TypeCorrect == Spec => []TypeOK
<1>1. IInv => TypeOK
  BY DEF IInv
<1> QED
  BY <1>1, Invariance, PTL

\* No rising edge is ever lost between the pin, extcb1 and myThread.
THEOREM NoLost == Spec => []NoLostInterrupt
<1>1. IInv => NoLostInterrupt
  BY DEF IInv
<1> QED
  BY <1>1, Invariance, PTL

\* dw1000_irq_event never runs on a driver whose hal is still unset.
THEOREM ServesAttachedDriver == Spec => []DriverAttachedWhenServing
<1>1. IInv => DriverAttachedWhenServing
  BY DEF IInv, StagesInv, QuietInv, DriverAttachedWhenServing
<1> QED
  BY <1>1, Invariance, PTL

\* The EXT channel is armed only when extcb1 has a thread to signal.
THEOREM ArmedWithThread == Spec => []ArmedAfterThread
<1>1. IInv => ArmedAfterThread
  BY DEF IInv, StagesInv, ArmedAfterThread
<1> QED
  BY <1>1, Invariance, PTL

\* Every step of the interrupt path is a step of IrqService or changes nothing
\* that IrqService speaks of.
LEMMA StepServes == IInv /\ [Next]_vars => [Service!Next]_(Service!vars)
<1> SUFFICES ASSUME IInv, [Next]_vars PROVE [Service!Next]_(Service!vars)
  OBVIOUS
<1> USE DEF IInv, StagesInv, QuietInv, Service!vars, Service!Next
<1>1. CASE PullReset \/ ReleaseReset \/ StartThd \/ ExtStart
  BY <1>1 DEF PullReset, ReleaseReset, StartThd, ExtStart, MainStep
<1>2. CASE AttachDriver
  <2>1. ~hal /\ hal' /\ ~mask /\ ~mask' /\ irq' = irq /\ irq # "acking"
    BY <1>2 DEF AttachDriver, MainStep
  <2> QED
    BY <2>1, <1>2 DEF Service!Attach, TypeOK
<1>3. CASE DwInit
  <2>1. hal /\ hal' /\ ~mask /\ mask' /\ status' = status /\ irq' = irq
        /\ seen' = seen /\ irq # "acking"
    BY <1>3 DEF DwInit, MainStep
  <2> QED
    BY <2>1 DEF Service!Raise, TypeOK
<1>4. CASE extcb1 \/ ThreadEntry \/ EvtWaitAny \/ IrqEventReturns
  BY <1>4 DEF extcb1, ThreadEntry, EvtWaitAny, IrqEventReturns
<1>5. CASE ReadStatus
  <2>1. hal /\ mask /\ UNCHANGED <<hal, mask, status>> /\ irq = "reading"
        /\ seen' = status /\ irq' = IF status = {} THEN "returning" ELSE "acking"
    BY <1>5 DEF ReadStatus
  <2>2. CASE status = {}
    BY <2>1, <2>2
  <2>3. CASE status # {}
    BY <2>1, <2>3 DEF Service!Take
  <2> QED
    BY <2>2, <2>3
<1>6. CASE AckStatus
  BY <1>6 DEF AckStatus, Service!Finish
<1>7. CASE \E c \in Causes : RadioRaises(c)
  <2>1. PICK c \in Causes : RadioRaises(c)
    BY <1>7
  <2>2. CASE hal /\ mask
    BY <2>1, <2>2 DEF RadioRaises, Service!Raise
  <2>3. CASE ~(hal /\ mask)
    BY <2>1, <2>3 DEF RadioRaises
  <2> QED
    BY <2>2, <2>3
<1>8. CASE UNCHANGED vars
  BY <1>8 DEF vars
<1> QED
  BY <1>1, <1>2, <1>3, <1>4, <1>5, <1>6, <1>7, <1>8 DEF Next, Main, IrqThread

\* The interrupt path implements the safety part of IrqService: nothing is
\* handled that was not raised, and nothing raised is dropped unhandled.
THEOREM ImplementsService == Spec => Service!Safety
<1>1. Init => Service!Init
  BY DEF Init, Service!Init
<1> QED
  BY <1>1, StepServes, Invariance, PTL DEF Spec, Service!Safety

=============================================================================
