-------------------------------- MODULE Exti --------------------------------
(***************************************************************************)
(* The DW1000 interrupt path: main() brings the radio out of reset and     *)
(* starts the interrupt machinery (main.c), a rising edge on GPIOC pin 4   *)
(* makes the EXT driver call extcb1, which signals event 1 to the          *)
(* interrupt thread, which calls dw1000_irq_event (exti.c).                *)
(*                                                                         *)
(* The radio keeps its IRQ line high for as long as an unmasked status bit *)
(* is set; the EXT channel only notices the change from low to high.  So a *)
(* single lost wake-up leaves the line high and silences the radio.        *)
(***************************************************************************)

CONSTANT Causes     \* the status bits of the radio that raise its IRQ line

VARIABLES
    main,       \* how far main() is
    rst,        \* level of the pad GPIOC_DW_RST; low holds the radio in reset
    mask,       \* radio: are its interrupts unmasked?
    status,     \* radio: the status bits that are set
    ext,        \* is the EXT driver started (channel 4 armed)?
    pending,    \* has channel 4 latched an edge whose ISR has not run yet?
    trp,        \* thread_reference_t trp of exti.c
    irq,        \* where the interrupt thread is
    seen,       \* the status word the interrupt thread read last
    event,      \* is event 1 pending for the interrupt thread?
    hal         \* does dw.hal (and dw.config, ...) point to the driver's data?

vars == <<main, rst, mask, status, ext, pending, trp, irq, seen, event, hal>>

MainStates == {"boot", "inReset", "released", "thdStarted", "extStarted",
               "attached", "running"}
IrqStates  == {"absent", "created", "waiting", "reading", "acking", "returning"}
Threads    == {"NULL", "irqThread"}

(***************************************************************************)
(* The radio and the EXT channel (hardware, outside src/).                 *)
(***************************************************************************)

\* The IRQ line; the pin is pulled down, so a radio in reset reads as low.
Line == rst /\ mask /\ status # {}

\* Channel 4 is configured for rising edges only.
LatchEdge == pending' = (pending \/ (ext /\ ~Line /\ Line'))

\* The microcontroller starts while the radio may still run as an earlier run
\* of the program left it: a reset of the one does not reset the other.
Init ==
    /\ main = "boot"
    /\ rst = TRUE
    /\ mask \in BOOLEAN
    /\ status \in SUBSET Causes
    /\ ext = FALSE
    /\ pending = FALSE
    /\ trp = "NULL"
    /\ irq = "absent"
    /\ seen = {}
    /\ event = FALSE
    /\ hal = FALSE

\* A frame arrives, a transmission ends, a timeout fires, ...
RadioRaises(c) ==
    /\ rst
    /\ c \notin status
    /\ status' = status \cup {c}
    /\ UNCHANGED <<main, rst, mask, ext, trp, irq, seen, event, hal>>
    /\ LatchEdge

(***************************************************************************)
(* main(), running at NORMALPRIO: it gets the CPU when the interrupt       *)
(* thread, at HIGHPRIO, has nothing to do or waits for the SPI bus.        *)
(***************************************************************************)

MainHasCpu == irq # "created" /\ ~(irq = "waiting" /\ event)

MainStep(from, to) ==
    /\ main = from
    /\ MainHasCpu
    /\ main' = to

\* Mutant: another pad is cleared, the radio keeps its mask and status.
PullReset_otherPad ==
    /\ MainStep("boot", "inReset")
    /\ UNCHANGED <<rst, mask, status, ext, pending, trp, irq, seen, event, hal>>

\* palClearPad(GPIOC, GPIOC_DW_RST): reset clears the radio's mask and status.
PullReset ==
    /\ MainStep("boot", "inReset")
    /\ rst' = FALSE
    /\ mask' = FALSE
    /\ status' = {}
    /\ UNCHANGED <<ext, trp, irq, seen, event, hal>>
    /\ LatchEdge

\* palSetPad(GPIOC, GPIOC_DW_RST), 200 ms later.
ReleaseReset ==
    /\ MainStep("inReset", "released")
    /\ rst' = TRUE
    /\ UNCHANGED <<mask, status, ext, trp, irq, seen, event, hal>>
    /\ LatchEdge

\* start_thd(): the thread is created at HIGHPRIO.
StartThd ==
    /\ MainStep("released", "thdStarted")
    /\ irq' = "created"
    /\ UNCHANGED <<rst, mask, status, ext, pending, trp, seen, event, hal>>

\* extStart(&EXTD1, &extcfg)
ExtStart ==
    /\ MainStep("thdStarted", "extStarted")
    /\ ext' = TRUE
    /\ UNCHANGED <<rst, mask, status, pending, trp, irq, seen, event, hal>>

\* dw.config, dw.hal, dw.ranging_module and dw.packet_module are assigned.
AttachDriver ==
    /\ MainStep("extStarted", "attached")
    /\ hal' = TRUE
    /\ UNCHANGED <<rst, mask, status, ext, pending, trp, irq, seen, event>>

\* dw1000_init(&dw) is where the radio's interrupts are unmasked.
DwInit ==
    /\ MainStep("attached", "running")
    /\ mask' = TRUE
    /\ UNCHANGED <<rst, status, ext, trp, irq, seen, event, hal>>
    /\ LatchEdge

Main == PullReset \/ ReleaseReset \/ StartThd \/ ExtStart \/ AttachDriver \/ DwInit

(***************************************************************************)
(* The ISR of channel 4.                                                   *)
(***************************************************************************)

\* Mutant: line 56 instead of line 59, a resume only reaches a thread that waits.
extcb1_resume ==
    /\ pending
    /\ pending' = FALSE
    /\ event' = (event \/ irq = "waiting")
    /\ UNCHANGED <<main, rst, mask, status, ext, trp, irq, seen, hal>>

extcb1 ==
    /\ pending
    /\ pending' = FALSE
    /\ event' = (event \/ trp # "NULL")
    /\ UNCHANGED <<main, rst, mask, status, ext, trp, irq, seen, hal>>

(***************************************************************************)
(* The interrupt thread, myThread of exti.c.                               *)
(***************************************************************************)

\* trp = chThdGetSelfX(), then on to the event wait.
ThreadEntry ==
    /\ irq = "created"
    /\ trp' = "irqThread"
    /\ irq' = "waiting"
    /\ UNCHANGED <<main, rst, mask, status, ext, pending, seen, event, hal>>

\* chEvtWaitAny(1) returns and clears the event, dw1000_irq_event is called.
EvtWaitAny ==
    /\ irq = "waiting"
    /\ event
    /\ event' = FALSE
    /\ irq' = "reading"
    /\ UNCHANGED <<main, rst, mask, status, ext, pending, trp, seen, hal>>

\* dw1000_irq_event reads the status word; it returns once nothing is set.
ReadStatus ==
    /\ irq = "reading"
    /\ seen' = status
    /\ irq' = IF status = {} THEN "returning" ELSE "acking"
    /\ UNCHANGED <<main, rst, mask, status, ext, pending, trp, event, hal>>

\* Mutant: everything that is set by then is acknowledged.
AckStatus_all ==
    /\ irq = "acking"
    /\ status' = {}
    /\ irq' = "reading"
    /\ UNCHANGED <<main, rst, mask, ext, trp, seen, event, hal>>
    /\ LatchEdge

\* ... it handles and acknowledges what it has read, not what came since.
AckStatus ==
    /\ irq = "acking"
    /\ status' = status \ seen
    /\ irq' = "reading"
    /\ UNCHANGED <<main, rst, mask, ext, trp, seen, event, hal>>
    /\ LatchEdge

\* Back to the event wait.
IrqEventReturns ==
    /\ irq = "returning"
    /\ irq' = "waiting"
    /\ UNCHANGED <<main, rst, mask, status, ext, pending, trp, seen, event, hal>>

IrqThread == ThreadEntry \/ EvtWaitAny \/ ReadStatus \/ AckStatus \/ IrqEventReturns

-----------------------------------------------------------------------------

Next == Main \/ extcb1 \/ IrqThread \/ \E c \in Causes : RadioRaises(c)

\* The hardware takes a pending interrupt, and nothing outranks HIGHPRIO for
\* ever.  Nothing is assumed of the radio, nor of main() beyond its own turn.
Fairness == WF_vars(extcb1) /\ WF_vars(IrqThread) /\ WF_vars(Main)

Spec == Init /\ [][Next]_vars /\ Fairness

-----------------------------------------------------------------------------

\* Type correctness of the state of exti.c, of the radio and of the EXT channel.
TypeOK ==
    /\ main \in MainStates
    /\ rst \in BOOLEAN
    /\ mask \in BOOLEAN
    /\ status \in SUBSET Causes
    /\ ext \in BOOLEAN
    /\ pending \in BOOLEAN
    /\ trp \in Threads
    /\ irq \in IrqStates
    /\ seen \in SUBSET Causes
    /\ event \in BOOLEAN
    /\ hal \in BOOLEAN

\* Once the EXT channel is armed, a high line is always on its way to a read
\* of the status word: latched, signalled, or in front of a thread that will
\* read again.  Otherwise no further edge can come and the radio is dead.
NoLostInterrupt ==
    ext /\ Line => pending \/ event \/ irq \in {"reading", "acking"}

\* dw1000_irq_event(&dw) runs only with dw.hal and dw.config assigned, although
\* main() starts the interrupt machinery before it assigns them: the reset
\* pulse keeps the radio masked until dw1000_init.
DriverAttachedWhenServing ==
    irq \in {"reading", "acking", "returning"} => hal

\* The EXT channel is never armed before the thread reference is set, so the
\* test of trp in extcb1 never discards an edge: the thread is created first
\* and, outranking main(), runs up to its wait before main() goes on.
ArmedAfterThread == ext => trp = "irqThread" /\ irq # "created"

\* What the path promises, whatever its handshake: see IrqService.
Service == INSTANCE IrqService WITH
    attached <- hal,
    raised   <- IF hal /\ mask THEN status ELSE {},
    taken    <- IF irq = "acking" THEN seen ELSE {}

ServiceSpec == Service!Spec

=============================================================================
