---------------------------- MODULE MCSerialPump ----------------------------
(***************************************************************************)
(* Instances of SerialPump: writers at the priority of the pump, which is  *)
(* created at NORMALPRIO (64 in ChibiOS/RT), or at HIGHPRIO (127), that of *)
(* the interrupt thread, from which the ranging module reports.            *)
(***************************************************************************)

EXTENDS SerialPump

NORMALPRIO == 64
HIGHPRIO   == 127

PrioEqual == [t \in Threads |-> NORMALPRIO]
PrioIrq   == [t \in Threads |-> IF t = Pump THEN NORMALPRIO ELSE HIGHPRIO]

=============================================================================
