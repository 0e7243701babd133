----------------------------- MODULE IrqService -----------------------------
(***************************************************************************)
(* What the interrupt path promises the radio driver: after the driver's   *)
(* data is attached, every cause the radio raises is taken and handled,    *)
(* nothing is handled that was not raised, and a cause raised while others *)
(* are being handled is not lost with them.                                *)
(***************************************************************************)

CONSTANT Causes

VARIABLES
    attached,   \* the driver's data is in place
    raised,     \* causes raised and not handled
    taken       \* the causes being handled

vars == <<attached, raised, taken>>

Init == attached = FALSE /\ raised = {} /\ taken = {}

Attach ==
    /\ ~attached
    /\ attached' = TRUE
    /\ UNCHANGED <<raised, taken>>

Raise ==
    /\ attached
    /\ \E S \in SUBSET Causes : raised' = raised \cup S
    /\ UNCHANGED <<attached, taken>>

Take ==
    /\ taken = {}
    /\ raised # {}
    /\ taken' = raised
    /\ UNCHANGED <<attached, raised>>

Finish ==
    /\ taken # {}
    /\ raised' = raised \ taken
    /\ taken' = {}
    /\ UNCHANGED attached

Next == Attach \/ Raise \/ Take \/ Finish

Safety == Init /\ [][Next]_vars

Spec == Safety /\ WF_vars(Take) /\ WF_vars(Finish)

=============================================================================
