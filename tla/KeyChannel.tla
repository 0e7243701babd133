----------------------------- MODULE KeyChannel -----------------------------
(***************************************************************************)
(* What the console promises who types, without the queue, the endpoints   *)
(* and the threads of usb_related.c: keys are executed one after another   *)
(* without a gap, but for those cut off when the host configures the       *)
(* device anew.  A key is the number of the press.                         *)
(***************************************************************************)

EXTENDS Naturals

VARIABLES
    linked,     \* has the host configured the device?
    typed,      \* the last key typed
    cut,        \* keys up to this one are cut off
    held,       \* the key being executed, 0 if none
    executed,   \* the last key executed
    alive       \* has the program not failed?

vars == <<linked, typed, cut, held, executed, alive>>

Init ==
    /\ linked = FALSE
    /\ typed = 0 /\ cut = 0 /\ held = 0 /\ executed = 0
    /\ alive = TRUE

Link ==
    /\ linked' = TRUE
    /\ cut' = typed
    /\ UNCHANGED <<typed, held, executed, alive>>

Unlink ==
    /\ linked' = FALSE
    /\ UNCHANGED <<typed, cut, held, executed, alive>>

Type ==
    /\ linked
    /\ typed' = typed + 1
    /\ UNCHANGED <<linked, cut, held, executed, alive>>

NextKey == IF executed < cut THEN cut + 1 ELSE executed + 1

Take ==
    /\ held = 0
    /\ NextKey <= typed
    /\ held' = NextKey
    /\ UNCHANGED <<linked, typed, cut, executed, alive>>

\* A key in hand is executed although a new configuration comes in between.
Execute ==
    /\ held # 0
    /\ executed' = held
    /\ held' = 0
    /\ alive' \in BOOLEAN
    /\ UNCHANGED <<linked, typed, cut>>

Next == alive /\ (Link \/ Unlink \/ Type \/ Take \/ Execute)

Safety == Init /\ [][Next]_vars

\* A linked device takes the keys typed, and executes what it has taken.
Fairness == WF_vars(alive /\ linked /\ Take) /\ WF_vars(alive /\ Execute)

Spec == Safety /\ Fairness

=============================================================================
