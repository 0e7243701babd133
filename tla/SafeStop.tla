------------------------------ MODULE SafeStop ------------------------------
(***************************************************************************)
(* What a safe shutdown promises, without the list, the threads and the    *)
(* states of system_init.c: members join; once the system is stopping each *)
(* member is told, leaves, and only when all have left is it down.         *)
(***************************************************************************)

CONSTANT Members

VARIABLES phase, joined, told, halted

vars == <<phase, joined, told, halted>>

Init == phase = "down" /\ joined = {} /\ told = {} /\ halted = FALSE

Start == phase = "down" /\ phase' = "up" /\ UNCHANGED <<joined, told>>

Join(m) ==
    /\ phase # "stopping"
    /\ m \notin joined \cup told
    /\ joined' = joined \cup {m}
    /\ UNCHANGED <<phase, told>>

Stopping == phase = "up" /\ phase' = "stopping" /\ UNCHANGED <<joined, told>>

Tell(m) ==
    /\ phase = "stopping"
    /\ m \in joined \ told
    /\ told' = told \cup {m}
    /\ UNCHANGED <<phase, joined>>

Leave(m) ==
    /\ m \in joined \cap told
    /\ joined' = joined \ {m}
    /\ UNCHANGED <<phase, told>>

Down ==
    /\ phase = "stopping"
    /\ joined = {}
    /\ phase' = "down"
    /\ UNCHANGED <<joined, told>>

Step(A) == ~halted /\ halted' = FALSE /\ A

\* A misuse stops everything.
Halt == ~halted /\ halted' = TRUE /\ UNCHANGED <<phase, joined, told>>

Next ==
    \/ Step(Start \/ Stopping \/ Down)
    \/ \E m \in Members : Step(Join(m) \/ Tell(m) \/ Leave(m))
    \/ Halt

Safety == Init /\ [][Next]_vars

Fairness ==
    /\ WF_vars(Step(Down))
    /\ \A m \in Members : WF_vars(Step(Tell(m))) /\ WF_vars(Step(Leave(m)))

Spec == Safety /\ Fairness

=============================================================================
