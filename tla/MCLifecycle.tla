---------------------------- MODULE MCLifecycle -----------------------------
(***************************************************************************)
(* Instances of Lifecycle.                                                 *)
(***************************************************************************)

EXTENDS Lifecycle, TLC

CONSTANTS t1, t2, t3

NORMALPRIO == 64

\* Everybody at NORMALPRIO.
PrioEqual == [t \in Threads |-> NORMALPRIO]

\* Critical tasks above the threads that start and stop the system.
PrioTasksAbove ==
    [t \in Threads |-> IF t \in Tasks THEN NORMALPRIO + 1 ELSE NORMALPRIO]

\* Critical tasks above one another.
PrioRanked ==
    [t \in Threads |-> CASE t = t1 -> NORMALPRIO + 1
                         [] t = t2 -> NORMALPRIO + 2
                         [] t = t3 -> NORMALPRIO + 3
                         [] OTHER  -> NORMALPRIO]

TaskSymmetry == Permutations(Tasks)

=============================================================================
