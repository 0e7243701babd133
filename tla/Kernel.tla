------------------------------- MODULE Kernel -------------------------------
(***************************************************************************)
(* The scheduling rule of ChibiOS/RT as chconf.h configures it.  A ready    *)
(* thread of higher priority preempts the one that runs.  CH_CFG_TIME_      *)
(* QUANTUM is 0: threads of the same priority never preempt each other, the *)
(* one that has the CPU keeps it until it sleeps or waits, also across a    *)
(* preemption by a higher priority.                                         *)
(***************************************************************************)

EXTENDS Naturals

CONSTANTS
    Threads,    \* the threads, of which no two share a stack
    Prio        \* their priorities

\* holder[p] is the thread of priority p that had the CPU last.
Holders == {h \in [{Prio[t] : t \in Threads} -> Threads] :
                \A p \in DOMAIN h : Prio[h[p]] = p}

\* May thread t execute its next step when the threads in ready could?
MayRun(t, ready, holder) ==
    /\ t \in ready
    /\ \A u \in ready : Prio[u] <= Prio[t]
    /\ holder[Prio[t]] \in ready => holder[Prio[t]] = t

\* What holder becomes when t executes a step.
Dispatch(t, holder) == [holder EXCEPT ![Prio[t]] = t]

=============================================================================
