----------------------------- MODULE Lifecycle ------------------------------
(***************************************************************************)
(* Bringing the system up and down (system_init.c): vSystemInit,           *)
(* vSystemDeinit, the shutdown request, and the linked list in which       *)
(* critical tasks subscribe to a safe shutdown.  The list and              *)
(* system_state are shared by threads and nothing locks them: every access *)
(* is a step of its own here.                                              *)
(***************************************************************************)

EXTENDS Naturals, FiniteSets

CONSTANTS
    Callers,            \* the threads that call vSystemInit and vSystemDeinit
    Tasks,              \* the critical tasks, each with its own subscription
    NULL,               \* the null pointer
    Prio,               \* the priorities of all of them
    LateSubscribers     \* may a task subscribe once the shutdown has begun?

Threads == Callers \cup Tasks

ASSUME ThreadsAssumption == IsFiniteSet(Threads) /\ Callers \cap Tasks = {}
ASSUME NullAssumption    == NULL \notin Threads
ASSUME PrioAssumption    == Prio \in [Threads -> Nat]
ASSUME LateAssumption    == LateSubscribers \in BOOLEAN

VARIABLES
    system_state,
    shutdown_requested,
    base_subscription,
    next,               \* next[t]: the field of that name in t's subscription
    caller,             \* where each caller is
    task,               \* where each task is
    tmp_sub,            \* the local variable of that name of each thread
    flagged,            \* the tasks chThdTerminate was called for
    drivers,            \* are the USB drivers started?
    systick,            \* does the SysTick run?
    halted,             \* has osalSysHalt stopped everything?
    holder              \* the CPU, see Kernel

list == <<base_subscription, next>>
env  == <<shutdown_requested, drivers, systick, halted>>
vars == <<system_state, list, caller, task, tmp_sub, flagged, env, holder>>

Kernel == INSTANCE Kernel

SystemStates == {"SYSTEM_UNINITIALIZED", "SYSTEM_INITIALIZING", "SYSTEM_RUNNING",
                 "SYSTEM_TERMINATING", "SYSTEM_STOPPED"}
CallerStates == {"idle", "initSet", "initSleep", "initStart", "deinitSet",
                 "test", "signal", "wait", "deinitList", "stopTick",
                 "setStopped"}
TaskStates   == {"absent", "storeBase", "walk", "link", "terminateLink",
                 "working", "exited"}

Init ==
    /\ system_state = "SYSTEM_UNINITIALIZED"
    /\ shutdown_requested = FALSE
    /\ base_subscription = NULL
    /\ next = [t \in Tasks |-> NULL]
    /\ caller = [c \in Callers |-> "idle"]
    /\ task = [t \in Tasks |-> "absent"]
    /\ tmp_sub = [t \in Threads |-> NULL]
    /\ flagged = {}
    /\ drivers = FALSE
    /\ systick = TRUE
    /\ halted = FALSE
    /\ holder \in Kernel!Holders

\* A caller that is past a wait for a thread that has exited, ...
CallerReady(c) ==
    /\ caller[c] \notin {"idle", "initSleep"}
    /\ caller[c] = "wait" /\ tmp_sub[c] # NULL => task[tmp_sub[c]] = "exited"

Subscribing(t) == task[t] \in {"storeBase", "walk", "link", "terminateLink"}

Ready == {c \in Callers : CallerReady(c)} \cup {t \in Tasks : Subscribing(t)}

\* Thread t executes a step; it may have just been woken.
Runs(t) ==
    /\ ~halted
    /\ Kernel!MayRun(t, Ready \cup {t}, holder)
    /\ holder' = Kernel!Dispatch(t, holder)

CallerStep(c, from, to) ==
    /\ caller[c] = from
    /\ CallerReady(c) \/ from = "idle"
    /\ Runs(c)
    /\ caller' = [caller EXCEPT ![c] = to]
    /\ UNCHANGED <<task, shutdown_requested>>

TaskStep(t, from, to) ==
    /\ task[t] = from
    /\ Runs(t)
    /\ task' = [task EXCEPT ![t] = to]
    /\ UNCHANGED <<system_state, caller, flagged, env>>

(***************************************************************************)
(* vSystemInit                                                             *)
(***************************************************************************)

\* Mutant: no guard.
CallInit_unguarded(c) ==
    /\ CallerStep(c, "idle", "initSet")
    /\ UNCHANGED <<system_state, list, tmp_sub, flagged, drivers, systick, halted>>

\* The guard; a caller that fails it halts the system.
CallInit(c) ==
    /\ CallerStep(c, "idle", "initSet")
    /\ halted' = (system_state \notin {"SYSTEM_UNINITIALIZED", "SYSTEM_STOPPED"})
    /\ UNCHANGED <<system_state, list, tmp_sub, flagged, drivers, systick>>

InitSet(c) ==
    /\ CallerStep(c, "initSet", "initSleep")
    /\ system_state' = "SYSTEM_INITIALIZING"
    /\ UNCHANGED <<list, tmp_sub, flagged, drivers, systick, halted>>

\* Mutant: a delay that counts cycles and not ticks.
SleepEnds_polled(c) ==
    /\ caller[c] = "initSleep"
    /\ ~halted
    /\ caller' = [caller EXCEPT ![c] = "initStart"]
    /\ UNCHANGED <<system_state, list, task, tmp_sub, flagged, env, holder>>

\* chThdSleepMilliseconds(500) ends with a tick.
SleepEnds(c) ==
    /\ caller[c] = "initSleep"
    /\ systick /\ ~halted
    /\ caller' = [caller EXCEPT ![c] = "initStart"]
    /\ UNCHANGED <<system_state, list, task, tmp_sub, flagged, env, holder>>

\* The end of vSystemInitList.
StartDrivers == drivers' = TRUE

InitStart(c) ==
    /\ CallerStep(c, "initStart", "idle")
    /\ StartDrivers
    /\ system_state' = "SYSTEM_RUNNING"
    /\ UNCHANGED <<list, tmp_sub, flagged, systick, halted>>

vSystemInit(c) == CallInit(c) \/ InitSet(c) \/ SleepEnds(c) \/ InitStart(c)

(***************************************************************************)
(* vSystemDeinit                                                           *)
(***************************************************************************)

CallDeinit(c) ==
    /\ CallerStep(c, "idle", "deinitSet")
    /\ halted' = (system_state # "SYSTEM_RUNNING")
    /\ UNCHANGED <<system_state, list, tmp_sub, flagged, drivers, systick>>

DeinitSet(c) ==
    /\ CallerStep(c, "deinitSet", "test")
    /\ system_state' = "SYSTEM_TERMINATING"
    /\ UNCHANGED <<list, tmp_sub, flagged, drivers, systick, halted>>

\* vSystemTerminateCriticalTasks: the test for an empty list, ...
TerminateTest(c) ==
    /\ CallerStep(c, "test",
                  IF base_subscription = NULL THEN "deinitList" ELSE "signal")
    /\ tmp_sub' = [tmp_sub EXCEPT ![c] = base_subscription]
    /\ UNCHANGED <<system_state, list, flagged, drivers, systick, halted>>

\* Mutant: only the first thread of the list is flagged.
Signal_firstOnly(c) ==
    /\ tmp_sub[c] # NULL
    /\ CallerStep(c, "signal", "signal")
    /\ flagged' = flagged \cup {base_subscription}
    /\ tmp_sub' = [tmp_sub EXCEPT ![c] = next[@]]
    /\ UNCHANGED <<system_state, list, drivers, systick, halted>>

\* ... the loop that flags every thread of the list, ...
Signal(c) ==
    /\ tmp_sub[c] # NULL
    /\ CallerStep(c, "signal", "signal")
    /\ flagged' = flagged \cup {tmp_sub[c]}
    /\ tmp_sub' = [tmp_sub EXCEPT ![c] = next[@]]
    /\ UNCHANGED <<system_state, list, drivers, systick, halted>>

\* Mutant: tmp_sub is not set back to the head, so nobody is waited for.
SignalsDone_noRewind(c) ==
    /\ tmp_sub[c] = NULL
    /\ CallerStep(c, "signal", "wait")
    /\ UNCHANGED <<system_state, list, tmp_sub, flagged, drivers, systick, halted>>

SignalsDone(c) ==
    /\ tmp_sub[c] = NULL
    /\ CallerStep(c, "signal", "wait")
    /\ tmp_sub' = [tmp_sub EXCEPT ![c] = base_subscription]
    /\ UNCHANGED <<system_state, list, flagged, drivers, systick, halted>>

\* ... the loop that waits for every thread of the list, and the clearing.
Wait(c) ==
    /\ tmp_sub[c] # NULL
    /\ CallerStep(c, "wait", "wait")
    /\ tmp_sub' = [tmp_sub EXCEPT ![c] = next[@]]
    /\ UNCHANGED <<system_state, list, flagged, drivers, systick, halted>>

ClearList(c) ==
    /\ tmp_sub[c] = NULL
    /\ CallerStep(c, "wait", "deinitList")
    /\ base_subscription' = NULL
    /\ UNCHANGED <<system_state, next, tmp_sub, flagged, drivers, systick, halted>>

vSystemDeinitList(c) ==
    /\ CallerStep(c, "deinitList", "stopTick")
    /\ drivers' = FALSE
    /\ UNCHANGED <<system_state, list, tmp_sub, flagged, systick, halted>>

vSystemDisableSystick(c) ==
    /\ CallerStep(c, "stopTick", "setStopped")
    /\ systick' = FALSE
    /\ UNCHANGED <<system_state, list, tmp_sub, flagged, drivers, halted>>

SetStopped(c) ==
    /\ CallerStep(c, "setStopped", "idle")
    /\ system_state' = "SYSTEM_STOPPED"
    /\ UNCHANGED <<list, tmp_sub, flagged, drivers, systick, halted>>

vSystemDeinit(c) ==
    \/ CallDeinit(c) \/ DeinitSet(c) \/ TerminateTest(c)
    \/ Signal(c) \/ SignalsDone(c) \/ Wait(c) \/ ClearList(c)
    \/ vSystemDeinitList(c) \/ vSystemDisableSystick(c) \/ SetStopped(c)

\* vSystemRequestShutdown with the right key, by any thread; never taken back.
vSystemRequestShutdown ==
    /\ ~halted
    /\ shutdown_requested' = TRUE
    /\ UNCHANGED <<system_state, list, caller, task, tmp_sub, flagged, drivers,
                   systick, halted, holder>>

(***************************************************************************)
(* vSystemCriticalTaskSubscribe, called by the task; and the task's end.   *)
(***************************************************************************)

SubscribeTest(t) ==
    /\ LateSubscribers \/ system_state \notin {"SYSTEM_TERMINATING", "SYSTEM_STOPPED"}
    /\ TaskStep(t, "absent",
                IF base_subscription = NULL THEN "storeBase" ELSE "walk")
    /\ tmp_sub' = [tmp_sub EXCEPT ![t] = base_subscription]
    /\ UNCHANGED list

\* The first subscription; its next field is left as it is.
StoreBase(t) ==
    /\ TaskStep(t, "storeBase", "working")
    /\ base_subscription' = t
    /\ UNCHANGED <<next, tmp_sub>>

Walk(t) ==
    /\ TaskStep(t, "walk", "walk")
    /\ next[tmp_sub[t]] # NULL
    /\ tmp_sub' = [tmp_sub EXCEPT ![t] = next[@]]
    /\ UNCHANGED list

WalkEnds(t) ==
    /\ TaskStep(t, "walk", "link")
    /\ next[tmp_sub[t]] = NULL
    /\ UNCHANGED <<list, tmp_sub>>

\* Mutant: the new subscription goes behind the first, not the last.
Link_afterFirst(t) ==
    /\ TaskStep(t, "link", "terminateLink")
    /\ next' = [next EXCEPT ![base_subscription] = t]
    /\ UNCHANGED <<base_subscription, tmp_sub>>

Link(t) ==
    /\ TaskStep(t, "link", "terminateLink")
    /\ next' = [next EXCEPT ![tmp_sub[t]] = t]
    /\ UNCHANGED <<base_subscription, tmp_sub>>

TerminateLink(t) ==
    /\ TaskStep(t, "terminateLink", "working")
    /\ next' = [next EXCEPT ![t] = NULL]
    /\ UNCHANGED <<base_subscription, tmp_sub>>

\* A critical task ends once it finds its terminate flag set (outside src/).
Exit(t) ==
    /\ t \in flagged
    /\ TaskStep(t, "working", "exited")
    /\ UNCHANGED <<list, tmp_sub>>

vSystemCriticalTaskSubscribe(t) ==
    \/ SubscribeTest(t) \/ StoreBase(t) \/ Walk(t) \/ WalkEnds(t)
    \/ Link(t) \/ TerminateLink(t)

-----------------------------------------------------------------------------

Next ==
    \/ \E c \in Callers : vSystemInit(c) \/ vSystemDeinit(c)
    \/ \E t \in Tasks : vSystemCriticalTaskSubscribe(t) \/ Exit(t)
    \/ vSystemRequestShutdown

\* Whoever is inside one of the functions goes on, and a task that is flagged
\* exits.  Nobody has to call a function.
Fairness ==
    /\ \A c \in Callers :
          WF_vars((vSystemInit(c) \/ vSystemDeinit(c)) /\ caller[c] # "idle")
    /\ \A t \in Tasks :
          /\ WF_vars(vSystemCriticalTaskSubscribe(t) /\ task[t] # "absent")
          /\ WF_vars(Exit(t))

Spec == Init /\ [][Next]_vars /\ Fairness

-----------------------------------------------------------------------------

\* Type correctness of the system's state, the list and the threads.
TypeOK ==
    /\ system_state \in SystemStates
    /\ shutdown_requested \in BOOLEAN
    /\ base_subscription \in Tasks \cup {NULL}
    /\ next \in [Tasks -> Tasks \cup {NULL}]
    /\ caller \in [Callers -> CallerStates]
    /\ task \in [Tasks -> TaskStates]
    /\ tmp_sub \in [Threads -> Tasks \cup {NULL}]
    /\ flagged \in SUBSET Tasks
    /\ drivers \in BOOLEAN
    /\ systick \in BOOLEAN
    /\ halted \in BOOLEAN
    /\ holder \in Kernel!Holders

\* The subscriptions reached from p: those in every set that holds p and, with a
\* subscription, the one its field next points to.
From(p) ==
    {t \in Tasks : \A S \in SUBSET Tasks :
        p \in S \cup {NULL} /\ (\A s \in S : next[s] \in S \cup {NULL}) => t \in S}

Listed == From(base_subscription)

\* A task whose subscription has returned stays in the list until it exits: no
\* append overwrites another, and no clearing drops a live task.
SubscribersListed == \A t \in Tasks : task[t] = "working" => t \in Listed

\* The drivers are not taken from under a critical task: they are started, as
\* far as the shutdown is concerned, until each subscribed task has exited.
SafeShutdown ==
    system_state \in {"SYSTEM_TERMINATING", "SYSTEM_STOPPED"} /\ ~drivers =>
        \A t \in Tasks : task[t] # "working"

\* The unlocked check of system_state admits one caller at a time.
OneTransition ==
    ~halted => \A c, d \in Callers :
                  caller[c] # "idle" /\ caller[d] # "idle" => c = d

\* A system that runs has its SysTick: what a shutdown has stopped is not started
\* again without it, since the start waits for a tick.
RunningHasTick == system_state = "SYSTEM_RUNNING" => systick

\* The list, its walks and the unlocked state implement a safe shutdown: a task
\* is a member from the end of its subscription until it exits.
Phase ==
    IF ~drivers THEN "down"
    ELSE IF system_state = "SYSTEM_TERMINATING" THEN "stopping" ELSE "up"

Working == {t \in Tasks : task[t] = "working"}

SafeStop ==
    INSTANCE SafeStop WITH
        Members <- Tasks, phase <- Phase, joined <- Working, told <- flagged

SafeStopSpec == SafeStop!Spec

\* A shutdown that has begun completes.
DeinitCompletes ==
    (system_state = "SYSTEM_TERMINATING") ~>
        (system_state = "SYSTEM_STOPPED" \/ halted)

\* system_init.c line 112, "All threads signaled, wait for termination": every
\* thread the loop will wait for has been told to terminate.
AllSignaled ==
    \A c \in Callers : caller[c] = "wait" => Listed \subseteq flagged

=============================================================================
