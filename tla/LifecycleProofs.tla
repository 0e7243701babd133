--------------------------- MODULE LifecycleProofs ---------------------------
(***************************************************************************)
(* Proofs about system_init.c for any callers, critical tasks and          *)
(* priorities; that the unlocked system_state admits one caller needs the  *)
(* callers to share a priority.                                            *)
(***************************************************************************)

EXTENDS Lifecycle, TLAPS

USE DEF list, env, StartDrivers

\* The type invariant without the two variables that Booleans are computed for.
Typed ==
    /\ system_state \in SystemStates
    /\ base_subscription \in Tasks \cup {NULL}
    /\ next \in [Tasks -> Tasks \cup {NULL}]
    /\ caller \in [Callers -> CallerStates]
    /\ task \in [Tasks -> TaskStates]
    /\ tmp_sub \in [Threads -> Tasks \cup {NULL}]
    /\ flagged \in SUBSET Tasks
    /\ holder \in Kernel!Holders

\* A task that walks the list, or appends, holds a subscription.
Walking == \A t \in Tasks : task[t] \in {"walk", "link"} => tmp_sub[t] # NULL

Switches ==
    /\ shutdown_requested \in BOOLEAN
    /\ drivers \in BOOLEAN
    /\ systick \in BOOLEAN
    /\ halted \in BOOLEAN

-----------------------------------------------------------------------------

\* A step of a thread leaves the CPU with a thread of each priority.
LEMMA RunsHolders ==
    ASSUME holder \in Kernel!Holders, NEW t \in Threads, Runs(t)
    PROVE  holder' \in Kernel!Holders
BY DEF Runs, Kernel!Dispatch, Kernel!Holders

\* Init and every step keep the types.
LEMMA InitTyped == Init => Typed
BY DEF Init, Typed, SystemStates, CallerStates, TaskStates, Threads

LEMMA CallerTyped ==
    ASSUME Typed, NEW c \in Callers, vSystemInit(c) \/ vSystemDeinit(c)
    PROVE  Typed'
<1>1. c \in Threads
  BY DEF Threads
<1>2. ASSUME NEW from, NEW to \in CallerStates, CallerStep(c, from, to)
      PROVE  /\ caller' \in [Callers -> CallerStates]
             /\ task' = task
             /\ holder' \in Kernel!Holders
  BY <1>1, <1>2, RunsHolders DEF CallerStep, Typed
<1>3. CASE CallInit(c) \/ InitSet(c) \/ InitStart(c) \/ CallDeinit(c) \/ DeinitSet(c)
  BY <1>3, <1>2 DEF CallInit, InitSet, InitStart, CallDeinit, DeinitSet,
     CallerStates, SystemStates, Typed
<1>4. CASE SleepEnds(c)
  BY <1>4 DEF SleepEnds, CallerStates, Typed
<1>5. CASE TerminateTest(c)
  <2>1. caller' \in [Callers -> CallerStates] /\ task' = task
        /\ holder' \in Kernel!Holders
    BY <1>5, <1>2 DEF TerminateTest, CallerStates
  <2> QED
    BY <1>1, <1>5, <2>1 DEF TerminateTest, Typed
<1>6. CASE Signal(c)
  <2>1. caller' \in [Callers -> CallerStates] /\ task' = task
        /\ holder' \in Kernel!Holders
    BY <1>6, <1>2 DEF Signal, CallerStates
  <2>2. tmp_sub[c] \in Tasks
    BY <1>1, <1>6 DEF Signal, Typed
  <2> QED
    BY <1>1, <1>6, <2>1, <2>2 DEF Signal, Typed
<1>7. CASE SignalsDone(c) \/ ClearList(c)
  BY <1>1, <1>7, <1>2 DEF SignalsDone, ClearList, CallerStates, Typed
<1>8. CASE Wait(c)
  <2>1. caller' \in [Callers -> CallerStates] /\ task' = task
        /\ holder' \in Kernel!Holders
    BY <1>8, <1>2 DEF Wait, CallerStates
  <2>2. tmp_sub[c] \in Tasks
    BY <1>1, <1>8 DEF Wait, Typed
  <2> QED
    BY <1>1, <1>8, <2>1, <2>2 DEF Wait, Typed
<1>9. CASE vSystemDeinitList(c) \/ vSystemDisableSystick(c) \/ SetStopped(c)
  BY <1>9, <1>2 DEF vSystemDeinitList, vSystemDisableSystick, SetStopped,
     CallerStates, SystemStates, Typed
<1> QED
  BY <1>3, <1>4, <1>5, <1>6, <1>7, <1>8, <1>9 DEF vSystemInit, vSystemDeinit

LEMMA TaskTyped ==
    ASSUME Typed, Walking, NEW t \in Tasks, vSystemCriticalTaskSubscribe(t) \/ Exit(t)
    PROVE  Typed'
<1>1. t \in Threads
  BY DEF Threads
<1>2. ASSUME NEW from, NEW to \in TaskStates, TaskStep(t, from, to)
      PROVE  /\ task' \in [Tasks -> TaskStates]
             /\ UNCHANGED <<system_state, caller, flagged>>
             /\ holder' \in Kernel!Holders
  BY <1>1, <1>2, RunsHolders DEF TaskStep, Typed
<1>3. CASE SubscribeTest(t)
  <2>1. /\ task' \in [Tasks -> TaskStates]
        /\ UNCHANGED <<system_state, caller, flagged>>
        /\ holder' \in Kernel!Holders
    BY <1>3, <1>2 DEF SubscribeTest, TaskStates
  <2> QED
    BY <1>1, <1>3, <2>1 DEF SubscribeTest, Typed
<1>4. CASE StoreBase(t) \/ WalkEnds(t) \/ Exit(t)
  BY <1>1, <1>4, <1>2 DEF StoreBase, WalkEnds, Exit, TaskStates, Typed
<1>5. CASE Walk(t)
  <2>1. /\ task' \in [Tasks -> TaskStates]
        /\ UNCHANGED <<system_state, caller, flagged>>
        /\ holder' \in Kernel!Holders
    BY <1>5, <1>2 DEF Walk, TaskStates
  <2>2. tmp_sub' \in [Threads -> Tasks \cup {NULL}]
    <3>1. tmp_sub[t] \in Tasks
      BY <1>1, <1>5 DEF Walk, TaskStep, Walking, Typed
    <3> QED
      BY <1>1, <1>5, <3>1 DEF Walk, Typed
  <2> QED
    BY <1>5, <2>1, <2>2 DEF Walk, Typed
<1>6. CASE Link(t) \/ TerminateLink(t)
  <2>1. /\ task' \in [Tasks -> TaskStates]
        /\ UNCHANGED <<system_state, caller, flagged>>
        /\ holder' \in Kernel!Holders
    BY <1>6, <1>2 DEF Link, TerminateLink, TaskStates
  <2>2. next' \in [Tasks -> Tasks \cup {NULL}]
    BY <1>1, <1>6 DEF Link, TerminateLink, Typed
  <2> QED
    BY <1>6, <2>1, <2>2 DEF Link, TerminateLink, Typed
<1> QED
  BY <1>3, <1>4, <1>5, <1>6 DEF vSystemCriticalTaskSubscribe

LEMMA InitWalking == Init => Walking
BY DEF Init, Walking

LEMMA CallerWalking ==
    ASSUME Typed, Walking, NEW c \in Callers, vSystemInit(c) \/ vSystemDeinit(c)
    PROVE  Walking'
<1>1. c \in Threads /\ c \notin Tasks
  BY ThreadsAssumption DEF Threads
<1>2. task' = task /\ \A t \in Tasks : tmp_sub'[t] = tmp_sub[t]
  BY <1>1 DEF vSystemInit, CallInit, InitSet, SleepEnds, InitStart,
     vSystemDeinit, CallDeinit, DeinitSet, TerminateTest, Signal, SignalsDone,
     Wait, ClearList, vSystemDeinitList, vSystemDisableSystick, SetStopped,
     CallerStep, Typed, Threads
<1> QED
  BY <1>2 DEF Walking

LEMMA TaskWalking ==
    ASSUME Typed, Walking, NEW t \in Tasks,
           vSystemCriticalTaskSubscribe(t) \/ Exit(t)
    PROVE  Walking'
<1>1. t \in Threads
  BY DEF Threads
<1>2. \A u \in Tasks \ {t} : task'[u] = task[u] /\ tmp_sub'[u] = tmp_sub[u]
  BY <1>1 DEF vSystemCriticalTaskSubscribe, SubscribeTest, StoreBase, Walk,
     WalkEnds, Link, TerminateLink, Exit, TaskStep, Typed, Threads
<1>3. task'[t] \in {"walk", "link"} => tmp_sub'[t] # NULL
  BY <1>1 DEF vSystemCriticalTaskSubscribe, SubscribeTest, StoreBase, Walk,
     WalkEnds, Link, TerminateLink, Exit, TaskStep, Typed, Walking
<1> QED
  BY <1>2, <1>3 DEF Walking

\* The request and a step that changes nothing.
LEMMA OtherTyped ==
    ASSUME Typed, Walking, vSystemRequestShutdown \/ UNCHANGED vars
    PROVE  Typed' /\ Walking'
BY DEF vSystemRequestShutdown, vars, Typed, Walking

LEMMA NextTyped ==
    ASSUME Typed, Walking, [Next]_vars PROVE Typed' /\ Walking'
BY CallerTyped, CallerWalking, TaskTyped, TaskWalking, OtherTyped DEF Next

\* The Booleans only ever get Booleans.
LEMMA NextSwitches == ASSUME Switches, [Next]_vars PROVE Switches'
<1>1. CASE \E c \in Callers : vSystemInit(c)
  BY <1>1, Zenon DEF vSystemInit, CallInit, InitSet, SleepEnds, InitStart,
     CallerStep, Switches
<1>2. CASE \E c \in Callers : vSystemDeinit(c)
  BY <1>2, Zenon DEF vSystemDeinit, CallDeinit, DeinitSet, TerminateTest, Signal,
     SignalsDone, Wait, ClearList, vSystemDeinitList, vSystemDisableSystick,
     SetStopped, CallerStep, Switches
<1>3. CASE \E t \in Tasks : vSystemCriticalTaskSubscribe(t) \/ Exit(t)
  BY <1>3, Zenon DEF vSystemCriticalTaskSubscribe, SubscribeTest, StoreBase, Walk,
     WalkEnds, Link, TerminateLink, Exit, TaskStep, Switches
<1>4. CASE vSystemRequestShutdown \/ UNCHANGED vars
  BY <1>4, Zenon DEF vSystemRequestShutdown, vars, Switches
<1> QED
  BY <1>1, <1>2, <1>3, <1>4 DEF Next

\* The state of the system, the list and the threads keeps its types, for any
\* callers, tasks and priorities.
THEOREM TypeCorrect == Spec => []TypeOK
<1>1. Init => Typed /\ Walking /\ Switches
  BY InitTyped, InitWalking DEF Init, Switches
<1>2. Typed /\ Walking /\ Switches /\ [Next]_vars
          => (Typed /\ Walking /\ Switches)'
  BY NextTyped, NextSwitches
<1>3. Typed /\ Switches => TypeOK
  BY DEF Typed, Switches, TypeOK
<1> QED
  BY <1>1, <1>2, <1>3, PTL DEF Spec

-----------------------------------------------------------------------------

\* The condition under which the unlocked system_state is safe.
Cooperative == \A c, d \in Callers : Prio[c] = Prio[d]

\* Each caller is where system_state says, and one that is about to change it
\* has the CPU.
Inside(c) ==
    /\ caller[c] = "initSet" =>
          /\ system_state \in {"SYSTEM_UNINITIALIZED", "SYSTEM_STOPPED"}
          /\ holder[Prio[c]] = c
    /\ caller[c] \in {"initSleep", "initStart"} =>
          system_state = "SYSTEM_INITIALIZING"
    /\ caller[c] = "deinitSet" =>
          /\ system_state = "SYSTEM_RUNNING"
          /\ holder[Prio[c]] = c
    /\ caller[c] \in {"test", "signal", "wait", "deinitList", "stopTick", "setStopped"} =>
          system_state = "SYSTEM_TERMINATING"

IInv ==
    /\ Typed
    /\ OneTransition
    /\ ~halted => \A c \in Callers : Inside(c)

\* A caller that gets the CPU is the one inside, if there is one that could run.
LEMMA CallerRuns ==
    ASSUME Cooperative, IInv, NEW c \in Callers, Runs(c)
    PROVE  /\ ~halted
           /\ holder'[Prio[c]] = c
           /\ \A d \in Callers : caller[d] \in {"initSet", "deinitSet"} => d = c
<1>1. c \in Threads /\ Prio[c] \in DOMAIN holder
  BY DEF Threads, IInv, Typed, Kernel!Holders
<1>2. ~halted /\ holder'[Prio[c]] = c
  BY <1>1 DEF Runs, Kernel!Dispatch
<1>3. ASSUME NEW d \in Callers, caller[d] \in {"initSet", "deinitSet"} PROVE d = c
  <2>1. d \in Ready /\ Prio[d] = Prio[c] /\ holder[Prio[d]] = d
    BY <1>2, <1>3 DEF Ready, CallerReady, Cooperative, IInv, Inside
  <2> QED
    BY <2>1 DEF Runs, Kernel!MayRun
<1> QED
  BY <1>2, <1>3

\* A task that gets the CPU takes it from no caller that is about to change the
\* state.
LEMMA TaskRuns ==
    ASSUME IInv, NEW t \in Tasks, Runs(t)
    PROVE  /\ ~halted
           /\ \A d \in Callers : caller[d] \in {"initSet", "deinitSet"} =>
                 holder'[Prio[d]] = d
<1>1. t \in Threads /\ t \notin Callers
  BY ThreadsAssumption DEF Threads
<1>2. ~halted /\ holder' = [holder EXCEPT ![Prio[t]] = t]
  BY DEF Runs, Kernel!Dispatch
<1>3. ASSUME NEW d \in Callers, caller[d] \in {"initSet", "deinitSet"}
      PROVE  holder'[Prio[d]] = d
  <2>1. d \in Ready /\ holder[Prio[d]] = d /\ d # t
    BY <1>1, <1>2, <1>3 DEF Ready, CallerReady, IInv, Inside
  <2>2. Prio[d] # Prio[t]
    BY <2>1 DEF Runs, Kernel!MayRun
  <2> QED
    BY <1>2, <2>1, <2>2
<1> QED
  BY <1>2, <1>3

\* A call gets past its guard only while all other callers are idle.
LEMMA CallInside ==
    ASSUME Cooperative, IInv, NEW c \in Callers, CallInit(c) \/ CallDeinit(c),
           ~halted'
    PROVE  /\ \A d \in Callers \ {c} : caller[d] = "idle"
           /\ Inside(c)'
<1>1. Runs(c) /\ caller[c] = "idle" /\ system_state' = system_state
  BY DEF CallInit, CallDeinit, CallerStep
<1>2. /\ ~halted /\ holder'[Prio[c]] = c
      /\ \A d \in Callers : caller[d] \in {"initSet", "deinitSet"} => d = c
  BY <1>1, CallerRuns
<1>3. system_state \in {"SYSTEM_UNINITIALIZED", "SYSTEM_STOPPED", "SYSTEM_RUNNING"}
  BY DEF CallInit, CallDeinit
<1>4. \A d \in Callers \ {c} : caller[d] = "idle"
  BY <1>2, <1>3 DEF IInv, Inside, Typed, CallerStates
<1>5. CASE CallInit(c)
  <2>1. caller'[c] = "initSet"
    BY <1>5 DEF CallInit, CallerStep, IInv, Typed
  <2>2. system_state \in {"SYSTEM_UNINITIALIZED", "SYSTEM_STOPPED"}
    BY <1>5 DEF CallInit
  <2> QED
    BY <1>1, <1>2, <1>4, <2>1, <2>2 DEF Inside
<1>6. CASE CallDeinit(c)
  <2>1. caller'[c] = "deinitSet"
    BY <1>6 DEF CallDeinit, CallerStep, IInv, Typed
  <2>2. system_state = "SYSTEM_RUNNING"
    BY <1>6 DEF CallDeinit
  <2> QED
    BY <1>1, <1>2, <1>4, <2>1, <2>2 DEF Inside
<1> QED
  BY <1>5, <1>6

\* Each further step of a caller finds and leaves the state as it should be.
LEMMA StepInside ==
    ASSUME Cooperative, IInv, NEW c \in Callers,
           vSystemInit(c) \/ vSystemDeinit(c), caller[c] # "idle"
    PROVE  ~halted /\ ~halted' /\ Inside(c)'
<1>1. ~halted
  BY DEF vSystemInit, CallInit, InitSet, SleepEnds, InitStart, vSystemDeinit,
     CallDeinit, DeinitSet, TerminateTest, Signal, SignalsDone, Wait, ClearList,
     vSystemDeinitList, vSystemDisableSystick, SetStopped, CallerStep, Runs
<1>2. Inside(c)
  BY <1>1 DEF IInv
<1> USE <1>1, <1>2 DEF IInv, Typed, Inside, CallerStep
<1>3. CASE InitSet(c) \/ SleepEnds(c) \/ InitStart(c)
  BY <1>3 DEF InitSet, SleepEnds, InitStart
<1>4. CASE DeinitSet(c) \/ TerminateTest(c)
  BY <1>4 DEF DeinitSet, TerminateTest
<1>5. CASE Signal(c) \/ SignalsDone(c) \/ Wait(c) \/ ClearList(c)
  BY <1>5 DEF Signal, SignalsDone, Wait, ClearList
<1>6. CASE vSystemDeinitList(c) \/ vSystemDisableSystick(c) \/ SetStopped(c)
  BY <1>6 DEF vSystemDeinitList, vSystemDisableSystick, SetStopped
<1>7. ~CallInit(c) /\ ~CallDeinit(c)
  BY DEF CallInit, CallDeinit
<1> QED
  BY <1>3, <1>4, <1>5, <1>6, <1>7 DEF vSystemInit, vSystemDeinit

LEMMA CallerIInv ==
    ASSUME Cooperative, IInv, Walking, NEW c \in Callers,
           vSystemInit(c) \/ vSystemDeinit(c)
    PROVE  IInv'
<1>1. Typed'
  BY CallerTyped DEF IInv
<1>2. \A d \in Callers \ {c} : caller'[d] = caller[d]
  BY DEF vSystemInit, CallInit, InitSet, SleepEnds, InitStart, vSystemDeinit,
     CallDeinit, DeinitSet, TerminateTest, Signal, SignalsDone, Wait, ClearList,
     vSystemDeinitList, vSystemDisableSystick, SetStopped, CallerStep, IInv, Typed
<1>3. ~halted' => /\ \A d \in Callers \ {c} : caller[d] = "idle"
                  /\ Inside(c)'
  <2>1. CASE caller[c] = "idle"
    <3>1. CallInit(c) \/ CallDeinit(c)
      BY <2>1 DEF vSystemInit, InitSet, SleepEnds, InitStart, vSystemDeinit,
         DeinitSet, TerminateTest, Signal, SignalsDone, Wait, ClearList,
         vSystemDeinitList, vSystemDisableSystick, SetStopped, CallerStep
    <3> QED
      BY <3>1, CallInside
  <2>2. CASE caller[c] # "idle"
    BY <2>2, StepInside DEF IInv, OneTransition
  <2> QED
    BY <2>1, <2>2
<1>4. OneTransition'
  BY <1>2, <1>3 DEF OneTransition
<1>5. ~halted' => \A d \in Callers : Inside(d)'
  BY <1>2, <1>3 DEF Inside
<1> QED
  BY <1>1, <1>4, <1>5 DEF IInv

LEMMA TaskIInv ==
    ASSUME IInv, Walking, NEW t \in Tasks,
           vSystemCriticalTaskSubscribe(t) \/ Exit(t)
    PROVE  IInv'
<1>1. Typed'
  BY TaskTyped DEF IInv
<1>2. Runs(t) /\ UNCHANGED <<system_state, caller, halted>>
  BY DEF vSystemCriticalTaskSubscribe, SubscribeTest, StoreBase, Walk, WalkEnds,
     Link, TerminateLink, Exit, TaskStep
<1>3. \A d \in Callers : caller[d] \in {"initSet", "deinitSet"} =>
          holder'[Prio[d]] = d
  BY <1>2, TaskRuns
<1>4. OneTransition'
  BY <1>2 DEF IInv, OneTransition
<1>5. ~halted' => \A d \in Callers : Inside(d)'
  BY <1>2, <1>3 DEF IInv, Inside
<1> QED
  BY <1>1, <1>4, <1>5 DEF IInv

LEMMA NextIInv ==
    ASSUME Cooperative, IInv, Walking, [Next]_vars PROVE IInv'
<1>1. CASE \E c \in Callers : vSystemInit(c) \/ vSystemDeinit(c)
  BY <1>1, CallerIInv
<1>2. CASE \E t \in Tasks : vSystemCriticalTaskSubscribe(t) \/ Exit(t)
  BY <1>2, TaskIInv
<1>3. CASE vSystemRequestShutdown \/ UNCHANGED vars
  <2>1. Typed'
    BY <1>3, OtherTyped DEF IInv
  <2> QED
    BY <1>3, <2>1 DEF vSystemRequestShutdown, vars, IInv, OneTransition, Inside
<1> QED
  BY <1>1, <1>2, <1>3 DEF Next

LEMMA InitIInv == Init => IInv
BY InitTyped DEF Init, IInv, OneTransition, Inside

\* Callers of one priority need no lock on system_state: one of them at a time is
\* inside vSystemInit or vSystemDeinit, whatever the tasks above or below do.
THEOREM CooperativeOneTransition ==
    ASSUME Cooperative PROVE Spec => []OneTransition
<1>1. Init => IInv /\ Walking
  BY InitIInv, InitWalking
<1>2. IInv /\ Walking /\ [Next]_vars => (IInv /\ Walking)'
  BY NextIInv, NextTyped DEF IInv
<1>3. IInv => OneTransition
  BY DEF IInv
<1> QED
  BY <1>1, <1>2, <1>3, PTL DEF Spec

-----------------------------------------------------------------------------

\* Without the SysTick nobody is about to start the drivers.
TickInv ==
    /\ RunningHasTick
    /\ ~halted /\ ~systick => \A c \in Callers : caller[c] # "initStart"

LEMMA CallerTick ==
    ASSUME Cooperative, IInv, TickInv, NEW c \in Callers,
           vSystemInit(c) \/ vSystemDeinit(c)
    PROVE  TickInv'
<1>1. CASE CallInit(c) \/ CallDeinit(c)
  <2>1. ~halted /\ UNCHANGED <<system_state, systick>>
    BY <1>1 DEF CallInit, CallDeinit, CallerStep, Runs
  <2>2. \A d \in Callers : caller'[d] = "initStart" => caller[d] = "initStart"
    BY <1>1 DEF CallInit, CallDeinit, CallerStep, IInv, Typed
  <2> QED
    BY <2>1, <2>2 DEF TickInv, RunningHasTick
<1>2. CASE InitSet(c) \/ DeinitSet(c) \/ TerminateTest(c) \/ Signal(c)
              \/ SignalsDone(c) \/ Wait(c) \/ ClearList(c)
              \/ vSystemDeinitList(c) \/ SetStopped(c)
  <2>1. ~halted /\ UNCHANGED systick
        /\ (system_state' = system_state \/ system_state' # "SYSTEM_RUNNING")
    BY <1>2 DEF InitSet, DeinitSet, TerminateTest, Signal, SignalsDone, Wait,
       ClearList, vSystemDeinitList, SetStopped, CallerStep, Runs
  <2>2. \A d \in Callers : caller'[d] = "initStart" => caller[d] = "initStart"
    BY <1>2 DEF InitSet, DeinitSet, TerminateTest, Signal, SignalsDone, Wait,
       ClearList, vSystemDeinitList, SetStopped, CallerStep, IInv, Typed
  <2> QED
    BY <2>1, <2>2 DEF TickInv, RunningHasTick
<1>3. CASE SleepEnds(c) \/ InitStart(c)
  BY <1>3 DEF SleepEnds, InitStart, CallerStep, Runs, TickInv, RunningHasTick
<1>4. CASE vSystemDisableSystick(c)
  <2>1. ~halted /\ system_state' = system_state /\ caller[c] = "stopTick"
    BY <1>4 DEF vSystemDisableSystick, CallerStep, Runs
  <2>2. system_state = "SYSTEM_TERMINATING"
        /\ \A d \in Callers \ {c} : caller[d] = "idle"
    BY <2>1 DEF IInv, Inside, OneTransition
  <2>3. \A d \in Callers : caller'[d] # "initStart"
    BY <1>4, <2>2 DEF vSystemDisableSystick, CallerStep, IInv, Typed
  <2> QED
    BY <2>1, <2>2, <2>3 DEF TickInv, RunningHasTick
<1> QED
  BY <1>1, <1>2, <1>3, <1>4 DEF vSystemInit, vSystemDeinit

LEMMA NextTick ==
    ASSUME Cooperative, IInv, TickInv, [Next]_vars PROVE TickInv'
<1>1. CASE \E c \in Callers : vSystemInit(c) \/ vSystemDeinit(c)
  BY <1>1, CallerTick
<1>2. CASE \E t \in Tasks : vSystemCriticalTaskSubscribe(t) \/ Exit(t)
  <2>1. UNCHANGED <<system_state, caller, halted, systick>>
    BY <1>2 DEF vSystemCriticalTaskSubscribe, SubscribeTest, StoreBase, Walk,
       WalkEnds, Link, TerminateLink, Exit, TaskStep
  <2> QED
    BY <2>1 DEF TickInv, RunningHasTick
<1>3. CASE vSystemRequestShutdown \/ UNCHANGED vars
  BY <1>3 DEF vSystemRequestShutdown, vars, TickInv, RunningHasTick
<1> QED
  BY <1>1, <1>2, <1>3 DEF Next

\* A system that was shut down never runs again: its start waits for a tick that
\* does not come.  Proved for callers of one priority, any tasks.
THEOREM CooperativeRunningHasTick ==
    ASSUME Cooperative PROVE Spec => []RunningHasTick
<1>1. Init => IInv /\ Walking /\ TickInv
  BY InitIInv, InitWalking DEF Init, TickInv, RunningHasTick
<1>2. IInv /\ Walking /\ TickInv /\ [Next]_vars => (IInv /\ Walking /\ TickInv)'
  BY NextIInv, NextTyped, NextTick DEF IInv
<1>3. TickInv => RunningHasTick
  BY DEF TickInv
<1> QED
  BY <1>1, <1>2, <1>3, PTL DEF Spec

=============================================================================
