--------------------------- MODULE ShutdownProofs ---------------------------
(***************************************************************************)
(* That the list of system_init.c loses nobody and the shutdown is safe,   *)
(* for any number of callers and critical tasks.  The tasks share one      *)
(* priority, above that of the callers, and subscribe before the shutdown: *)
(* without these conditions the runs lifecycle_preempt and lifecycle_late  *)
(* find the list broken.                                                   *)
(***************************************************************************)

EXTENDS LifecycleProofs

USE DEF list, env, StartDrivers

Layered ==
    /\ Cooperative
    /\ \A t, u \in Tasks : Prio[t] = Prio[u]
    /\ \A c \in Callers, t \in Tasks : Prio[c] < Prio[t]
    /\ ~LateSubscribers

\* The tasks that a pointer may lead to.
Joined == {t \in Tasks : task[t] \in {"terminateLink", "working", "exited"}}

NoneWorking     == \A t \in Tasks : task[t] # "working"
NoneSubscribing == \A t \in Tasks : ~Subscribing(t)

\* A task that subscribes has the CPU; pointers lead to subscriptions that are in
\* the list or were; and who walks the list, or has subscribed, is in it.
ListInv ==
    /\ \A t \in Tasks : Subscribing(t) => holder[Prio[t]] = t
    /\ base_subscription \in Joined \cup {NULL}
    /\ \A t \in Tasks :
          /\ next[t] \in Joined \cup {NULL}
          /\ task[t] \notin {"working", "exited"} => next[t] = NULL
          /\ task[t] = "storeBase" => base_subscription = NULL
          /\ task[t] \in {"walk", "link"} => tmp_sub[t] \in Listed
          /\ task[t] = "link" => next[tmp_sub[t]] = NULL
          /\ task[t] \in {"terminateLink", "working"} => t \in Listed

\* What the shutdown has still to wait for.
Remaining(c) ==
    /\ caller[c] = "signal" => tmp_sub[c] \in Joined \cup {NULL}
    /\ caller[c] = "wait" =>
          \A t \in Tasks : task[t] = "working" => t \in From(tmp_sub[c])
    /\ caller[c] \in {"deinitList", "stopTick", "setStopped"} => NoneWorking
    /\ caller[c] \in {"test", "signal", "wait", "deinitList"} => drivers
    /\ caller[c] \in {"stopTick", "setStopped"} => ~drivers

StopInv ==
    /\ system_state \in {"SYSTEM_TERMINATING", "SYSTEM_STOPPED"} => NoneSubscribing
    /\ system_state = "SYSTEM_STOPPED" => NoneWorking
    /\ system_state = "SYSTEM_RUNNING" => drivers
    /\ system_state = "SYSTEM_TERMINATING" =>
          \E c \in Callers : caller[c] \in {"test", "signal", "wait", "deinitList",
                                            "stopTick", "setStopped"}
    /\ \A t \in flagged : task[t] \in {"working", "exited"}
    /\ \A c \in Callers : Remaining(c)

-----------------------------------------------------------------------------

\* What is reached from a subscription, from the null pointer, and over a link.
LEMMA FromHead == ASSUME NEW p \in Tasks PROVE p \in From(p)
BY NullAssumption DEF From, Threads

LEMMA FromNull == From(NULL) = {}
<1>1. ASSUME NEW t \in From(NULL) PROVE FALSE
  <2>1. {} \in SUBSET Tasks /\ NULL \in {} \cup {NULL}
        /\ \A s \in {} : next[s] \in {} \cup {NULL}
    OBVIOUS
  <2>2. t \in {}
    BY <1>1, <2>1 DEF From
  <2> QED
    BY <2>2
<1> QED
  BY <1>1

LEMMA FromNext ==
    ASSUME NEW p \in Tasks, NEW t \in From(p), t # p
    PROVE  t \in From(next[p])
<1>1. SUFFICES ASSUME NEW S \in SUBSET Tasks, next[p] \in S \cup {NULL},
                      \A s \in S : next[s] \in S \cup {NULL}
               PROVE  t \in S
  BY DEF From
<1>2. S \cup {p} \in SUBSET Tasks
  OBVIOUS
<1>3. \A s \in S \cup {p} : next[s] \in (S \cup {p}) \cup {NULL}
  BY <1>1
<1>4. t \in S \cup {p}
  BY <1>2, <1>3 DEF From
<1> QED
  BY <1>4

LEMMA ListedNext ==
    ASSUME NEW t \in Listed, next[t] \in Tasks
    PROVE  next[t] \in Listed
BY NullAssumption DEF Listed, From, Threads

LEMMA ListedJoined == ASSUME ListInv PROVE Listed \subseteq Joined
<1>1. Joined \in SUBSET Tasks
  BY DEF Joined
<1> QED
  BY <1>1 DEF ListInv, Listed, From

\* An element appended to the last one is reached, as is all that was before.
LEMMA LinkReaches ==
    ASSUME Typed, NEW l \in Listed, NEW t \in Tasks, next[l] = NULL,
           next' = [next EXCEPT ![l] = t], base_subscription' = base_subscription
    PROVE  Listed \subseteq Listed' /\ t \in Listed'
<1>1. ASSUME NEW S \in SUBSET Tasks, base_subscription \in S \cup {NULL},
             \A s \in S : next'[s] \in S \cup {NULL}
      PROVE  Listed \subseteq S /\ t \in S
  <2>1. \A s \in S : next[s] \in S \cup {NULL}
    BY <1>1 DEF Typed
  <2>2. Listed \subseteq S
    BY <1>1, <2>1 DEF Listed, From
  <2>3. l \in S /\ next'[l] = t
    BY <2>2 DEF Typed, Listed, From
  <2> QED
    BY <1>1, <2>2, <2>3, NullAssumption DEF Threads
<1> QED
  BY <1>1 DEF Listed, From

\* A caller only runs when nobody subscribes, a task that subscribes alone.
LEMMA CallerRunsAlone ==
    ASSUME Layered, Typed, NEW c \in Callers, Runs(c)
    PROVE  /\ ~halted /\ NoneSubscribing
           /\ \A t \in Tasks : holder'[Prio[t]] = holder[Prio[t]]
<1>1. \A t \in Threads : Prio[t] \in Nat
  BY PrioAssumption
<1>2. ASSUME NEW t \in Tasks, Subscribing(t) PROVE FALSE
  <2>1. Prio[t] <= Prio[c] /\ Prio[c] < Prio[t]
    BY <1>2 DEF Runs, Kernel!MayRun, Ready, Layered
  <2> QED
    BY <1>1, <2>1 DEF Threads
<1>3. \A t \in Tasks : Prio[t] # Prio[c]
  BY <1>1 DEF Layered, Threads
<1>4. ~halted /\ holder' = [holder EXCEPT ![Prio[c]] = c]
  BY DEF Runs, Kernel!Dispatch
<1>5. \A t \in Tasks : holder'[Prio[t]] = holder[Prio[t]]
  BY <1>3, <1>4 DEF Typed, Kernel!Holders
<1> QED
  BY <1>2, <1>4, <1>5 DEF NoneSubscribing

LEMMA TaskRunsAlone ==
    ASSUME Layered, Typed, ListInv, NEW t \in Tasks, Runs(t)
    PROVE  /\ ~halted
           /\ \A u \in Tasks : Subscribing(u) => u = t
           /\ holder'[Prio[t]] = t
<1>1. t \in Threads /\ Prio[t] \in DOMAIN holder
  BY DEF Threads, Typed, Kernel!Holders
<1>2. ~halted /\ holder'[Prio[t]] = t
  BY <1>1 DEF Runs, Kernel!Dispatch
<1>3. ASSUME NEW u \in Tasks, Subscribing(u) PROVE u = t
  <2>1. u \in Ready /\ holder[Prio[u]] = u /\ Prio[u] = Prio[t]
    BY <1>3 DEF Ready, ListInv, Layered
  <2> QED
    BY <2>1 DEF Runs, Kernel!MayRun
<1> QED
  BY <1>2, <1>3

-----------------------------------------------------------------------------

\* What all steps of a caller, and all steps of a task, leave alone.
LEMMA CallerFrame ==
    ASSUME Typed, NEW c \in Callers, vSystemInit(c) \/ vSystemDeinit(c)
    PROVE  /\ ~halted /\ UNCHANGED <<task, next>>
           /\ \A t \in Tasks : tmp_sub'[t] = tmp_sub[t]
           /\ \A d \in Callers \ {c} :
                 caller'[d] = caller[d] /\ tmp_sub'[d] = tmp_sub[d]
           /\ base_subscription' = base_subscription \/ ClearList(c)
           /\ Runs(c) \/ SleepEnds(c)
<1>1. c \in Threads /\ c \notin Tasks /\ Callers \subseteq Threads
  BY ThreadsAssumption DEF Threads
<1> USE <1>1 DEF CallerStep, Typed, Threads
<1>2. CASE vSystemInit(c)
  BY <1>2 DEF vSystemInit, CallInit, InitSet, SleepEnds, InitStart, Runs
<1>3. CASE CallDeinit(c) \/ DeinitSet(c) \/ TerminateTest(c) \/ Signal(c)
  BY <1>3 DEF CallDeinit, DeinitSet, TerminateTest, Signal, Runs
<1>4. CASE SignalsDone(c) \/ Wait(c) \/ ClearList(c)
  BY <1>4 DEF SignalsDone, Wait, ClearList, Runs
<1>5. CASE vSystemDeinitList(c) \/ vSystemDisableSystick(c) \/ SetStopped(c)
  BY <1>5 DEF vSystemDeinitList, vSystemDisableSystick, SetStopped, Runs
<1> QED
  BY <1>2, <1>3, <1>4, <1>5 DEF vSystemDeinit

LEMMA TaskFrame ==
    ASSUME Typed, NEW t \in Tasks, vSystemCriticalTaskSubscribe(t) \/ Exit(t)
    PROVE  /\ UNCHANGED <<system_state, caller, flagged, env>>
           /\ \A u \in Tasks \ {t} : task'[u] = task[u] /\ tmp_sub'[u] = tmp_sub[u]
           /\ \A c \in Callers : tmp_sub'[c] = tmp_sub[c]
           /\ Runs(t)
<1>1. t \in Threads /\ Callers \subseteq Threads /\ t \notin Callers
  BY ThreadsAssumption DEF Threads
<1> QED
  BY <1>1 DEF vSystemCriticalTaskSubscribe, SubscribeTest, StoreBase, Walk, WalkEnds,
     Link, TerminateLink, Exit, TaskStep, Typed, Threads

LEMMA CallerList ==
    ASSUME Layered, Typed, ListInv, StopInv, NEW c \in Callers,
           vSystemInit(c) \/ vSystemDeinit(c)
    PROVE  ListInv'
<1>1. UNCHANGED <<task, next>> /\ \A t \in Tasks : tmp_sub'[t] = tmp_sub[t]
  BY CallerFrame
<1>2. CASE base_subscription' = base_subscription
  <2>1. \A t \in Tasks : Subscribing(t) => holder'[Prio[t]] = holder[Prio[t]]
    BY CallerFrame, CallerRunsAlone DEF SleepEnds
  <2>2. Listed' = Listed /\ Joined' = Joined
    BY <1>1, <1>2 DEF Listed, From, Joined
  <2>3. \A t \in Tasks : Subscribing(t)' = Subscribing(t)
    BY <1>1 DEF Subscribing
  <2> QED
    BY <1>1, <1>2, <2>1, <2>2, <2>3 DEF ListInv
<1>3. CASE ClearList(c)
  <2>1. Runs(c) /\ caller[c] = "wait" /\ tmp_sub[c] = NULL
    BY <1>3 DEF ClearList, CallerStep
  <2>2. NoneSubscribing
    BY <2>1, CallerRunsAlone
  <2>3. NoneWorking
    BY <2>1, FromNull DEF StopInv, Remaining, NoneWorking
  <2>4. base_subscription' = NULL
    BY <1>3 DEF ClearList
  <2>5. Joined' = Joined
    BY <1>1 DEF Joined
  <2> QED
    BY <1>1, <2>2, <2>3, <2>4, <2>5 DEF ListInv, NoneSubscribing, NoneWorking,
       Subscribing
<1> QED
  BY <1>2, <1>3, CallerFrame

LEMMA TaskList ==
    ASSUME Layered, Typed, ListInv, NEW t \in Tasks,
           vSystemCriticalTaskSubscribe(t) \/ Exit(t)
    PROVE  ListInv'
<1>1. /\ \A u \in Tasks \ {t} : task'[u] = task[u] /\ tmp_sub'[u] = tmp_sub[u]
      /\ Runs(t)
  BY TaskFrame
<1>2. /\ \A u \in Tasks \ {t} : ~Subscribing(u)
      /\ holder'[Prio[t]] = t
  BY <1>1, TaskRunsAlone
<1>3. /\ \A u \in Tasks : Subscribing(u)' => holder'[Prio[u]] = u
      /\ \A u \in Tasks \ {t} : ~Subscribing(u)'
  BY <1>1, <1>2 DEF Subscribing
<1>4. Joined \subseteq Joined'
  BY <1>1 DEF Joined, vSystemCriticalTaskSubscribe, SubscribeTest, StoreBase, Walk,
     WalkEnds, Link, TerminateLink, Exit, TaskStep, Typed
<1>5. CASE SubscribeTest(t)
  <2>1. /\ task[t] = "absent"
        /\ task'[t] = IF base_subscription = NULL THEN "storeBase" ELSE "walk"
        /\ tmp_sub'[t] = base_subscription
        /\ UNCHANGED <<base_subscription, next>>
    BY <1>5 DEF SubscribeTest, TaskStep, Typed, Threads
  <2>2. Listed' = Listed
    BY <2>1 DEF Listed, From
  <2>3. task'[t] = "walk" => tmp_sub'[t] \in Listed
    BY <2>1, FromHead DEF Typed, Listed
  <2> QED
    BY <1>1, <1>2, <1>3, <1>4, <2>1, <2>2, <2>3 DEF ListInv, Subscribing
<1>6. CASE StoreBase(t)
  <2>1. /\ task[t] = "storeBase" /\ task'[t] = "working"
        /\ base_subscription' = t /\ UNCHANGED next
    BY <1>6 DEF StoreBase, TaskStep, Typed
  <2>2. Listed = {}
    BY <2>1, FromNull DEF ListInv, Listed
  <2>3. t \in Listed'
    BY <2>1, NullAssumption DEF Listed, From, Threads
  <2>4. t \in Joined'
    BY <2>1 DEF Joined
  <2> QED
    BY <1>1, <1>2, <1>3, <1>4, <2>1, <2>2, <2>3, <2>4 DEF ListInv, Subscribing
<1>7. CASE Walk(t) \/ WalkEnds(t)
  <2>1. /\ task[t] = "walk" /\ task'[t] \in {"walk", "link"}
        /\ UNCHANGED <<base_subscription, next>>
    BY <1>7 DEF Walk, WalkEnds, TaskStep, Typed
  <2>2. Listed' = Listed
    BY <2>1 DEF Listed, From
  <2>3. tmp_sub[t] \in Listed /\ next[tmp_sub[t]] \in Tasks \cup {NULL}
    BY <2>1 DEF ListInv, Typed, Listed, From
  <2>4. tmp_sub'[t] \in Listed /\ (task'[t] = "link" => next'[tmp_sub'[t]] = NULL)
    <3>1. CASE Walk(t)
      <4>1. tmp_sub'[t] = next[tmp_sub[t]] /\ next[tmp_sub[t]] # NULL
            /\ task'[t] = "walk"
        BY <3>1 DEF Walk, TaskStep, Typed, Threads
      <4> QED
        BY <4>1, <2>3, ListedNext
    <3>2. CASE WalkEnds(t)
      BY <3>2, <2>3 DEF WalkEnds
    <3> QED
      BY <1>7, <3>1, <3>2
  <2> QED
    BY <1>1, <1>2, <1>3, <1>4, <2>1, <2>2, <2>4 DEF ListInv, Subscribing
<1>8. CASE Link(t)
  <2>1. /\ task[t] = "link" /\ task'[t] = "terminateLink"
        /\ next' = [next EXCEPT ![tmp_sub[t]] = t]
        /\ UNCHANGED base_subscription
    BY <1>8 DEF Link, TaskStep, Typed
  <2>2. tmp_sub[t] \in Listed /\ tmp_sub[t] \in Tasks /\ next[tmp_sub[t]] = NULL
    BY <2>1 DEF ListInv, Listed, From
  <2>3. Listed \subseteq Listed' /\ t \in Listed'
    BY <2>1, <2>2, LinkReaches
  <2>4. t \in Joined'
    BY <2>1 DEF Joined
  <2>5. task[tmp_sub[t]] \in {"working", "exited"}
    BY <1>2, <2>1, <2>2, ListedJoined DEF Joined, Subscribing
  <2> QED
    BY <1>1, <1>2, <1>3, <1>4, <2>1, <2>2, <2>3, <2>4, <2>5 DEF ListInv, Subscribing
<1>9. CASE TerminateLink(t)
  <2>1. task[t] = "terminateLink" /\ task'[t] = "working" /\ UNCHANGED base_subscription
    BY <1>9 DEF TerminateLink, TaskStep, Typed
  <2>2. UNCHANGED next
    BY <1>9, <2>1 DEF TerminateLink, ListInv, Typed
  <2>3. Listed' = Listed
    BY <2>1, <2>2 DEF Listed, From
  <2> QED
    BY <1>1, <1>2, <1>3, <1>4, <2>1, <2>2, <2>3 DEF ListInv, Subscribing
<1>10. CASE Exit(t)
  <2>1. task[t] = "working" /\ task'[t] = "exited"
        /\ UNCHANGED <<base_subscription, next>>
    BY <1>10 DEF Exit, TaskStep, Typed
  <2>2. Listed' = Listed
    BY <2>1 DEF Listed, From
  <2> QED
    BY <1>1, <1>2, <1>3, <1>4, <2>1, <2>2 DEF ListInv, Subscribing
<1> QED
  BY <1>5, <1>6, <1>7, <1>8, <1>9, <1>10 DEF vSystemCriticalTaskSubscribe

-----------------------------------------------------------------------------

\* The start of the system, and the calls that only pass or fail their guard.
LEMMA InitStop ==
    ASSUME Layered, IInv, ListInv, StopInv, NEW c \in Callers,
           vSystemInit(c) \/ CallDeinit(c)
    PROVE  StopInv'
<1>1. /\ ~halted /\ UNCHANGED <<task, next, base_subscription, flagged>>
      /\ \A d \in Callers : tmp_sub'[d] = tmp_sub[d]
  BY DEF vSystemInit, CallInit, InitSet, SleepEnds, InitStart, CallDeinit, CallerStep, Runs
<1>2. \A d \in Callers \ {c} : caller'[d] = caller[d]
  BY DEF vSystemInit, CallInit, InitSet, SleepEnds, InitStart, CallDeinit, CallerStep,
     IInv, Typed
<1>3. caller'[c] \in {"initSet", "initSleep", "initStart", "idle", "deinitSet"}
      /\ caller[c] \in {"initSet", "initSleep", "initStart", "idle"}
  BY DEF vSystemInit, CallInit, InitSet, SleepEnds, InitStart, CallDeinit, CallerStep,
     IInv, Typed
<1>4. NoneWorking' = NoneWorking /\ NoneSubscribing' = NoneSubscribing
      /\ Joined' = Joined /\ \A d \in Callers : From(tmp_sub[d])' = From(tmp_sub[d])
  BY <1>1 DEF NoneWorking, NoneSubscribing, Subscribing, Joined, From
<1>5. CASE CallInit(c) \/ SleepEnds(c) \/ CallDeinit(c)
  <2>1. UNCHANGED <<system_state, drivers>>
    BY <1>5 DEF CallInit, SleepEnds, CallDeinit
  <2> QED
    BY <1>1, <1>2, <1>3, <1>4, <2>1 DEF StopInv, Remaining
<1>6. CASE InitSet(c)
  <2>1. system_state' = "SYSTEM_INITIALIZING" /\ UNCHANGED drivers
    BY <1>6 DEF InitSet
  <2> QED
    BY <1>1, <1>2, <1>3, <1>4, <2>1 DEF StopInv, Remaining
<1>7. CASE InitStart(c)
  <2>1. system_state' = "SYSTEM_RUNNING" /\ drivers' = TRUE /\ caller[c] = "initStart"
    BY <1>7 DEF InitStart, CallerStep
  <2>2. \A d \in Callers \ {c} : caller[d] = "idle"
    BY <1>1, <2>1 DEF IInv, OneTransition
  <2>3. \A d \in Callers : Remaining(d)'
    BY <1>2, <1>3, <2>2 DEF Remaining
  <2> QED
    BY <1>1, <2>1, <2>3 DEF StopInv
<1> QED
  BY <1>5, <1>6, <1>7 DEF vSystemInit

\* The steps of a shutdown, of which there is one.
LEMMA DeinitStop ==
    ASSUME Layered, IInv, ListInv, StopInv, NEW c \in Callers,
           vSystemDeinit(c), caller[c] # "idle"
    PROVE  StopInv'
<1>1. /\ ~halted /\ UNCHANGED <<task, next>> /\ Runs(c)
      /\ \A d \in Callers \ {c} : caller'[d] = caller[d] /\ tmp_sub'[d] = tmp_sub[d]
  BY CallerFrame DEF IInv, SleepEnds, vSystemDeinit, CallDeinit, DeinitSet,
     TerminateTest, Signal, SignalsDone, Wait, ClearList, vSystemDeinitList,
     vSystemDisableSystick, SetStopped, CallerStep
<1>2. \A d \in Callers \ {c} : caller'[d] = "idle"
  BY <1>1 DEF IInv, OneTransition
<1>3. \A d \in Callers \ {c} : Remaining(d)'
  BY <1>2 DEF Remaining
<1>4. NoneSubscribing /\ NoneSubscribing'
  BY <1>1, CallerRunsAlone DEF IInv, NoneSubscribing, Subscribing
<1>5. Joined' = Joined /\ NoneWorking' = NoneWorking
  BY <1>1 DEF Joined, NoneWorking
<1>6. Inside(c) /\ c \in Threads
  BY <1>1 DEF IInv, Threads
<1>7. \A p \in Tasks \cup {NULL} : From(p)' = From(p)
  BY <1>1 DEF From
<1>8. CASE DeinitSet(c)
  <2>1. system_state = "SYSTEM_RUNNING" /\ system_state' = "SYSTEM_TERMINATING"
        /\ caller'[c] = "test" /\ UNCHANGED <<drivers, flagged>>
    BY <1>6, <1>8 DEF DeinitSet, CallerStep, Inside, IInv, Typed
  <2>2. Remaining(c)'
    BY <2>1 DEF StopInv, Remaining
  <2> QED
    BY <1>1, <1>3, <1>4, <2>1, <2>2 DEF StopInv
<1>9. CASE TerminateTest(c)
  <2>1. /\ system_state = "SYSTEM_TERMINATING" /\ caller[c] = "test"
        /\ caller'[c] = IF base_subscription = NULL THEN "deinitList" ELSE "signal"
        /\ tmp_sub'[c] = base_subscription
        /\ UNCHANGED <<system_state, drivers, flagged>>
    BY <1>6, <1>9 DEF TerminateTest, CallerStep, Inside, IInv, Typed
  <2>2. base_subscription = NULL => NoneWorking
    BY FromNull DEF ListInv, Listed, NoneWorking
  <2>3. Remaining(c)'
    BY <1>5, <2>1, <2>2 DEF ListInv, StopInv, Remaining
  <2> QED
    BY <1>1, <1>3, <1>4, <2>1, <2>3 DEF StopInv
<1>10. CASE Signal(c)
  <2>1. /\ system_state = "SYSTEM_TERMINATING" /\ caller[c] = "signal"
        /\ caller'[c] = "signal" /\ tmp_sub[c] # NULL
        /\ tmp_sub'[c] = next[tmp_sub[c]] /\ flagged' = flagged \cup {tmp_sub[c]}
        /\ UNCHANGED <<system_state, drivers>>
    BY <1>6, <1>10 DEF Signal, CallerStep, Inside, IInv, Typed
  <2>2. tmp_sub[c] \in Joined
    BY <2>1 DEF StopInv, Remaining
  <2>3. task[tmp_sub[c]] \in {"working", "exited"}
    BY <1>4, <2>2 DEF Joined, NoneSubscribing, Subscribing
  <2>4. next[tmp_sub[c]] \in Joined \cup {NULL}
    BY <2>2 DEF ListInv, Joined
  <2>5. Remaining(c)'
    BY <1>5, <2>1, <2>4 DEF StopInv, Remaining
  <2> QED
    BY <1>1, <1>3, <1>4, <2>1, <2>3, <2>5 DEF StopInv
<1>11. CASE SignalsDone(c)
  <2>1. /\ system_state = "SYSTEM_TERMINATING" /\ caller[c] = "signal"
        /\ caller'[c] = "wait" /\ tmp_sub'[c] = base_subscription
        /\ UNCHANGED <<system_state, drivers, flagged, base_subscription>>
    BY <1>6, <1>11 DEF SignalsDone, CallerStep, Inside, IInv, Typed
  <2>2. \A t \in Tasks : task'[t] = "working" => t \in From(base_subscription)'
    BY <1>1, <1>7, <2>1 DEF ListInv, Listed, IInv, Typed
  <2>3. From(tmp_sub[c])' = From(base_subscription)'
    BY <2>1 DEF From
  <2>4. Remaining(c)'
    BY <2>1, <2>2, <2>3 DEF StopInv, Remaining
  <2> QED
    BY <1>1, <1>3, <1>4, <2>1, <2>4 DEF StopInv
<1>12. CASE Wait(c)
  <2>1. /\ system_state = "SYSTEM_TERMINATING" /\ caller[c] = "wait"
        /\ caller'[c] = "wait" /\ tmp_sub[c] # NULL /\ task[tmp_sub[c]] = "exited"
        /\ tmp_sub'[c] = next[tmp_sub[c]]
        /\ UNCHANGED <<system_state, drivers, flagged>>
    BY <1>6, <1>12 DEF Wait, CallerStep, CallerReady, Inside, IInv, Typed
  <2>2. tmp_sub[c] \in Tasks
    BY <1>6, <2>1 DEF IInv, Typed
  <2>3. \A t \in Tasks : task'[t] = "working" => t \in From(next[tmp_sub[c]])
    BY <1>1, <2>1, <2>2, FromNext DEF StopInv, Remaining
  <2>4. From(tmp_sub[c])' = From(next[tmp_sub[c]])
    BY <1>1, <2>1 DEF From
  <2>5. Remaining(c)'
    BY <2>1, <2>3, <2>4 DEF StopInv, Remaining
  <2> QED
    BY <1>1, <1>3, <1>4, <2>1, <2>5 DEF StopInv
<1>13. CASE ClearList(c)
  <2>1. /\ system_state = "SYSTEM_TERMINATING" /\ caller[c] = "wait"
        /\ caller'[c] = "deinitList" /\ tmp_sub[c] = NULL
        /\ UNCHANGED <<system_state, drivers, flagged>>
    BY <1>6, <1>13 DEF ClearList, CallerStep, Inside, IInv, Typed
  <2>2. NoneWorking
    BY <2>1, FromNull DEF StopInv, Remaining, NoneWorking
  <2>3. Remaining(c)'
    BY <1>5, <2>1, <2>2 DEF StopInv, Remaining
  <2> QED
    BY <1>1, <1>3, <1>4, <2>1, <2>3 DEF StopInv
<1>14. CASE vSystemDeinitList(c) \/ vSystemDisableSystick(c)
  <2>1. /\ system_state = "SYSTEM_TERMINATING"
        /\ caller[c] \in {"deinitList", "stopTick"}
        /\ caller'[c] \in {"stopTick", "setStopped"}
        /\ ~drivers' /\ UNCHANGED <<system_state, flagged>>
    BY <1>6, <1>14 DEF vSystemDeinitList, vSystemDisableSystick, CallerStep, Inside,
       IInv, Typed, StopInv, Remaining
  <2>2. Remaining(c)'
    BY <1>5, <2>1 DEF StopInv, Remaining
  <2> QED
    BY <1>1, <1>3, <1>4, <2>1, <2>2 DEF StopInv
<1>15. CASE SetStopped(c)
  <2>1. /\ caller[c] = "setStopped" /\ caller'[c] = "idle"
        /\ system_state' = "SYSTEM_STOPPED" /\ UNCHANGED flagged
    BY <1>15 DEF SetStopped, CallerStep, IInv, Typed
  <2>2. NoneWorking'
    BY <1>5, <2>1 DEF StopInv, Remaining
  <2>3. Remaining(c)'
    BY <2>1 DEF Remaining
  <2> QED
    BY <1>1, <1>3, <1>4, <2>1, <2>2, <2>3 DEF StopInv
<1>16. ~CallDeinit(c)
  BY DEF CallDeinit, CallerStep
<1> QED
  BY <1>8, <1>9, <1>10, <1>11, <1>12, <1>13, <1>14, <1>15, <1>16 DEF vSystemDeinit

\* While the shutdown waits, tasks only leave.
LEMMA TaskStop ==
    ASSUME Layered, IInv, ListInv, StopInv, NEW t \in Tasks,
           vSystemCriticalTaskSubscribe(t) \/ Exit(t)
    PROVE  StopInv'
<1>1. /\ ~halted /\ UNCHANGED <<system_state, caller, flagged, drivers>>
      /\ \A u \in Tasks \ {t} : task'[u] = task[u]
      /\ \A c \in Callers : tmp_sub'[c] = tmp_sub[c]
  BY TaskFrame DEF IInv, Runs
<1>2. CASE Exit(t)
  <2>1. task[t] = "working" /\ task'[t] = "exited" /\ UNCHANGED <<base_subscription, next>>
    BY <1>2 DEF Exit, TaskStep, IInv, Typed
  <2>2. /\ NoneWorking => NoneWorking'
        /\ NoneSubscribing => NoneSubscribing'
        /\ Joined' = Joined
    BY <1>1, <2>1 DEF NoneWorking, NoneSubscribing, Subscribing, Joined
  <2>3. \A c \in Callers : From(tmp_sub[c])' = From(tmp_sub[c])
    BY <1>1, <2>1 DEF From
  <2>4. \A u \in Tasks : task'[u] = "working" => task[u] = "working"
    BY <1>1, <2>1
  <2>5. \A c \in Callers : Remaining(c)'
    BY <1>1, <2>2, <2>3, <2>4 DEF StopInv, Remaining
  <2> QED
    BY <1>1, <2>1, <2>2, <2>5 DEF StopInv, IInv, Typed
<1>3. CASE vSystemCriticalTaskSubscribe(t)
  <2>1. task[t] \in {"absent", "storeBase", "walk", "link", "terminateLink"}
    BY <1>3 DEF vSystemCriticalTaskSubscribe, SubscribeTest, StoreBase, Walk,
       WalkEnds, Link, TerminateLink, TaskStep
  <2>2. system_state \notin {"SYSTEM_TERMINATING", "SYSTEM_STOPPED"}
    <3>1. CASE task[t] = "absent"
      BY <1>3, <3>1 DEF Layered, vSystemCriticalTaskSubscribe, SubscribeTest,
         StoreBase, Walk, WalkEnds, Link, TerminateLink, TaskStep
    <3>2. CASE task[t] # "absent"
      BY <2>1, <3>2 DEF StopInv, NoneSubscribing, Subscribing
    <3> QED
      BY <3>1, <3>2
  <2>3. \A c \in Callers : caller'[c] \notin
            {"test", "signal", "wait", "deinitList", "stopTick", "setStopped"}
    BY <1>1, <2>2 DEF IInv, Inside
  <2>4. \A c \in Callers : Remaining(c)'
    BY <2>3 DEF Remaining
  <2>5. \A u \in flagged' : task'[u] \in {"working", "exited"}
    BY <1>1, <2>1 DEF StopInv, IInv, Typed
  <2> QED
    BY <1>1, <2>2, <2>4, <2>5 DEF StopInv
<1> QED
  BY <1>2, <1>3

ShutdownInv == IInv /\ Walking /\ ListInv /\ StopInv

LEMMA InitShutdown == Init => ShutdownInv
BY InitIInv, InitWalking
   DEF Init, ShutdownInv, ListInv, StopInv, Subscribing, Joined, NoneSubscribing,
       NoneWorking, Remaining

LEMMA OtherShutdown ==
    ASSUME ListInv, StopInv, vSystemRequestShutdown \/ UNCHANGED vars
    PROVE  ListInv' /\ StopInv'
<1>1. UNCHANGED <<system_state, list, caller, task, tmp_sub, flagged, drivers, holder>>
  BY DEF vSystemRequestShutdown, vars
<1>2. /\ Listed' = Listed /\ Joined' = Joined
      /\ NoneWorking' = NoneWorking /\ NoneSubscribing' = NoneSubscribing
      /\ \A t \in Tasks : Subscribing(t)' = Subscribing(t)
      /\ \A c \in Callers : From(tmp_sub[c])' = From(tmp_sub[c])
  BY <1>1 DEF Listed, From, Joined, NoneWorking, NoneSubscribing, Subscribing
<1>3. ListInv'
  BY <1>1, <1>2 DEF ListInv
<1>4. \A c \in Callers : Remaining(c)'
  BY <1>1, <1>2 DEF StopInv, Remaining
<1>5. StopInv'
  BY <1>1, <1>2, <1>4 DEF StopInv
<1> QED
  BY <1>3, <1>5

LEMMA NextShutdown ==
    ASSUME Layered, ShutdownInv, [Next]_vars PROVE ShutdownInv'
<1>1. IInv' /\ Walking'
  BY NextIInv, NextTyped DEF ShutdownInv, IInv, Layered
<1>2. CASE \E c \in Callers : vSystemInit(c) \/ vSystemDeinit(c)
  <2>1. PICK c \in Callers : vSystemInit(c) \/ vSystemDeinit(c)
    BY <1>2
  <2>2. ListInv'
    BY <2>1, CallerList DEF ShutdownInv, IInv
  <2>3. StopInv'
    <3>1. vSystemDeinit(c) /\ caller[c] = "idle" => CallDeinit(c)
      BY DEF vSystemDeinit, DeinitSet, TerminateTest, Signal, SignalsDone, Wait,
         ClearList, vSystemDeinitList, vSystemDisableSystick, SetStopped, CallerStep
    <3> QED
      BY <2>1, <3>1, InitStop, DeinitStop DEF ShutdownInv
  <2> QED
    BY <1>1, <2>2, <2>3 DEF ShutdownInv
<1>3. CASE \E t \in Tasks : vSystemCriticalTaskSubscribe(t) \/ Exit(t)
  BY <1>1, <1>3, TaskList, TaskStop DEF ShutdownInv, IInv
<1>4. CASE vSystemRequestShutdown \/ UNCHANGED vars
  BY <1>1, <1>4, OtherShutdown DEF ShutdownInv
<1> QED
  BY <1>2, <1>3, <1>4 DEF Next

LEMMA Inductive == ASSUME Layered PROVE Spec => []ShutdownInv
BY InitShutdown, NextShutdown, PTL DEF Spec

-----------------------------------------------------------------------------

\* No append overwrites another and no clearing drops a live task, for any number
\* of tasks of one priority.
THEOREM LayeredListKeeps == ASSUME Layered PROVE Spec => []SubscribersListed
<1>1. ShutdownInv => SubscribersListed
  BY DEF ShutdownInv, ListInv, SubscribersListed
<1> QED
  BY <1>1, Inductive, PTL

\* The drivers outlive the critical tasks that have subscribed.
THEOREM LayeredShutdown == ASSUME Layered PROVE Spec => []SafeShutdown
<1>1. ASSUME ShutdownInv, system_state \in {"SYSTEM_TERMINATING", "SYSTEM_STOPPED"},
             ~drivers
      PROVE  NoneWorking
  BY <1>1 DEF ShutdownInv, StopInv, Remaining
<1>2. ShutdownInv => SafeShutdown
  BY <1>1 DEF SafeShutdown, NoneWorking
<1> QED
  BY <1>2, Inductive, PTL

-----------------------------------------------------------------------------

\* Nobody exits without having been told to.
ExitedTold == \A t \in Tasks : task[t] = "exited" => t \in flagged

LEMMA NextExited == ASSUME Typed, ExitedTold, [Next]_vars PROVE ExitedTold'
<1>1. CASE \E c \in Callers : vSystemInit(c) \/ vSystemDeinit(c)
  <2>1. task' = task /\ flagged \subseteq flagged'
    BY <1>1 DEF vSystemInit, CallInit, InitSet, SleepEnds, InitStart, vSystemDeinit,
       CallDeinit, DeinitSet, TerminateTest, Signal, SignalsDone, Wait, ClearList,
       vSystemDeinitList, vSystemDisableSystick, SetStopped, CallerStep
  <2> QED
    BY <2>1 DEF ExitedTold
<1>2. CASE \E t \in Tasks : vSystemCriticalTaskSubscribe(t) \/ Exit(t)
  <2>1. PICK t \in Tasks : vSystemCriticalTaskSubscribe(t) \/ Exit(t)
    BY <1>2
  <2>2. flagged' = flagged /\ \A u \in Tasks \ {t} : task'[u] = task[u]
    BY <2>1, TaskFrame
  <2>3. task'[t] = "exited" => t \in flagged
    BY <2>1 DEF vSystemCriticalTaskSubscribe, SubscribeTest, StoreBase, Walk,
       WalkEnds, Link, TerminateLink, Exit, TaskStep, Typed
  <2> QED
    BY <2>2, <2>3 DEF ExitedTold
<1>3. CASE vSystemRequestShutdown \/ UNCHANGED vars
  BY <1>3 DEF vSystemRequestShutdown, vars, ExitedTold
<1> QED
  BY <1>1, <1>2, <1>3 DEF Next

RefinementInv == ShutdownInv /\ Switches /\ ExitedTold

AbstractStep == [SafeStop!Next]_SafeStop!vars

LEMMA GoesOn == ASSUME Switches, ~halted, halted' = halted PROVE halted' = FALSE
BY Zenon DEF Switches

LEMMA Stutters ==
    ASSUME UNCHANGED <<Phase, task, flagged, halted>>
    PROVE  AbstractStep
BY Zenon DEF AbstractStep, SafeStop!vars, Working

\* The calls pass their guard, or halt everything.
LEMMA CallRefines ==
    ASSUME RefinementInv, NEW c \in Callers, CallInit(c) \/ CallDeinit(c)
    PROVE  AbstractStep
<1>1. ~halted /\ UNCHANGED <<Phase, task, flagged>>
  BY DEF CallInit, CallDeinit, CallerStep, Runs, Phase
<1>2. halted' \in BOOLEAN /\ halted \in BOOLEAN
  BY Zenon DEF CallInit, CallDeinit, RefinementInv, Switches
<1>3. CASE halted'
  <2>1. halted' = TRUE
    BY <1>2, <1>3, Zenon
  <2>2. SafeStop!Halt
    BY <1>1, <2>1, Zenon DEF SafeStop!Halt, Working
  <2> QED
    BY <2>2 DEF AbstractStep, SafeStop!Next
<1>4. CASE ~halted'
  <2>1. halted' = halted
    BY <1>1, <1>2, <1>4, Zenon
  <2> QED
    BY <1>1, <2>1, Stutters
<1> QED
  BY <1>3, <1>4

LEMMA InitRefines ==
    ASSUME Layered, RefinementInv, NEW c \in Callers,
           InitSet(c) \/ SleepEnds(c) \/ InitStart(c)
    PROVE  AbstractStep
<1>1. ~halted /\ UNCHANGED <<task, flagged, halted>>
  BY DEF InitSet, SleepEnds, InitStart, CallerStep, Runs
<1>2. Inside(c)
  BY <1>1 DEF RefinementInv, ShutdownInv, IInv
<1>3. CASE InitSet(c) \/ SleepEnds(c)
  <2>1. UNCHANGED Phase
    BY <1>2, <1>3 DEF InitSet, SleepEnds, CallerStep, Inside, Phase
  <2> QED
    BY <1>1, <2>1, Stutters
<1>4. CASE InitStart(c)
  <2>1. Phase \in {"down", "up"} /\ Phase' = "up"
    BY <1>2, <1>4 DEF InitStart, CallerStep, Inside, Phase
  <2>2. CASE Phase = "up"
    BY <1>1, <2>1, <2>2, Stutters
  <2>3. CASE Phase = "down"
    <3>1. SafeStop!Start /\ halted' = FALSE
      BY <1>1, <2>1, <2>3, GoesOn, Zenon DEF SafeStop!Start, Working, RefinementInv
    <3> QED
      BY <1>1, <3>1, Zenon DEF AbstractStep, SafeStop!Next, SafeStop!Step
  <2> QED
    BY <2>1, <2>2, <2>3
<1> QED
  BY <1>3, <1>4

LEMMA DeinitRefines ==
    ASSUME Layered, RefinementInv, NEW c \in Callers, vSystemDeinit(c), ~CallDeinit(c)
    PROVE  AbstractStep
<1>1. ~halted /\ Runs(c) /\ UNCHANGED <<task, halted>>
  BY DEF vSystemDeinit, DeinitSet, TerminateTest, Signal, SignalsDone, Wait, ClearList,
     vSystemDeinitList, vSystemDisableSystick, SetStopped, CallerStep, Runs
<1>2. Inside(c) /\ Remaining(c) /\ Typed
  BY <1>1 DEF RefinementInv, ShutdownInv, StopInv, IInv
<1>3. halted' = FALSE
  BY <1>1, GoesOn DEF RefinementInv
<1>4. CASE DeinitSet(c)
  <2>1. Phase = "up" /\ Phase' = "stopping" /\ flagged' = flagged
    BY <1>2, <1>4 DEF DeinitSet, CallerStep, Inside, Phase, RefinementInv,
       ShutdownInv, StopInv
  <2>2. SafeStop!Stopping
    BY <1>1, <2>1, Zenon DEF SafeStop!Stopping, Working
  <2> QED
    BY <1>1, <1>3, <2>2, Zenon DEF AbstractStep, SafeStop!Next, SafeStop!Step
<1>5. CASE TerminateTest(c) \/ SignalsDone(c) \/ Wait(c) \/ ClearList(c)
           \/ vSystemDisableSystick(c)
  <2>1. UNCHANGED <<Phase, flagged>>
    BY <1>5 DEF TerminateTest, SignalsDone, Wait, ClearList, vSystemDisableSystick,
       Phase
  <2> QED
    BY <1>1, <2>1, Stutters
<1>6. CASE Signal(c)
  <2>1. /\ Phase = "stopping" /\ Phase' = Phase /\ tmp_sub[c] # NULL
        /\ flagged' = flagged \cup {tmp_sub[c]}
    BY <1>2, <1>6 DEF Signal, CallerStep, Inside, Remaining, Phase
  <2>2. tmp_sub[c] \in Joined
    BY <1>6, <1>2, <2>1 DEF Signal, CallerStep, Remaining
  <2>3. NoneSubscribing
    BY <1>1, <1>2, CallerRunsAlone
  <2>4. tmp_sub[c] \in Tasks /\ (tmp_sub[c] \in flagged \/ tmp_sub[c] \in Working)
    BY <2>2, <2>3 DEF Joined, NoneSubscribing, Subscribing, Working, RefinementInv,
       ExitedTold
  <2>5. CASE tmp_sub[c] \in flagged
    <3>1. flagged' = flagged
      BY <2>1, <2>5
    <3> QED
      BY <1>1, <2>1, <3>1, Stutters
  <2>6. CASE tmp_sub[c] \notin flagged
    <3>1. Working' = Working
      BY <1>1 DEF Working
    <3>2. SafeStop!Tell(tmp_sub[c])
      BY <2>1, <2>4, <2>6, <3>1 DEF SafeStop!Tell
    <3> QED
      BY <1>1, <1>3, <2>4, <3>2, Zenon DEF AbstractStep, SafeStop!Next, SafeStop!Step
  <2> QED
    BY <2>5, <2>6
<1>7. CASE vSystemDeinitList(c)
  <2>1. Phase = "stopping" /\ Phase' = "down" /\ flagged' = flagged
    BY <1>2, <1>7 DEF vSystemDeinitList, CallerStep, Inside, Remaining, Phase
  <2>2. Working = {} /\ Working' = Working
    BY <1>1, <1>2, <1>7 DEF vSystemDeinitList, CallerStep, Remaining, NoneWorking, Working
  <2>3. SafeStop!Down
    BY <2>1, <2>2 DEF SafeStop!Down
  <2> QED
    BY <1>1, <1>3, <2>3, Zenon DEF AbstractStep, SafeStop!Next, SafeStop!Step
<1>8. CASE SetStopped(c)
  <2>1. UNCHANGED <<Phase, flagged>>
    BY <1>2, <1>8 DEF SetStopped, CallerStep, Remaining, Phase
  <2> QED
    BY <1>1, <2>1, Stutters
<1> QED
  BY <1>4, <1>5, <1>6, <1>7, <1>8 DEF vSystemDeinit

LEMMA TaskRefines ==
    ASSUME Layered, RefinementInv, NEW t \in Tasks,
           vSystemCriticalTaskSubscribe(t) \/ Exit(t)
    PROVE  AbstractStep
<1>1. Typed
  BY DEF RefinementInv, ShutdownInv, IInv
<1>2. /\ ~halted /\ UNCHANGED <<Phase, flagged, halted>>
      /\ \A u \in Tasks \ {t} : task'[u] = task[u]
  <2>1. /\ UNCHANGED <<system_state, flagged, drivers, halted>> /\ Runs(t)
        /\ \A u \in Tasks \ {t} : task'[u] = task[u]
    BY <1>1, TaskFrame
  <2>2. UNCHANGED Phase
    BY <2>1 DEF Phase
  <2> QED
    BY <2>1, <2>2 DEF Runs
<1>3. halted' = FALSE
  BY <1>2, GoesOn DEF RefinementInv
<1>4. CASE SubscribeTest(t) \/ Walk(t) \/ WalkEnds(t) \/ Link(t)
  <2>1. task[t] # "working" /\ task'[t] # "working"
    BY <1>1, <1>4 DEF SubscribeTest, Walk, WalkEnds, Link, TaskStep, Typed
  <2>2. Working' = Working
    BY <1>2, <2>1 DEF Working
  <2> QED
    BY <1>2, <2>2, Zenon DEF AbstractStep, SafeStop!vars
<1>5. CASE StoreBase(t) \/ TerminateLink(t)
  <2>1. Subscribing(t) /\ task[t] # "working" /\ task'[t] = "working"
    BY <1>1, <1>5 DEF StoreBase, TerminateLink, TaskStep, Typed, Subscribing
  <2>2. Phase # "stopping"
    BY <2>1 DEF RefinementInv, ShutdownInv, StopInv, NoneSubscribing, Phase
  <2>3. t \notin Working \cup flagged
    BY <2>1 DEF RefinementInv, ShutdownInv, StopInv, Subscribing, Working
  <2>4. Working' = Working \cup {t}
    BY <1>2, <2>1 DEF Working
  <2>5. SafeStop!Join(t)
    BY <1>2, <2>2, <2>3, <2>4 DEF SafeStop!Join
  <2> QED
    BY <1>2, <1>3, <2>5, Zenon DEF AbstractStep, SafeStop!Next, SafeStop!Step
<1>6. CASE Exit(t)
  <2>1. t \in flagged /\ task[t] = "working" /\ task'[t] = "exited"
    BY <1>1, <1>6 DEF Exit, TaskStep, Typed
  <2>2. Working' = Working \ {t} /\ t \in Working
    BY <1>2, <2>1 DEF Working
  <2>3. SafeStop!Leave(t)
    BY <1>2, <2>1, <2>2 DEF SafeStop!Leave
  <2> QED
    BY <1>2, <1>3, <2>3, Zenon DEF AbstractStep, SafeStop!Next, SafeStop!Step
<1> QED
  BY <1>4, <1>5, <1>6 DEF vSystemCriticalTaskSubscribe

\* system_init.c implements the safe shutdown of SafeStop: members are told, leave,
\* and only then the drivers go; the fair part is checked by lifecycle_safe.
THEOREM LayeredImplementsSafeStop == ASSUME Layered PROVE Spec => SafeStop!Safety
<1>1. Init => RefinementInv
  BY InitShutdown DEF Init, RefinementInv, Switches, ExitedTold
<1>2. RefinementInv /\ [Next]_vars => RefinementInv'
  BY NextShutdown, NextSwitches, NextExited DEF RefinementInv, ShutdownInv, IInv
<1>3. Init => SafeStop!Init
  BY DEF Init, SafeStop!Init, Phase, Working
<1>4. ASSUME RefinementInv, [Next]_vars PROVE AbstractStep
  <2>1. CASE \E c \in Callers : vSystemInit(c) \/ vSystemDeinit(c)
    BY <1>4, <2>1, CallRefines, InitRefines, DeinitRefines DEF vSystemInit
  <2>2. CASE \E t \in Tasks : vSystemCriticalTaskSubscribe(t) \/ Exit(t)
    BY <1>4, <2>2, TaskRefines
  <2>3. CASE vSystemRequestShutdown \/ UNCHANGED vars
    <3>1. UNCHANGED <<Phase, task, flagged, halted>>
      BY <2>3 DEF vSystemRequestShutdown, vars, Phase
    <3> QED
      BY <3>1, Stutters
  <2> QED
    BY <1>4, <2>1, <2>2, <2>3 DEF Next
<1> QED
  BY <1>1, <1>2, <1>3, <1>4, PTL DEF Spec, AbstractStep, SafeStop!Safety

-----------------------------------------------------------------------------

(***************************************************************************)
(* What the two loops over the list need to end.                           *)
(***************************************************************************)

\* The first loop has told whom it has passed; the second waits for those only.
TellInv ==
    \A c \in Callers :
        /\ caller[c] = "signal" => Listed \subseteq flagged \cup From(tmp_sub[c])
        /\ caller[c] = "wait" =>
              Listed \subseteq flagged /\ From(tmp_sub[c]) \subseteq flagged

\* Behind a subscription in the list is less of the list.
LEMMA NextFrom ==
    ASSUME NEW p \in Tasks PROVE From(next[p]) \subseteq From(p)
<1>1. ASSUME NEW t \in From(next[p]), NEW S \in SUBSET Tasks, p \in S \cup {NULL},
             \A s \in S : next[s] \in S \cup {NULL}
      PROVE  t \in S
  <2>1. next[p] \in S \cup {NULL}
    BY <1>1, NullAssumption DEF Threads
  <2> QED
    BY <1>1, <2>1 DEF From
<1> QED
  BY <1>1 DEF From

LEMMA CallerTells ==
    ASSUME Layered, IInv, TellInv, NEW c \in Callers,
           vSystemInit(c) \/ vSystemDeinit(c)
    PROVE  TellInv'
<1>1. /\ ~halted /\ UNCHANGED <<task, next>>
      /\ \A d \in Callers \ {c} : caller'[d] = caller[d] /\ tmp_sub'[d] = tmp_sub[d]
      /\ base_subscription' = base_subscription \/ ClearList(c)
  BY CallerFrame DEF IInv
<1>2. flagged \subseteq flagged'
  BY DEF vSystemInit, CallInit, InitSet, SleepEnds, InitStart, vSystemDeinit,
     CallDeinit, DeinitSet, TerminateTest, Signal, SignalsDone, Wait, ClearList,
     vSystemDeinitList, vSystemDisableSystick, SetStopped
<1>3. \A p \in Tasks \cup {NULL} : From(p)' = From(p)
  BY <1>1 DEF From
<1>4. c \in Threads /\ Typed /\ Callers \subseteq Threads
  BY DEF IInv, Threads
<1>5. CASE ClearList(c)
  <2>1. \A d \in Callers : caller'[d] \notin {"signal", "wait"}
    BY <1>1, <1>4, <1>5 DEF ClearList, CallerStep, IInv, OneTransition, Typed
  <2> QED
    BY <2>1 DEF TellInv
<1>6. CASE base_subscription' = base_subscription
  <2>1. Listed' = Listed
    BY <1>1, <1>6 DEF Listed, From
  <2>2. ASSUME NEW d \in Callers \ {c}
        PROVE  /\ caller'[d] = "signal" =>
                     Listed' \subseteq flagged' \cup From(tmp_sub[d])'
               /\ caller'[d] = "wait" =>
                     Listed' \subseteq flagged' /\ From(tmp_sub[d])' \subseteq flagged'
    <3>1. From(tmp_sub[d])' = From(tmp_sub[d])
      BY <1>1, <2>2 DEF From
    <3> QED
      BY <1>1, <1>2, <2>1, <3>1 DEF TellInv
  <2>3. /\ caller'[c] = "signal" =>
                 Listed' \subseteq flagged' \cup From(tmp_sub[c])'
        /\ caller'[c] = "wait" =>
                 Listed' \subseteq flagged' /\ From(tmp_sub[c])' \subseteq flagged'
    <3>1. CASE TerminateTest(c)
      <4>1. caller'[c] # "wait" /\ tmp_sub'[c] = base_subscription
        BY <1>4, <3>1 DEF TerminateTest, CallerStep, Typed
      <4>2. From(tmp_sub[c])' = Listed'
        BY <1>6, <4>1 DEF Listed, From
      <4> QED
        BY <4>1, <4>2
    <3>2. CASE Signal(c)
      <4>1. /\ caller[c] = "signal" /\ caller'[c] = "signal" /\ tmp_sub[c] \in Tasks
            /\ tmp_sub'[c] = next[tmp_sub[c]] /\ flagged' = flagged \cup {tmp_sub[c]}
        BY <1>4, <3>2 DEF Signal, CallerStep, Typed
      <4>2. From(tmp_sub[c])' = From(next[tmp_sub[c]])
        BY <1>1, <4>1 DEF From
      <4>3. From(tmp_sub[c]) \subseteq {tmp_sub[c]} \cup From(next[tmp_sub[c]])
        BY <4>1, FromNext
      <4>4. Listed \subseteq flagged \cup From(tmp_sub[c])
        BY <4>1 DEF TellInv
      <4> QED
        BY <2>1, <4>1, <4>2, <4>3, <4>4
    <3>3. CASE SignalsDone(c)
      <4>1. /\ caller[c] = "signal" /\ caller'[c] = "wait" /\ tmp_sub[c] = NULL
            /\ tmp_sub'[c] = base_subscription /\ flagged' = flagged
        BY <1>4, <3>3 DEF SignalsDone, CallerStep, Typed
      <4>2. Listed \subseteq flagged
        BY <4>1, FromNull DEF TellInv
      <4>3. From(tmp_sub[c])' = Listed'
        BY <1>6, <4>1 DEF Listed, From
      <4> QED
        BY <2>1, <4>1, <4>2, <4>3
    <3>4. CASE Wait(c)
      <4>1. /\ caller[c] = "wait" /\ caller'[c] = "wait" /\ tmp_sub[c] \in Tasks
            /\ tmp_sub'[c] = next[tmp_sub[c]] /\ flagged' = flagged
        BY <1>4, <3>4 DEF Wait, CallerStep, Typed
      <4>2. From(tmp_sub[c])' = From(next[tmp_sub[c]])
        BY <1>1, <4>1 DEF From
      <4>3. From(next[tmp_sub[c]]) \subseteq From(tmp_sub[c])
        BY <4>1, NextFrom
      <4> QED
        BY <2>1, <4>1, <4>2, <4>3 DEF TellInv
    <3>5. CASE vSystemInit(c) \/ CallDeinit(c) \/ DeinitSet(c) \/ vSystemDeinitList(c)
               \/ vSystemDisableSystick(c) \/ SetStopped(c) \/ ClearList(c)
      <4>1. caller'[c] \notin {"signal", "wait"}
        BY <1>4, <3>5 DEF vSystemInit, CallInit, InitSet, SleepEnds, InitStart,
           CallDeinit, DeinitSet, vSystemDeinitList, vSystemDisableSystick, SetStopped,
           ClearList, CallerStep, Typed
      <4> QED
        BY <4>1
    <3> QED
      BY <3>1, <3>2, <3>3, <3>4, <3>5 DEF vSystemDeinit
  <2> QED
    BY <2>2, <2>3 DEF TellInv
<1> QED
  BY <1>1, <1>5, <1>6

\* While a caller is in one of the loops the list stays as it is.
LEMMA TaskTells ==
    ASSUME Layered, ShutdownInv, TellInv, NEW t \in Tasks,
           vSystemCriticalTaskSubscribe(t) \/ Exit(t)
    PROVE  TellInv'
<1>1. /\ ~halted /\ UNCHANGED <<system_state, caller, flagged>>
      /\ \A c \in Callers : tmp_sub'[c] = tmp_sub[c]
  BY TaskFrame DEF ShutdownInv, IInv, Runs
<1>2. CASE \E c \in Callers : caller[c] \in {"signal", "wait"}
  <2>1. system_state = "SYSTEM_TERMINATING"
    BY <1>1, <1>2 DEF ShutdownInv, IInv, Inside
  <2>2. ~Subscribing(t)
    BY <2>1 DEF ShutdownInv, StopInv, NoneSubscribing
  <2>3. Exit(t)
    BY <2>1, <2>2 DEF Layered, Subscribing, vSystemCriticalTaskSubscribe,
       SubscribeTest, StoreBase, Walk, WalkEnds, Link, TerminateLink, TaskStep
  <2>4. UNCHANGED <<base_subscription, next>>
    BY <2>3 DEF Exit
  <2>5. Listed' = Listed /\ \A c \in Callers : From(tmp_sub[c])' = From(tmp_sub[c])
    BY <1>1, <2>4 DEF Listed, From
  <2> QED
    BY <1>1, <2>5 DEF TellInv
<1>3. CASE \A c \in Callers : caller[c] \notin {"signal", "wait"}
  BY <1>1, <1>3 DEF TellInv
<1> QED
  BY <1>2, <1>3

LEMMA TellSpec == ASSUME Layered PROVE Spec => []TellInv
<1>1. Init => TellInv
  BY DEF Init, TellInv
<1>2. ShutdownInv /\ TellInv /\ [Next]_vars => TellInv'
  <2> SUFFICES ASSUME ShutdownInv, TellInv, [Next]_vars PROVE TellInv'
    OBVIOUS
  <2>1. CASE vSystemRequestShutdown \/ UNCHANGED vars
    <3>1. UNCHANGED <<base_subscription, next, caller, tmp_sub, flagged>>
      BY <2>1 DEF vSystemRequestShutdown, vars
    <3>2. Listed' = Listed /\ \A c \in Callers : From(tmp_sub[c])' = From(tmp_sub[c])
      BY <3>1 DEF Listed, From
    <3> QED
      BY <3>1, <3>2 DEF TellInv
  <2> QED
    BY <2>1, CallerTells, TaskTells DEF Next, ShutdownInv
<1> QED
  BY <1>1, <1>2, Inductive, PTL DEF Spec

\* "All threads signaled, wait for termination" is true, if the tasks subscribe
\* before the shutdown; lifecycle_late shows it false of one that comes later.
THEOREM LayeredAllSignaled == ASSUME Layered PROVE Spec => []AllSignaled
<1>1. TellInv => AllSignaled
  BY DEF TellInv, AllSignaled
<1> QED
  BY <1>1, TellSpec, PTL

\* chThdWait is called on a thread that exists and has been told to exit.
WaitsForTold ==
    \A c \in Callers :
        caller[c] = "wait" /\ tmp_sub[c] # NULL =>
            tmp_sub[c] \in flagged /\ task[tmp_sub[c]] \in {"working", "exited"}

\* The list is not circular: no subscription is behind itself.
NoLoop == \A t \in Tasks : t \notin From(next[t])

LEMMA LinkMakesNoLoop ==
    ASSUME ListInv, Typed, NoLoop, NEW l \in Listed, NEW t \in Tasks \ Listed,
           next[l] = NULL, next[t] = NULL, next' = [next EXCEPT ![l] = t]
    PROVE  NoLoop'
<1>1. ASSUME NEW s \in Tasks, NEW S \in SUBSET Tasks,
             s \notin S, next'[s] \in S \cup {NULL},
             \A u \in S : next'[u] \in S \cup {NULL}
      PROVE  s \notin From(next[s])'
  BY <1>1 DEF From
<1>2. l \in Tasks /\ l # t
  BY DEF Listed, From
<1>3. t \notin From(next[t])'
  <2>1. next'[t] \in {} \cup {NULL}
    BY <1>2 DEF Typed
  <2> QED
    BY <1>1, <2>1
<1>4. l \notin From(next[l])'
  <2>1. next'[l] \in {t} \cup {NULL} /\ next'[t] = NULL
    BY <1>2 DEF Typed
  <2> QED
    BY <1>1, <1>2, <2>1
<1>5. ASSUME NEW s \in Tasks \ {t, l} PROVE s \notin From(next[s])'
  <2> DEFINE S == From(next[s]) \cup {t}
  <2>1. S \in SUBSET Tasks /\ s \notin S
    BY DEF NoLoop, From
  <2>2. next'[s] = next[s] /\ next[s] \in Tasks \cup {NULL}
    BY <1>2 DEF Typed
  <2>3. next'[s] \in S \cup {NULL}
    BY <2>2, FromHead
  <2>4. ASSUME NEW u \in S PROVE next'[u] \in S \cup {NULL}
    <3>1. CASE u \in {t, l}
      BY <1>2, <3>1 DEF Typed
    <3>2. CASE u \in From(next[s]) /\ u \notin {t, l}
      <4>1. u \in Tasks /\ next'[u] = next[u] /\ next[u] \in Tasks \cup {NULL}
        BY <1>2, <3>2 DEF From, Typed
      <4>2. ASSUME next[u] \in Tasks, NEW R \in SUBSET Tasks, next[s] \in R \cup {NULL},
                   \A r \in R : next[r] \in R \cup {NULL}
            PROVE  next[u] \in R
        <5>1. u \in R
          BY <3>2, <4>2 DEF From
        <5> QED
          BY <4>2, <5>1, NullAssumption DEF Threads
      <4>3. next[u] \in Tasks => next[u] \in From(next[s])
        BY <4>2 DEF From
      <4> QED
        BY <4>1, <4>3
    <3> QED
      BY <2>4, <3>1, <3>2
  <2> HIDE DEF S
  <2> QED
    BY <1>1, <2>1, <2>3, <2>4
<1> QED
  BY <1>3, <1>4, <1>5 DEF NoLoop

LEMMA NextNoLoop ==
    ASSUME Layered, ShutdownInv, NoLoop, [Next]_vars PROVE NoLoop'
<1> USE DEF ShutdownInv, IInv
<1>1. CASE next' = next
  BY <1>1 DEF NoLoop, From
<1>2. ASSUME NEW t \in Tasks, Link(t) PROVE NoLoop'
  <2>1. task[t] = "link" /\ next' = [next EXCEPT ![tmp_sub[t]] = t]
    BY <1>2 DEF Link, TaskStep
  <2>2. tmp_sub[t] \in Listed /\ next[tmp_sub[t]] = NULL /\ next[t] = NULL
    BY <2>1 DEF ListInv
  <2>3. t \notin Listed
    BY <2>1, ListedJoined DEF Joined
  <2> QED
    BY <2>1, <2>2, <2>3, LinkMakesNoLoop
<1>3. ASSUME NEW t \in Tasks, TerminateLink(t) PROVE next' = next
  <2>1. task[t] = "terminateLink" /\ next' = [next EXCEPT ![t] = NULL]
    BY <1>3 DEF TerminateLink, TaskStep
  <2> QED
    BY <2>1 DEF ListInv, Typed
<1>4. CASE \E c \in Callers : vSystemInit(c) \/ vSystemDeinit(c)
  BY <1>1, <1>4, CallerFrame
<1>5. ASSUME NEW t \in Tasks,
             SubscribeTest(t) \/ StoreBase(t) \/ Walk(t) \/ WalkEnds(t) \/ Exit(t)
      PROVE  next' = next
  BY <1>5 DEF SubscribeTest, StoreBase, Walk, WalkEnds, Exit
<1>6. CASE vSystemRequestShutdown \/ UNCHANGED vars
  BY <1>1, <1>6 DEF vSystemRequestShutdown, vars
<1> QED
  BY <1>1, <1>2, <1>3, <1>4, <1>5, <1>6 DEF Next, vSystemCriticalTaskSubscribe

\* Nothing keeps a shutdown in its loops: the list is not circular, and each thread
\* it waits for exists and has been told to exit.
THEOREM LoopsEnd == ASSUME Layered PROVE Spec => [](NoLoop /\ WaitsForTold)
<1>1. Init => NoLoop
  BY FromNull DEF Init, NoLoop
<1>2. ShutdownInv /\ NoLoop /\ [Next]_vars => NoLoop'
  BY NextNoLoop
<1>3. ShutdownInv /\ TellInv => WaitsForTold
  <2> SUFFICES ASSUME ShutdownInv, TellInv, NEW c \in Callers, caller[c] = "wait",
                      tmp_sub[c] # NULL
               PROVE  tmp_sub[c] \in flagged
                      /\ task[tmp_sub[c]] \in {"working", "exited"}
    BY DEF WaitsForTold
  <2>1. tmp_sub[c] \in Tasks
    BY DEF ShutdownInv, IInv, Typed, Threads
  <2>2. tmp_sub[c] \in flagged
    BY <2>1, FromHead DEF TellInv
  <2> QED
    BY <2>2 DEF ShutdownInv, StopInv
<1> QED
  BY <1>1, <1>2, <1>3, Inductive, TellSpec, PTL DEF Spec

=============================================================================
