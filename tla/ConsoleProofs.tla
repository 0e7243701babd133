--------------------------- MODULE ConsoleProofs ----------------------------
(***************************************************************************)
(* Proofs about the USB console for any queue, any number of keys and any  *)
(* resets of the bus.                                                      *)
(***************************************************************************)

EXTENDS Console, SequenceTheorems, FiniteSetTheorems, TLAPS

USE DEF driver, input, typist

\* The switch has a key to execute.
Fetched == console = "got" /\ ctrl # Q_RESET

\* The keys keep the order in which they are typed.
OrderInv ==
    /\ queue \in Seq(Keys)
    /\ ctrl \in Codes
    /\ typed \in Nat /\ executed \in Nat /\ executed <= typed
    /\ offered \subseteq Keys
    /\ \A key \in offered : key.n = typed /\ typed > executed
    /\ \A i \in 1 .. Len(queue) : executed < queue[i].n /\ queue[i].n <= typed
    /\ \A i, j \in 1 .. Len(queue) : i < j => queue[i].n < queue[j].n
    /\ \A key \in offered, i \in 1 .. Len(queue) : queue[i].n < typed
    /\ Fetched =>
          /\ executed < ctrl.n /\ ctrl.n <= typed
          /\ \A i \in 1 .. Len(queue) : ctrl.n < queue[i].n
          /\ \A key \in offered : ctrl.n < typed

\* What is stale is gone before the host is configured again.
FreshInv ==
    /\ before \in Nat /\ before <= typed
    /\ host # "configured" => offered = {}
    /\ host = "configured" =>
          /\ \A key \in offered : key.n > before
          /\ \A i \in 1 .. Len(queue) : queue[i].n > before

LEMMA InitInv == Init => OrderInv /\ FreshInv
BY BoundAssumption DEF Init, OrderInv, FreshInv, Fetched, Codes, Keys, Q_RESET

LEMMA NextInv == ASSUME OrderInv, FreshInv, [Next]_vars PROVE OrderInv' /\ FreshInv'
<1> USE DEF OrderInv, FreshInv, Fetched
<1>1. CASE Main
  BY <1>1 DEF Main, usbstartup, MainWakes, AddressLine, AttachDriver, DwInit, MainStep
<1>2. CASE BusReset \/ SetAddress \/ Refuse
  BY <1>2 DEF BusReset, SetAddress, Refuse
<1>3. CASE SetConfiguration
  BY <1>3 DEF SetConfiguration, usb_event_configured, WakeWaiting, AfterReset, Codes
<1>4. ASSUME NEW kind \in Commands, Press(kind) PROVE OrderInv' /\ FreshInv'
  <2>1. /\ offered = {} /\ host = "configured"
        /\ typed' = typed + 1 /\ typed < MaxKeys
        /\ offered' = {[n |-> typed', kind |-> kind]}
        /\ UNCHANGED <<queue, console, ctrl, executed, before, host>>
    BY <1>4 DEF Press
  <2>2. [n |-> typed', kind |-> kind] \in Keys
    BY <2>1, BoundAssumption DEF Keys
  <2>3. \A key \in offered' : key.n = typed' /\ typed' > executed' /\ key.n > before'
    BY <2>1
  <2>4. OrderInv'
    <3>1. ASSUME NEW i \in 1 .. Len(queue) PROVE queue[i].n \in Nat
      <4>1. queue[i] \in Keys
        BY ElementOfSeq
      <4> QED
        BY <4>1, BoundAssumption DEF Keys
    <3>2. \A i \in 1 .. Len(queue) : queue[i].n < typed'
      BY <2>1, <3>1
    <3>3. \A key \in offered', i \in 1 .. Len(queue') : queue'[i].n < typed'
      BY <2>1, <3>2
    <3>4. Fetched => ctrl.n \in Nat /\ ctrl.n < typed'
      BY <2>1, BoundAssumption DEF Codes, Keys
    <3>5. /\ queue' \in Seq(Keys) /\ ctrl' \in Codes /\ offered' \subseteq Keys
          /\ typed' \in Nat /\ executed' \in Nat /\ executed' <= typed'
      BY <2>1, <2>2
    <3>6. \A i \in 1 .. Len(queue') : executed' < queue'[i].n /\ queue'[i].n <= typed'
      BY <2>1, <3>1, <3>2
    <3> QED
      BY <2>1, <2>3, <3>3, <3>4, <3>5, <3>6
  <2>5. FreshInv'
    BY <2>1, <2>3
  <2> QED
    BY <2>4, <2>5
<1>5. CASE Receive
  <2>1. PICK key \in offered : queue' = Append(queue, key)
    BY <1>5 DEF Receive
  <2>2. /\ key \in Keys /\ key.n = typed
        /\ queue' \in Seq(Keys) /\ Len(queue') = Len(queue) + 1
        /\ \A i \in 1 .. Len(queue) : queue'[i] = queue[i]
        /\ queue'[Len(queue) + 1] = key
    BY <2>1
  <2> QED
    BY <1>5, <2>1, <2>2 DEF Receive
<1>6. CASE TestState \/ InputWakes \/ GetWaits
  BY <1>6 DEF TestState, InputWakes, GetWaits, InputStep
<1>7. CASE GetKey
  <2>1. /\ queue # <<>> /\ ctrl' = queue[1] /\ queue' = Tail(queue)
        /\ UNCHANGED <<typed, executed, offered, before, host>>
    BY <1>7 DEF GetKey, InputStep
  <2>2. /\ queue' \in Seq(Keys) /\ Len(queue') = Len(queue) - 1 /\ Len(queue) >= 1
        /\ \A i \in 1 .. Len(queue') : queue'[i] = queue[i + 1]
    BY <2>1
  <2>3. ctrl' \in Keys
    BY <2>1, <2>2
  <2> QED
    BY <2>1, <2>2, <2>3 DEF Codes
<1>8. CASE Execute
  BY <1>8 DEF Execute, InputStep
<1>9. CASE UNCHANGED vars
  BY <1>9 DEF vars
<1> QED
  BY <1>1, <1>2, <1>3, <1>4, <1>5, <1>6, <1>7, <1>8, <1>9 DEF Next, Bus, Input


LEMMA Inductive == Spec => [](OrderInv /\ FreshInv)
BY InitInv, NextInv, PTL DEF Spec

\* A host that has configured the bus anew gets no answer to a key from before,
\* whatever the queue held.
THEOREM StaleKeysGone == Spec => []NoStaleKey
<1>1. FreshInv /\ OrderInv => NoStaleKey
  BY DEF FreshInv, OrderInv, NoStaleKey
<1> QED
  BY <1>1, Inductive, PTL

-----------------------------------------------------------------------------

\* What main() has done, the input thread and the CPU.
AttachInv ==
    /\ main \in {"usbstartup", "sleeping", "awake", "named", "attached", "running"}
    /\ holder \in Kernel!Holders
    /\ main = "usbstartup" =>
          usb = "USB_STOP" /\ host = "detached" /\ typed = 0 /\ console = "absent"
    /\ usb = "USB_STOP" => host = "detached"
    /\ early \in Nat /\ early <= typed
    /\ main \in {"usbstartup", "sleeping", "awake"} => early = typed
    /\ main = "named" => holder[64] = "main"
    /\ fault \in Nat /\ fault <= early

\* main() and the input thread take turns only where one of them waits.
LEMMA Turns ==
    ASSUME holder \in Kernel!Holders, NEW t \in Threads, Runs(t)
    PROVE  /\ holder' \in Kernel!Holders /\ holder'[64] = t
           /\ holder[64] \in Ready => holder[64] = t
<1>1. 64 \in DOMAIN holder /\ Prio[t] = 64
  BY DEF Kernel!Holders, Prio, Threads
<1>2. holder' = [holder EXCEPT ![64] = t]
  BY <1>1 DEF Runs, Kernel!Dispatch
<1>3. holder[64] \in Ready => holder[64] = t
  BY <1>1 DEF Runs, Kernel!MayRun
<1> QED
  BY <1>1, <1>2, <1>3 DEF Kernel!Holders, Prio

LEMMA NextAttach == ASSUME OrderInv, AttachInv, [Next]_vars PROVE AttachInv'
<1> USE DEF AttachInv
<1>1. CASE usbstartup \/ MainWakes
  BY <1>1 DEF usbstartup, MainWakes
<1>2. CASE AddressLine \/ AttachDriver \/ DwInit
  <2>1. Runs("main") /\ "main" \in Threads
    BY <1>2 DEF AddressLine, AttachDriver, DwInit, MainStep, Threads
  <2>2. holder' \in Kernel!Holders /\ holder'[64] = "main"
    BY <2>1, Turns
  <2> QED
    BY <1>2, <2>2 DEF AddressLine, AttachDriver, DwInit, MainStep
<1>3. CASE BusReset \/ SetAddress \/ Refuse
  BY <1>3 DEF BusReset, SetAddress, Refuse
<1>4. CASE SetConfiguration
  BY <1>4 DEF SetConfiguration, usb_event_configured, WakeWaiting
<1>5. ASSUME NEW kind \in Commands, Press(kind) PROVE AttachInv'
  BY <1>5 DEF Press, OrderInv
<1>6. CASE Receive \/ InputWakes
  BY <1>6 DEF Receive, InputWakes
<1>7. CASE TestState \/ GetKey \/ GetWaits \/ Execute
  <2>1. Runs("input") /\ "input" \in Threads
    BY <1>7 DEF TestState, GetKey, GetWaits, Execute, InputStep, Threads
  <2>2. holder' \in Kernel!Holders /\ (holder[64] \in Ready => holder[64] = "input")
    BY <2>1, Turns
  <2>3. main # "named"
    BY <2>2 DEF Ready
  <2>4. UNCHANGED <<main, usb, host, typed, early>> /\ main # "usbstartup"
    BY <1>7 DEF TestState, GetKey, GetWaits, Execute, InputStep
  <2>5. CASE Execute /\ fault' # fault
    <3>1. /\ fault' = ctrl.n /\ console = "got" /\ ctrl.kind = "command"
          /\ main \notin {"attached", "running"}
      BY <2>5 DEF Execute, InputStep
    <3>2. ctrl # Q_RESET
      BY <3>1 DEF Q_RESET
    <3>3. ctrl.n \in Nat /\ ctrl.n <= typed
      BY <3>1, <3>2, BoundAssumption DEF OrderInv, Fetched, Codes, Keys
    <3>4. early = typed
      BY <3>1, <2>3
    <3> QED
      BY <2>2, <2>3, <2>4, <3>1, <3>3, <3>4
  <2>6. CASE fault' = fault
    BY <2>2, <2>3, <2>4, <2>6
  <2> QED
    BY <1>7, <2>5, <2>6 DEF TestState, GetKey, GetWaits
<1>8. CASE UNCHANGED vars
  BY <1>8 DEF vars
<1> QED
  BY <1>1, <1>2, <1>3, <1>4, <1>5, <1>6, <1>7, <1>8 DEF Next, Main, Bus, Input

LEMMA AttachSpec == Spec => []AttachInv
<1>1. Init => AttachInv
  BY DEF Init, AttachInv
<1>2. OrderInv /\ AttachInv /\ [Next]_vars => AttachInv'
  BY NextAttach
<1> QED
  BY <1>1, <1>2, Inductive, PTL DEF Spec

\* A command typed in answer to the address line finds the driver attached: only
\* keys typed before it reach the null pointer.
THEOREM AnswersFindTheDriver == Spec => []NoUseBeforeAttach
<1>1. AttachInv => NoUseBeforeAttach
  BY DEF AttachInv, NoUseBeforeAttach
<1> QED
  BY <1>1, AttachSpec, PTL

-----------------------------------------------------------------------------

\* The rest of the types, and what the host has found configured.
TypeInv ==
    /\ usb \in {"USB_STOP", "USB_READY", "USB_SELECTED", "USB_ACTIVE"}
    /\ endpoints \subseteq DOMAIN EndpointConfigs
    /\ receiving \in BOOLEAN
    /\ Len(queue) <= QueueLen
    /\ console \in {"absent", "test", "sleeping", "fetch", "waiting", "got"}
    /\ host \in {"detached", "reset", "configured", "refused"} /\ budget \in Budgets
    /\ typed <= MaxKeys
    /\ resets \in 0 .. MaxResets
    /\ host = "configured" => endpoints = DOMAIN EndpointConfigs

LEMMA NextTypes == ASSUME OrderInv, TypeInv, [Next]_vars PROVE TypeInv'
<1> USE BoundAssumption, QueueAssumption DEF TypeInv
<1>1. CASE Main
  BY <1>1 DEF Main, usbstartup, MainWakes, AddressLine, AttachDriver, DwInit, MainStep
<1>2. CASE BusReset \/ SetAddress \/ Refuse
  <2>1. resets' \in 0 .. MaxResets
    BY <1>2 DEF BusReset, SetAddress, Refuse
  <2>2. UNCHANGED <<queue, console, typed>> /\ endpoints' \in {endpoints, {}}
        /\ host' \in {"reset", "refused", host} /\ receiving' \in {receiving, FALSE}
        /\ usb' \in {"USB_READY", "USB_SELECTED", usb}
        /\ (endpoints' # endpoints => host' = "reset")
        /\ budget' \in Budgets
    BY <1>2 DEF BusReset, SetAddress, Refuse
  <2> QED
    BY <2>1, <2>2
<1>3. CASE SetConfiguration
  BY <1>3 DEF SetConfiguration, usb_event_configured, WakeWaiting
<1>4. ASSUME NEW kind \in Commands, Press(kind) PROVE TypeInv'
  BY <1>4 DEF Press, OrderInv
<1>5. CASE Receive
  <2>1. Len(queue') <= QueueLen
    BY <1>5 DEF Receive, OrderInv
  <2> QED
    BY <1>5, <2>1 DEF Receive
<1>6. CASE TestState \/ InputWakes \/ GetWaits \/ Execute
  BY <1>6 DEF TestState, InputWakes, GetWaits, Execute, InputStep
<1>7. CASE GetKey
  <2>1. Len(queue') <= QueueLen
    BY <1>7 DEF GetKey, OrderInv
  <2> QED
    BY <1>7, <2>1 DEF GetKey, InputStep
<1>8. CASE UNCHANGED vars
  BY <1>8 DEF vars
<1> QED
  BY <1>1, <1>2, <1>3, <1>4, <1>5, <1>6, <1>7, <1>8 DEF Next, Bus, Input

LEMMA TypesSpec == Spec => []TypeInv
<1>1. Init => TypeInv
  <2>1. 0 \in 0 .. MaxResets /\ 0 <= MaxKeys /\ 0 <= QueueLen /\ Len(<<>>) = 0
    BY BoundAssumption, QueueAssumption
  <2> QED
    BY <2>1 DEF Init, TypeInv
<1>2. OrderInv /\ TypeInv /\ [Next]_vars => TypeInv'
  BY NextTypes
<1> QED
  BY <1>1, <1>2, Inductive, PTL DEF Spec

\* The console, its queue and the bus keep their types.
THEOREM TypeCorrect == Spec => []TypeOK
<1>1. OrderInv /\ FreshInv /\ AttachInv /\ TypeInv => TypeOK
  <2> SUFFICES ASSUME OrderInv, FreshInv, AttachInv, TypeInv PROVE TypeOK
    OBVIOUS
  <2>1. /\ typed \in 0 .. MaxKeys /\ executed \in 0 .. MaxKeys
        /\ before \in 0 .. typed /\ early \in 0 .. typed /\ fault \in 0 .. MaxKeys
    BY BoundAssumption DEF OrderInv, FreshInv, AttachInv, TypeInv
  <2> QED
    BY <2>1 DEF TypeOK, OrderInv, AttachInv, TypeInv
<1> QED
  BY <1>1, Inductive, AttachSpec, TypesSpec, PTL

-----------------------------------------------------------------------------

(***************************************************************************)
(* What a host reads.  Sequence and descriptor lengths are constants, so   *)
(* the sum and the counts are evaluated.                                   *)
(***************************************************************************)

\* The bytes of the ten descriptors begin where the ones before them end.
LEMMA TotalLength == Offset[Len(Configuration) + 1] = Top.wTotalLength
<1> DEFINE n == Len(Configuration)
           Sum == << 0, 9, 18, 23, 28, 32, 37, 44, 53, 60, 67 >>
           Rule(f) == [i \in 1 .. n + 1 |->
                        IF i = 1 THEN 0 ELSE f[i - 1] + Configuration[i - 1].bLength]
<1>1. n = 10
  BY DEF Configuration
<1>2. Sum = Rule(Sum)
  <2>1. DOMAIN Sum = 1 .. 11
    OBVIOUS
  <2>2. ASSUME NEW i \in 2 .. 11
        PROVE  Sum[i] = Sum[i - 1] + Configuration[i - 1].bLength
    BY DEF Configuration, Top, Interface, Functional, Endpoint
  <2>3. Sum[1] = 0
    OBVIOUS
  <2> QED
    BY <1>1, <2>1, <2>2, <2>3
<1>3. Offset = CHOOSE f : f = Rule(f)
  BY DEF Offset
<1>4. Offset = Rule(Offset)
  <2> HIDE DEF Sum, Rule
  <2> QED
    BY <1>2, <1>3
<1>5. ASSUME NEW i \in 2 .. 11
      PROVE  Offset[i] = Offset[i - 1] + Configuration[i - 1].bLength
  BY <1>1, <1>4
<1>6. Offset[1] = 0
  BY <1>1, <1>4
<1>7. Offset[11] = 67
  <2>1. /\ Offset[2] = 9 /\ Offset[3] = 18 /\ Offset[4] = 23 /\ Offset[5] = 28
    BY <1>5, <1>6 DEF Configuration, Top, Interface, Functional, Endpoint
  <2>2. /\ Offset[6] = 32 /\ Offset[7] = 37 /\ Offset[8] = 44 /\ Offset[9] = 53
    BY <1>5, <2>1 DEF Configuration, Top, Interface, Functional, Endpoint
  <2> QED
    BY <1>5, <2>2 DEF Configuration, Top, Interface, Functional, Endpoint
<1> QED
  BY <1>1, <1>7 DEF Top

LEMMA Pair == \A a, b : a # b => Cardinality({a, b}) = 2
<1> SUFFICES ASSUME NEW a, NEW b, a # b PROVE Cardinality({a, b}) = 2
  OBVIOUS
<1>1. IsFiniteSet({a}) /\ Cardinality({a}) = 1
  BY FS_Singleton
<1>2. Cardinality({a} \cup {b}) = 2
  BY <1>1, FS_AddElement
<1>3. {a} \cup {b} = {a, b}
  OBVIOUS
<1> QED
  BY <1>2, <1>3

\* Each descriptor of the configuration is of the type that its place says.
LEMMA PlacesOfTypes ==
    /\ DOMAIN Configuration = 1 .. 10 /\ Len(Configuration) = 10
    /\ Interfaces = {2, 8}
    /\ {j \in 1 .. 10 : Configuration[j].type = "endpoint"} = {7, 9, 10}
<1>1. DOMAIN Configuration = 1 .. 10 /\ Len(Configuration) = 10
  BY DEF Configuration
<1>2. /\ Configuration[1].type = "configuration"
      /\ \A i \in {2, 8} : Configuration[i].type = "interface"
      /\ \A i \in {3, 4, 5, 6} : Configuration[i].type = "functional"
      /\ \A i \in {7, 9, 10} : Configuration[i].type = "endpoint"
  BY DEF Configuration, Top, Interface, Functional, Endpoint
<1>3. \A i \in 1 .. 10 : i \in {1} \cup {2, 8} \cup {3, 4, 5, 6} \cup {7, 9, 10}
  OBVIOUS
<1> QED
  BY <1>1, <1>2, <1>3 DEF Interfaces

\* Both interfaces are followed by as many endpoints as they announce.
LEMMA EndpointCounts ==
    \A i \in Interfaces : Cardinality(EndpointsAfter(i)) = Configuration[i].endpoints
<1> USE PlacesOfTypes
<1>1. EndpointsAfter(2) = {7}
  <2>1. ASSUME NEW j \in EndpointsAfter(2) PROVE j = 7
    <3>1. j \in {7, 9, 10} /\ \A k \in 3 .. j : k \notin {2, 8}
      BY <2>1 DEF EndpointsAfter, Interfaces
    <3> QED
      BY <3>1
  <2>2. 7 \in EndpointsAfter(2)
    BY DEF EndpointsAfter, Interfaces
  <2> QED
    BY <2>1, <2>2
<1>2. EndpointsAfter(8) = {9, 10}
  <2>1. ASSUME NEW j \in EndpointsAfter(8) PROVE j \in {9, 10}
    <3>1. j \in {7, 9, 10} /\ j \in 9 .. 10
      BY <2>1 DEF EndpointsAfter
    <3> QED
      BY <3>1
  <2>2. ASSUME NEW j \in {9, 10} PROVE j \in EndpointsAfter(8)
    <3>1. \A k \in 9 .. j : k \in 1 .. 10 /\ k \notin Interfaces
      OBVIOUS
    <3> QED
      BY <3>1 DEF EndpointsAfter, Interfaces
  <2> QED
    BY <2>1, <2>2
<1>3. Configuration[2].endpoints = 1 /\ Configuration[8].endpoints = 2
  BY DEF Configuration, Interface
<1>4. Cardinality({7}) = 1 /\ Cardinality({9, 10}) = 2
  <2>1. 9 # 10
    OBVIOUS
  <2>2. Cardinality({9, 10}) = 2
    BY <2>1, Pair, Zenon
  <2>3. Cardinality({7}) = 1
    BY FS_Singleton, Zenon
  <2> QED
    BY <2>2, <2>3
<1> QED
  BY <1>1, <1>2, <1>3, <1>4

\* No host refuses the device for what it says of itself, if the port can supply
\* what it asks for.
LEMMA Accepted == ASSUME budget \in Budgets, budget >= Top.bMaxPower PROVE Acceptable
<1>1. WellFormed
  <2>1. Cardinality(Interfaces) = 2
    <3>1. 2 # 8
      OBVIOUS
    <3>2. Cardinality({2, 8}) = 2
      BY <3>1, Pair, Zenon
    <3> QED
      BY <3>2, PlacesOfTypes
  <2> QED
    BY <2>1, TotalLength, EndpointCounts DEF WellFormed, Top
<1>2. StringsAnswered
  BY DEF StringsAnswered, get_descriptor, Device
<1>3. get_descriptor("device", 0) = {Device}
      /\ get_descriptor("configuration", 0) = {Configuration}
  BY DEF get_descriptor
<1>4. Configuration[1].bMaxPower <= budget
  BY BudgetAssumption DEF Configuration, Top
<1> QED
  BY <1>1, <1>2, <1>3, <1>4 DEF Acceptable

\* ... and each endpoint it announces is in the tables of the driver, those for data
\* with the size of the packets.
LEMMA EndpointsAreConfigured ==
    ASSUME endpoints = DOMAIN EndpointConfigs
    PROVE  \A i \in DOMAIN Configuration : LET d == Configuration[i] IN
               d.type = "endpoint" =>
                   Configured(d) /\ (d.transfer = "bulk" => SizeAgrees(d))
<1>1. Configured(Configuration[7]) /\ Configuration[7].transfer # "bulk"
  BY DEF Configuration, Endpoint, EndpointConfigs, Configured
<1>2. ASSUME NEW i \in {9, 10}
      PROVE  Configured(Configuration[i]) /\ SizeAgrees(Configuration[i])
  BY DEF Configuration, Endpoint, EndpointConfigs, Configured, SizeAgrees
<1>3. \A i \in DOMAIN Configuration :
          Configuration[i].type = "endpoint" => i = 7 \/ i \in {9, 10}
  BY PlacesOfTypes
<1> QED
  BY <1>1, <1>2, <1>3

\* Only a port that cannot supply the 500 mA refuses the device; every other host
\* finds the endpoints it was told of, after any resets of the bus.
PowerInv == host = "refused" => budget < Top.bMaxPower

THEOREM HostsAccept == Spec => []Enumerates
<1>1. Init => PowerInv
  BY DEF Init, PowerInv
<1>2. TypeInv /\ PowerInv /\ [Next]_vars => PowerInv'
  <2> SUFFICES ASSUME TypeInv, PowerInv, [Next]_vars PROVE PowerInv'
    OBVIOUS
  <2>1. CASE Refuse
    <3>1. ~Acceptable /\ budget' = budget /\ budget \in Budgets
      BY <2>1 DEF Refuse, TypeInv
    <3>2. ~(budget >= Top.bMaxPower)
      BY <3>1, Accepted
    <3>3. budget \in Nat /\ Top.bMaxPower \in Nat
      BY <3>1, BudgetAssumption DEF Top
    <3> QED
      BY <3>1, <3>2, <3>3 DEF PowerInv
  <2>2. CASE BusReset \/ SetConfiguration
    BY <2>2 DEF BusReset, SetConfiguration, PowerInv
  <2>3. CASE Main \/ SetAddress \/ Receive \/ Input \/ UNCHANGED vars
             \/ \E kind \in Commands : Press(kind)
    BY <2>3 DEF vars, Main, usbstartup, MainWakes, AddressLine, AttachDriver, DwInit,
       MainStep, SetAddress, Receive, Press, Input, InputStep, TestState, InputWakes,
       GetKey, GetWaits, Execute, PowerInv
  <2> QED
    BY <2>1, <2>2, <2>3 DEF Next, Bus
<1>3. PowerInv /\ TypeInv => Enumerates
  BY EndpointsAreConfigured DEF TypeInv, PowerInv, Enumerates
<1> QED
  BY <1>1, <1>2, <1>3, TypesSpec, PTL DEF Spec

-----------------------------------------------------------------------------

(***************************************************************************)
(* The console implements KeyChannel.                                      *)
(***************************************************************************)

\* The last key taken out of the queue, or cut off.
Taken == IF InHand # 0 THEN InHand ELSE executed
Base  == IF Taken < before THEN before ELSE Taken

\* Behind it the keys stand in the queue without a gap, and behind these the one
\* that the host offers; nothing else is on its way while the bus is configured.
GapInv ==
    /\ \A i \in 1 .. Len(queue) : queue[i].n = Base + i
    /\ \A key \in offered : key.n = Base + Len(queue) + 1
    /\ Base + Len(queue) <= typed
    /\ host = "configured" /\ offered = {} => typed = Base + Len(queue)

LEMMA BaseType ==
    ASSUME OrderInv, FreshInv
    PROVE  InHand \in Nat /\ Taken \in Nat /\ Base \in Nat
           /\ Taken <= typed /\ Base <= typed /\ (InHand # 0 <=> Fetched)
BY BoundAssumption
   DEF OrderInv, FreshInv, InHand, Taken, Base, Fetched, Codes, Keys, Q_RESET

\* Only taking and executing a key change what is in hand.
LEMMA HandUnchanged ==
    ASSUME AttachInv,
           Main \/ TestState \/ InputWakes \/ GetWaits \/ Receive \/ SetAddress
              \/ Refuse \/ UNCHANGED vars
    PROVE  InHand' = InHand
<1>1. CASE usbstartup \/ TestState \/ InputWakes \/ GetWaits \/ Receive
  <2>1. ctrl' = ctrl /\ console' \in {console, "test", "fetch", "sleeping", "waiting"}
    BY <1>1 DEF usbstartup, TestState, InputWakes, GetWaits, InputStep, Receive
  <2>2. console' # console => console # "got"
    BY <1>1 DEF usbstartup, TestState, InputWakes, GetWaits, InputStep, Receive,
       AttachInv
  <2> QED
    BY <2>1, <2>2 DEF InHand
<1>2. CASE MainWakes \/ AddressLine \/ AttachDriver \/ DwInit \/ SetAddress \/ Refuse
           \/ UNCHANGED vars
  <2>1. UNCHANGED <<ctrl, console>>
    BY <1>2 DEF MainWakes, AddressLine, AttachDriver, DwInit, MainStep, SetAddress,
       Refuse, vars
  <2> QED
    BY <2>1 DEF InHand
<1> QED
  BY <1>1, <1>2 DEF Main

\* Everything but taking a key and a new configuration leaves Base as it is.
LEMMA GapNext ==
    ASSUME OrderInv, FreshInv, AttachInv, GapInv, [Next]_vars PROVE GapInv'
<1> USE BaseType
<1>1. CASE Main \/ TestState \/ InputWakes \/ GetWaits \/ SetAddress \/ Refuse
           \/ UNCHANGED vars
  <2>1. UNCHANGED <<queue, offered, typed, before, executed, InHand>>
    BY <1>1, HandUnchanged DEF Main, usbstartup, MainWakes, AddressLine, AttachDriver,
       DwInit, MainStep, TestState, InputWakes, GetWaits, InputStep, SetAddress,
       Refuse, vars
  <2>2. host' \in {host, "refused"}
    BY <1>1 DEF Main, usbstartup, MainWakes, AddressLine, AttachDriver, DwInit,
       MainStep, TestState, InputWakes, GetWaits, InputStep, SetAddress, Refuse, vars
  <2> QED
    BY <2>1, <2>2 DEF GapInv, Taken, Base
<1>2. CASE BusReset
  BY <1>2 DEF BusReset, GapInv, Taken, Base, InHand
<1>3. CASE SetConfiguration
  <2>1. queue' = <<>> /\ offered' = {} /\ before' = typed /\ typed' = typed
        /\ executed' = executed
    BY <1>3 DEF SetConfiguration, usb_event_configured, FreshInv
  <2>2. InHand' = InHand
    BY <1>3 DEF SetConfiguration, usb_event_configured, WakeWaiting, AfterReset, InHand
  <2>3. Base' = typed
    BY <2>1, <2>2 DEF Taken, Base, OrderInv
  <2> QED
    BY <2>1, <2>3 DEF GapInv, OrderInv
<1>4. ASSUME NEW kind \in Commands, Press(kind) PROVE GapInv'
  <2>1. /\ offered = {} /\ host = "configured" /\ typed' = typed + 1
        /\ offered' = {[n |-> typed', kind |-> kind]}
        /\ UNCHANGED <<queue, before, executed, InHand>>
    BY <1>4 DEF Press, InHand
  <2>2. Base' = Base
    BY <2>1 DEF Taken, Base
  <2>3. typed = Base + Len(queue) /\ Len(queue) \in Nat
    BY <2>1 DEF GapInv, OrderInv
  <2>4. \A key \in offered' : key.n = Base + Len(queue) + 1
    BY <2>1, <2>3
  <2>5. Base + Len(queue) <= typed' /\ offered' # {}
    BY <2>1, <2>3
  <2> QED
    BY <2>1, <2>2, <2>4, <2>5 DEF GapInv
<1>5. CASE Receive
  <2>1. PICK key \in offered : queue' = Append(queue, key)
    BY <1>5 DEF Receive
  <2>2. /\ key \in Keys /\ key.n = typed /\ key.n = Base + Len(queue) + 1
        /\ Len(queue') = Len(queue) + 1 /\ Len(queue) \in Nat
        /\ \A i \in 1 .. Len(queue) : queue'[i] = queue[i]
        /\ queue'[Len(queue) + 1] = key
    BY <2>1 DEF OrderInv, GapInv
  <2>3. offered' = {} /\ UNCHANGED <<typed, before, executed, InHand>>
    BY <1>5 DEF Receive, InHand
  <2>4. Base' = Base
    BY <2>3 DEF Taken, Base
  <2>5. \A i \in 1 .. Len(queue') : queue'[i].n = Base + i
    <3>1. \A i \in 1 .. Len(queue') : i \in 1 .. Len(queue) \/ i = Len(queue) + 1
      BY <2>2
    <3>2. \A i \in 1 .. Len(queue) : queue'[i].n = Base + i
      BY <2>2 DEF GapInv
    <3>3. queue'[Len(queue) + 1].n = Base + (Len(queue) + 1)
      BY <2>2
    <3> QED
      BY <3>1, <3>2, <3>3
  <2>6. typed = Base + Len(queue')
    BY <2>2
  <2> QED
    BY <2>3, <2>4, <2>5, <2>6 DEF GapInv
<1>6. CASE GetKey
  <2>1. /\ queue # <<>> /\ ctrl' = queue[1] /\ queue' = Tail(queue)
        /\ console = "fetch" /\ console' = "got"
        /\ UNCHANGED <<typed, executed, offered, before, host>>
    BY <1>6 DEF GetKey, InputStep
  <2>2. /\ Len(queue') = Len(queue) - 1 /\ Len(queue) \in Nat /\ Len(queue) >= 1
        /\ \A i \in 1 .. Len(queue') : queue'[i] = queue[i + 1]
    BY <2>1 DEF OrderInv
  <2>3. queue[1].n = Base + 1
    BY <2>2 DEF GapInv
  <2>4. InHand' = Base + 1
    BY <2>1, <2>3 DEF InHand, Q_RESET
  <2>5. Base' = Base + 1
    BY <2>1, <2>4 DEF Taken, Base, FreshInv
  <2>6. \A i \in 1 .. Len(queue') : queue'[i].n = Base' + i
    <3>1. \A i \in 1 .. Len(queue') :
              /\ i + 1 \in 1 .. Len(queue)
              /\ Base + (i + 1) = Base' + i
      BY <2>2, <2>5
    <3> QED
      BY <2>2, <3>1 DEF GapInv
  <2>7. Base' + Len(queue') = Base + Len(queue)
    BY <2>2, <2>5
  <2>8. Base' + Len(queue') + 1 = Base + Len(queue) + 1
    BY <2>7
  <2> QED
    BY <2>1, <2>6, <2>7, <2>8 DEF GapInv
<1>7. CASE Execute
  <2>1. /\ console = "got" /\ console' = "test"
        /\ executed' = (IF ctrl = Q_RESET THEN executed ELSE ctrl.n)
        /\ UNCHANGED <<queue, ctrl, typed, offered, before, host>>
    BY <1>7 DEF Execute, InputStep
  <2>2. Taken' = Taken
    BY <2>1 DEF Taken, InHand, Fetched
  <2> QED
    BY <2>1, <2>2 DEF GapInv, Base
<1> QED
  BY <1>1, <1>2, <1>3, <1>4, <1>5, <1>6, <1>7 DEF Next, Bus, Input

LEMMA GapSpec == Spec => []GapInv
<1>1. Init => GapInv
  BY DEF Init, GapInv, Taken, Base, InHand
<1>2. OrderInv /\ FreshInv /\ AttachInv /\ GapInv /\ [Next]_vars => GapInv'
  BY GapNext
<1> QED
  BY <1>1, <1>2, Inductive, AttachSpec, PTL DEF Spec

\* Every step of the console is one of KeyChannel or none.
LEMMA StepRefines ==
    ASSUME OrderInv, FreshInv, AttachInv, GapInv, [Next]_vars
    PROVE  [Channel!Next]_(Channel!vars)
<1> USE BaseType DEF Channel!vars, Channel!Next
<1>1. CASE Main \/ TestState \/ InputWakes \/ GetWaits \/ Receive \/ SetAddress
           \/ Refuse \/ UNCHANGED vars
  <2>1. UNCHANGED <<typed, before, executed, fault, InHand>>
    BY <1>1, HandUnchanged DEF Main, usbstartup, MainWakes, AddressLine, AttachDriver,
       DwInit, MainStep, TestState, InputWakes, GetWaits, InputStep, Receive,
       SetAddress, Refuse, vars
  <2>2. (host = "configured") = (host' = "configured")
    BY <1>1 DEF Main, usbstartup, MainWakes, AddressLine, AttachDriver, DwInit,
       MainStep, TestState, InputWakes, GetWaits, InputStep, Receive, SetAddress,
       Refuse, vars
  <2> QED
    BY <2>1, <2>2
<1>2. CASE Next /\ BusReset
  BY <1>2 DEF Next, BusReset, InHand, Channel!Unlink
<1>3. CASE Next /\ SetConfiguration
  <2>1. InHand' = InHand /\ before' = typed /\ host' = "configured"
        /\ UNCHANGED <<typed, executed, fault>>
    BY <1>3 DEF SetConfiguration, usb_event_configured, WakeWaiting, AfterReset, InHand
  <2> QED
    BY <1>3, <2>1 DEF Next, Channel!Link
<1>4. ASSUME Next, NEW kind \in Commands, Press(kind)
      PROVE  [Channel!Next]_(Channel!vars)
  BY <1>4 DEF Next, Press, InHand, Channel!Type
<1>5. CASE Next /\ GetKey
  <2>1. /\ queue # <<>> /\ ctrl' = queue[1] /\ console = "fetch" /\ console' = "got"
        /\ UNCHANGED <<typed, executed, fault, before, host>>
    BY <1>5 DEF GetKey, InputStep
  <2>2. Len(queue) \in Nat /\ Len(queue) >= 1
    BY <2>1 DEF OrderInv
  <2>3. queue[1].n = Base + 1 /\ queue[1].n <= typed
    BY <2>2 DEF GapInv, OrderInv
  <2>4. InHand = 0 /\ InHand' = Base + 1
    BY <2>1, <2>3 DEF InHand, Q_RESET
  <2>5. Channel!NextKey = Base + 1
    BY <2>4 DEF Channel!NextKey, Base, Taken
  <2> QED
    BY <1>5, <2>1, <2>3, <2>4, <2>5 DEF Next, Channel!Take
<1>6. CASE Next /\ Execute
  <2>1. /\ console = "got" /\ console' = "test"
        /\ executed' = (IF ctrl = Q_RESET THEN executed ELSE ctrl.n)
        /\ fault' = (IF ctrl.kind = "command" /\ main \notin {"attached", "running"}
                     THEN ctrl.n ELSE fault)
        /\ UNCHANGED <<typed, before, host>>
    BY <1>6 DEF Execute, InputStep
  <2>2. InHand' = 0
    BY <2>1 DEF InHand
  <2>3. CASE ctrl = Q_RESET
    BY <2>1, <2>2, <2>3 DEF InHand, Q_RESET
  <2>4. CASE ctrl # Q_RESET
    <3>1. InHand = ctrl.n /\ InHand # 0
      BY <2>1, <2>4 DEF Fetched, InHand
    <3>2. (fault' = 0) \in BOOLEAN
      OBVIOUS
    <3> QED
      BY <1>6, <2>1, <2>2, <2>4, <3>1, <3>2 DEF Next, Channel!Execute
  <2> QED
    BY <2>3, <2>4
<1> QED
  BY <1>1, <1>2, <1>3, <1>4, <1>5, <1>6 DEF Next, Bus, Input

\* What somebody types is executed key by key, in order and without a gap, but
\* for the keys that a new configuration cuts off, for any queue and any resets.
THEOREM ImplementsChannel == Spec => Channel!Safety
<1>1. Init => Channel!Init
  BY DEF Init, Channel!Init, InHand
<1>2. OrderInv /\ FreshInv /\ AttachInv /\ GapInv /\ [Next]_vars => [Channel!Next]_(Channel!vars)
  BY StepRefines
<1> QED
  BY <1>1, <1>2, Inductive, AttachSpec, GapSpec, PTL DEF Spec, Channel!Safety

-----------------------------------------------------------------------------

\* What stands between a key and the thread, apart from time: the thread waits
\* with a key in the queue, or the queue takes no keys.
NeverStuck ==
    /\ console = "waiting" => queue = <<>>
    /\ host = "configured" => receiving

\* No wake-up is lost: the thread that waits without a timeout has an empty queue
\* to wait for, and the host that types has a queue that takes its keys, through
\* any resets.
THEOREM NoLostWakeup == Spec => []NeverStuck
<1>1. Init => NeverStuck
  BY DEF Init, NeverStuck
<1>2. OrderInv /\ NeverStuck /\ [Next]_vars => NeverStuck'
  <2> SUFFICES ASSUME OrderInv, NeverStuck, [Next]_vars PROVE NeverStuck'
    OBVIOUS
  <2> USE DEF NeverStuck
  <2>1. CASE Main
    BY <2>1 DEF Main, usbstartup, MainWakes, AddressLine, AttachDriver, DwInit, MainStep
  <2>2. CASE BusReset \/ SetAddress \/ Refuse \/ SetConfiguration
    BY <2>2 DEF BusReset, SetAddress, Refuse, SetConfiguration, usb_event_configured,
       WakeWaiting
  <2>3. CASE Receive
    BY <2>3 DEF Receive
  <2>4. CASE Input
    BY <2>4 DEF Input, InputStep, TestState, InputWakes, GetKey, GetWaits, Execute
  <2>5. ASSUME NEW kind \in Commands, Press(kind) PROVE NeverStuck'
    BY <2>5 DEF Press
  <2> QED
    BY <2>1, <2>2, <2>3, <2>4, <2>5 DEF Next, Bus, vars
<1> QED
  BY <1>1, <1>2, Inductive, PTL DEF Spec

=============================================================================
