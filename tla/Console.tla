------------------------------ MODULE Console -------------------------------
(***************************************************************************)
(* The USB console (usb_related.c): usbstartup starts the USB driver and   *)
(* creates the input thread, which executes one command of the DW1000      *)
(* driver per key.  It runs long before main() has attached the driver,    *)
(* and it goes on through whatever a host does to the bus.                 *)
(*                                                                         *)
(* The thread and main() have the same priority, see Kernel.  The USB      *)
(* driver, the serial-over-USB queue and the host are outside src/.        *)
(***************************************************************************)

EXTENDS UsbDescriptors

CONSTANTS
    Budgets,        \* what ports can supply to the device, in units of 2 mA
    QueueLen,       \* keys that fit into the input queue of SDU1
    MaxKeys,        \* bound: keys typed
    MaxResets       \* bound: resets of the bus by the host

ASSUME BudgetAssumption == Budgets \subseteq Nat
ASSUME QueueAssumption  == QueueLen \in Nat \ {0}
ASSUME BoundAssumption  == MaxKeys \in Nat /\ MaxResets \in Nat

VARIABLES
    main,           \* how far main() is
    usb,            \* state of the USB driver
    endpoints,      \* the endpoints that are initialized
    receiving,      \* does SDU1 take keys from the host?
    queue,          \* the input queue of SDU1
    console,        \* where the input thread is
    ctrl,           \* what chnGetTimeout returned last
    executed,       \* the number of the command executed last
    fault,          \* the number of a command executed before main() had
                    \* attached the driver, 0 if none
    host,           \* what the host does
    budget,         \* what its port can supply, since the last reset of the bus
    typed,          \* keys typed
    offered,        \* is the last key typed still on the host's side?
    resets,         \* resets of the bus
    before,         \* keys typed before the bus was configured last
    early,          \* keys typed before main() printed the address line
    holder          \* the CPU, see Kernel

driver == <<usb, endpoints, receiving>>
input  == <<console, ctrl, executed, fault>>
typist == <<host, budget, typed, offered, resets, before, early>>
vars   == <<main, driver, queue, input, typist, holder>>

Threads == {"main", "input"}
Prio    == [t \in Threads |-> 64]       \* NORMALPRIO
Kernel  == INSTANCE Kernel

Commands == {"command", "other"}
Keys     == [n : 1 .. MaxKeys, kind : Commands]
Q_RESET  == [n |-> 0, kind |-> "other"] \* -2, as a char, is no command
Codes    == Keys \cup {Q_RESET}

Init ==
    /\ main = "usbstartup"
    /\ usb = "USB_STOP" /\ endpoints = {} /\ receiving = FALSE
    /\ queue = <<>>
    /\ console = "absent" /\ ctrl = Q_RESET /\ executed = 0 /\ fault = 0
    /\ host = "detached" /\ budget \in Budgets /\ typed = 0 /\ offered = {}
    /\ resets = 0 /\ before = 0 /\ early = 0
    /\ holder \in Kernel!Holders

(***************************************************************************)
(* main().                                                                 *)
(***************************************************************************)

\* Between the address line and dw1000_init main() does not wait for anything.
Ready == (IF main \in {"awake", "named", "attached"} THEN {"main"} ELSE {})
         \cup (IF console \in {"test", "fetch", "got"} THEN {"input"} ELSE {})

\* Mutant: equal priorities share the CPU in time slices.
Runs_timeSlice(t) == t \in Ready /\ holder' = Kernel!Dispatch(t, holder)

Runs(t) ==
    /\ Kernel!MayRun(t, Ready, holder)
    /\ holder' = Kernel!Dispatch(t, holder)

\* The driver is started, the bus connected, the input thread created; what
\* follows in main() reads the EEPROM and sleeps for 4.2 seconds.
usbstartup ==
    /\ main = "usbstartup"
    /\ main' = "sleeping"
    /\ usb' = "USB_READY"
    /\ console' = "test"
    /\ UNCHANGED <<endpoints, receiving, queue, ctrl, executed, fault, typist, holder>>

MainWakes ==
    /\ main = "sleeping"
    /\ main' = "awake"
    /\ UNCHANGED <<driver, queue, input, typist, holder>>

MainStep(from, to) ==
    /\ main = from
    /\ Runs("main")
    /\ main' = to
    /\ UNCHANGED <<driver, queue, input, typist>>

\* The address line, dw.hal, and then dw1000_init, which waits for its SPI
\* transfers; from here on main() is only another user of the driver.
AddressLine  == MainStep("awake", "named")
AttachDriver == MainStep("named", "attached")
DwInit       == MainStep("attached", "running")

Main == usbstartup \/ MainWakes \/ AddressLine \/ AttachDriver \/ DwInit

(***************************************************************************)
(* The bus and the callbacks of the USB driver.                            *)
(***************************************************************************)

\* The host resets the bus and starts over, perhaps with more or less power to
\* give away than before; usb_event ignores the reset.
BusReset ==
    /\ usb # "USB_STOP"
    /\ resets < MaxResets
    /\ resets' = resets + 1
    /\ usb' = "USB_READY"
    /\ endpoints' = {} /\ receiving' = FALSE
    /\ host' = "reset" /\ budget' \in Budgets /\ offered' = {}
    /\ UNCHANGED <<main, queue, input, typed, before, early, holder>>

SetAddress ==
    /\ usb = "USB_READY" /\ host = "reset"
    /\ usb' = "USB_SELECTED"
    /\ UNCHANGED <<main, endpoints, receiving, queue, input, typist, holder>>

\* What makes a host accept the device.
Acceptable ==
    /\ get_descriptor("device", 0) = {Device}
    /\ WellFormed
    /\ StringsAnswered
    /\ \E c \in get_descriptor("configuration", 0) : c[1].bMaxPower <= budget

Refuse ==
    /\ usb = "USB_SELECTED" /\ host = "reset"
    /\ ~Acceptable
    /\ host' = "refused"
    /\ UNCHANGED <<main, driver, queue, input, budget, typed, offered, resets, before,
                   early, holder>>

\* Mutant: the code leaves ctrl as it was.
AfterReset_keeps == ctrl

\* The char that Q_RESET, a negative code, becomes in ctrl.
AfterReset == Q_RESET

WakeWaiting ==
    IF console = "waiting"
    THEN console' = "got" /\ ctrl' = AfterReset
    ELSE UNCHANGED <<console, ctrl>>

\* Mutant: the second endpoint is not initialized.
usb_event_configured_oneEp ==
    /\ endpoints' = {1}
    /\ receiving' = TRUE
    /\ queue' = <<>>
    /\ WakeWaiting
    /\ UNCHANGED <<executed, fault>>

\* Mutant: the CDC subsystem is not reset.
usb_event_configured_noHook ==
    /\ endpoints' = DOMAIN EndpointConfigs
    /\ UNCHANGED <<receiving, queue, input>>

\* Mutant: the queue keeps what it holds.
usb_event_configured_keepsQueue ==
    /\ endpoints' = DOMAIN EndpointConfigs
    /\ receiving' = TRUE
    /\ WakeWaiting
    /\ UNCHANGED <<queue, executed, fault>>

\* usb_event(USB_EVENT_CONFIGURED): the endpoints are initialized, and
\* sduConfigureHookI empties the queue, wakes who waits there with Q_RESET, and
\* starts to receive.
usb_event_configured ==
    /\ endpoints' = DOMAIN EndpointConfigs
    /\ receiving' = TRUE
    /\ queue' = <<>>
    /\ WakeWaiting
    /\ UNCHANGED <<executed, fault>>

SetConfiguration ==
    /\ usb = "USB_SELECTED" /\ host = "reset"
    /\ Acceptable
    /\ usb' = "USB_ACTIVE"
    /\ host' = "configured"
    /\ usb_event_configured
    /\ before' = typed
    /\ UNCHANGED <<main, budget, typed, offered, resets, early, holder>>

\* Somebody presses a key; the host offers it until the device takes it.
Press(kind) ==
    /\ host = "configured" /\ offered = {}
    /\ typed < MaxKeys
    /\ typed' = typed + 1
    /\ early' = IF main \in {"sleeping", "awake"} THEN typed' ELSE early
    /\ offered' = {[n |-> typed', kind |-> kind]}
    /\ UNCHANGED <<main, driver, queue, input, host, budget, resets, before, holder>>

\* sduDataReceived: the key is taken while there is room, and a waiting thread
\* becomes ready; it looks at the queue again when it runs.
Receive ==
    /\ receiving
    /\ Len(queue) < QueueLen
    /\ \E key \in offered : queue' = Append(queue, key)
    /\ offered' = {}
    /\ console' = IF console = "waiting" THEN "fetch" ELSE console
    /\ UNCHANGED <<main, driver, ctrl, executed, fault, host, budget, typed,
                   resets, before, early, holder>>

Bus == BusReset \/ SetAddress \/ Refuse \/ SetConfiguration \/ Receive

(***************************************************************************)
(* The input thread, myUsbInput.                                           *)
(***************************************************************************)

InputStep(from, to) ==
    /\ console = from
    /\ Runs("input")
    /\ console' = to
    /\ UNCHANGED <<main, driver, typist>>

\* The state of the USB driver is tested once per key.
TestState ==
    /\ InputStep("test", IF usb = "USB_ACTIVE" THEN "fetch" ELSE "sleeping")
    /\ UNCHANGED <<queue, ctrl, executed, fault>>

\* A second is over.
InputWakes ==
    /\ console = "sleeping"
    /\ console' = "test"
    /\ UNCHANGED <<main, driver, queue, ctrl, executed, fault, typist, holder>>

\* chnGetTimeout(&SDU1, TIME_INFINITE): the next key, ...
GetKey ==
    /\ queue # <<>>
    /\ InputStep("fetch", "got")
    /\ ctrl' = queue[1]
    /\ queue' = Tail(queue)
    /\ UNCHANGED <<executed, fault>>

\* ... or a wait without a timeout.
GetWaits ==
    /\ queue = <<>>
    /\ InputStep("fetch", "waiting")
    /\ UNCHANGED <<queue, ctrl, executed, fault>>

\* The switch: each command goes through usb_dw->hal.
Execute ==
    /\ InputStep("got", "test")
    /\ executed' = IF ctrl = Q_RESET THEN executed ELSE ctrl.n
    /\ fault' = IF ctrl.kind = "command" /\ main \notin {"attached", "running"}
                THEN ctrl.n
                ELSE fault
    /\ UNCHANGED <<queue, ctrl>>

Input == TestState \/ InputWakes \/ GetKey \/ GetWaits \/ Execute

-----------------------------------------------------------------------------

\* What the program does through a null pointer is undefined: the model ends.
Next == fault = 0 /\ (Main \/ Input \/ Bus \/ \E kind \in Commands : Press(kind))

\* Threads that are ready run, sleeps end, and what the host has begun the USB
\* hardware and its driver complete.  Nobody has to type or to reset the bus.
Fairness == WF_vars(Main) /\ WF_vars(Input)
            /\ WF_vars(SetAddress) /\ WF_vars(SetConfiguration) /\ WF_vars(Receive)

Spec == Init /\ [][Next]_vars /\ Fairness

-----------------------------------------------------------------------------

\* Type correctness of the console, the USB driver, its queue and the host.
TypeOK ==
    /\ main \in {"usbstartup", "sleeping", "awake", "named", "attached", "running"}
    /\ usb \in {"USB_STOP", "USB_READY", "USB_SELECTED", "USB_ACTIVE"}
    /\ endpoints \subseteq DOMAIN EndpointConfigs
    /\ receiving \in BOOLEAN
    /\ Len(queue) <= QueueLen /\ \A i \in DOMAIN queue : queue[i] \in Keys
    /\ console \in {"absent", "test", "sleeping", "fetch", "waiting", "got"}
    /\ ctrl \in Codes
    /\ executed \in 0 .. MaxKeys
    /\ fault \in 0 .. MaxKeys
    /\ host \in {"detached", "reset", "configured", "refused"} /\ budget \in Budgets
    /\ typed \in 0 .. MaxKeys /\ before \in 0 .. typed /\ early \in 0 .. typed
    /\ offered \subseteq Keys /\ resets \in 0 .. MaxResets
    /\ holder \in Kernel!Holders

\* A command typed in answer to the address line finds dw.hal assigned, although
\* main() assigns it after the line: it does not give up the CPU in between.
\* Only keys typed earlier reach the null pointer.
NoUseBeforeAttach == fault <= early

\* When the host has configured the bus anew, no key from before is waiting to
\* be executed.
NoStaleKey ==
    host = "configured" => \A i \in DOMAIN queue : queue[i].n > before

\* The endpoint that descriptor d announces is there: initialized, for the
\* direction and the kind of transfer announced.
Configured(d) ==
    /\ d.number \in endpoints
    /\ EndpointConfigs[d.number].transfer = d.transfer
    /\ IF d.in THEN EndpointConfigs[d.number].in ELSE EndpointConfigs[d.number].out

\* The size of its packets is the one announced.
SizeAgrees(d) ==
    d.wMaxPacketSize = IF d.in THEN EndpointConfigs[d.number].in_maxsize
                               ELSE EndpointConfigs[d.number].out_maxsize

\* A host refuses the device for nothing but its power: what get_descriptor hands
\* out is well formed, and only a port with less than bMaxPower, 500 mA, turns it
\* away.  A host that configured it finds every endpoint that the configuration
\* descriptor announces; on those that carry data, the bulk ones, the packets
\* have the size announced too.  Not so on endpoint 2: ep2config gives it 16
\* bytes, its descriptor 8, and nothing is ever sent through it.
Enumerates ==
    /\ host = "refused" => budget < Top.bMaxPower
    /\ host = "configured" =>
        \A i \in DOMAIN Configuration : LET d == Configuration[i] IN
            d.type = "endpoint" =>
                Configured(d) /\ (d.transfer = "bulk" => SizeAgrees(d))

\* The console implements KeyChannel, whatever resets of the bus make
\* chnGetTimeout return: each key is executed at most once, in the order typed,
\* and only a new configuration makes a gap.
InHand == IF console = "got" /\ ctrl # Q_RESET THEN ctrl.n ELSE 0

Channel == INSTANCE KeyChannel WITH
    linked <- host = "configured",
    cut    <- before,
    held   <- InHand,
    alive  <- fault = 0

ChannelSpec == Channel!Spec

\* A key that somebody types is executed, unless the bus is reset or an early
\* command ends the program: neither the test
\* of the state before a wait without timeout nor the second of sleep, nor a
\* reset while the thread waits, leaves the console dead.
KeyAnswered ==
    \A n \in 1 .. MaxKeys :
        (\E key \in offered : key.n = n) ~>
            executed >= n \/ host # "configured" \/ before >= n \/ fault # 0

=============================================================================
