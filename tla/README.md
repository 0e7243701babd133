# A verification of the fresknode firmware

fresknode is the firmware of an ultra-wideband ranging node: an STM32F405 under
ChibiOS/RT with a DW1000 radio, an EEPROM that holds the board's identity, a USB
serial console and a UART over which range results are reported. Anchors stay
in place and answer; rangers ask them in turn and measure the distance.

This directory holds TLA+ modules of the parts of `src/` that decide something,
TLC configurations that check them on small instances, and TLAPS proofs for all
values of the constants. The repository has no tests, and its README describes
only ChibiOS, so the code, its comments and its configuration (`chconf.h`,
`halconf.h`, `board.h`) are the reference. ChibiOS, the DW1000 driver with its
ranging modules, and debug_print are git submodules whose contents are absent:
they appear only as `src/` uses them, and `PROJECT.json` marks them external.

To repeat a check: `tlc -config <run>.cfg <module>`; a proof: `tlapm <module>.tla`.
`PROJECT.json` lists the runs, what each definition stands for line by line, the
hazards, and for each property a mutation of the code that violates it.

## 1. Inventory

| Component | State | Operations | Interacts with |
|---|---|---|---|
| Radio interrupt path (`exti.c`, `main.c` 116-200) | `trp`, the thread's event, the EXT channel; the radio's status and mask | `start_interrupt_handler`, `start_thd`, `extcb1` (ISR), `myThread` | the radio by an edge; main() by `dw`; the kernel by events and priorities |
| Serial range report (`my_uart.c`) | `range_data`, `serial_data`, the UART's output queue | `serial_write_range`, `Aux1DataPumpTask`, `start_serial` | writers and pump share the slot without a lock |
| System start and shutdown (`system_init.c`) | `system_state`, `shutdown_requested`, the list of critical tasks | `vSystemInit`, `vSystemDeinit`, `vSystemRequestShutdown`, `vSystemCriticalTaskSubscribe` | any threads call it; it waits for the tasks to exit |
| Time measurement (`timer.c`) | `timex`: last, total, vector, counter, running | `init_timer`, `start_timer`, `get_timer_us`, `stop_timer`, `print_timex` | the cycle counter; whoever preempts it |
| Boot and ranging loop (`main.c`) | id, role, short address, `dw`, `per_loop`, `dst` | the boot sequence; sensors, requests, sleeps, receiver recovery | the radio and the ranging module, which switch the receiver on their own |
| EEPROM and device identity (`main.c` 58-102, `eeprom.c`) | the EEPROM, the SPI bus and its select line, `devid` | `eeprom_init`, `eeprom_select`, `eeprom_read`, `eeprom_write`, `get_euid`, `get_role` | the memory chip, which may not answer, and which lives through resets |
| USB console (`usb_related.c`) | USB driver state, endpoints, `SDU1`'s queue, `ctrl` | `usbstartup`, `get_descriptor`, `usb_event`, `sof_handler`, `myUsbInput` | the host; main(), which attaches `dw` later |
| Thread scheduling (`chconf.h`) | who has the CPU | preemption by priority, no time slices | every thread above |
| DFU bootloader entry (`bootloader.c`) | one word of RAM, which survives a reset | `vBootloaderStartupCheck`, `vBootloaderResetAndStartDFU` | `__early_init`, where its call is commented out |
| Board (`board.h`, `board.c`, `mcuconf.h`) | modes, pulls, levels and functions of 144 pins, clocks, DMA streams | `__early_init`, `palInit` with the default configuration, `boardInit` | every driver; the lines of the radio and the memory |
| Hard faults (`main.c` 298-350) | LEDs | breakpoint, three LEDs in turn | nothing gets the system out of it but a reset |
| Second USB module, version information, scripts | – | – | no behaviour of their own |

What is hard in this code, and what would make each component correct:

- *Interrupt path.* The EXT channel sees edges, the radio holds a level. If one
  wake-up is lost the line stays high and no further edge comes. The thread is
  started before `dw.hal` is assigned. Correct: no interrupt is lost, none is
  served before the driver's data is there, every cause is acknowledged.
- *Serial report.* One slot, several threads, no lock, a printer that may block
  half-way. Correct: what is printed was stored, at most once, in order.
- *Start and shutdown.* An unlocked list, an unlocked state, a wait without
  timeout. Correct: nobody gets lost from the list, drivers outlive the tasks
  that use them, a shutdown completes.
- *Timer.* Wraps of the counter and of the total, rounding, preemption between
  stop and restart, a vector that is indexed without a check. Correct: no write
  outside, the total is the time measured, a printed difference is the time of
  one measurement.
- *Boot and loop.* Ids come from a chip that may not answer and include two
  bytes of ordinary memory; receivers fall silent and only a periodic recovery
  helps. Correct: no board takes an anchor's place; answers have time; no
  receiver stays off.
- *Boot.* A reset may come anywhere, but only the microcontroller is reset by it:
  the radio keeps running, the memory stays in its transaction, the word for the
  bootloader stays set. Whether the next boot finds them right depends on pull
  resistors, output types and the order of writes to pads. Correct: whatever was
  interrupted, each boot reads its own id and starts a radio it has reset; no
  line is driven by two; each driver finds its pins, streams and clock.
- *Console.* It runs four seconds before the driver is attached, tests the bus
  once and then waits without bound. Correct: each key is executed once, on an
  attached driver, and none is left unanswered.

## 2. Modules

| Module | Stands for | Composes or implements |
|---|---|---|
| `Kernel` | the scheduling rule | used by SerialPump, Lifecycle, Console |
| `IrqService` | promise of the interrupt path | abstract |
| `Exti` | interrupt path | implements IrqService |
| `LossyReports` | promise of the serial report | abstract |
| `SerialPump`, `MCSerialPump` | `my_uart.c` and its priorities | implements LossyReports |
| `SafeStop` | promise of the shutdown | abstract |
| `Lifecycle`, `MCLifecycle` | `system_init.c` and its priorities | implements SafeStop |
| `Timer` | `timer.c` | |
| `Identity` | EEPROM read, roles, addresses | used by Ranger |
| `Ranger` | one board's main() | |
| `UsbDescriptors` | what a host reads | used by Console |
| `KeyChannel` | promise of the console | abstract |
| `Console` | USB driver callbacks, input thread, main() until it attached the driver | implements KeyChannel |
| `Pins` | `board.h`, the clocks and DMA streams of `mcuconf.h` | used by Boot |
| `Boot`, `MCBoot` | from reset to the loop: `bootloader.c`, `board.c`, `eeprom.c`, main()'s way through the hardware | |
| `ExtiProofs`, `SerialPumpProofs`, `LifecycleProofs`, `ShutdownProofs`, `TimerProofs`, `RangerProofs`, `ConsoleProofs`, `BootProofs` | theorems | `ShutdownProofs` extends `LifecycleProofs` |

### Kernel

A ready thread of higher priority preempts. `CH_CFG_TIME_QUANTUM` is 0, so
threads of the same priority do not: who has the CPU keeps it until it sleeps
or waits, also across a preemption by a higher priority. `holder[p]` is the
thread of priority p that had the CPU last; it excludes its equals as long as it
is ready. Three modules rest on this rule, and the mutants `Runs_timeSlice`
show that with time slices their properties fail.

### Exti

The state is that of `exti.c` (`trp`, the event, the thread's position), of the
EXT channel (armed, edge latched) and of the radio (reset pad, mask, status).
main() is the sequence of its steps from reset to `dw1000_init`; the ISR is
`extcb1`; the thread is `ThreadEntry`, `EvtWaitAny`, then `dw1000_irq_event`
as read, acknowledge, read again until nothing is set. `RadioRaises` may come at
any moment. Assumed of the external parts: `dw1000_irq_event` returns only when
it has read a status without set bits (an edge-triggered use of it needs that),
and the radio's interrupts are unmasked in `dw1000_init` and masked by reset.
The initial states include a radio that an earlier run left running with bits
set, since a reset of the microcontroller does not reset the radio.
`MainHasCpu` follows from the priorities: main() at NORMALPRIO runs when the
thread at HIGHPRIO waits, or is inside an SPI transfer.

### SerialPump

A record is the number of the call that stored it; a field of the slot is the
number of the call that wrote the field last, so a torn record is visible.
`serial_write_range` is `Call`, one `StoreField` per field in any order (the
compiler may reorder plain stores), `StoreFlag`, `Return`. The pump is `Tick`,
`Poll`, one `LoadArg` per field, `PutFrame` into the queue, `Clear`, and blocks
in `PumpReady` while the queue is full. No file in `src/` calls
`serial_write_range`; the caller, a ranging callback, would be in a submodule
and run in the interrupt thread. Both settings are checked: writers at the
pump's priority, and one at HIGHPRIO. The case SERIAL_ROUND_RESULTS of the pump
is left out: nothing stores that value.

### SafeStop and Lifecycle

`SafeStop` is what a safe shutdown promises: members join, are told, leave, and
only when all have left is the system down. `Lifecycle` implements it: a task is
a member from the end of its subscription to its exit, `flagged` are the told,
and the phase follows from the drivers and `system_state`.

One action per access to shared memory: the guard, the store of the state, the
sleep, the drivers, the walk of the list, the store of a link, the store of the
terminator. Threads interleave as `Kernel` says, with priorities from
`MCLifecycle`. A failed assertion halts the system. Critical tasks exit when
they are told to terminate. `LateSubscribers` says whether a task may subscribe
during a shutdown. `system_init.c` is not in the current build; the module says
what happens to a program that uses it. The list is what is reached from its head
(`From`), defined as the least set closed under `next`, so that proofs about it
need no induction.

### Timer

`now` is the true time in cycles, the program sees it modulo `WordModulus`.
`get_timer_us` is two actions, before and after the point where the measurement
is stopped and not yet restarted, and time may pass there if `Preemptible`. A
step that writes behind `timevector` sets `corrupt`, and the model ends.
`init_timer` may come at any time, also while the timer runs: as in the code,
`running` stays, and the next measurement has no start time.

The total, `accumulated_time`, has 32 bits and counts microseconds, so it wraps
after 71.6 minutes. The properties hold across these wraps and say how: the
total is the time measured modulo 2^32 us (`Excess`), and `print_timex` subtracts
entries as unsigned numbers, so that a difference is the time of its measurement
although the log descends where the total wrapped. `taken` remembers, for each
entry, the true cycles of that measurement.

### Identity and Ranger

`get_euid` reads eight bytes from 0xFA: six of the EUI-48, and then, past the
end, the bytes 0x00 and 0x01. An id is the pair of these; the ids of `get_role`
end in 0xffff because boards ship with erased memory. A memory that does not
answer reads as zeros or ones, of which zeros are an id of NODE2.

`Ranger` runs main() from reset: `get_euid`, the role, `dw1000_init`, the
receiver, then the loop: sensors, the anchor's sleep or the ranger's four
requests, the recovery every `LoopsPerRecovery` loops in its three steps. One
tick is a millisecond, and as a sleep of n ticks ends on the n-th tick, the time
it takes in full is n - 1 to n milliseconds. `RadioEvent` is the interrupt
thread that may switch the receiver either way between any two steps. The
branches for NODE3 and for address 65001 are left out: no id has that role, no
role that address.

### Pins and Boot

`Pins` has each port's setup as `board.h` gives it, as the pins that differ from
a floating input: outputs, open drains, pulls, initial levels, alternate
functions. Output speeds are left out, and so are the alternate functions of
pins in another mode. `AFRL`/`AFRH`, `ODR` and the rest enter through these
sets. The clocks are computed from crystal and PLL settings; a driver's pins
and DMA streams are those of `mcuconf.h`, `eeprom.h`, `my_uart.c` and `exti.c`.

`Boot` has a pin's level as a function of its setup, of the output register
(`low`) and of the pulls: `Drives` and `Level`. main() is the sequence of its
steps; `palInit` sets up one port per step. A transaction with the memory is
acquire, select, header, bytes, unselect, release, as in `eeprom.c`. The memory
itself is external: deselected it is ready, selected it takes a header, in
another state it takes a header for data, and the address wraps behind 0xFF.
Nothing in `src/` calls `eeprom_write`, so `Write` lets any thread do it in the
loop. A missing memory, or one that is not listening, leaves the data line to its
pull resistor. The radio is external as well: its reset line clears it.

`Reset`, `PowerCycle` and `vBootloaderResetAndStartDFU` restart from any state:
pins become inputs, variables are initialized; the radio, the memory and the
word survive, unless power is lost, when the word is anything. `checks` says
whether the check is compiled into `__early_init`; it is not at present, and
both are covered. A hard fault may come at any step; without a debugger the
breakpoint of the handler either locks the processor up or, if it is passed, the
LEDs are toggled for ever.

### UsbDescriptors, KeyChannel and Console

`KeyChannel` is what the console promises who types: keys are executed one after
another without a gap, but for those cut off when the host configures the device
anew; a key in hand is executed although a configuration comes in between.
`Console` implements it, fairness included: the key in hand is the one that the
input thread has got and not yet executed (`InHand`), and the cut is `before`,
the last key typed before the latest configuration.

The configuration descriptor is the sequence of its parts with their lengths,
numbers and endpoints; `Acceptable` is what makes a host configure the device.
What its port can supply (`budget`) is one of `Budgets` and may change with each
reset of the bus; a host that cannot supply `bMaxPower` refuses.
`Console` has the bus (reset, address, configuration with `usb_event`, keys that
the host offers until they are taken), the input thread with its test, its wait
without timeout and its switch, and main() up to `dw1000_init`. All commands are
one: they go through `usb_dw->hal`. If that is still null the outcome is
undefined and the model ends (`alive` in KeyChannel). `usb_event` ignores suspend, wake-up and stall,
and so does the model; the start-of-frame hook only flushes output.

## 3. Runs

| Run | Constants | Distinct states | Question |
|---|---|---|---|
| `boot` | 2 resets, checked and not, memory fitted and not | 251 900 | does every boot, whatever the one before was interrupted in, find radio, memory, word and pins as it needs them? |
| `exti` | 3 causes | 419 | is any interrupt lost, or served too early? does the path implement IrqService? |
| `serial_equal` | 2 writers, 4 calls, 1 frame | 3 798 | is the unlocked slot safe among equals? |
| `serial_irq` | 1 writer at HIGHPRIO, 4 calls | 16 132 | what is left when the writer preempts the pump? |
| `serial_skips` | as above | violation | is every record printed? |
| `lifecycle_safe` | 2 callers, 3 tasks above them | 6 216 | do list, drivers and shutdown work when tasks outrank callers? do they implement SafeStop? |
| `lifecycle_late` | 1 caller, 3 tasks, late subscribers | violation | has everybody been signaled who is waited for? |
| `lifecycle_preempt` | 3 tasks of different priority | violation | does the list keep everybody? |
| `timer_accounts` | 3 entries, 3-bit counter and total, 2 cycles per us, 18 cycles | 6 601 044 | is the log in bounds, the total what was measured, a printed difference the time of its measurement? |
| `timer_gap` | 3 entries, 4 bits, 3 cycles per us, 20 cycles | violation | is the result the time from start? |
| `ranger` | 5 boards, recovery every 4 loops | 7 190 | roles, addresses, time to answer, deafness, liveness |
| `console` | 3 keys, 3 resets, 1 key of queue, ports of 100 and 500 mA | 30 343 | does the console implement KeyChannel? are keys executed on an attached driver, and all? who refuses the device? |

Why these bounds are enough for the cases that matter:

- `boot`: two resets give three boots: one that is interrupted anywhere, one that
  starts from what is left and is interrupted itself, one that starts from that.
  A write changes the byte 0x01, which is part of the id, or 0x10, which is not.
  The theorems cover any number of resets and any EUI-48.
- `exti`: with three causes one can be handled, one raised during the handling
  and one after it. The state has no other parameter.
- Serial: two writers make the overlap of writers possible; four calls let two
  records be stored while one is printed and another while the pump is blocked;
  a queue of one frame is full as soon as it holds one. The theorems cover the
  other sizes of the first setting.
- Lifecycle: three tasks are the least for which a middle element, a walk, and a
  lost link occur. Two callers are the least for a race of start and shutdown.
- Timer: a vector of three wraps and overflows within the bound. With a word of
  8 and two cycles per microsecond, 18 cycles are more than two periods of the
  counter and one of the total (16 cycles), so that the log does descend: with
  four measurements it does so also after the vector has wrapped.
- Ranger: the five boards are two anchors (the first and the last address), one
  board of each ranger role and one unknown; each may misread. The recovery
  comes in the fourth loop; the theorems cover the other periods.
- Console: three resets allow one in each state of the input thread, three keys
  one per configuration. A queue of one makes the host wait. Of the two ports
  one refuses the device and one accepts it, and a reset may change the port.

Violations. `serial_skips`: the slot is no buffer. `lifecycle_late`: a task that
subscribes while the shutdown waits is waited for without having been told to
terminate. `lifecycle_preempt`: two subscriptions interleave and one is lost.
`timer_gap`: time that passes between stop and restart inside `get_timer_us` is
missing; the bounds are such that nothing wraps before that. Each is a disagreement with a line quoted in `PROJECT.json`.

Related facts that have no run: with `CallsInTime = FALSE` a measurement longer
than 29.8 s (2^32 cycles at 144 MHz) loses whole periods, and with
`StopsOnce = FALSE` a second `stop_timer` takes a duration for a start time and
may write behind the vector: all three properties of the timer then fail. What
`get_timer_us` returns is the time from start only for the first 71.6 minutes,
and `timer.h` does not say so; the properties are modulo that wrap. A command typed before main() has printed the
address line goes through a null pointer: `NoUseBeforeAttach` says that no later
one does. `vSystemInit` admits a stopped system and then sleeps for ever, since
the shutdown stopped the SysTick. No property is violated by that sleep;
`RunningHasTick` says that such a system never runs again.

Disagreements of comments with the code that no run is about:

- `bootloader.c` 90 announces the bootloader; the jump into it is commented out,
  and so is the call of the check in `board.c` 57. If the call is compiled in, a
  request ends in `while (1)`, once (`OneHangPerRequest`), and needs a reset.
- `main.c` 301 says that the handler is called from a `HardFault_HandlerAsm`
  that nothing defines; the registers it reads from its argument are then not
  those of the fault.
- Comments of `board.h` call pins "(input pullup)" that the tables below set up
  as outputs or pulled down.
- `bMaxPower` is 250 units of 2 mA, its comment says 100 mA: a port that grants
  only 100 mA refuses the device. The run has such a port, and `Enumerates` says
  that this is the only reason for a refusal.
- `usb_related.c` 274 enables "the endpoints specified into the configuration",
  but `ep2config` (253) allows packets of 16 bytes on endpoint 2, and its
  descriptor (105) announces 8. Nothing is sent through endpoint 2, so a host does
  not notice; `Enumerates` compares sizes on the bulk endpoints, where they agree.
- `eeprom_write` sends no write-enable command, and the id that `get_euid` reads
  ends with the bytes 0x00 and 0x01, so that writing there changes the role.
- `mcuconf.h` gives the DMA stream of UART3's transmitter to SPI2's receiver too.
  That driver is switched off; the serial port goes through SD3, without DMA.

`CHECK_DEADLOCK FALSE` is set where a system really stops: Lifecycle (the system
halts or has shut down), Timer (the clock's bound, or a corrupted object),
Console (all keys and resets are used up), Boot (a lockup, or a loop of the
check, with no resets left).

## 4. Fairness

- `Exti`: weak fairness of the ISR (the hardware takes pending interrupts), of
  the interrupt thread (nothing of higher priority runs for ever) and of main()
  when it has the CPU. None for the radio.
- `SerialPump`: weak fairness of threads that may run, of ticks and of the UART.
  Nobody has to call `serial_write_range`.
- `Lifecycle`: weak fairness of calls and subscriptions begun and of tasks told
  to exit. Nobody has to begin.
- `SafeStop`: who is told leaves, who has to be told is told, and an empty system
  goes down; all follow from the fairness of `Lifecycle`.
- `Boot`: weak fairness of main()'s steps. No reset, write or fault has to come.
- `Ranger`: weak fairness of main(), since the interrupt thread does not keep the
  CPU for ever, and of time. None for the radio.
- `KeyChannel`: a linked device takes the keys typed, and a key taken is executed;
  both follow from the fairness of `Console`.
- `Console`: weak fairness of threads that may run, and of what USB hardware and
  host complete once begun (address, configuration, a key offered). Nobody has
  to type or to reset the bus.

## 5. Proofs

Every invariant and action property that a passing run checks is also a theorem.
So are the type invariants of all modules with variables and the safety part of
all four refinements. Two of the lines that a run refutes are theorems under the
condition that the run breaks (`LayeredAllSignaled`, `ReturnsTime`).

Liveness stays with TLC, but for most of it a safety core is proved, which leaves
only fairness to be argued on paper: that whoever waits, waits for what can come
(`NoLost` for IrqService, `LoopsEnd` for `DeinitCompletes`, `NoLostWakeup` for
`KeyAnswered`, `MainNeverWaits` for `Settles`), that steps come nearer to their
end (`BootGetsOn` for `Settles`, `RecoveryComesNearer` for `ReceiverRecovers`),
and that what is due stays due (`DueStaysDue` for `StoredIsReported`).

**ExtiProofs** (any set of causes). `NoLostInterrupt` is inductive only together
with the stages of the start-up (`StagesInv`: what main() has done fixes `hal`,
`ext`, `trp`) and with `QuietInv`: since the reset pulse the radio is masked
until `dw1000_init`, so nothing is latched, signalled or served before.
Theorems: `TypeCorrect`, `NoLost`, `ServesAttachedDriver`, `ArmedWithThread`
(the test of `trp` in `extcb1` never discards an edge), and `ImplementsService`.

**SerialPumpProofs** (any number of writers, calls and frames). Whatever the
priorities, the types hold (`TypeCorrect`): that there are no more frames than
calls needs `CountInv`, which bounds frames by the flags raised, a flag that is
still to be raised being owed by a call in progress. Under the assumption
`Cooperative`, all writers have the pump's priority, and the invariant says that
whoever is at the slot has the CPU (`OneAtTheSlot`), that the slot holds the last
record or a writer is replacing it (`SlotInv`), and that what the pump has loaded
is one record not newer than that (`PumpInv`). Lemmas about `Kernel` turn "may
run" into "is alone". Theorems: `CooperativeNoTornFrame`, `CooperativeReports`
(SerialPump implements LossyReports), `CooperativeFramesAdvance`. Under
`Preemptive`, all writers share one higher priority, as in `serial_irq`: the pump
still only runs when no writer is in its call, so what it loads is newer than the
last frame, though not of one record (`AheadInv`). Theorems:
`PreemptedFramesAdvance`, and `PreemptedReportsEachField`: what remains of
LossyReports is that each field by itself implements it. Under either assumption,
`DueStaysDue`: a record that the pump is to find is printed, or a newer one is,
before it can be lost (`Due`).

**LifecycleProofs** (any callers, tasks and priorities). `TypeCorrect` needs that
a task on its walk holds a pointer (`Walking`). Assuming that all callers share
a priority (`Cooperative`), each caller is where `system_state` says and one
that is about to change it has the CPU (`Inside`), from which
`CooperativeOneTransition` follows; with `TickInv`, that nobody is about to
start the drivers without a SysTick, `CooperativeRunningHasTick`.

**ShutdownProofs** (any number of callers and tasks), assuming `Layered`: callers
share a priority, tasks share a higher one, and none subscribes during a
shutdown. Both conditions are needed: `lifecycle_preempt` and `lifecycle_late`
break them and the list with them. `ListInv` says that a subscribing task has
the CPU, that pointers lead to tasks that have joined, that a fresh subscription
has no successor, and that who walks is in the list; `StopInv` that a shutdown
finds nobody subscribing, and that each working task is reached from where the
waiting caller stands (`Remaining`). Since "reached" is the least closed set, a
step over a link and an append need one argument each (`FromNext`,
`LinkReaches`) and no induction. `TellInv` follows the loop that tells the tasks:
each listed task has been told or is still reached from where the loop stands;
the waiting loop finds all told. `NoLoop`, that no subscription is reached from
its own successor, is kept by an append because the appended one is fresh.
Theorems: `LayeredListKeeps`, `LayeredShutdown`, `LayeredImplementsSafeStop`,
`LayeredAllSignaled`, and `LoopsEnd`, what a shutdown's loops need to end.

**TimerProofs** (any vector length, word width and clock). Assuming `StopsOnce`:
`NeverPastTheEnd`, from the invariant that a running timer has room for an
entry, and `TypeCorrect`. Assuming `Measurable` (also, no measurement longer
than the counter's period; nothing about the total or the length of the run):
`MeasuredIsCounted`, from `SumInv`, that the total with as many words added as it
has wrapped is the time measured (`TotalAdds`, `Reduced`), and `LogDiffers`, from
`LogInv`, that the last entry is the total, and what an unsigned subtraction gives
back (`Subtraction`). `Sound` says when `last` is worth something although an
`init_timer` may clear it in the middle of a measurement. `FromStart` relates what
was measured to the time since the start: never more, and as much unless
something ran inside `get_timer_us`. Hence `PreemptionOnlyLoses` for every
program, and `ReturnsTime` for one in which nothing preempts it.

**RangerProofs** (any boards, recovery period and sleeps). The role and address
are those of the id read (`NamingInv`); only rangers with the two-way module get
to the requests (`AskingInv`); elapsed time and the rest of the sleep together
complete `range_delay` (`TimeInv`); deafness is behind `per_loop` (`DeafInv`).
`StepsToOn` counts main()'s steps to the next time it switches the receiver on,
eleven a loop at most. Theorems: `TypeCorrect`, `NoFalseAnchor`, `RequestsReachAnchors`,
`NeverDeafForLong`, `AnswersHaveTime`, `RecoveryComesNearer`.

**ConsoleProofs** (any queue, number of keys and resets). The keys executed, in
hand, queued and offered ascend (`OrderInv`), all that is on its way is newer
than the last configuration (`FreshInv`), and until the driver is attached only
early keys can have been taken (`AttachInv`). The refinement needs in addition that the keys behind the
one in hand stand in the queue without a gap, followed by the one that the host
offers, and on a configured bus up to the last key typed (`GapInv`). A thread waits without a timeout on an
empty queue only, and a configured host finds a queue that takes keys
(`NeverStuck`). The descriptors are proved by their parts: the lengths add up to
`wTotalLength` (`TotalLength`), interfaces and endpoints are as many as announced
(`EndpointCounts`) and each endpoint is initialized in its direction, those for
data with the size announced (`EndpointsAreConfigured`). So a device is
`Acceptable` to every port that supplies `bMaxPower`, and `HostsAccept`, which
assumes nothing of the ports, says that only the others refuse. Theorems: `TypeCorrect`, `ImplementsChannel`,
`StaleKeysGone`, `AnswersFindTheDriver`, `HostsAccept`, `NoLostWakeup`.

**BootProofs** (any EUI-48, any number of resets). `MagicInv`: a word that is set
is a request not yet spent. `PinsInv`: by the place where main() is, the ports
are set up, the select and reset lines are as they should be, and so are the
chips, since a line that is driven has the driven level (`Driven`). `IdInv`
follows the bytes of the transaction from the address pointer to `devid`.
`StartedInv`: no driver starts before the pins are set up. `BusInv`: the memory's
bus is taken within a transaction and nowhere else. `StepsLeft` counts main()'s
steps down to its loop. Theorems: `MainNeverWaits`, `BootGetsOn`,
`HangsWereAskedFor`, `RadioIsReset`, `HeaderIsHeader`, `BootsWithItsId`,
`Deselected`, `NoPinFights`, `PadsAreOutputs`, `StartedAreWired`, `TypeCorrect`.

Only model-checked: all liveness (`StoredIsReported`, `DeinitCompletes`,
`ReceiverRecovers`, `EveryAnchorAsked`, `KeyAnswered`, `Settles`, the fair parts
of IrqService, SafeStop and KeyChannel), which is out of the prover's reach.

## 6. Not modelled

- The DW1000 driver, the ranging protocol and the air: a submodule. So is what a
  console command does to an exchange in progress, and whether two boards that
  share an address (all those with role NODE2) confuse each other.
- The jump into the bootloader in ROM: commented out, and the ROM is not in
  `src/`.
- Whether a task may subscribe twice, which nothing in `src/` says or does.
- `modules/version_information`: constants without behaviour.
- `modules/usb/src/myusb.c`: not built, and empty when compiled, since
  `HAL_USE_USB` is tested before any header defines it.
- The text of printed lines, output speeds, the settings of drivers that are
  switched off, the hard-fault handler's reading of registers.

## 7. Plan

Done, in this order: Kernel, Exti with its abstract specification and proofs,
SerialPump likewise, Lifecycle, Timer with its bound, Identity and Ranger with
proofs, UsbDescriptors and Console; then Pins and Boot with proofs, SafeStop,
and the proofs of Lifecycle, Console, Timer and the rest of SerialPump; then
KeyChannel, the proofs of the descriptors, and the safety cores of most liveness
properties.

Next:

1. A composition of Exti and Ranger: the recovery against an interrupt in
   service, as far as it does not need the ranging protocol.
2. A second subscription of the same task in Lifecycle.
3. The safety core of the ranger's round of requests (`EveryAnchorAsked`).
