-------------------------------- MODULE Boot --------------------------------
(***************************************************************************)
(* From the reset of the microcontroller to the ranging loop: the check    *)
(* for the DFU bootloader (bootloader.c), __early_init, the setup of the   *)
(* pins and boardInit (board.c), and what main() does to the hardware on   *)
(* its way (main.c, eeprom.c), with the memory read and written over SPI   *)
(* byte by byte.  A reset, the loss of power or a hard fault may come      *)
(* between any two steps; the radio, the memory chip and the word that     *)
(* asks for the bootloader live through a reset.                           *)
(***************************************************************************)

EXTENDS Pins, Sequences, FiniteSets

CONSTANTS
    Eui,            \* the six bytes of the EUI-48 in the memory
    MaxResets       \* bound: resets and losses of power

ASSUME EuiAssumption    == Eui \in Seq(0 .. 255) /\ Len(Eui) = 6
ASSUME ResetsAssumption == MaxResets \in Nat

VARIABLES
    main,           \* where the program is
    checks,         \* is the call in __early_init compiled in?
    magic,          \* the word at BOOTLOADER_MAGIC_POSITION
    configured,     \* how many ports palInit has set up
    low,            \* the pins whose bit in the output register is 0
    drivers,        \* the drivers that are started
    bus,            \* is the memory's SPI bus acquired?
    op,             \* the transaction under way
    buffer,         \* the bytes it has received
    devid,
    fitted,         \* is there a memory chip?
    chip,           \* what the memory expects next
    addr,           \* its address pointer
    cells,          \* its bytes 0x00 and 0x01; the rest is erased
    radio,          \* "reset" until dw1000_init configures it
    resets,
    asked,          \* requests for the bootloader, by call or by chance
    hangs           \* the boots that the check has ended

soft   == <<configured, low, drivers, bus, op, buffer, devid>>
memory == <<chip, addr, cells>>
count  == <<resets, asked, hangs>>
vars   == <<main, checks, magic, soft, fitted, memory, radio, count>>

MAGIC == "0xdeadbeef"
Zeros == <<0, 0, 0, 0, 0, 0, 0, 0>>

EEPROM_UID_ADDRESS == 250       \* 0xFA

\* The transactions of eeprom.c: the command, the address, the bytes to send.
NoOp           == [command |-> "none", address |-> 0, data |-> <<>>]
eeprom_read    == [command |-> "0x03", address |-> EEPROM_UID_ADDRESS, data |-> <<>>]
eeprom_write(a, byte) == [command |-> "0x02", address |-> a, data |-> <<byte>>]

\* Where main() is in control of itself, and where it is not any more.
Steps == {"check", "clock", "ports", "board", "usb", "eeprom_init", "acquire",
          "select", "header", "data", "unselect", "release", "sleep",
          "inReset", "released", "ext", "attach", "loop"}
Ends  == {"dfuLoop", "fault", "blink1", "blink2", "blink3", "lockup"}

(***************************************************************************)
(* The level of a pin as the program leaves it: what it drives, or what    *)
(* its pull resistor makes of an undriven line.                            *)
(***************************************************************************)

Setup(pin) == IF pin[1] <= configured THEN pal_default_config[pin[1]] ELSE AllInputs

Drives(pin) ==
    LET s == Setup(pin) IN
    IF pin[2] \notin s.output THEN "none"
    ELSE IF pin \in low THEN "low"
    ELSE IF pin[2] \in s.opendrain THEN "none" ELSE "high"

Level(pin) ==
    LET s == Setup(pin) IN
    IF Drives(pin) # "none" THEN Drives(pin)
    ELSE IF pin[2] \in s.pullup THEN "high"
    ELSE IF pin[2] \in s.pulldown THEN "low" ELSE "floating"

(***************************************************************************)
(* The memory chip (outside src/), as eeprom.c uses it.  A deselected chip *)
(* is ready; one that is selected takes a header and then moves its        *)
(* address by one, around the end of the memory, with each byte.           *)
(***************************************************************************)

Content(a) == IF a >= 250 THEN Eui[a - 249]
              ELSE IF a \in DOMAIN cells THEN cells[a] ELSE 255

\* What the level of its select line makes of the chip.
Selected == IF chip = "ready" THEN "header" ELSE chip

SeesSelect ==
    chip' \in CASE Level(EEPROM_CS)' = "high" -> {"ready"}
                [] Level(EEPROM_CS)' = "low"  -> {Selected}
                [] OTHER                      -> {"ready", Selected}

\* The byte that the bus gives when nobody answers.
Undriven ==
    CASE Level(EEPROM_MISO) = "low"  -> {0}
      [] Level(EEPROM_MISO) = "high" -> {255}
      [] OTHER                       -> {0, 255}

Received == IF fitted /\ chip = "0x03" THEN {Content(addr)} ELSE Undriven

(***************************************************************************)
(* Resets.                                                                 *)
(***************************************************************************)

Init ==
    /\ main = "check"
    /\ checks \in BOOLEAN
    /\ magic \in {MAGIC, "0", "other"}
    /\ configured = 0 /\ low = {} /\ drivers = {} /\ bus = "free"
    /\ op = NoOp /\ buffer = <<>> /\ devid = Zeros
    /\ fitted \in BOOLEAN
    /\ chip = "ready" /\ addr = 0 /\ cells = [a \in {0, 1} |-> 255]
    /\ radio = "reset"
    /\ resets = 0 /\ asked = (IF magic = MAGIC THEN 1 ELSE 0) /\ hangs = 0

\* The pins become inputs, the variables are initialized.
Restart ==
    /\ resets < MaxResets
    /\ resets' = resets + 1
    /\ main' = "check"
    /\ configured' = 0 /\ low' = {} /\ drivers' = {} /\ bus' = "free"
    /\ op' = NoOp /\ buffer' = <<>> /\ devid' = Zeros
    /\ UNCHANGED <<checks, fitted, addr, cells, hangs>>

Reset ==
    /\ Restart
    /\ UNCHANGED <<magic, radio, asked>>
    /\ SeesSelect

\* The content of the RAM is anything then.
PowerCycle ==
    /\ Restart
    /\ magic' \in {MAGIC, "0", "other"}
    /\ asked' = IF magic' = MAGIC THEN asked + 1 ELSE asked
    /\ chip' = "ready"
    /\ radio' = "reset"

\* By any thread, in any state of the boot.
vBootloaderResetAndStartDFU ==
    /\ main \notin Ends
    /\ Restart
    /\ magic' = MAGIC
    /\ asked' = asked + 1
    /\ SeesSelect
    /\ UNCHANGED radio

(***************************************************************************)
(* Before main().                                                          *)
(***************************************************************************)

Step(from, to) == main = from /\ main' = to

\* Mutant: the word is left as it is.
vBootloaderStartupCheck_keeps ==
    /\ main = "check"
    /\ main' = IF checks /\ magic = MAGIC THEN "dfuLoop" ELSE "clock"
    /\ hangs' = IF main' = "dfuLoop" THEN hangs + 1 ELSE hangs
    /\ UNCHANGED <<checks, magic, soft, fitted, memory, radio, resets, asked>>

\* The jump into the bootloader is not compiled in: a loop stands there.
vBootloaderStartupCheck ==
    /\ main = "check"
    /\ main' = IF checks /\ magic = MAGIC THEN "dfuLoop" ELSE "clock"
    /\ hangs' = IF main' = "dfuLoop" THEN hangs + 1 ELSE hangs
    /\ magic' = IF main' = "dfuLoop" THEN "0" ELSE magic
    /\ UNCHANGED <<checks, soft, fitted, memory, radio, resets, asked>>

__early_init == Step("clock", "ports")
    /\ UNCHANGED <<checks, magic, soft, fitted, memory, radio, count>>

\* palInit, called by halInit, port by port.
palInit ==
    /\ main = "ports"
    /\ configured' = configured + 1
    /\ main' = IF configured' = Len(pal_default_config) THEN "board" ELSE "ports"
    /\ low' = low \cup {<<configured', n>> : n \in pal_default_config[configured'].low}
    /\ UNCHANGED <<checks, magic, drivers, bus, op, buffer, devid, fitted,
                   addr, cells, radio, count>>
    /\ SeesSelect

\* The end of halInit.
boardInit ==
    /\ Step("board", "usb")
    /\ low' = low \cup {LED_USR, LED_ERR}
    /\ UNCHANGED <<checks, magic, configured, drivers, bus, op, buffer, devid,
                   fitted, memory, radio, count>>

(***************************************************************************)
(* main(): usbstartup, get_euid and the memory.                            *)
(***************************************************************************)

usbstartup ==
    /\ Step("usb", "eeprom_init")
    /\ drivers' = drivers \cup {"USBD1"}
    /\ UNCHANGED <<checks, magic, configured, low, bus, op, buffer, devid,
                   fitted, memory, radio, count>>

eeprom_init ==
    /\ Step("eeprom_init", "acquire")
    /\ low' = low \ {EEPROM_CS}
    /\ drivers' = drivers \cup {"SPID2"}
    /\ op' = eeprom_read
    /\ UNCHANGED <<checks, magic, configured, bus, buffer, devid, fitted, addr,
                   cells, radio, count>>
    /\ SeesSelect

\* eeprom_select: spiAcquireBus, which waits for the bus, ...
Acquire ==
    /\ bus = "free"
    /\ Step("acquire", "select")
    /\ bus' = "taken"
    /\ UNCHANGED <<checks, magic, configured, low, drivers, op, buffer, devid,
                   fitted, memory, radio, count>>

\* ... and spiSelect.
Select ==
    /\ Step("select", "header")
    /\ low' = low \cup {EEPROM_CS}
    /\ UNCHANGED <<checks, magic, configured, drivers, bus, op, buffer, devid,
                   fitted, addr, cells, radio, count>>
    /\ SeesSelect

\* A chip that is in another transaction takes the header for data.
Header ==
    /\ Step("header", "data")
    /\ chip' = IF chip = "header" THEN op.command ELSE "lost"
    /\ addr' = IF chip = "header" THEN op.address ELSE addr
    /\ UNCHANGED <<checks, magic, soft, fitted, cells, radio, count>>

\* Mutant: one byte more than get_euid has room for.
Receive_oneMore ==
    /\ op.command = "0x03"
    /\ main = "data"
    /\ \E byte \in Received : buffer' = Append(buffer, byte)
    /\ main' = IF Len(buffer') > Len(devid) THEN "unselect" ELSE "data"
    /\ addr' = (addr + 1) % 256
    /\ UNCHANGED <<checks, magic, configured, low, drivers, bus, op, devid,
                   fitted, chip, cells, radio, count>>

\* Each byte of spiReceive, ...
Receive ==
    /\ op.command = "0x03"
    /\ main = "data"
    /\ \E byte \in Received : buffer' = Append(buffer, byte)
    /\ main' = IF Len(buffer') = Len(devid) THEN "unselect" ELSE "data"
    /\ addr' = (addr + 1) % 256
    /\ UNCHANGED <<checks, magic, configured, low, drivers, bus, op, devid,
                   fitted, chip, cells, radio, count>>

\* ... or of spiSend; the chip may be protected against writing.
Send ==
    /\ op.command = "0x02"
    /\ Step("data", "unselect")
    /\ \/ fitted /\ chip = "0x02" /\ addr \in DOMAIN cells
          /\ cells' = [cells EXCEPT ![addr] = op.data[1]]
       \/ UNCHANGED cells
    /\ addr' = (addr + 1) % 256
    /\ UNCHANGED <<checks, magic, soft, fitted, chip, radio, count>>

\* Mutant: the pad is left as it is.
Unselect_noPad ==
    /\ Step("unselect", "release")
    /\ UNCHANGED <<checks, magic, soft, fitted, addr, cells, radio, count>>
    /\ SeesSelect

Unselect ==
    /\ Step("unselect", "release")
    /\ low' = low \ {EEPROM_CS}
    /\ UNCHANGED <<checks, magic, configured, drivers, bus, op, buffer, devid,
                   fitted, addr, cells, radio, count>>
    /\ SeesSelect

\* Mutant: the bus is not released.
Release_keepsBus ==
    /\ main = "release"
    /\ main' = IF op = eeprom_read THEN "sleep" ELSE "loop"
    /\ devid' = IF op = eeprom_read THEN buffer ELSE devid
    /\ op' = NoOp /\ buffer' = <<>>
    /\ UNCHANGED <<checks, magic, configured, low, drivers, bus, fitted, memory,
                   radio, count>>

\* The transaction ends; get_euid assigns what it read.
Release ==
    /\ main = "release"
    /\ main' = IF op = eeprom_read THEN "sleep" ELSE "loop"
    /\ devid' = IF op = eeprom_read THEN buffer ELSE devid
    /\ bus' = "free" /\ op' = NoOp /\ buffer' = <<>>
    /\ UNCHANGED <<checks, magic, configured, low, drivers, fitted, memory,
                   radio, count>>

(***************************************************************************)
(* main(): the radio and the serial port, and the loop.                    *)
(***************************************************************************)

\* What the level of its reset line makes of the radio (outside src/).
SeesReset == radio' = IF Level(DW_RST)' = "low" THEN "reset" ELSE radio

PullReset ==
    /\ Step("sleep", "inReset")
    /\ low' = low \cup {DW_RST}
    /\ UNCHANGED <<checks, magic, configured, drivers, bus, op, buffer, devid,
                   fitted, memory, count>>
    /\ SeesReset

ReleaseReset ==
    /\ Step("inReset", "released")
    /\ low' = low \ {DW_RST}
    /\ UNCHANGED <<checks, magic, configured, drivers, bus, op, buffer, devid,
                   fitted, memory, count>>
    /\ SeesReset

Start(driver, from, to) ==
    /\ Step(from, to)
    /\ drivers' = drivers \cup {driver}
    /\ UNCHANGED <<checks, magic, configured, low, bus, op, buffer, devid,
                   fitted, memory, count>>

start_interrupt_handler == Start("EXTD1", "released", "ext") /\ UNCHANGED radio
start_serial == Start("SD3", "ext", "attach") /\ UNCHANGED radio

\* The driver of the radio starts its SPI bus (outside src/).
dw1000_init == Start("SPID1", "attach", "loop") /\ radio' = "configured"

\* Any thread may write to the memory once main() has read it.
Write ==
    /\ Step("loop", "acquire")
    /\ \E a \in {1, 16}, byte \in {0, 255} : op' = eeprom_write(a, byte)
    /\ UNCHANGED <<checks, magic, configured, low, drivers, bus, buffer, devid,
                   fitted, memory, radio, count>>

(***************************************************************************)
(* Hard faults.                                                            *)
(***************************************************************************)

Fault ==
    /\ main \in Steps
    /\ main' = "fault"
    /\ UNCHANGED <<checks, magic, soft, fitted, memory, radio, count>>

\* Nothing in src/ calls the handler with the stacked registers it reads, and
\* without a debugger a breakpoint in it locks the processor up.
Breakpoint ==
    /\ main = "fault"
    /\ main' \in {"blink1", "lockup"}
    /\ UNCHANGED <<checks, magic, soft, fitted, memory, radio, count>>

palTogglePad(pin, from, to) ==
    /\ Step(from, to)
    /\ low' = (low \ {pin}) \cup ({pin} \ low)
    /\ UNCHANGED <<checks, magic, configured, drivers, bus, op, buffer, devid,
                   fitted, memory, radio, count>>

HardFault_Handler ==
    \/ Breakpoint
    \/ palTogglePad(LED1, "blink1", "blink2")
    \/ palTogglePad(LED2, "blink2", "blink3")
    \/ palTogglePad(LED3, "blink3", "blink1")

-----------------------------------------------------------------------------

Main ==
    \/ vBootloaderStartupCheck \/ __early_init \/ palInit \/ boardInit
    \/ usbstartup \/ eeprom_init
    \/ Acquire \/ Select \/ Header \/ Receive \/ Send \/ Unselect \/ Release
    \/ PullReset \/ ReleaseReset
    \/ start_interrupt_handler \/ start_serial \/ dw1000_init

Next ==
    \/ Main \/ Write
    \/ Reset \/ PowerCycle \/ vBootloaderResetAndStartDFU
    \/ Fault \/ HardFault_Handler

\* The program runs; nobody has to write, and nothing has to fail.
Spec == Init /\ [][Next]_vars /\ WF_vars(Main)

-----------------------------------------------------------------------------

\* Type correctness of the program, the pins and the chips.
TypeOK ==
    /\ main \in Steps \cup Ends
    /\ checks \in BOOLEAN
    /\ magic \in {MAGIC, "0", "other"}
    /\ configured \in 0 .. Len(pal_default_config)
    /\ low \subseteq {RF_SEL, EEPROM_CS, DW_RST, LED_ERR, LED_USR, LED1, LED2, LED3}
    /\ drivers \subseteq Drivers
    /\ bus \in {"free", "taken"}
    /\ op \in {NoOp, eeprom_read} \cup
              {eeprom_write(a, byte) : a \in {1, 16}, byte \in {0, 255}}
    /\ Len(buffer) <= 8 /\ Len(devid) = 8
    /\ fitted \in BOOLEAN
    /\ chip \in {"ready", "header", "0x02", "0x03", "lost"}
    /\ addr \in 0 .. 255
    /\ cells \in [{0, 1} -> {0, 255}]
    /\ radio \in {"reset", "configured"}
    /\ resets \in 0 .. MaxResets /\ asked \in Nat /\ hangs \in Nat

\* A request for the bootloader costs one boot at most: once the check has
\* ended in its loop, the next boot passes, although the word survives resets.
OneHangPerRequest == hangs <= asked

\* Whenever main() starts to use the radio, the radio has been reset in this
\* boot, however an earlier boot left it and wherever that was interrupted.
RadioFresh == main = "attach" => radio = "reset"

\* The memory is never sent a header in the middle of a transaction that a reset
\* cut short or that an earlier caller left open.
HeaderExpected == main = "header" => chip = "header"

\* The id that main() boots with is its own memory's, whatever an earlier boot
\* was interrupted in, with the bytes 0x00 and 0x01 behind it; a missing memory
\* gives zeros, the id of a NODE2, because its data line is pulled down.
IdOfThisBoard ==
    main \in {"sleep", "inReset", "released", "ext", "attach"} =>
        devid = IF fitted THEN Eui \o <<cells[0], cells[1]>> ELSE Zeros

\* Once the pins are set up, the radio is not selected before its driver is, and
\* the memory only within a transaction.
ChipsDeselected ==
    configured = Len(pal_default_config) =>
        /\ Level(RF_SEL) = "high"
        /\ Level(EEPROM_CS) = "high"
           \/ main \in {"header", "data", "unselect"} \cup Ends

\* The program never drives a line that a chip drives, nor the reset line high,
\* which the radio pulls low by itself.
NoContention ==
    /\ \A pin \in {DW_IRQ, RF_MISO, EEPROM_MISO, AUX1_RX} : Drives(pin) = "none"
    /\ Drives(DW_RST) # "high"

\* A started driver finds its pins in the right alternate function and its
\* streams unused by the others, USB its 48 MHz, and the EXT driver a line that
\* rests low.
DriversWired ==
    \A d \in drivers :
        /\ \A pin \in Lines(d) : LET s == Setup(pin) IN
               pin[2] \in DOMAIN s.alternate /\ s.alternate[pin[2]] = Function(d)
        /\ \A e \in drivers \ {d} : Streams(d) \cap Streams(e) = {}
        /\ d = "USBD1" => CLOCK48 = 48000
        /\ d = "EXTD1" => Level(DW_IRQ) = "low"

\* Until a fault, each pad that changes in the output register is an output.
WritesReachPads ==
    [][main' \in Steps \ {"check"} =>
          \A pin \in (low \ low') \cup (low' \ low) :
              pin[2] \in Setup(pin)'.output]_vars

\* The boot, and each write after it, comes to an end: in the loop of main(), in
\* that of the check, or in a fault.
Settles == []<>(main \in {"loop"} \cup Ends)

=============================================================================
