----------------------------- MODULE BootProofs ------------------------------
(***************************************************************************)
(* Proofs about the boot for any EUI-48 and any number of resets.          *)
(***************************************************************************)

EXTENDS Boot, SequenceTheorems, TLAPS

USE DEF soft, memory, count

Ports == Len(pal_default_config)

\* What the proofs need of the pins' setup.
LEMMA Wiring ==
    /\ Ports = 9
    /\ \A p \in 1 .. 9 : pal_default_config[p].low = {}
    /\ pal_default_config[1].output = {4} /\ pal_default_config[1].opendrain = {}
    /\ pal_default_config[2].output = {12}
    /\ pal_default_config[2].opendrain = {10, 11}
    /\ pal_default_config[2].pullup = 0 .. 13
    /\ pal_default_config[2].pulldown = {14, 15}
    /\ pal_default_config[3].output = {0, 1, 5, 6, 7, 8}
    /\ pal_default_config[3].opendrain = {5}
<1>1. /\ \A g \in {GPIOD, GPIOE, GPIOF, GPIOG, GPIOH, GPIOI} : g.low = {}
      /\ GPIOA.low = {} /\ GPIOA.output = {4} /\ GPIOA.opendrain = {}
  BY DEF GPIOA, PortA, GPIOD, GPIOE, GPIOF, GPIOG, GPIOH, GPIOI, AllInputs
<1>2. /\ GPIOB.low = {} /\ GPIOB.output = {12} /\ GPIOB.opendrain = {10, 11}
      /\ GPIOB.pullup = 0 .. 13 /\ GPIOB.pulldown = {14, 15}
  BY DEF GPIOB, AllInputs
<1>3. GPIOC.low = {} /\ GPIOC.output = {0, 1, 5, 6, 7, 8} /\ GPIOC.opendrain = {5}
  BY DEF GPIOC, PortC, AllInputs
<1>4. /\ Ports = 9
      /\ pal_default_config[1] = GPIOA /\ pal_default_config[2] = GPIOB
      /\ pal_default_config[3] = GPIOC /\ pal_default_config[4] = GPIOD
      /\ pal_default_config[5] = GPIOE /\ pal_default_config[6] = GPIOF
      /\ pal_default_config[7] = GPIOG /\ pal_default_config[8] = GPIOH
      /\ pal_default_config[9] = GPIOI
  BY DEF Ports, pal_default_config
<1>5. \A p \in 1 .. 9 : \/ p = 1 \/ p = 2 \/ p = 3 \/ p = 4 \/ p = 5 \/ p = 6
                        \/ p = 7 \/ p = 8 \/ p = 9
  OBVIOUS
<1> QED
  BY <1>1, <1>2, <1>3, <1>4, <1>5

-----------------------------------------------------------------------------

\* The word in RAM, once set, is good for one boot.
MagicInv ==
    /\ asked \in Nat /\ hangs \in Nat
    /\ hangs <= asked
    /\ magic = MAGIC => hangs + 1 <= asked

LEMMA NextMagic == ASSUME MagicInv, [Next]_vars PROVE MagicInv'
<1> USE DEF MagicInv
<1>1. CASE vBootloaderStartupCheck
  BY <1>1 DEF vBootloaderStartupCheck, MAGIC
<1>2. CASE PowerCycle
  <2>1. hangs' = hangs /\ asked' = IF magic' = MAGIC THEN asked + 1 ELSE asked
    BY <1>2 DEF PowerCycle, Restart
  <2> QED
    BY <2>1
<1>3. CASE vBootloaderResetAndStartDFU
  BY <1>3 DEF vBootloaderResetAndStartDFU, Restart
<1>4. CASE Reset
  BY <1>4 DEF Reset, Restart
<1>5. CASE Main /\ ~vBootloaderStartupCheck
  BY <1>5 DEF Main, __early_init, palInit, boardInit, usbstartup, eeprom_init,
     Acquire, Select, Header, Receive, Send, Unselect, Release, PullReset,
     ReleaseReset, start_interrupt_handler, start_serial, dw1000_init, Start
<1>6. CASE Write \/ Fault \/ HardFault_Handler \/ UNCHANGED vars
  BY <1>6 DEF Write, Fault, HardFault_Handler, Breakpoint, palTogglePad, vars
<1> QED
  BY <1>1, <1>2, <1>3, <1>4, <1>5, <1>6 DEF Next

\* Each boot that the check ends in its loop was asked for by a request of its own,
\* whatever the resets and the content of the RAM after a loss of power.
THEOREM HangsWereAskedFor == Spec => []OneHangPerRequest
<1>1. Init => MagicInv
  BY DEF Init, MagicInv, MAGIC
<1>2. MagicInv => OneHangPerRequest
  BY DEF MagicInv, OneHangPerRequest
<1> QED
  BY <1>1, <1>2, NextMagic, PTL DEF Spec

-----------------------------------------------------------------------------

\* Where the pins are set up and the program is in control.
Running  == Steps \ {"check", "clock", "ports"}
Selecting == {"header", "data", "unselect"}
Booting  == {"inReset", "released", "ext", "attach"}
Outputs  == {EEPROM_CS, DW_RST, LED_ERR, LED_USR, LED1, LED2, LED3}

\* The pins and the chips, by the place where main() is.
PinsInv ==
    /\ main \in Steps \cup Ends
    /\ configured \in 0 .. 9
    /\ main \in {"check", "clock"} => configured = 0
    /\ main = "ports" => configured < 9
    /\ main \in Running => configured = 9
    /\ low \subseteq Outputs
    /\ EEPROM_CS \in low => main \in Selecting \cup Ends
    /\ DW_RST \in low => main \in {"inReset"} \cup Ends
    /\ main \in Running \ Selecting => chip = "ready"
    /\ main = "header" => chip = "header"
    /\ main \in Booting => radio = "reset"

\* A pin that the program drives has the level that it drives.
LEMMA Driven ==
    ASSUME NEW pin
    PROVE  /\ Drives(pin) # "none" => Level(pin) = Drives(pin)
           /\ Drives(pin)' # "none" => Level(pin)' = Drives(pin)'
<1>1. ASSUME Drives(pin) # "none" PROVE Level(pin) = Drives(pin)
  BY <1>1, Zenon DEF Level
<1>2. ASSUME Drives(pin)' # "none" PROVE Level(pin)' = Drives(pin)'
  BY <1>2, Zenon DEF Level
<1> QED
  BY <1>1, <1>2

\* The select line of the memory, once port B is set up.
LEMMA SelectLevel ==
    ASSUME configured \in 2 .. 9
    PROVE  Level(EEPROM_CS) = IF EEPROM_CS \in low THEN "low" ELSE "high"
<1>1. Setup(EEPROM_CS) = pal_default_config[2] /\ EEPROM_CS[2] = 12
  BY DEF Setup, EEPROM_CS
<1>2. Drives(EEPROM_CS) = IF EEPROM_CS \in low THEN "low" ELSE "high"
  BY <1>1, Wiring DEF Drives
<1> QED
  BY <1>2, Driven

LEMMA SelectLevelNext ==
    ASSUME configured' \in 2 .. 9
    PROVE  Level(EEPROM_CS)' = IF EEPROM_CS \in low' THEN "low" ELSE "high"
<1>1. Setup(EEPROM_CS)' = pal_default_config[2] /\ EEPROM_CS[2] = 12
  BY DEF Setup, EEPROM_CS
<1>2. Drives(EEPROM_CS)' = IF EEPROM_CS \in low' THEN "low" ELSE "high"
  BY <1>1, Wiring DEF Drives
<1> QED
  BY <1>2, Driven

\* What the memory makes of it.
LEMMA ChipNext ==
    ASSUME configured' \in 2 .. 9, SeesSelect
    PROVE  /\ EEPROM_CS \notin low' => chip' = "ready"
           /\ EEPROM_CS \in low' => chip' = Selected
<1>1. Level(EEPROM_CS)' = IF EEPROM_CS \in low' THEN "low" ELSE "high"
  BY SelectLevelNext
<1> QED
  BY <1>1 DEF SeesSelect

\* The reset line of the radio, driven low.
LEMMA ResetLevelNext ==
    ASSUME configured' = 9, DW_RST \in low'
    PROVE  Level(DW_RST)' = "low"
<1>1. Setup(DW_RST)' = pal_default_config[3] /\ DW_RST[2] = 5
  BY DEF Setup, DW_RST
<1>2. Drives(DW_RST)' = "low"
  BY <1>1, Wiring DEF Drives
<1> QED
  BY <1>2, Driven

LEMMA NextPins == ASSUME PinsInv, [Next]_vars PROVE PinsInv'
<1> USE DEF PinsInv, Steps, Ends, Running, Selecting, Booting
<1>0. /\ EEPROM_CS # DW_RST /\ EEPROM_CS \in Outputs /\ DW_RST \in Outputs
      /\ \A pin \in {LED_ERR, LED_USR, LED1, LED2, LED3} :
            pin \in Outputs /\ pin # EEPROM_CS /\ pin # DW_RST
  BY DEF Outputs, EEPROM_CS, DW_RST, LED_ERR, LED_USR, LED1, LED2, LED3
<1>1. CASE Reset \/ PowerCycle \/ vBootloaderResetAndStartDFU
  BY <1>1 DEF Reset, PowerCycle, vBootloaderResetAndStartDFU, Restart
<1>2. CASE palInit
  <2>1. configured' \in 1 .. 9 /\ configured' = configured + 1
    BY <1>2 DEF palInit
  <2>2. low' = low
    BY <1>2, <2>1, Wiring DEF palInit
  <2>3. main' = IF configured' = 9 THEN "board" ELSE "ports"
    BY <1>2, Wiring DEF palInit, Ports
  <2>4. configured' = 9 => chip' = "ready"
    BY <1>2, <2>1, <2>2, ChipNext DEF palInit
  <2> QED
    BY <1>2, <2>1, <2>2, <2>3, <2>4 DEF palInit
<1>3. CASE vBootloaderStartupCheck \/ __early_init
  BY <1>3 DEF vBootloaderStartupCheck, __early_init, Step
<1>4. CASE boardInit
  BY <1>4, <1>0 DEF boardInit, Step
<1>5. CASE usbstartup \/ Acquire \/ Receive \/ Release
  BY <1>5 DEF usbstartup, Acquire, Receive, Release, Step
<1>6. CASE eeprom_init
  <2>1. chip' = "ready"
    BY <1>6, ChipNext DEF eeprom_init, Step
  <2> QED
    BY <1>6, <2>1 DEF eeprom_init, Step
<1>7. CASE Select
  <2>1. chip' = "header"
    BY <1>7, ChipNext DEF Select, Step, Selected
  <2> QED
    BY <1>7, <2>1, <1>0 DEF Select, Step
<1>8. CASE Header \/ Send
  BY <1>8 DEF Header, Send, Step
<1>9. CASE Unselect
  <2>1. chip' = "ready"
    BY <1>9, ChipNext DEF Unselect, Step
  <2> QED
    BY <1>9, <2>1 DEF Unselect, Step
<1>10. CASE PullReset
  <2>1. radio' = "reset"
    BY <1>10, ResetLevelNext DEF PullReset, SeesReset, Step
  <2> QED
    BY <1>10, <2>1, <1>0 DEF PullReset, Step
<1>11. CASE ReleaseReset
  BY <1>11 DEF ReleaseReset, SeesReset, Step
<1>12. CASE start_interrupt_handler \/ start_serial \/ dw1000_init
  BY <1>12 DEF start_interrupt_handler, start_serial, dw1000_init, Start, Step
<1>13. CASE Write \/ Fault \/ UNCHANGED vars
  BY <1>13 DEF Write, Step, Fault, vars
<1>14. CASE HardFault_Handler
  <2>1. CASE Breakpoint
    BY <2>1 DEF Breakpoint
  <2>2. ASSUME NEW pin \in {LED1, LED2, LED3},
               NEW from \in Ends, NEW to \in Ends, palTogglePad(pin, from, to)
        PROVE  PinsInv'
    BY <2>2, <1>0 DEF palTogglePad, Step
  <2> QED
    BY <1>14, <2>1, <2>2 DEF HardFault_Handler
<1> QED
  BY <1>1, <1>2, <1>3, <1>4, <1>5, <1>6, <1>7, <1>8, <1>9, <1>10, <1>11, <1>12,
     <1>13, <1>14 DEF Next, Main

LEMMA PinsSpec == Spec => []PinsInv
<1>1. Init => PinsInv
  BY DEF Init, PinsInv, Steps, Ends, Running, Selecting, Booting
<1> QED
  BY <1>1, NextPins, PTL DEF Spec

\* Whatever a reset, a loss of power or a fault interrupted, main() configures a
\* radio that it has reset in this boot.
THEOREM RadioIsReset == Spec => []RadioFresh
<1>1. PinsInv => RadioFresh
  BY DEF PinsInv, RadioFresh, Booting
<1> QED
  BY <1>1, PinsSpec, PTL

\* A header finds the memory at the start of a transaction, in every boot.
THEOREM HeaderIsHeader == Spec => []HeaderExpected
<1>1. PinsInv => HeaderExpected
  BY DEF PinsInv, HeaderExpected
<1> QED
  BY <1>1, PinsSpec, PTL

\* Outside its transactions the memory is deselected, the radio until its driver
\* selects it.
THEOREM Deselected == Spec => []ChipsDeselected
<1>1. ASSUME PinsInv, configured = 9
      PROVE  Level(RF_SEL) = "high"
  <2>1. Setup(RF_SEL) = pal_default_config[1] /\ RF_SEL[2] = 4
    BY <1>1 DEF Setup, RF_SEL
  <2>2. RF_SEL \notin low
    BY <1>1 DEF PinsInv, Outputs, RF_SEL, EEPROM_CS, DW_RST, LED_ERR, LED_USR, LED1,
       LED2, LED3
  <2>3. Drives(RF_SEL) = "high"
    BY <2>1, <2>2, Wiring DEF Drives
  <2> QED
    BY <2>3, Driven
<1>2. ASSUME PinsInv, configured = 9
      PROVE  Level(EEPROM_CS) = "high" \/ main \in {"header", "data", "unselect"} \cup Ends
  BY <1>2, SelectLevel DEF PinsInv, Selecting
<1>3. PinsInv => ChipsDeselected
  BY <1>1, <1>2, Wiring DEF ChipsDeselected, Ports
<1> QED
  BY <1>3, PinsSpec, PTL

\* The lines that the chips drive are inputs at all times, and the reset line of
\* the radio, an open drain, is never driven high.
THEOREM NoPinFights == Spec => []NoContention
<1>1. ASSUME PinsInv, NEW pin \in {DW_IRQ, RF_MISO, EEPROM_MISO, AUX1_RX}
      PROVE  Drives(pin) = "none"
  <2>1. pin[2] \notin Setup(pin).output
    <3>1. /\ RF_MISO[1] = 1 /\ RF_MISO[2] = 6
          /\ EEPROM_MISO[1] = 2 /\ EEPROM_MISO[2] = 14
          /\ DW_IRQ[1] = 3 /\ DW_IRQ[2] = 4 /\ AUX1_RX[1] = 3 /\ AUX1_RX[2] = 11
      BY DEF DW_IRQ, RF_MISO, EEPROM_MISO, AUX1_RX
    <3>2. AllInputs.output = {}
      BY DEF AllInputs
    <3> QED
      BY <3>1, <3>2, Wiring DEF Setup
  <2> QED
    BY <2>1 DEF Drives
<1>2. ASSUME PinsInv
      PROVE  Drives(DW_RST) # "high"
  <2>1. DW_RST[1] = 3 /\ DW_RST[2] = 5
    BY DEF DW_RST
  <2>2. AllInputs.output = {}
    BY DEF AllInputs
  <2>3. Setup(DW_RST).output = {} \/ 5 \in Setup(DW_RST).opendrain
    BY <2>1, <2>2, Wiring DEF Setup
  <2> QED
    BY <2>1, <2>3 DEF Drives
<1>3. PinsInv => NoContention
  BY <1>1, <1>2 DEF NoContention
<1> QED
  BY <1>3, PinsSpec, PTL

-----------------------------------------------------------------------------

Bytes == 0 .. 255

\* The i-th byte of the id.
Byte(i) == IF fitted THEN (IF i <= 6 THEN Eui[i] ELSE cells[i - 7]) ELSE 0

\* Where the chip finds byte k + 1 of the id.
AddrOf(k) == IF k < 6 THEN 250 + k ELSE k - 6

IdUpTo(s) == \A i \in 1 .. Len(s) : s[i] = Byte(i)

Operations == {NoOp, eeprom_read} \cup
              {eeprom_write(a, byte) : a \in {1, 16}, byte \in {0, 255}}

\* What get_euid has received is the id up to there, and the address pointer of
\* the memory, which wraps behind the EUI-48, stands at the byte that follows.
IdInv ==
    /\ cells \in [{0, 1} -> Bytes]
    /\ op \in Operations
    /\ buffer \in Seq(Bytes) /\ devid \in Seq(Bytes) /\ Len(devid) = 8
    /\ main \in Steps \ {"data", "unselect", "release"} => buffer = <<>>
    /\ main \in {"acquire", "select", "header"} => op.command # "none"
    /\ main \in Booting \cup {"sleep"} => IdUpTo(devid)
    /\ main \in {"data", "unselect", "release"} /\ op = eeprom_read => IdUpTo(buffer)
    /\ main \in {"unselect", "release"} /\ op = eeprom_read => Len(buffer) = 8
    /\ main = "data" /\ op = eeprom_read =>
            /\ Len(buffer) < 8
            /\ chip = "0x03"
            /\ addr = AddrOf(Len(buffer))

LEMMA AboutBytes ==
    /\ Zeros \in Seq(Bytes) /\ Len(Zeros) = 8
    /\ 0 \in Bytes /\ 255 \in Bytes
    /\ Eui \in Seq(Bytes) /\ Len(Eui) = 6
BY EuiAssumption DEF Zeros, Bytes

LEMMA AboutOperations ==
    /\ NoOp \in Operations /\ eeprom_read \in Operations
    /\ \A a \in {1, 16}, byte \in {0, 255} :
          eeprom_write(a, byte) \in Operations /\ eeprom_write(a, byte).command = "0x02"
    /\ eeprom_read.command = "0x03" /\ eeprom_read.address = 250
    /\ \A o \in Operations : /\ o.command = "0x03" => o = eeprom_read
                             /\ o.command = "0x02" => o # eeprom_read /\ o.data[1] \in Bytes
<1>1. /\ NoOp.command = "none"
      /\ eeprom_read.command = "0x03" /\ eeprom_read.address = 250
  BY DEF NoOp, eeprom_read, EEPROM_UID_ADDRESS
<1>2. ASSUME NEW a \in {1, 16}, NEW byte \in {0, 255}
      PROVE  /\ eeprom_write(a, byte).command = "0x02"
             /\ eeprom_write(a, byte).data[1] \in Bytes
  BY <1>2, AboutBytes DEF eeprom_write
<1>3. ASSUME NEW o \in Operations
      PROVE  \/ o = NoOp \/ o = eeprom_read
             \/ \E a \in {1, 16}, byte \in {0, 255} : o = eeprom_write(a, byte)
  BY <1>3, SMT DEF Operations
<1>4. ASSUME NEW a \in {1, 16}, NEW byte \in {0, 255}
      PROVE  eeprom_write(a, byte) \in Operations
  BY <1>4, SMT DEF Operations
<1>5. NoOp \in Operations /\ eeprom_read \in Operations
  BY SMT DEF Operations
<1> QED
  BY <1>1, <1>2, <1>3, <1>4, <1>5

LEMMA EuiByte == ASSUME NEW k \in Nat, k < 6 PROVE Eui[k + 1] \in Bytes
<1>1. k + 1 \in 1 .. 6
  OBVIOUS
<1>2. 1 .. 6 = 1 .. Len(Eui)
  BY AboutBytes, Zenon
<1>3. \A n \in 1 .. Len(Eui) : Eui[n] \in Bytes
  <2>1. Eui \in Seq(Bytes)
    BY AboutBytes
  <2> QED
    BY <2>1, ElementOfSeq, Zenon
<1>4. \A n \in 1 .. 6 : Eui[n] \in Bytes
  BY <1>2, <1>3, Zenon
<1> QED
  BY <1>1, <1>4

\* Six bytes and two more.
LEMMA SixAndTwo ==
    ASSUME NEW S, NEW s \in Seq(S), NEW t \in Seq(S), Len(s) = 6, Len(t) = 2
    PROVE  /\ s \o t \in Seq(S) /\ Len(s \o t) = 8
           /\ \A i \in 1 .. 8 : (s \o t)[i] = IF i <= 6 THEN s[i] ELSE t[i - 6]
<1>1. Len(s) + Len(t) = 8
  OBVIOUS
<1>2. \A i \in 1 .. Len(s) + Len(t) :
          (s \o t)[i] = IF i <= Len(s) THEN s[i] ELSE t[i - Len(s)]
  BY ConcatProperties, Zenon
<1>3. \A i \in 1 .. 8 : (s \o t)[i] = IF i <= Len(s) THEN s[i] ELSE t[i - Len(s)]
  BY <1>1, <1>2, Zenon
<1>4. s \o t \in Seq(S) /\ Len(s \o t) = 8
  BY <1>1, ConcatProperties
<1> QED
  BY <1>3, <1>4, Zenon

\* The address pointer, one byte further.
LEMMA NextAddr == ASSUME NEW k \in Nat, k < 8 PROVE (AddrOf(k) + 1) % 256 = AddrOf(k + 1)
<1>1. k = 0 \/ k = 1 \/ k = 2 \/ k = 3 \/ k = 4 \/ k = 5 \/ k = 6 \/ k = 7
  OBVIOUS
<1> QED
  BY <1>1 DEF AddrOf

\* The line that nobody drives is pulled down: it reads zeros.
LEMMA MissingReadsZero == ASSUME configured = 9 PROVE Undriven = {0}
<1>1. Setup(EEPROM_MISO) = pal_default_config[2] /\ EEPROM_MISO[2] = 14
  BY DEF Setup, EEPROM_MISO
<1>2. Drives(EEPROM_MISO) = "none"
  BY <1>1, Wiring DEF Drives
<1>3. Level(EEPROM_MISO) = "low"
  BY <1>1, <1>2, Wiring DEF Level
<1> QED
  BY <1>3 DEF Undriven

\* Each byte received is the next one of the id.
LEMMA ReceivesNext ==
    ASSUME PinsInv, IdInv, main = "data", op = eeprom_read
    PROVE  /\ Received = {Byte(Len(buffer) + 1)}
           /\ Byte(Len(buffer) + 1) \in Bytes
           /\ Len(buffer) \in Nat /\ Len(buffer) < 8
<1>1. Len(buffer) \in Nat /\ Len(buffer) < 8 /\ configured = 9 /\ chip = "0x03"
  <2>1. configured = 9
    BY DEF PinsInv, Running, Steps
  <2>2. Len(buffer) < 8 /\ chip = "0x03" /\ buffer \in Seq(Bytes)
    BY DEF IdInv
  <2>3. Len(buffer) \in Nat
    BY <2>2, LenProperties
  <2> QED
    BY <2>1, <2>2, <2>3
<1>2. CASE ~fitted
  BY <1>1, <1>2, MissingReadsZero, AboutBytes DEF Received, Byte
<1>3. CASE fitted
  <2>1. Received = {Content(addr)}
    BY <1>1, <1>3 DEF Received
  <2>2. Content(addr) = Byte(Len(buffer) + 1) /\ Content(addr) \in Bytes
    <3>1. CASE Len(buffer) < 6
      <4>1. addr = 250 + Len(buffer)
        BY <3>1 DEF IdInv, AddrOf
      <4>2. Content(addr) = Eui[Len(buffer) + 1]
        BY <4>1, <1>1 DEF Content
      <4> QED
        BY <4>2, <3>1, <1>1, <1>3, EuiByte DEF Byte
    <3>2. CASE Len(buffer) >= 6
      <4>1. addr = Len(buffer) - 6 /\ addr \in {0, 1}
        BY <3>2, <1>1 DEF IdInv, AddrOf
      <4>2. Content(addr) = cells[addr]
        BY <4>1 DEF Content, IdInv
      <4>3. Byte(Len(buffer) + 1) = cells[addr]
        BY <4>1, <3>2, <1>1, <1>3 DEF Byte
      <4> QED
        BY <4>1, <4>2, <4>3 DEF IdInv
    <3> QED
      BY <1>1, <3>1, <3>2
  <2> QED
    BY <1>1, <2>1, <2>2
<1> QED
  BY <1>1, <1>2, <1>3

LEMMA NextId == ASSUME PinsInv, IdInv, [Next]_vars PROVE IdInv'
<1> USE DEF IdInv, Running, Steps, Ends, Booting
<1>zeros. Zeros \in Seq(Bytes) /\ Len(Zeros) = 8
  BY AboutBytes
<1>empty. <<>> \in Seq(Bytes) /\ Len(<<>>) = 0
  OBVIOUS
<1>noop. NoOp \in Operations /\ eeprom_read \in Operations
  BY AboutOperations
<1>1. CASE Reset \/ PowerCycle \/ vBootloaderResetAndStartDFU
  BY <1>1, <1>zeros, <1>empty, <1>noop DEF Reset, PowerCycle, vBootloaderResetAndStartDFU, Restart
<1>2. CASE vBootloaderStartupCheck \/ __early_init \/ palInit \/ boardInit \/ usbstartup
  <2>1. UNCHANGED <<cells, op, buffer, devid>>
    BY <1>2 DEF vBootloaderStartupCheck, __early_init, palInit, boardInit, usbstartup
  <2>2. \/ main' \in {"dfuLoop", "clock", "ports"} /\ main \in {"check", "clock", "ports"}
        \/ main' = "board" /\ main = "ports"
        \/ main' = "usb" /\ main = "board"
        \/ main' = "eeprom_init" /\ main = "usb"
    BY <1>2 DEF vBootloaderStartupCheck, __early_init, palInit, boardInit, usbstartup, Step
  <2> QED
    BY <2>1, <2>2
<1>3. CASE eeprom_init \/ Acquire \/ Select \/ Unselect
  <2>1. UNCHANGED <<fitted, cells, buffer, devid>> /\ op' \in {op, eeprom_read}
    BY <1>3 DEF eeprom_init, Acquire, Select, Unselect
  <2>read. main = "eeprom_init" => op' = eeprom_read
    BY <1>3 DEF eeprom_init, Acquire, Select, Unselect, Step
  <2>2. \/ main' \in {"acquire", "select", "header"}
           /\ main \in {"eeprom_init", "acquire", "select"}
        \/ main = "unselect" /\ main' = "release" /\ op' = op
    BY <1>3 DEF eeprom_init, Acquire, Select, Unselect, Step
  <2>3. IdUpTo(buffer) => IdUpTo(buffer)'
    BY <2>1 DEF IdUpTo, Byte
  <2> QED
    BY <2>1, <2>read, <2>2, <2>3, <1>noop, AboutOperations
<1>4. CASE Header
  <2>1. /\ main = "header" /\ main' = "data" /\ buffer = <<>>
        /\ UNCHANGED <<cells, op, buffer, devid>>
    BY <1>4 DEF Header, Step
  <2>addr. AddrOf(0) = 250
    BY DEF AddrOf
  <2>2. chip' = op.command /\ addr' = op.address
    BY <1>4, <2>1 DEF Header, PinsInv
  <2>3. IdUpTo(buffer)'
    BY <2>1 DEF IdUpTo
  <2> QED
    BY <2>1, <2>2, <2>3, <2>addr, <1>empty, AboutOperations
<1>5. CASE Receive
  <2>1. main = "data" /\ op = eeprom_read
    BY <1>5, AboutOperations DEF Receive
  <2>2. buffer' = Append(buffer, Byte(Len(buffer) + 1))
    BY <1>5, <2>1, ReceivesNext DEF Receive
  <2>3. Byte(Len(buffer) + 1) \in Bytes /\ Len(buffer) \in Nat /\ Len(buffer) < 8
    BY <2>1, ReceivesNext
  <2>4. buffer' \in Seq(Bytes) /\ Len(buffer') = Len(buffer) + 1
    BY <2>2, <2>3
  <2>5. IdUpTo(buffer')
    BY <2>1, <2>2, <2>3, <2>4 DEF IdUpTo
  <2>6. IdUpTo(buffer)'
    BY <1>5, <2>5 DEF Receive, IdUpTo, Byte
  <2>7. main' = IF Len(buffer') = 8 THEN "unselect" ELSE "data"
    BY <1>5 DEF Receive
  <2>8. addr' = AddrOf(Len(buffer'))
    <3>1. addr' = (addr + 1) % 256
      BY <1>5 DEF Receive
    <3>2. addr = AddrOf(Len(buffer))
      BY <2>1
    <3>3. (AddrOf(Len(buffer)) + 1) % 256 = AddrOf(Len(buffer) + 1)
      BY <2>3, NextAddr
    <3> QED
      BY <2>4, <3>1, <3>2, <3>3
  <2>9. UNCHANGED <<cells, op, devid, chip>>
    BY <1>5 DEF Receive
  <2> QED
    BY <2>1, <2>3, <2>4, <2>6, <2>7, <2>8, <2>9
<1>6. CASE Send
  <2>1. op # eeprom_read /\ op.data[1] \in Bytes
    BY <1>6, AboutOperations DEF Send
  <2>2. cells' \in [{0, 1} -> Bytes]
    BY <1>6, <2>1 DEF Send
  <2>3. main' = "unselect" /\ UNCHANGED <<op, buffer, devid>>
    BY <1>6 DEF Send, Step
  <2> QED
    BY <2>1, <2>2, <2>3
<1>7. CASE Release
  <2>1. /\ main = "release" /\ main' = IF op = eeprom_read THEN "sleep" ELSE "loop"
        /\ devid' = IF op = eeprom_read THEN buffer ELSE devid
        /\ op' = NoOp /\ buffer' = <<>> /\ UNCHANGED <<fitted, cells>>
    BY <1>7 DEF Release
  <2>2. op = eeprom_read => IdUpTo(devid)'
    BY <2>1 DEF IdUpTo, Byte
  <2> QED
    BY <2>1, <2>2, <1>noop, <1>empty
<1>8. CASE PullReset \/ ReleaseReset \/ start_interrupt_handler \/ start_serial \/ dw1000_init
  <2>1. UNCHANGED <<fitted, cells, op, buffer, devid>>
    BY <1>8 DEF PullReset, ReleaseReset, start_interrupt_handler, start_serial,
       dw1000_init, Start
  <2>2. /\ main \in Booting \cup {"sleep"}
        /\ main' \in Booting \cup {"loop"}
    BY <1>8 DEF PullReset, ReleaseReset, start_interrupt_handler, start_serial,
       dw1000_init, Start, Step
  <2>3. IdUpTo(devid)'
    BY <2>1, <2>2 DEF IdUpTo, Byte
  <2> QED
    BY <2>1, <2>2, <2>3
<1>9. CASE Write
  BY <1>9, AboutOperations DEF Write, Step
<1>10. CASE Fault \/ HardFault_Handler \/ UNCHANGED vars
  <2>1. UNCHANGED <<fitted, memory, op, buffer, devid>> /\ main' \in {main} \cup Ends
    BY <1>10 DEF Fault, HardFault_Handler, Breakpoint, palTogglePad, Step, vars
  <2>2. (IdUpTo(devid) => IdUpTo(devid)') /\ (IdUpTo(buffer) => IdUpTo(buffer)')
    BY <2>1 DEF IdUpTo, Byte
  <2> QED
    BY <2>1, <2>2
<1> QED
  BY <1>1, <1>2, <1>3, <1>4, <1>5, <1>6, <1>7, <1>8, <1>9, <1>10 DEF Next, Main

LEMMA IdSpec == Spec => []IdInv
<1>1. Init => IdInv
  <2>1. Zeros \in Seq(Bytes) /\ Len(Zeros) = 8
    BY AboutBytes
  <2> QED
    BY <2>1, AboutOperations, AboutBytes DEF Init, IdInv, Running, Steps, Ends, Booting
<1>2. PinsInv /\ PinsInv' /\ IdInv /\ [Next]_vars => IdInv'
  BY NextId
<1> QED
  BY <1>1, <1>2, PinsSpec, PTL DEF Spec

\* Each boot of each board reads that board's id, whatever an earlier boot was
\* interrupted in, and a board without a memory reads zeros.
THEOREM BootsWithItsId == Spec => []IdOfThisBoard
<1>1. ASSUME IdInv PROVE IdOfThisBoard
  <2>1. SUFFICES ASSUME main \in {"sleep", "inReset", "released", "ext", "attach"}
                 PROVE  devid = IF fitted THEN Eui \o <<cells[0], cells[1]>> ELSE Zeros
    BY DEF IdOfThisBoard
  <2>2. devid \in Seq(Bytes) /\ Len(devid) = 8
    BY <1>1 DEF IdInv
  <2>3. \A i \in 1 .. 8 : devid[i] = Byte(i)
    BY <1>1, <2>1, <2>2 DEF IdInv, Booting, IdUpTo
  <2>4. CASE ~fitted
    <3>1. \A i \in 1 .. 8 : devid[i] = 0
      BY <2>3, <2>4 DEF Byte
    <3>2. devid = [i \in 1 .. 8 |-> devid[i]]
      BY <2>2
    <3> QED
      BY <2>4, <3>1, <3>2 DEF Zeros
  <2>5. CASE fitted
    <3> DEFINE Id == Eui \o <<cells[0], cells[1]>>
    <3>1. Eui \in Seq(Bytes) /\ Len(Eui) = 6
      BY AboutBytes
    <3>2. <<cells[0], cells[1]>> \in Seq(Bytes) /\ Len(<<cells[0], cells[1]>>) = 2
      BY <1>1 DEF IdInv
    <3>3. /\ Id \in Seq(Bytes) /\ Len(Id) = 8
          /\ \A i \in 1 .. 8 :
                Id[i] = IF i <= 6 THEN Eui[i] ELSE <<cells[0], cells[1]>>[i - 6]
      BY <3>1, <3>2, SixAndTwo
    <3>4. \A i \in 1 .. 6 : Id[i] = Eui[i]
      BY <3>3
    <3>5. Id[7] = cells[0] /\ Id[8] = cells[1]
      BY <3>3
    <3>6. ASSUME NEW i \in 1 .. 8 PROVE devid[i] = Id[i]
      <4> HIDE DEF Id
      <4>1. CASE i <= 6
        BY <2>3, <2>5, <3>4, <4>1 DEF Byte
      <4>2. CASE i = 7 \/ i = 8
        BY <2>3, <2>5, <3>5, <4>2 DEF Byte
      <4> QED
        BY <4>1, <4>2
    <3>7. devid = Id
      <4> HIDE DEF Id
      <4> QED
        BY <2>2, <3>3, <3>6
    <3> QED
      BY <2>5, <3>7
  <2> QED
    BY <2>4, <2>5
<1>2. IdInv => IdOfThisBoard
  BY <1>1
<1> QED
  BY <1>2, IdSpec, PTL

-----------------------------------------------------------------------------

\* The rest of the types.
TypeInv ==
    /\ magic \in {MAGIC, "0", "other"}
    /\ drivers \subseteq Drivers
    /\ bus \in {"free", "taken"}
    /\ Len(buffer) <= 8
    /\ chip \in {"ready", "header", "0x02", "0x03", "lost"}
    /\ addr \in 0 .. 255
    /\ cells \in [{0, 1} -> {0, 255}]
    /\ radio \in {"reset", "configured"}
    /\ resets \in 0 .. MaxResets

LEMMA OperationTypes ==
    /\ \A o \in Operations : o.command \in {"none", "0x02", "0x03"} /\ o.address \in 0 .. 255
    /\ \A o \in Operations : o.command = "0x02" => o.data[1] \in {0, 255}
<1>1. NoOp.command = "none" /\ NoOp.address = 0
  BY DEF NoOp
<1>2. eeprom_read.command = "0x03" /\ eeprom_read.address = 250
  BY DEF eeprom_read, EEPROM_UID_ADDRESS
<1>3. \A a \in {1, 16}, byte \in {0, 255} :
          LET w == eeprom_write(a, byte) IN
          w.command = "0x02" /\ w.address \in 0 .. 255 /\ w.data[1] \in {0, 255}
  BY DEF eeprom_write
<1>4. \A o \in Operations :
          \/ o = NoOp \/ o = eeprom_read
          \/ \E a \in {1, 16}, byte \in {0, 255} : o = eeprom_write(a, byte)
  BY SMT DEF Operations
<1> QED
  BY <1>1, <1>2, <1>3, <1>4

\* Whatever its select line does, the chip is in one of its states.
LEMMA ChipType ==
    ASSUME SeesSelect, chip \in {"ready", "header", "0x02", "0x03", "lost"}
    PROVE  chip' \in {"ready", "header", "0x02", "0x03", "lost"}
<1>1. chip' \in {"ready", Selected}
  BY DEF SeesSelect
<1> QED
  BY <1>1 DEF Selected

LEMMA NextTypes == ASSUME PinsInv, IdInv, TypeInv, [Next]_vars PROVE TypeInv'
<1> USE ResetsAssumption DEF TypeInv
<1>1. CASE Reset \/ vBootloaderResetAndStartDFU
  <2>1. chip' \in {"ready", "header", "0x02", "0x03", "lost"}
    BY <1>1, ChipType DEF Reset, vBootloaderResetAndStartDFU
  <2>2. resets' \in 0 .. MaxResets
    BY <1>1 DEF Reset, vBootloaderResetAndStartDFU, Restart
  <2>3. magic' \in {magic, MAGIC} /\ drivers' = {} /\ bus' = "free" /\ buffer' = <<>>
    BY <1>1 DEF Reset, vBootloaderResetAndStartDFU, Restart
  <2>4. UNCHANGED <<addr, cells, radio>>
    BY <1>1 DEF Reset, vBootloaderResetAndStartDFU, Restart
  <2>5. Len(<<>>) <= 8
    OBVIOUS
  <2> QED
    BY <2>1, <2>2, <2>3, <2>4, <2>5
<1>2. CASE PowerCycle
  <2>1. resets' \in 0 .. MaxResets
    BY <1>2 DEF PowerCycle, Restart
  <2> QED
    BY <1>2, <2>1 DEF PowerCycle, Restart
<1>3. CASE vBootloaderStartupCheck \/ __early_init \/ boardInit \/ usbstartup \/ Acquire
  BY <1>3 DEF vBootloaderStartupCheck, __early_init, boardInit, usbstartup, Acquire, Drivers
<1>4. CASE palInit \/ eeprom_init \/ Select \/ Unselect
  <2>1. chip' \in {"ready", "header", "0x02", "0x03", "lost"}
    BY <1>4, ChipType DEF palInit, eeprom_init, Select, Unselect
  <2>2. UNCHANGED <<magic, bus, buffer, addr, cells, radio, resets>>
        /\ drivers' \in {drivers, drivers \cup {"SPID2"}}
    BY <1>4 DEF palInit, eeprom_init, Select, Unselect
  <2> QED
    BY <2>1, <2>2 DEF Drivers
<1>5. CASE Header
  <2>1. UNCHANGED <<magic, drivers, bus, buffer, cells, radio, resets>>
    BY <1>5 DEF Header
  <2>2. op.command = "0x02" \/ op.command = "0x03" \/ op.command = "none"
    BY OperationTypes DEF IdInv
  <2>3. op.command # "none"
    BY <1>5 DEF Header, Step, IdInv
  <2>4. chip' \in {"ready", "header", "0x02", "0x03", "lost"} /\ addr' \in 0 .. 255
    BY <1>5, <2>2, <2>3, OperationTypes DEF Header, IdInv
  <2> QED
    BY <2>1, <2>4
<1>6. CASE Receive
  <2>1. main = "data" /\ op = eeprom_read
    BY <1>6, AboutOperations DEF Receive, IdInv
  <2>2. Len(buffer') <= 8
    <3>1. Len(buffer) < 8 /\ buffer \in Seq(Bytes)
      BY <2>1 DEF IdInv
    <3>2. Len(buffer) \in Nat
      BY <3>1, LenProperties
    <3>3. \E byte \in Received : buffer' = Append(buffer, byte)
      BY <1>6 DEF Receive
    <3>4. Len(buffer') = Len(buffer) + 1
      BY <2>1, <3>1, <3>3, ReceivesNext
    <3> QED
      BY <3>1, <3>2, <3>4
  <2>3. addr' \in 0 .. 255
    BY <1>6 DEF Receive
  <2> QED
    BY <1>6, <2>2, <2>3 DEF Receive
<1>7. CASE Send
  <2>1. op.data[1] \in {0, 255}
    BY <1>7, OperationTypes DEF Send, IdInv
  <2>2. cells' \in [{0, 1} -> {0, 255}]
    BY <1>7, <2>1 DEF Send
  <2>3. addr' \in 0 .. 255
    BY <1>7 DEF Send
  <2> QED
    BY <1>7, <2>2, <2>3 DEF Send
<1>8. CASE Release
  BY <1>8 DEF Release
<1>9. CASE PullReset \/ ReleaseReset
  <2>1. radio' \in {"reset", radio}
    BY <1>9 DEF PullReset, ReleaseReset, SeesReset
  <2>2. UNCHANGED <<magic, drivers, bus, buffer, chip, addr, cells, resets>>
    BY <1>9 DEF PullReset, ReleaseReset
  <2> QED
    BY <2>1, <2>2
<1>10. CASE start_interrupt_handler \/ start_serial \/ dw1000_init
  BY <1>10 DEF start_interrupt_handler, start_serial, dw1000_init, Start, Drivers
<1>11. CASE Write \/ Fault \/ HardFault_Handler \/ UNCHANGED vars
  <2>1. UNCHANGED <<magic, drivers, bus, buffer, chip, addr, cells, radio, resets>>
    BY <1>11 DEF Write, Fault, HardFault_Handler, Breakpoint, palTogglePad, vars
  <2> QED
    BY <2>1
<1> QED
  BY <1>1, <1>2, <1>3, <1>4, <1>5, <1>6, <1>7, <1>8, <1>9, <1>10, <1>11 DEF Next, Main

\* How the program is built and what is fitted on the board never changes.
Fixed == checks \in BOOLEAN /\ fitted \in BOOLEAN

LEMMA FixedSpec == Spec => []Fixed
<1>1. ASSUME [Next]_vars PROVE UNCHANGED <<checks, fitted>>
  BY <1>1 DEF Next, Main, vBootloaderStartupCheck, __early_init, palInit, boardInit,
     usbstartup, eeprom_init, Acquire, Select, Header, Receive, Send, Unselect,
     Release, PullReset, ReleaseReset, start_interrupt_handler, start_serial,
     dw1000_init, Start, Write, Reset, PowerCycle, vBootloaderResetAndStartDFU,
     Restart, Fault, HardFault_Handler, Breakpoint, palTogglePad, vars
<1>2. Fixed /\ [Next]_vars => Fixed'
  BY <1>1, Zenon DEF Fixed
<1>3. Init => Fixed
  BY Zenon DEF Init, Fixed
<1> QED
  BY <1>2, <1>3, PTL DEF Spec

\* The program, the pins and the chips keep their types over any number of boots.
THEOREM TypeCorrect == Spec => []TypeOK
<1>1. Init => MagicInv /\ TypeInv
  BY ResetsAssumption DEF Init, MagicInv, TypeInv, MAGIC
<1>2. PinsInv /\ IdInv /\ TypeInv /\ [Next]_vars => TypeInv'
  BY NextTypes
<1>3. PinsInv /\ MagicInv /\ IdInv /\ TypeInv /\ Fixed => TypeOK
  <2> SUFFICES ASSUME PinsInv, MagicInv, IdInv, TypeInv, Fixed PROVE TypeOK
    OBVIOUS
  <2>1. low \subseteq {RF_SEL, EEPROM_CS, DW_RST, LED_ERR, LED_USR, LED1, LED2, LED3}
    BY DEF PinsInv, Outputs
  <2>2. configured \in 0 .. Len(pal_default_config)
    BY Wiring DEF PinsInv, Ports
  <2>3. op \in {NoOp, eeprom_read} \cup
              {eeprom_write(a, byte) : a \in {1, 16}, byte \in {0, 255}}
    BY DEF IdInv, Operations
  <2> QED
    BY <2>1, <2>2, <2>3 DEF TypeOK, PinsInv, MagicInv, IdInv, TypeInv, Fixed
<1> QED
  BY <1>1, <1>2, <1>3, PinsSpec, IdSpec, FixedSpec, NextMagic, PTL DEF Spec

-----------------------------------------------------------------------------

\* No write to a pad is lost because the pin is not yet, or never, an output.
THEOREM PadsAreOutputs == Spec => WritesReachPads
<1> DEFINE Written == \A pin \in (low \ low') \cup (low' \ low) :
                          pin[2] \in Setup(pin)'.output
<1>1. ASSUME NEW pin \in {EEPROM_CS, DW_RST, LED_USR, LED_ERR}, configured' = 9
      PROVE  pin[2] \in Setup(pin)'.output
  <2>1. /\ EEPROM_CS[1] = 2 /\ EEPROM_CS[2] = 12 /\ DW_RST[1] = 3 /\ DW_RST[2] = 5
        /\ LED_USR[1] = 3 /\ LED_USR[2] = 1 /\ LED_ERR[1] = 3 /\ LED_ERR[2] = 0
    BY DEF EEPROM_CS, DW_RST, LED_USR, LED_ERR
  <2>2. /\ pal_default_config[2].output = {12}
        /\ pal_default_config[3].output = {0, 1, 5, 6, 7, 8}
    BY Wiring
  <2> QED
    BY <1>1, <2>1, <2>2 DEF Setup
<1>2. ASSUME PinsInv, Next, main' \in Steps \ {"check"}
      PROVE  Written
  <2>1. CASE low' = low
    BY <2>1
  <2>2. CASE low' # low
    <3>1. ~palInit
      <4>1. ASSUME palInit PROVE low' = low
        <5>1. configured' \in 1 .. 9
          BY <1>2, <4>1 DEF palInit, PinsInv
        <5> QED
          BY <4>1, <5>1, Wiring DEF palInit
      <4> QED
        BY <4>1, <2>2
    <3>2. boardInit \/ eeprom_init \/ Select \/ Unselect \/ PullReset \/ ReleaseReset
      BY <1>2, <2>2, <3>1 DEF Next, Main, Steps, vBootloaderStartupCheck, __early_init,
         usbstartup, Acquire, Header, Receive, Send, Release, start_interrupt_handler,
         start_serial, dw1000_init, Start, Write, Reset, PowerCycle,
         vBootloaderResetAndStartDFU, Restart, Fault, HardFault_Handler, Breakpoint,
         palTogglePad, Step
    <3>3. configured' = 9
      BY <1>2, <3>2 DEF boardInit, eeprom_init, Select, Unselect, PullReset, ReleaseReset,
         Step, PinsInv, Running, Steps
    <3>4. (low \ low') \cup (low' \ low) \subseteq {EEPROM_CS, DW_RST, LED_USR, LED_ERR}
      BY <3>2 DEF boardInit, eeprom_init, Select, Unselect, PullReset, ReleaseReset
    <3> QED
      BY <1>1, <3>3, <3>4
  <2> QED
    BY <2>1, <2>2
<1>3. PinsInv /\ [Next]_vars => [main' \in Steps \ {"check"} => Written]_vars
  BY <1>2
<1> QED
  BY <1>3, PinsSpec, PTL DEF Spec, WritesReachPads

-----------------------------------------------------------------------------

\* The lines of each driver in the function that it needs.
LEMMA LinesWired ==
    ASSUME configured = 9, NEW d \in Drivers, NEW pin \in Lines(d)
    PROVE  /\ pin[2] \in DOMAIN Setup(pin).alternate
           /\ Setup(pin).alternate[pin[2]] = Function(d)
<1>1. /\ pal_default_config[1] = GPIOA /\ pal_default_config[2] = GPIOB
      /\ pal_default_config[3] = GPIOC
  BY DEF pal_default_config
<1>2. GPIOA.alternate = [n \in {5, 6, 7, 11, 12, 13, 14} |->
                            IF n <= 7 THEN 5 ELSE IF n <= 12 THEN 10 ELSE 0]
  BY DEF GPIOA, PortA, AllInputs
<1>3. GPIOB.alternate = [n \in 13 .. 15 |-> 5]
  BY DEF GPIOB, AllInputs
<1>4. GPIOC.alternate = [n \in {10, 11} |-> 7]
  BY DEF GPIOC, PortC, AllInputs
<1>5. CASE d = "USBD1"
  <2>1. pin[1] = 1 /\ pin[2] \in {11, 12} /\ Function(d) = 10
    BY <1>5 DEF Lines, Function
  <2> QED
    BY <1>1, <1>2, <2>1 DEF Setup
<1>6. CASE d = "SPID1"
  <2>1. pin[1] = 1 /\ pin[2] \in {5, 6, 7} /\ Function(d) = 5
    BY <1>6 DEF Lines, Function
  <2> QED
    BY <1>1, <1>2, <2>1 DEF Setup
<1>7. CASE d = "SPID2"
  <2>1. pin[1] = 2 /\ pin[2] \in {13, 14, 15} /\ Function(d) = 5
    BY <1>7 DEF Lines, Function
  <2> QED
    BY <1>1, <1>3, <2>1 DEF Setup
<1>8. CASE d = "SD3"
  <2>1. pin[1] = 3 /\ pin[2] \in {10, 11} /\ Function(d) = 7
    BY <1>8 DEF Lines, Function
  <2> QED
    BY <1>1, <1>4, <2>1 DEF Setup
<1>9. CASE d = "EXTD1"
  BY <1>9 DEF Lines
<1> QED
  BY <1>5, <1>6, <1>7, <1>8, <1>9 DEF Drivers

LEMMA StreamsDisjoint ==
    ASSUME NEW d \in Drivers, NEW e \in Drivers, e # d
    PROVE  Streams(d) \cap Streams(e) = {}
<1>1. Streams("SPID1") = {<<2, 0>>, <<2, 3>>} /\ Streams("SPID2") = {<<1, 3>>, <<1, 4>>}
  BY DEF Streams
<1>2. \A f \in Drivers \ {"SPID1", "SPID2"} : Streams(f) = {}
  BY DEF Streams
<1>3. Streams("SPID1") \cap Streams("SPID2") = {}
  BY <1>1
<1> QED
  BY <1>2, <1>3

\* The radio's interrupt line rests low, by its pull-down.
LEMMA IrqRestsLow == ASSUME PinsInv, configured = 9 PROVE Level(DW_IRQ) = "low"
<1>1. DW_IRQ[2] = 4 /\ Setup(DW_IRQ) = GPIOC
  BY DEF Setup, DW_IRQ, pal_default_config
<1>2. /\ 4 \notin GPIOC.output /\ 4 \notin GPIOC.pullup /\ 4 \in GPIOC.pulldown
  BY DEF GPIOC, PortC, AllInputs
<1>3. Drives(DW_IRQ) = "none"
  BY <1>1, <1>2 DEF Drives
<1> QED
  BY <1>1, <1>2, <1>3, Zenon DEF Level

\* Drivers are started behind the setup of the pins.
StartedInv == drivers # {} => configured = 9

LEMMA NextStarted == ASSUME PinsInv, StartedInv, [Next]_vars PROVE StartedInv'
<1> USE DEF PinsInv, StartedInv, Running, Steps
<1>1. CASE Reset \/ PowerCycle \/ vBootloaderResetAndStartDFU
  BY <1>1 DEF Reset, PowerCycle, vBootloaderResetAndStartDFU, Restart
<1>2. CASE palInit
  <2>1. drivers' = drivers /\ configured # 9
    BY <1>2 DEF palInit
  <2> QED
    BY <2>1
<1>3. CASE usbstartup \/ eeprom_init \/ start_interrupt_handler \/ start_serial \/ dw1000_init
  BY <1>3 DEF usbstartup, eeprom_init, start_interrupt_handler, start_serial,
     dw1000_init, Start, Step
<1>4. CASE \/ vBootloaderStartupCheck \/ __early_init \/ boardInit
           \/ Acquire \/ Select \/ Header \/ Receive \/ Send \/ Unselect \/ Release
           \/ PullReset \/ ReleaseReset
  BY <1>4 DEF vBootloaderStartupCheck, __early_init, boardInit, Acquire, Select, Header,
     Receive, Send, Unselect, Release, PullReset, ReleaseReset
<1>5. CASE Write \/ Fault \/ HardFault_Handler \/ UNCHANGED vars
  BY <1>5 DEF Write, Fault, HardFault_Handler, Breakpoint, palTogglePad, vars
<1> QED
  BY <1>1, <1>2, <1>3, <1>4, <1>5 DEF Next, Main

\* Whatever drivers are started, and in whatever boot, they find their pins, their
\* streams and the USB clock as they need them.
THEOREM StartedAreWired == Spec => []DriversWired
<1>1. Init => StartedInv
  BY DEF Init, StartedInv
<1>2. ASSUME PinsInv, TypeInv, StartedInv PROVE DriversWired
  <2>1. CLOCK48 = 48000
    BY DEF CLOCK48, VCO, PLL, STM32_HSECLK
  <2>2. ASSUME NEW d \in drivers
        PROVE  d \in Drivers /\ configured = 9
    BY <1>2 DEF TypeInv, StartedInv
  <2> QED
    BY <1>2, <2>1, <2>2, LinesWired, StreamsDisjoint, IrqRestsLow DEF DriversWired, TypeInv
<1>3. Init => MagicInv /\ TypeInv
  BY ResetsAssumption DEF Init, MagicInv, TypeInv, MAGIC
<1>4. PinsInv /\ IdInv /\ TypeInv /\ [Next]_vars => TypeInv'
  BY NextTypes
<1>5. PinsInv /\ StartedInv /\ [Next]_vars => StartedInv'
  BY NextStarted
<1>6. PinsInv /\ TypeInv /\ StartedInv => DriversWired
  BY <1>2
<1> QED
  BY <1>1, <1>3, <1>4, <1>5, <1>6, PinsSpec, IdSpec, PTL DEF Spec

-----------------------------------------------------------------------------

\* Where main() has the bus of the memory.
InTransaction == {"select", "header", "data", "unselect", "release"}

BusInv ==
    /\ main \in Steps => (bus = "taken" <=> main \in InTransaction)
    /\ main = "data" => op.command # "none"
    /\ main = "data" /\ op.command = "0x02" => buffer = <<>>

\* Wherever main() is on its way, the step that it is at can be taken.
NeverWaits ==
    /\ main = "acquire" => bus = "free"
    /\ main = "ports" => configured < Ports
    /\ main = "data" => \/ op.command = "0x02"
                        \/ op.command = "0x03" /\ Len(buffer) < Len(devid)

\* The steps that main() has at most before it until it is in its loop.
StepsLeft ==
    CASE main = "check"       -> 32  [] main = "clock"    -> 31
      [] main = "ports"       -> 21 + (Ports - configured)
      [] main = "board"       -> 21  [] main = "usb"      -> 20
      [] main = "eeprom_init" -> 19  [] main = "acquire"  -> 18
      [] main = "select"      -> 17  [] main = "header"   -> 16
      [] main = "data"        -> 7 + (8 - Len(buffer))
      [] main = "unselect"    -> 7   [] main = "release"  -> 6
      [] main = "sleep"       -> 5   [] main = "inReset"  -> 4
      [] main = "released"    -> 3   [] main = "ext"      -> 2
      [] main = "attach"      -> 1   [] OTHER             -> 0

LEMMA NextBus == ASSUME PinsInv, IdInv, TypeInv, BusInv, [Next]_vars PROVE BusInv'
<1> USE DEF BusInv, InTransaction, Steps
<1>1. CASE Reset \/ PowerCycle \/ vBootloaderResetAndStartDFU
  BY <1>1 DEF Reset, PowerCycle, vBootloaderResetAndStartDFU, Restart
<1>2. CASE vBootloaderStartupCheck
  BY <1>2 DEF vBootloaderStartupCheck
<1>3. CASE palInit
  BY <1>3 DEF palInit
<1>4. CASE __early_init \/ boardInit \/ usbstartup \/ eeprom_init \/ Acquire \/ Select
  BY <1>4 DEF __early_init, boardInit, usbstartup, eeprom_init, Acquire, Select, Step
<1>5. CASE Header
  BY <1>5 DEF Header, Step, IdInv
<1>6. CASE Receive
  <2>1. op' = op /\ op.command = "0x03" /\ op.command # "0x02"
    BY <1>6 DEF Receive
  <2> QED
    BY <1>6, <2>1 DEF Receive
<1>7. CASE Send \/ Unselect
  BY <1>7 DEF Send, Unselect, Step
<1>8. CASE Release
  BY <1>8 DEF Release
<1>9. CASE PullReset \/ ReleaseReset
  BY <1>9 DEF PullReset, ReleaseReset, Step
<1>10. CASE start_interrupt_handler \/ start_serial \/ dw1000_init
  BY <1>10 DEF start_interrupt_handler, start_serial, dw1000_init, Start, Step
<1>11. CASE Write
  BY <1>11 DEF Write, Step
<1>12. CASE Fault
  BY <1>12 DEF Fault
<1>13. CASE HardFault_Handler
  BY <1>13 DEF HardFault_Handler, Breakpoint, palTogglePad, Step
<1>14. CASE UNCHANGED vars
  BY <1>14 DEF vars
<1> QED
  BY <1>1, <1>2, <1>3, <1>4, <1>5, <1>6, <1>7, <1>8, <1>9, <1>10, <1>11, <1>12, <1>13, <1>14
     DEF Next, Main

LEMMA TypeSpec == Spec => []TypeInv
<1>1. Init => TypeInv
  BY ResetsAssumption DEF Init, TypeInv, MAGIC
<1>2. PinsInv /\ IdInv /\ TypeInv /\ [Next]_vars => TypeInv'
  BY NextTypes
<1> QED
  BY <1>1, <1>2, PinsSpec, IdSpec, PTL DEF Spec

LEMMA BusSpec == Spec => []BusInv
<1>1. Init => BusInv
  BY DEF Init, BusInv, InTransaction, Steps
<1>2. PinsInv /\ IdInv /\ TypeInv /\ BusInv /\ [Next]_vars => BusInv'
  BY NextBus
<1> QED
  BY <1>1, <1>2, PinsSpec, IdSpec, TypeSpec, PTL DEF Spec

\* main() never waits for a bus that nobody releases, although a reset or a fault
\* may have come within a transaction, and each transaction finds what it needs.
THEOREM MainNeverWaits == Spec => []NeverWaits
<1>1. ASSUME PinsInv, IdInv, TypeInv, BusInv PROVE NeverWaits
  <2>1. main = "acquire" => bus = "free"
    BY <1>1 DEF TypeInv, BusInv, InTransaction, Steps
  <2>2. main = "ports" => configured < Ports
    BY <1>1, Wiring DEF PinsInv
  <2>3. ASSUME main = "data"
        PROVE  \/ op.command = "0x02"
               \/ op.command = "0x03" /\ Len(buffer) < Len(devid)
    <3>1. op.command \in {"0x02", "0x03"}
      BY <1>1, <2>3, OperationTypes DEF BusInv, IdInv
    <3>2. op.command = "0x03" => op = eeprom_read
      BY <1>1, AboutOperations DEF IdInv
    <3>3. op = eeprom_read => Len(buffer) < Len(devid)
      BY <1>1, <2>3 DEF IdInv
    <3> QED
      BY <3>1, <3>2, <3>3
  <2> QED
    BY <2>1, <2>2, <2>3 DEF NeverWaits
<1>2. PinsInv /\ IdInv /\ TypeInv /\ BusInv => NeverWaits
  BY <1>1
<1> QED
  BY <1>2, PinsSpec, IdSpec, TypeSpec, BusSpec, PTL

LEMMA StepsLeftNat ==
    ASSUME PinsInv, IdInv, TypeInv
    PROVE  /\ StepsLeft \in 0 .. 32
           /\ Len(buffer) \in 0 .. 8
<1>1. Len(buffer) \in 0 .. 8
  <2>1. buffer \in Seq(Bytes)
    BY DEF IdInv
  <2>2. Len(buffer) \in Nat
    BY <2>1, LenProperties
  <2>3. Len(buffer) <= 8
    BY DEF TypeInv
  <2>4. \A n \in Nat : n <= 8 => n \in 0 .. 8
    OBVIOUS
  <2> QED
    BY <2>2, <2>3, <2>4, Zenon
<1>2. CASE main = "ports"
  <2>1. configured \in 0 .. 8
    BY <1>2 DEF PinsInv
  <2> QED
    <3>1. StepsLeft = 21 + (Ports - configured)
      BY <1>2 DEF StepsLeft
    <3> QED
      BY <1>1, <2>1, <3>1, Wiring
<1>3. CASE main = "data"
  <2>1. StepsLeft = 7 + (8 - Len(buffer))
    BY <1>3 DEF StepsLeft
  <2>2. \A n \in 0 .. 8 : 7 + (8 - n) \in 0 .. 32
    OBVIOUS
  <2> QED
    BY <1>1, <2>1, <2>2
<1>4. CASE main \notin {"ports", "data"}
  <2>1. StepsLeft \in {32, 31, 21, 20, 19, 18, 17, 16, 7, 6, 5, 4, 3, 2, 1, 0}
    BY <1>4, Zenon DEF StepsLeft
  <2> QED
    BY <1>1, <2>1
<1> QED
  BY <1>2, <1>3, <1>4

\* Whatever the memory and the board answer, each step of main() brings it nearer to
\* its loop: a boot takes 32 steps at most and the bytes of a read do not run on.
THEOREM BootGetsOn ==
    Spec => [](StepsLeft \in 0 .. 32) /\ [][Main => StepsLeft' < StepsLeft]_vars
<1>1. ASSUME PinsInv, IdInv, TypeInv, BusInv, PinsInv', IdInv', TypeInv', Main
      PROVE  StepsLeft' < StepsLeft
  <2>1. Len(buffer) \in 0 .. 8
    BY <1>1, StepsLeftNat
  <2>2. CASE vBootloaderStartupCheck
    BY <2>2 DEF vBootloaderStartupCheck, StepsLeft
  <2>3. CASE __early_init
    <3>1. configured' = 0
      BY <1>1, <2>3 DEF __early_init, Step, PinsInv
    <3> QED
      BY <2>3, <3>1, Wiring DEF __early_init, Step, StepsLeft
  <2>4. CASE palInit
    <3>1. configured \in 0 .. 8 /\ configured' = configured + 1
      BY <1>1, <2>4 DEF palInit, PinsInv
    <3>2. main = "ports" /\ main' \in {"ports", "board"}
      BY <2>4 DEF palInit
    <3> QED
      BY <3>1, <3>2, Wiring DEF StepsLeft
  <2>5. CASE boardInit \/ usbstartup \/ eeprom_init \/ Acquire \/ Select
    BY <2>5 DEF boardInit, usbstartup, eeprom_init, Acquire, Select, Step, StepsLeft
  <2>6. CASE Header
    <3>1. Len(buffer') \in 0 .. 8 /\ buffer' = <<>>
      BY <1>1, <2>6 DEF Header, Step, IdInv, Steps
    <3> QED
      BY <2>6, <3>1 DEF Header, Step, StepsLeft
  <2>7. CASE Receive
    <3>1. op = eeprom_read /\ main = "data" /\ Len(buffer) < 8 /\ buffer \in Seq(Bytes)
      BY <1>1, <2>7, AboutOperations DEF Receive, IdInv
    <3>2. \E byte : buffer' = Append(buffer, byte)
      BY <2>7 DEF Receive
    <3>3. Len(buffer') = Len(buffer) + 1
      BY <3>1, <3>2
    <3>4. main' \in {"data", "unselect"}
      BY <2>7 DEF Receive
    <3> QED
      BY <2>1, <3>1, <3>3, <3>4 DEF StepsLeft
  <2>8. CASE Send
    <3>1. main = "data" /\ main' = "unselect"
      BY <2>8 DEF Send, Step
    <3>2. Len(buffer) = 0
      BY <1>1, <2>8, <3>1 DEF Send, BusInv
    <3> QED
      BY <2>1, <3>1, <3>2 DEF StepsLeft
  <2>9. CASE Unselect \/ Release \/ PullReset \/ ReleaseReset
    BY <2>9 DEF Unselect, Release, PullReset, ReleaseReset, Step, StepsLeft
  <2>10. CASE start_interrupt_handler \/ start_serial \/ dw1000_init
    BY <2>10 DEF start_interrupt_handler, start_serial, dw1000_init, Start, Step, StepsLeft
  <2> QED
    BY <1>1, <2>2, <2>3, <2>4, <2>5, <2>6, <2>7, <2>8, <2>9, <2>10 DEF Main
<1>2. /\ PinsInv /\ IdInv /\ TypeInv /\ BusInv /\ PinsInv' /\ IdInv' /\ TypeInv' /\ [Next]_vars
      => [Main => StepsLeft' < StepsLeft]_vars
  BY <1>1
<1>3. PinsInv /\ IdInv /\ TypeInv => StepsLeft \in 0 .. 32
  BY StepsLeftNat
<1> QED
  BY <1>2, <1>3, PinsSpec, IdSpec, TypeSpec, BusSpec, PTL DEF Spec

=============================================================================
