-------------------------------- MODULE Pins --------------------------------
(***************************************************************************)
(* How the microcontroller is wired and set up: the pins and their         *)
(* settings (board.h), the clocks (board.h, mcuconf.h), and what each      *)
(* driver that the program starts takes of them (mcuconf.h, exti.c,        *)
(* my_uart.c, eeprom.h).                                                   *)
(*                                                                         *)
(* The setup of a port names the pins that differ from a floating input.   *)
(* Left out: the output speeds, and the alternate functions of pins that   *)
(* are not in that mode.                                                   *)
(***************************************************************************)

EXTENDS Naturals

AllInputs ==
    [output |-> {}, opendrain |-> {}, pullup |-> {}, pulldown |-> {},
     low |-> {},                            \* bits of the output register
     alternate |-> [n \in {} |-> 0]]        \* pin to alternate function

\* Port A but for its output.
PortA ==
    [AllInputs EXCEPT
        !.alternate = [n \in {5, 6, 7, 11, 12, 13, 14} |->
                          IF n <= 7 THEN 5 ELSE IF n <= 12 THEN 10 ELSE 0],
        !.pullup    = {1, 6, 8, 10, 15},
        !.pulldown  = {2, 3, 9}]

\* Mutant: the radio is selected as soon as the port is set up.
GPIOA_selLow == [PortA EXCEPT !.output = {4}, !.low = {4}]

GPIOA == [PortA EXCEPT !.output = {4}]

\* Mutant: the memory's data line is pulled up, like the radio's.
GPIOB_misoUp ==
    [AllInputs EXCEPT
        !.output    = {12},
        !.opendrain = {10, 11},
        !.alternate = [n \in 13 .. 15 |-> 5],
        !.pullup    = 0 .. 14,
        !.pulldown  = {15}]

GPIOB ==
    [AllInputs EXCEPT
        !.output    = {12},
        !.opendrain = {10, 11},
        !.alternate = [n \in 13 .. 15 |-> 5],
        !.pullup    = 0 .. 13,
        !.pulldown  = {14, 15}]

\* Port C but for its outputs.
PortC ==
    [AllInputs EXCEPT
        !.alternate = [n \in {10, 11} |-> 7],
        !.pullup    = 0 .. 15 \ {4},
        !.pulldown  = {4}]

\* Mutant: the radio's reset pin stays an input.
GPIOC_rstInput == [PortC EXCEPT !.output = {0, 1, 6, 7, 8}]

\* Mutant: the radio's reset pin drives both levels.
GPIOC_rstPushPull == [PortC EXCEPT !.output = {0, 1, 5, 6, 7, 8}]

GPIOC == [PortC EXCEPT !.output = {0, 1, 5, 6, 7, 8}, !.opendrain = {5}]

GPIOD == [AllInputs EXCEPT !.pullup = {2}]
GPIOE == AllInputs
GPIOF == AllInputs
GPIOG == AllInputs
GPIOH == AllInputs
GPIOI == AllInputs

\* The order in which palInit writes the ports.
pal_default_config ==
    <<GPIOA, GPIOB, GPIOC, GPIOD, GPIOE, GPIOF, GPIOG, GPIOH, GPIOI>>

\* A pin is a port, by its position there, and a number.
RF_SEL      == <<1, 4>>
RF_MISO     == <<1, 6>>
EEPROM_CS   == <<2, 12>>
EEPROM_MISO == <<2, 14>>
LED_ERR     == <<3, 0>>
LED_USR     == <<3, 1>>
DW_IRQ      == <<3, 4>>
DW_RST      == <<3, 5>>
LED2        == <<3, 6>>
LED3        == <<3, 7>>
LED1        == <<3, 8>>
AUX1_RX     == <<3, 11>>

(***************************************************************************)
(* The clocks, in kHz.                                                     *)
(***************************************************************************)

STM32_HSECLK == 12000
PLL     == [m |-> 12, n |-> 288, p |-> 2, q |-> 6]
VCO     == (STM32_HSECLK \div PLL.m) * PLL.n
SYSCLK  == VCO \div PLL.p
CLOCK48 == VCO \div PLL.q

(***************************************************************************)
(* What the drivers take: pins with their alternate functions, streams of  *)
(* the DMA controllers.                                                    *)
(***************************************************************************)

Drivers == {"USBD1", "SPID1", "SPID2", "SD3", "EXTD1"}

\* Mutant: the stream that mcuconf.h gives to the receiver of SPI1.
Streams_shared(d) ==
    CASE d = "SPID1" -> {<<2, 0>>, <<2, 3>>}
      [] d = "SPID2" -> {<<2, 0>>, <<1, 4>>}
      [] OTHER       -> {}

Streams(d) ==
    CASE d = "SPID1" -> {<<2, 0>>, <<2, 3>>}
      [] d = "SPID2" -> {<<1, 3>>, <<1, 4>>}
      [] OTHER       -> {}

Lines(d) ==
    CASE d = "USBD1" -> {<<1, 11>>, <<1, 12>>}
      [] d = "SPID1" -> {<<1, 5>>, <<1, 6>>, <<1, 7>>}
      [] d = "SPID2" -> {<<2, 13>>, <<2, 14>>, <<2, 15>>}
      [] d = "SD3"   -> {<<3, 10>>, <<3, 11>>}
      [] d = "EXTD1" -> {}

\* The function that the hardware gives these pins (outside src/).
Function(d) == CASE d = "USBD1" -> 10 [] d \in {"SPID1", "SPID2"} -> 5
                 [] d = "SD3" -> 7 [] OTHER -> 0

=============================================================================
