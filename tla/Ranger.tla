------------------------------- MODULE Ranger -------------------------------
(***************************************************************************)
(* One board from reset on, as its main() runs it (main.c): it finds out   *)
(* who it is, starts the radio, and then loops for ever.  A ranger asks    *)
(* the anchors in turn; every LoopsPerRecovery loops any board switches    *)
(* its receiver off, resets it and switches it on again.                   *)
(*                                                                         *)
(* Time is counted in system ticks of a millisecond (CH_CFG_ST_FREQUENCY). *)
(* The radio and the ranging modules, outside src/, run in the interrupt   *)
(* thread and may switch the receiver on or off at any moment.             *)
(***************************************************************************)

EXTENDS Identity

CONSTANTS
    Euis,               \* the EUI-48s that boards have
    LoopsPerRecovery,   \* 500
    Sleep,              \* sleep of main(): 100 ms
    RangeDelay          \* range_delay of main(): 10 ms

ASSUME EuisAssumption == AllZero.eui \notin Euis /\ AllOnes.eui \notin Euis
ASSUME LoopAssumption == LoopsPerRecovery \in Nat \ {0, 1}
ASSUME TimeAssumption == Sleep \in Nat \ {0} /\ RangeDelay \in Nat \ {0}

NoDst == 65000          \* dst before the first request

VARIABLES
    pc,                 \* where main() is
    eui, user,          \* the memory: the EUI-48 and the bytes 0x00 and 0x01
    devid, role, ieeshortaddr,
    ranging_module,
    filtering,          \* does the radio filter by address?
    rx,                 \* is the receiver on?
    per_loop,
    dst,                \* whom the last request went to
    left,               \* ticks that main() still has to sleep
    since,              \* ticks since the last request, up to RangeDelay
    deaf                \* loops ended since the receiver was last on, up to
                        \* LoopsPerRecovery

memory == <<eui, user>>
naming == <<devid, role, ieeshortaddr>>
radio  == <<ranging_module, filtering>>
vars   == <<pc, memory, naming, radio, rx, per_loop, dst, left, since, deaf>>

Init ==
    /\ pc = "get_euid"
    /\ eui \in Euis
    /\ user \in {"ffff", "0000", "other"}
    /\ devid = AllZero /\ role = "UNDEFINED" /\ ieeshortaddr = 0
    /\ ranging_module = "NULL"
    /\ filtering = FALSE
    /\ rx = FALSE
    /\ per_loop = 1
    /\ dst = NoDst
    /\ left = 0
    /\ since = RangeDelay
    /\ deaf = 0

\* main() goes on when its sleep is over.
MainStep(from, to) == pc = from /\ left = 0 /\ pc' = to

\* The receiver is on after this step, or as deaf as it was.
SetRx(on) == rx' = on /\ deaf' = IF on THEN 0 ELSE deaf

(***************************************************************************)
(* Start.                                                                  *)
(***************************************************************************)

get_euid ==
    /\ MainStep("get_euid", "role")
    /\ devid' \in ReadsOf(eui, user)
    /\ UNCHANGED <<memory, role, ieeshortaddr, radio, rx, per_loop, dst, left,
                   since, deaf>>

AssignRole ==
    /\ MainStep("role", "init")
    /\ role' = get_role(devid)
    /\ ieeshortaddr' = shortaddr_of(role')
    /\ UNCHANGED <<memory, devid, radio, rx, per_loop, dst, left, since, deaf>>

\* dw.ranging_module is chosen, dw1000_init configures the radio.
DwInit ==
    /\ MainStep("init", "receive")
    /\ ranging_module' = IF role = "UNDEFINED" THEN "passive" ELSE "twoway"
    /\ filtering' = TRUE
    /\ UNCHANGED <<memory, naming, rx, per_loop, dst, left, since, deaf>>

StartReceiver ==
    /\ MainStep("receive", "filter")
    /\ SetRx(TRUE)
    /\ UNCHANGED <<memory, naming, radio, per_loop, dst, left, since>>

DisableFiltering ==
    /\ MainStep("filter", "top")
    /\ filtering' = (role # "UNDEFINED")
    /\ UNCHANGED <<memory, naming, ranging_module, rx, per_loop, dst, left,
                   since, deaf>>

(***************************************************************************)
(* The loop.                                                               *)
(***************************************************************************)

\* dw1000_get_sensors and the sleep of 1 ms.
Sensors ==
    /\ MainStep("top", "turn")
    /\ left' = 1
    /\ UNCHANGED <<memory, naming, radio, rx, per_loop, dst, since, deaf>>

\* An anchor only sleeps, the longer the higher its address.
AnchorTurn ==
    /\ MainStep("turn", "check")
    /\ role \in Anchors
    /\ left' = Sleep * (ieeshortaddr + 1)
    /\ UNCHANGED <<memory, naming, radio, rx, per_loop, dst, since, deaf>>

ListenerTurn ==
    /\ MainStep("turn", "check")
    /\ role = "UNDEFINED"
    /\ UNCHANGED <<memory, naming, radio, rx, per_loop, dst, left, since, deaf>>

RangerTurn ==
    /\ MainStep("turn", "ask")
    /\ role \in Rangers
    /\ dst' = 0
    /\ UNCHANGED <<memory, naming, radio, rx, per_loop, left, since, deaf>>

\* Mutant: the last request is not followed by a sleep.
Request_lastNoSleep ==
    /\ MainStep("ask", "asked")
    /\ \E on \in BOOLEAN : SetRx(on)
    /\ since' = 0
    /\ left' = IF dst = 3 THEN 0 ELSE RangeDelay
    /\ UNCHANGED <<memory, naming, radio, per_loop, dst>>

\* twowayranging_request(&dw, dst) and the sleep of range_delay; the request
\* takes the receiver out of reception and may or may not put it back.
Request ==
    /\ MainStep("ask", "asked")
    /\ \E on \in BOOLEAN : SetRx(on)
    /\ since' = 0
    /\ left' = RangeDelay
    /\ UNCHANGED <<memory, naming, radio, per_loop, dst>>

\* Mutant: the round ends one anchor early.
NextAnchor_early ==
    /\ MainStep("asked", IF dst < 2 THEN "ask" ELSE "check")
    /\ dst' = IF dst < 2 THEN dst + 1 ELSE dst
    /\ UNCHANGED <<memory, naming, radio, rx, per_loop, left, since, deaf>>

NextAnchor ==
    /\ MainStep("asked", IF dst < 3 THEN "ask" ELSE "check")
    /\ dst' = IF dst < 3 THEN dst + 1 ELSE dst
    /\ UNCHANGED <<memory, naming, radio, rx, per_loop, left, since, deaf>>

\* Mutant: the recovery comes a loop later.
RecoveryIsDue_late == per_loop > LoopsPerRecovery

RecoveryIsDue == per_loop % LoopsPerRecovery = 0

LoopWithoutRecovery ==
    /\ ~RecoveryIsDue
    /\ MainStep("check", "top")
    /\ per_loop' = per_loop + 1
    /\ deaf' = IF rx \/ deaf = LoopsPerRecovery THEN deaf ELSE deaf + 1
    /\ UNCHANGED <<memory, naming, radio, rx, dst, left, since>>

TrxOff ==
    /\ RecoveryIsDue
    /\ MainStep("check", "softreset")
    /\ SetRx(FALSE)
    /\ UNCHANGED <<memory, naming, radio, per_loop, dst, left, since>>

\* dw1000_softreset_rx leaves the receiver idle.
SoftresetRx ==
    /\ MainStep("softreset", "restart")
    /\ SetRx(FALSE)
    /\ UNCHANGED <<memory, naming, radio, per_loop, dst, left, since>>

\* Mutant: the receiver is left as the reset left it.
Restart_idle ==
    /\ MainStep("restart", "top")
    /\ per_loop' = 1
    /\ UNCHANGED <<memory, naming, radio, rx, dst, left, since, deaf>>

\* Mutant: per_loop is not set to 0.
Restart_counts ==
    /\ MainStep("restart", "top")
    /\ SetRx(TRUE)
    /\ per_loop' = per_loop + 1
    /\ UNCHANGED <<memory, naming, radio, dst, left, since>>

\* dw1000_receive; per_loop becomes 0 and is incremented.
Restart ==
    /\ MainStep("restart", "top")
    /\ SetRx(TRUE)
    /\ per_loop' = 1
    /\ UNCHANGED <<memory, naming, radio, dst, left, since>>

Start == get_euid \/ AssignRole \/ DwInit \/ StartReceiver \/ DisableFiltering
Loop  == \/ Sensors \/ AnchorTurn \/ ListenerTurn \/ RangerTurn
         \/ Request \/ NextAnchor
         \/ LoopWithoutRecovery \/ TrxOff \/ SoftresetRx \/ Restart
Main  == Start \/ Loop

(***************************************************************************)
(* Around main().                                                          *)
(***************************************************************************)

\* An exchange ends, fails or is never answered; a frame has errors; ...
RadioEvent ==
    /\ pc \notin {"get_euid", "role", "init", "receive"}
    /\ SetRx(~rx)
    /\ UNCHANGED <<pc, memory, naming, radio, per_loop, dst, left, since>>

Tick ==
    /\ left > 0 \/ since < RangeDelay
    /\ left' = IF left > 0 THEN left - 1 ELSE 0
    /\ since' = IF since < RangeDelay THEN since + 1 ELSE since
    /\ UNCHANGED <<pc, memory, naming, radio, rx, per_loop, dst, deaf>>

-----------------------------------------------------------------------------

Next == Main \/ RadioEvent \/ Tick

\* The interrupt thread does not keep the CPU for ever, and time passes.
Spec == Init /\ [][Next]_vars /\ WF_vars(Main) /\ WF_vars(Tick)

-----------------------------------------------------------------------------

Locations == {"get_euid", "role", "init", "receive", "filter", "top", "turn",
              "ask", "asked", "check", "softreset", "restart"}

\* Type correctness of main()'s variables and of the radio.
TypeOK ==
    /\ pc \in Locations
    /\ devid \in ReadsOf(eui, user)
    /\ role \in rangerRole
    /\ ieeshortaddr \in 0 .. 6
    /\ ranging_module \in {"NULL", "twoway", "passive"}
    /\ filtering \in BOOLEAN /\ rx \in BOOLEAN
    /\ per_loop \in 1 .. LoopsPerRecovery
    /\ dst \in AnchorAddresses \cup {NoDst}
    /\ left \in Nat
    /\ since \in 0 .. RangeDelay
    /\ deaf \in 0 .. LoopsPerRecovery

\* A board is an anchor only if it is that board: neither a memory that does
\* not answer nor another content of the two bytes behind the EUI-48 makes
\* get_role return an anchor that others would range with at a wrong place.
MisreadNeverAnchor ==
    role \in Anchors => eui \in DOMAIN Roles /\ Roles[eui] = role

\* Whoever asks runs the two-way module and asks a board that some anchor's
\* main() gives this address, and not itself: the four requests of the loop
\* and the switch of main() agree.
AsksOnlyAnchors ==
    dst # NoDst =>
        /\ role \in Rangers
        /\ ranging_module = "twoway"
        /\ dst \in AnchorAddresses \ {ieeshortaddr}

\* A receiver that the radio or a ranging module left off stays off for less
\* than LoopsPerRecovery loops, although nothing else in main() switches it on.
DeafnessBounded == deaf < LoopsPerRecovery

\* Between a request and the next step of main() that takes the radio away from
\* its answer, another request or the recovery, the answer has range_delay.
AnswerHasTime == [][Request \/ TrxOff => since >= RangeDelay]_vars

\* Each receiver that is off is switched on again, with any role, also if it
\* was switched off between the steps of a recovery.
ReceiverRecovers == ~rx ~> rx

\* A ranger asks every anchor again and again, whatever its radio does.
EveryAnchorAsked ==
    \A a \in 0 .. 3 : (pc = "top" /\ role \in Rangers) ~> (pc = "asked" /\ dst = a)

=============================================================================
