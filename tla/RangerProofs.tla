---------------------------- MODULE RangerProofs ----------------------------
(***************************************************************************)
(* Proofs about Ranger: for any boards, any number of loops between two    *)
(* recoveries and any sleeps.                                              *)
(***************************************************************************)

EXTENDS Ranger, TLAPS

Unnamed == {"get_euid", "role"}
Starting == Unnamed \cup {"init"}

\* The role and the address are those of the id that was read.
NamingInv ==
    /\ pc \in Unnamed => role = "UNDEFINED"
    /\ pc \notin Unnamed => role = get_role(devid) /\ ieeshortaddr = shortaddr_of(role)

\* Only a ranger with the two-way module gets to the requests.
AskingInv ==
    /\ pc \in Starting => dst = NoDst
    /\ pc \notin Starting /\ role \in Rangers => ranging_module = "twoway"
    /\ dst # NoDst => role \in Rangers
    /\ pc \in {"ask", "asked"} => dst # NoDst /\ role \in Rangers

\* What is left of a sleep completes the time of the last request.
TimeInv == since + left >= RangeDelay

\* A loop can only end deaf if per_loop counts it too.
DeafInv == deaf < per_loop

IInv == TypeOK /\ NamingInv /\ AskingInv /\ TimeInv /\ DeafInv

-----------------------------------------------------------------------------

\* get_role answers with a role, whatever was read.
LEMMA RoleType == ASSUME NEW id PROVE get_role(id) \in rangerRole
<1>1. ASSUME id.eui \in DOMAIN Roles PROVE Roles[id.eui] \in rangerRole
  BY <1>1 DEF Roles, rangerRole, Anchors, Rangers
<1> QED
  BY <1>1 DEF get_role, rangerRole, Anchors, Rangers

\* get_role returns an anchor only for that anchor's own EUI-48.
LEMMA AnchorsAreThemselves ==
    ASSUME NEW e, NEW u, NEW id \in ReadsOf(e, u), get_role(id) \in Anchors
    PROVE  e \in DOMAIN Roles /\ Roles[e] = get_role(id)
<1>1. AllOnes.eui \notin DOMAIN Roles
  BY DEF AllOnes, Id, Roles
<1>2. id # AllZero /\ id.eui \in DOMAIN Roles /\ Roles[id.eui] = get_role(id)
  BY DEF get_role, Anchors
<1>3. id = Id(e, u)
  BY <1>1, <1>2 DEF ReadsOf
<1> QED
  BY <1>2, <1>3 DEF Id

\* The addresses of main()'s switch.
LEMMA AddressType == ASSUME NEW r PROVE shortaddr_of(r) \in 0 .. 6
  BY DEF shortaddr_of

LEMMA AnchorAddressesAre == AnchorAddresses = 0 .. 3
<1>1. ASSUME NEW a \in AnchorAddresses PROVE a \in 0 .. 3
  <2>1. PICK r \in Anchors : a = shortaddr_of(r)
    BY DEF AnchorAddresses
  <2> QED
    BY <2>1 DEF Anchors, shortaddr_of
<1>2. ASSUME NEW a \in 0 .. 3 PROVE a \in AnchorAddresses
  <2>1. PICK r \in Anchors : a = shortaddr_of(r)
    <3>1. shortaddr_of("ANCHOR0") = 0 /\ shortaddr_of("ANCHOR1") = 1
          /\ shortaddr_of("ANCHOR2") = 2 /\ shortaddr_of("ANCHOR3") = 3
      BY DEF shortaddr_of
    <3>2. a = 0 \/ a = 1 \/ a = 2 \/ a = 3
      OBVIOUS
    <3> QED
      BY <3>1, <3>2 DEF Anchors
  <2> QED
    BY <2>1 DEF AnchorAddresses
<1> QED
  BY <1>1, <1>2

LEMMA RangerAddress ==
    ASSUME NEW r \in Rangers PROVE shortaddr_of(r) \notin 0 .. 3
  BY DEF Rangers, shortaddr_of

-----------------------------------------------------------------------------

LEMMA InitIInv == Init => IInv
<1> SUFFICES ASSUME Init PROVE IInv
  OBVIOUS
<1> USE LoopAssumption, TimeAssumption DEF Init
<1>1. TypeOK
  <2>1. pc \in Locations /\ devid \in ReadsOf(eui, user) /\ role \in rangerRole
    BY DEF Locations, ReadsOf, rangerRole
  <2>2. ranging_module \in {"NULL", "twoway", "passive"} /\ filtering \in BOOLEAN
        /\ rx \in BOOLEAN /\ dst \in AnchorAddresses \cup {NoDst}
    OBVIOUS
  <2>3. /\ ieeshortaddr \in 0 .. 6 /\ per_loop \in 1 .. LoopsPerRecovery
        /\ left \in Nat /\ since \in 0 .. RangeDelay /\ deaf \in 0 .. LoopsPerRecovery
    OBVIOUS
  <2> QED
    BY <2>1, <2>2, <2>3 DEF TypeOK
<1>2. NamingInv /\ AskingInv
  BY DEF NamingInv, AskingInv, Unnamed, Starting
<1>3. TimeInv /\ DeafInv
  BY DEF TimeInv, DeafInv
<1> QED
  BY <1>1, <1>2, <1>3 DEF IInv

LEMMA NextIInv == IInv /\ [Next]_vars => IInv'
<1> SUFFICES ASSUME IInv, [Next]_vars PROVE IInv'
  OBVIOUS
<1> USE LoopAssumption, TimeAssumption DEF IInv, TypeOK, Locations, Unnamed, Starting,
        memory, naming, radio, MainStep, SetRx
<1>1. CASE get_euid
  <2>1. pc = "get_euid" /\ pc' = "role" /\ devid' \in ReadsOf(eui', user')
    BY <1>1 DEF get_euid
  <2>2. TypeOK'
    BY <1>1, <2>1 DEF get_euid
  <2> QED
    BY <1>1, <2>1, <2>2 DEF get_euid, NamingInv, AskingInv, TimeInv, DeafInv
<1>2. CASE AssignRole
  <2>1. role' = get_role(devid) /\ role' \in rangerRole
    BY <1>2, RoleType DEF AssignRole
  <2>2. ieeshortaddr' = shortaddr_of(role') /\ ieeshortaddr' \in 0 .. 6
    BY <1>2, AddressType DEF AssignRole
  <2>3. TypeOK'
    BY <1>2, <2>1, <2>2 DEF AssignRole
  <2>4. NamingInv' /\ AskingInv'
    BY <1>2, <2>1, <2>2 DEF AssignRole, NamingInv, AskingInv
  <2> QED
    BY <1>2, <2>3, <2>4 DEF AssignRole, TimeInv, DeafInv
<1>3. CASE DwInit
  <2>1. "UNDEFINED" \notin Rangers
    BY DEF Rangers
  <2>2. TypeOK'
    BY <1>3 DEF DwInit
  <2>3. NamingInv' /\ AskingInv'
    BY <1>3, <2>1 DEF DwInit, NamingInv, AskingInv
  <2> QED
    BY <1>3, <2>2, <2>3 DEF DwInit, TimeInv, DeafInv
<1>4. CASE StartReceiver
  BY <1>4 DEF StartReceiver, NamingInv, AskingInv, TimeInv, DeafInv
<1>5. CASE DisableFiltering
  BY <1>5, Zenon DEF DisableFiltering, NamingInv, AskingInv, TimeInv, DeafInv
<1>6. CASE Sensors
  <2>1. TypeOK' /\ NamingInv' /\ AskingInv' /\ DeafInv'
    BY <1>6 DEF Sensors, NamingInv, AskingInv, DeafInv
  <2> QED
    BY <1>6, <2>1 DEF Sensors, TimeInv
<1>7. CASE AnchorTurn
  <2>1. left' \in Nat
    BY <1>7 DEF AnchorTurn
  <2>2. TimeInv'
    BY <1>7, <2>1 DEF AnchorTurn, TimeInv
  <2> QED
    BY <1>7, <2>1, <2>2 DEF AnchorTurn, NamingInv, AskingInv, DeafInv
<1>8. CASE ListenerTurn
  BY <1>8 DEF ListenerTurn, NamingInv, AskingInv, TimeInv, DeafInv
<1>9. CASE RangerTurn
  BY <1>9, AnchorAddressesAre DEF RangerTurn, NoDst, NamingInv, AskingInv, TimeInv, DeafInv
<1>10. CASE Request
  BY <1>10 DEF Request, NamingInv, AskingInv, TimeInv, DeafInv
<1>11. CASE NextAnchor
  BY <1>11, AnchorAddressesAre DEF NextAnchor, NoDst, NamingInv, AskingInv, TimeInv, DeafInv
<1>12. CASE LoopWithoutRecovery
  <2>1. per_loop < LoopsPerRecovery
    BY <1>12 DEF LoopWithoutRecovery, RecoveryIsDue
  <2>2. TypeOK' /\ DeafInv'
    BY <1>12, <2>1 DEF LoopWithoutRecovery, DeafInv
  <2> QED
    BY <1>12, <2>2 DEF LoopWithoutRecovery, NamingInv, AskingInv, TimeInv
<1>13. CASE TrxOff
  BY <1>13 DEF TrxOff, NamingInv, AskingInv, TimeInv, DeafInv
<1>14. CASE SoftresetRx
  BY <1>14 DEF SoftresetRx, NamingInv, AskingInv, TimeInv, DeafInv
<1>15. CASE Restart
  BY <1>15 DEF Restart, NamingInv, AskingInv, TimeInv, DeafInv
<1>16. CASE RadioEvent
  <2>1. rx' \in BOOLEAN /\ deaf' \in {0, deaf}
    BY <1>16, Zenon DEF RadioEvent
  <2>2. UNCHANGED <<pc, memory, naming, radio, per_loop, dst, left, since>>
    BY <1>16 DEF RadioEvent
  <2> QED
    BY <2>1, <2>2 DEF NamingInv, AskingInv, TimeInv, DeafInv
<1>17. CASE Tick
  BY <1>17 DEF Tick, NamingInv, AskingInv, TimeInv, DeafInv
<1>18. CASE UNCHANGED vars
  BY <1>18 DEF vars, NamingInv, AskingInv, TimeInv, DeafInv
<1> QED
  BY <1>1, <1>2, <1>3, <1>4, <1>5, <1>6, <1>7, <1>8, <1>9, <1>10, <1>11, <1>12, <1>13,
     <1>14, <1>15, <1>16, <1>17, <1>18 DEF Next, Main, Start, Loop

\* IInv holds throughout.
LEMMA Inductive == Spec => []IInv
  BY InitIInv, NextIInv, PTL DEF Spec

\* Type correctness.
THEOREM TypeCorrect == Spec => []TypeOK
<1>1. IInv => TypeOK
  BY DEF IInv
<1> QED
  BY <1>1, Inductive, PTL

\* No board takes an anchor's place, whatever its EEPROM read gave.
THEOREM NoFalseAnchor == Spec => []MisreadNeverAnchor
<1>1. IInv => MisreadNeverAnchor
  <2> SUFFICES ASSUME IInv, role \in Anchors
               PROVE  eui \in DOMAIN Roles /\ Roles[eui] = role
    BY DEF MisreadNeverAnchor
  <2>1. role = get_role(devid)
    BY DEF IInv, NamingInv, Anchors
  <2>2. devid \in ReadsOf(eui, user)
    BY DEF IInv, TypeOK
  <2> QED
    BY <2>1, <2>2, AnchorsAreThemselves
<1> QED
  BY <1>1, Inductive, PTL

\* Requests go from rangers to anchors.
THEOREM RequestsReachAnchors == Spec => []AsksOnlyAnchors
<1>1. IInv => AsksOnlyAnchors
  <2> SUFFICES ASSUME IInv, dst # NoDst
               PROVE  /\ role \in Rangers /\ ranging_module = "twoway"
                      /\ dst \in AnchorAddresses \ {ieeshortaddr}
    BY DEF AsksOnlyAnchors
  <2>1. role \in Rangers /\ pc \notin Starting
    BY DEF IInv, AskingInv
  <2>2. ranging_module = "twoway" /\ ieeshortaddr = shortaddr_of(role)
    BY <2>1 DEF IInv, AskingInv, NamingInv, Starting
  <2>3. dst \in AnchorAddresses
    BY DEF IInv, TypeOK
  <2> QED
    BY <2>1, <2>2, <2>3, RangerAddress, AnchorAddressesAre
<1> QED
  BY <1>1, Inductive, PTL

\* A receiver is never off for LoopsPerRecovery loops.
THEOREM NeverDeafForLong == Spec => []DeafnessBounded
<1>1. IInv => DeafnessBounded
  BY LoopAssumption DEF IInv, TypeOK, DeafInv, DeafnessBounded
<1> QED
  BY <1>1, Inductive, PTL

\* main() leaves each request its range_delay.
THEOREM AnswersHaveTime == Spec => AnswerHasTime
<1>1. IInv => (Request \/ TrxOff => since >= RangeDelay)
  <2>1. Request \/ TrxOff => left = 0
    BY DEF Request, TrxOff, MainStep
  <2>2. IInv /\ left = 0 => since >= RangeDelay
    BY TimeAssumption DEF IInv, TypeOK, TimeInv
  <2> QED
    BY <2>1, <2>2
<1> QED
  BY <1>1, Inductive, PTL DEF Spec, AnswerHasTime

-----------------------------------------------------------------------------

\* The steps of main() from here to the end of the loop, those of a ranger, whose
\* loop is the longest with 11.
ToCheck ==
    CASE pc = "filter" -> 11
      [] pc = "top"    -> 10
      [] pc = "turn"   -> 9
      [] pc = "ask"    -> 8 - 2 * dst
      [] pc = "asked"  -> 7 - 2 * dst
      [] OTHER         -> 0

\* The steps that main() has at most before it until it has switched the receiver
\* on by itself.
StepsToOn ==
    CASE pc = "get_euid"  -> 4  [] pc = "role"    -> 3
      [] pc = "init"      -> 2  [] pc = "receive" -> 1
      [] pc = "softreset" -> 2  [] pc = "restart" -> 1
      [] OTHER            -> 11 * (LoopsPerRecovery - per_loop) + ToCheck + 3

LEMMA AskedAre ==
    ASSUME TypeOK, AskingInv, pc \in {"ask", "asked"} PROVE dst \in 0 .. 3
BY AnchorAddressesAre DEF TypeOK, AskingInv, NoDst

LEMMA StepsToOnBound ==
    ASSUME IInv
    PROVE  /\ StepsToOn \in 1 .. 11 * LoopsPerRecovery + 3
           /\ ToCheck \in 0 .. 11
<1>1. /\ per_loop \in 1 .. LoopsPerRecovery
      /\ LoopsPerRecovery \in Nat /\ LoopsPerRecovery >= 2
  BY LoopAssumption DEF IInv, TypeOK
<1>2. ToCheck \in 0 .. 11
  <2>1. CASE pc \in {"ask", "asked"}
    BY <2>1, AskedAre DEF IInv, ToCheck
  <2>2. CASE pc \notin {"ask", "asked"}
    BY <2>2 DEF ToCheck
  <2> QED
    BY <2>1, <2>2
<1>3. \/ StepsToOn \in 1 .. 4
      \/ StepsToOn = 11 * (LoopsPerRecovery - per_loop) + ToCheck + 3
  BY DEF StepsToOn
<1> QED
  BY <1>1, <1>2, <1>3

\* Every step of main() either is the one that switches the receiver on, or brings
\* main() nearer to it, whatever the radio does: LoopsPerRecovery loops are enough.
THEOREM RecoveryComesNearer ==
    Spec => /\ [](StepsToOn \in 1 .. 11 * LoopsPerRecovery + 3)
            /\ [][Main => \/ StepsToOn' < StepsToOn
                          \/ (StartReceiver \/ Restart) /\ rx']_vars
<1>1. ASSUME IInv
      PROVE  /\ per_loop \in 1 .. LoopsPerRecovery /\ LoopsPerRecovery \in Nat
             /\ LoopsPerRecovery >= 2
             /\ pc \in {"ask", "asked"} => dst \in 0 .. 3
  BY <1>1, LoopAssumption, AskedAre DEF IInv, TypeOK
<1>2. ASSUME IInv, get_euid \/ AssignRole \/ DwInit PROVE StepsToOn' < StepsToOn
  BY <1>2 DEF get_euid, AssignRole, DwInit, MainStep, StepsToOn
<1>3. ASSUME StartReceiver \/ Restart PROVE rx'
  BY <1>3 DEF StartReceiver, Restart, SetRx
<1>4. ASSUME IInv, \/ DisableFiltering \/ Sensors \/ AnchorTurn \/ ListenerTurn
                   \/ RangerTurn \/ Request
      PROVE  StepsToOn' < StepsToOn
  <2>1. per_loop' = per_loop
    BY <1>4 DEF DisableFiltering, Sensors, AnchorTurn, ListenerTurn, RangerTurn, Request
  <2>2. StepsToOn = 11 * (LoopsPerRecovery - per_loop) + ToCheck + 3
    BY <1>4 DEF DisableFiltering, Sensors, AnchorTurn, ListenerTurn, RangerTurn, Request,
       MainStep, StepsToOn
  <2>3. StepsToOn' = 11 * (LoopsPerRecovery - per_loop) + ToCheck' + 3
    BY <1>4, <2>1 DEF DisableFiltering, Sensors, AnchorTurn, ListenerTurn, RangerTurn,
       Request, MainStep, StepsToOn
  <2>4. /\ ToCheck \in 0 .. 11 /\ ToCheck' \in 0 .. 11
        /\ ToCheck' < ToCheck
    <3>1. CASE Request
      BY <1>1, <1>4, <3>1 DEF Request, MainStep, ToCheck
    <3>2. CASE RangerTurn
      BY <3>2 DEF RangerTurn, MainStep, ToCheck
    <3>3. CASE DisableFiltering \/ Sensors \/ AnchorTurn \/ ListenerTurn
      BY <3>3 DEF DisableFiltering, Sensors, AnchorTurn, ListenerTurn, MainStep, ToCheck
    <3> QED
      BY <1>4, <3>1, <3>2, <3>3
  <2> HIDE DEF ToCheck
  <2> QED
    BY <1>1, <1>4, <2>2, <2>3, <2>4
<1>5. ASSUME IInv, NextAnchor PROVE StepsToOn' < StepsToOn
  <2>1. pc = "asked" /\ dst \in 0 .. 3 /\ per_loop' = per_loop
    BY <1>1, <1>5 DEF NextAnchor, MainStep
  <2>2. StepsToOn = 11 * (LoopsPerRecovery - per_loop) + (7 - 2 * dst) + 3
    BY <2>1 DEF StepsToOn, ToCheck
  <2>3. CASE dst < 3
    <3>1. pc' = "ask" /\ dst' = dst + 1
      BY <1>5, <2>3 DEF NextAnchor, MainStep
    <3>2. StepsToOn' = 11 * (LoopsPerRecovery - per_loop) + (8 - 2 * (dst + 1)) + 3
      BY <2>1, <3>1 DEF StepsToOn, ToCheck
    <3> QED
      BY <1>1, <1>5, <2>1, <2>2, <3>2
  <2>4. CASE ~(dst < 3)
    <3>1. pc' = "check" /\ dst = 3
      BY <1>5, <2>1, <2>4 DEF NextAnchor, MainStep
    <3>2. StepsToOn' = 11 * (LoopsPerRecovery - per_loop) + 0 + 3
      BY <2>1, <3>1 DEF StepsToOn, ToCheck
    <3> QED
      BY <1>1, <1>5, <2>2, <3>1, <3>2
  <2> QED
    BY <2>3, <2>4
<1>6. ASSUME IInv, LoopWithoutRecovery PROVE StepsToOn' < StepsToOn
  <2>1. pc = "check" /\ pc' = "top" /\ per_loop' = per_loop + 1
    BY <1>6 DEF LoopWithoutRecovery, MainStep
  <2>2. StepsToOn = 11 * (LoopsPerRecovery - per_loop) + 0 + 3
    BY <2>1 DEF StepsToOn, ToCheck
  <2>3. StepsToOn' = 11 * (LoopsPerRecovery - (per_loop + 1)) + 10 + 3
    BY <2>1 DEF StepsToOn, ToCheck
  <2> QED
    BY <1>1, <1>6, <2>2, <2>3
<1>7. ASSUME IInv, TrxOff \/ SoftresetRx PROVE StepsToOn' < StepsToOn
  <2>1. CASE TrxOff
    <3>1. pc = "check" /\ pc' = "softreset"
      BY <2>1 DEF TrxOff, MainStep
    <3>2. StepsToOn = 11 * (LoopsPerRecovery - per_loop) + 0 + 3 /\ StepsToOn' = 2
      BY <3>1 DEF StepsToOn, ToCheck
    <3> QED
      BY <1>1, <1>7, <3>2
  <2>2. CASE SoftresetRx
    BY <2>2 DEF SoftresetRx, MainStep, StepsToOn
  <2> QED
    BY <1>7, <2>1, <2>2
<1>8. IInv => [Main => \/ StepsToOn' < StepsToOn
                       \/ (StartReceiver \/ Restart) /\ rx']_vars
  BY <1>2, <1>3, <1>4, <1>5, <1>6, <1>7, Zenon DEF Main, Start, Loop
<1>9. IInv => StepsToOn \in 1 .. 11 * LoopsPerRecovery + 3
  BY StepsToOnBound
<1> QED
  BY <1>8, <1>9, Inductive, PTL

=============================================================================
