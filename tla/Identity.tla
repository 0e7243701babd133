------------------------------ MODULE Identity ------------------------------
(***************************************************************************)
(* Who a board is: the EEPROM read of get_euid (main.c, eeprom.c), the     *)
(* role table of get_role and the short address main() derives from it.    *)
(*                                                                         *)
(* get_euid reads eight bytes from 0xFA on, but the memory ends at 0xFF:   *)
(* six bytes are the board's own EUI-48, and the read goes on at 0x00 with *)
(* two bytes of ordinary memory, 0xffff as long as they are erased.  An id *)
(* is therefore a pair; names are the hexadecimal digits of get_role.      *)
(***************************************************************************)

EXTENDS Naturals

\* The boards that get_role knows.
Roles ==
    [eui \in {"0c0412000ba3", "34fc11000ba3", "4cee11000ba3", "5ffc11000ba3",
              "120b12000ba3", "110812000ba3", "e7bc553980d8"} |->
        CASE eui = "0c0412000ba3" -> "ANCHOR0"
          [] eui = "34fc11000ba3" -> "ANCHOR1"
          [] eui = "4cee11000ba3" -> "ANCHOR2"
          [] eui = "5ffc11000ba3" -> "ANCHOR3"
          [] eui = "120b12000ba3" -> "NODE1"
          [] OTHER                -> "NODE2"]

Anchors == {"ANCHOR0", "ANCHOR1", "ANCHOR2", "ANCHOR3"}
Rangers == {"NODE1", "NODE2"}
rangerRole == Anchors \cup Rangers \cup {"UNDEFINED"}

Id(eui, user) == [eui |-> eui, user |-> user]

AllZero == Id("000000000000", "0000")
AllOnes == Id("ffffffffffff", "ffff")

\* What get_euid may leave in devid: what the memory holds, or what the bus
\* gives when the memory does not answer (spiReceive reports no failure).
ReadsOf(eui, user) == {Id(eui, user), AllZero, AllOnes}

\* Mutant: an unknown board is taken for the first anchor.
get_role_default(id) ==
    IF id = AllZero THEN "NODE2"
    ELSE IF id.user = "ffff" /\ id.eui \in DOMAIN Roles THEN Roles[id.eui]
    ELSE "ANCHOR0"

get_role(id) ==
    IF id = AllZero THEN "NODE2"
    ELSE IF id.user = "ffff" /\ id.eui \in DOMAIN Roles THEN Roles[id.eui]
    ELSE "UNDEFINED"

\* Mutant: the break of ANCHOR3 is missing.
shortaddr_of_fallthrough(role) ==
    CASE role = "ANCHOR0" -> 0
      [] role = "ANCHOR1" -> 1
      [] role = "ANCHOR2" -> 2
      [] role \in {"ANCHOR3", "NODE1"} -> 4
      [] role = "NODE2"   -> 5
      [] OTHER            -> 6

\* The switch of main().
shortaddr_of(role) ==
    CASE role = "ANCHOR0" -> 0
      [] role = "ANCHOR1" -> 1
      [] role = "ANCHOR2" -> 2
      [] role = "ANCHOR3" -> 3
      [] role = "NODE1"   -> 4
      [] role = "NODE2"   -> 5
      [] OTHER            -> 6

AnchorAddresses == {shortaddr_of(r) : r \in Anchors}

=============================================================================
