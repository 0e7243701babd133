---------------------------- MODULE LossyReports ----------------------------
(***************************************************************************)
(* What the serial output promises about range records, numbered in the    *)
(* order in which they are stored: each frame is a whole stored record, no *)
(* record is sent twice and none after a newer one.  Records may be lost.  *)
(***************************************************************************)

EXTENDS Naturals

VARIABLES
    stored,     \* the number of the last record stored
    sent,       \* the number of the last record sent
    frames      \* how many frames were sent

vars == <<stored, sent, frames>>

Init == stored = 0 /\ sent = 0 /\ frames = 0

Store == stored' = stored + 1 /\ UNCHANGED <<sent, frames>>

Send ==
    /\ sent' \in sent + 1 .. stored
    /\ frames' = frames + 1
    /\ UNCHANGED stored

Next == Store \/ Send

Spec == Init /\ [][Next]_vars

=============================================================================
