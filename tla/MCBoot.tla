------------------------------- MODULE MCBoot -------------------------------
(***************************************************************************)
(* An instance of Boot.                                                    *)
(***************************************************************************)

EXTENDS Boot

EuiBytes == <<224, 225, 226, 227, 228, 229>>

=============================================================================
