---------------------------- MODULE MCCollective ----------------------------
(***************************************************************************)
(* Small instances of Collective for TLC.                                  *)
(***************************************************************************)
EXTENDS Collective, TLC
CONSTANTS e1, e2
=============================================================================
