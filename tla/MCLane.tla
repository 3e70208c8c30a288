------------------------------- MODULE MCLane -------------------------------
(***************************************************************************)
(* Lane for TLC: lanes closed on their own and with their notifier while   *)
(* they are still called.                                                  *)
(***************************************************************************)
EXTENDS Lane
=============================================================================
