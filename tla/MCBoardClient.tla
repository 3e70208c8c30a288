---------------------------- MODULE MCBoardClient ---------------------------
(***************************************************************************)
(* Instances of BoardClient for TLC.                                       *)
(***************************************************************************)
EXTENDS BoardClient

\* Every agent may write to every level.
WritesAll == [a \in Agents |-> Levels]
=============================================================================
