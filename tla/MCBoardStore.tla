---------------------------- MODULE MCBoardStore ----------------------------
(***************************************************************************)
(* BoardStore on a small board, explored completely: every sequence of     *)
(* store calls that makes at most MaxSequence writes.                      *)
(***************************************************************************)
EXTENDS BoardStore
=============================================================================
