---------------------------- MODULE MCBatchWindow ----------------------------
\* A region without a window, a level and a premise with windows that differ.
EXTENDS BatchWindow, TLC

CONSTANTS now, soon, late

Windows == (now :> 0) @@ (soon :> 1) @@ (late :> 2)
=============================================================================
