------------------------------ MODULE MCRowLocks ------------------------------
(* RowLocks for TLC: two requests at a time, on two sessions of the user.  *)
EXTENDS RowLocks, TLC
=============================================================================
