---------------------------- MODULE MCEmailSettings ----------------------------
(* EmailSettings for TLC: one request at a time.                           *)
EXTENDS EmailSettings, TLC
=============================================================================
