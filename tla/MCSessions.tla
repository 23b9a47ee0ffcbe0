------------------------------- MODULE MCSessions -------------------------------
(* Small instances of Sessions for TLC: unsigned int of two bits, unsigned   *)
(* long of three, so that numbers are truncated.                             *)
EXTENDS Sessions

MCNumbers == 0 .. 5
=============================================================================
