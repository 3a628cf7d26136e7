---------------------------- MODULE MCCivSerial ----------------------------
(* Small instances of CivSerial for TLC. *)
EXTENDS CivSerial
=============================================================================
