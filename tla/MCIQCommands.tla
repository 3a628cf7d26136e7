---------------------------- MODULE MCIQCommands ----------------------------
(* Small instances of IQCommands for TLC. *)
EXTENDS IQCommands
=============================================================================
