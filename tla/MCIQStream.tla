----------------------------- MODULE MCIQStream -----------------------------
(* Small instances of IQStream for TLC. *)
EXTENDS IQStream

\* The output types of IC7610FormatTypes that the stream accepts.
OutputTypes == {"S16", "CF32", "CF64"}
=============================================================================
