--------------------------- MODULE MCIQAsyncReader ---------------------------
(* Small instances of IQAsyncReader for TLC. *)
EXTENDS IQAsyncReader
=============================================================================
