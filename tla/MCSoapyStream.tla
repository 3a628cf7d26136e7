--------------------------- MODULE MCSoapyStream ---------------------------
(* Small instances of SoapyStream for TLC. *)
EXTENDS SoapyStream, TLC

StreamSymmetry == Permutations(Streams)
=============================================================================
