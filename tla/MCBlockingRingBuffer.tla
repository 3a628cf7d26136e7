------------------------ MODULE MCBlockingRingBuffer ------------------------
(* Small instances of BlockingRingBuffer for TLC. *)
EXTENDS BlockingRingBuffer, TLC

ReaderSymmetry == Permutations(Readers)
=============================================================================
