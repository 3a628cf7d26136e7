--------------------------- MODULE MCSoapyDevice ---------------------------
(* Small instances of SoapyDevice for TLC. *)
EXTENDS SoapyDevice, TLC

CONSTANTS f1, f2,   \* two frequencies in whole hertz
          f2half    \* half a hertz above the second

MCFrequencies == {f1, f2, f2half}
MCWhole == [f \in MCFrequencies |-> IF f = f2half THEN f2 ELSE f]

DeviceSymmetry == Permutations(Threads) \cup Permutations(Antennas)
=============================================================================
