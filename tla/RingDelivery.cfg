SPECIFICATION Spec
CONSTANTS
    BuffSize = 4
    Labels = 6
    Writers = {w1}
    Readers = {r1}
    WriteSizes = {1, 2}
    ReadSizes = {2}
INVARIANTS
    ReadsDeliver
