SPECIFICATION Spec
CONSTANTS
    Streams = {s1, s2}
    Requests = {1, 4, 5, 9}
    Align = 2
    Block = 4
SYMMETRY StreamSymmetry
INVARIANTS
    MemoryRespected
    FloatsDelivered
    MTUIsOneBlock
