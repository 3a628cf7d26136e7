SPECIFICATION Spec
CONSTANTS
    BuffSize = 4
    Labels = 6
    Writers = {w1}
    Readers = {r1, r2}
    WriteSizes = {1, 2}
    ReadSizes = {2}
SYMMETRY ReaderSymmetry
INVARIANTS
    Accounting
    DamageConfined
    NoWakeupLost
    SomeoneCanRun
PROPERTIES
    ImplementsQueue
