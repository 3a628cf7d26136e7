SPECIFICATION Spec
CONSTANTS
    Threads = {t1, t2}
    f1 = f1
    f2 = f2
    f2half = f2half
    Frequencies <- MCFrequencies
    Whole <- MCWhole
    Antennas = {a1, a2}
SYMMETRY DeviceSymmetry
INVARIANTS
    FrequencyTrue
    AntennaTrue
    FlagTrue
    VainReadsAreLate
PROPERTIES
    DeactivatedIsOff
