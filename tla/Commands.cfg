SPECIFICATION FairSpec
CONSTANTS
    Callers = {c1, c2}
    Nobody = Nobody
    Settings = {"frequency", "antenna", "iqData"}
    MaxQueued = 2
INVARIANTS
    MixedOnlyDisturbed
    SuccessMeansObeyed
PROPERTIES
    EveryCallReturns
