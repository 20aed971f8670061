SPECIFICATION StoreSpec
CONSTANTS
    Partitions = {0}
    MaxOffset = 1
    None = None
    Requests = {r1, r2}
    Engines = {e1}
    Payloads = {x, y}
    TransitionTargets <- MCTargets
    MaxEpoch = 2
    MaxVersion = 2
INVARIANTS
    TypeOK
    OutboxMirrorsAuthority
    PoisonMirrorsDlq
    OneResultPerSource
    FenceWasIssued
PROPERTIES
    TerminalIsFinal
    FencesOnlyAdvance
    ImplementsAuthority
SYMMETRY MCSymmetry
