SPECIFICATION Spec
CONSTANTS
    Slices = {s1, s2}
    Workers = {w1, w2}
    NoWorker = NoWorker
    NoSlice = NoSlice
    RetryAfter = 2
    LockExpires = 3
    ReleaseAfter = 1
    AttemptLimit = 5
    MaxDeaths = 1
INVARIANTS
    TypeOK
    OneSliceAtATime
    NoSliceIsLost
    OneWorkerFailsNoSlice
    ReadAgainOnlyAfterATimeout
    CompletedTellsTheTruth
PROPERTIES
    ImplementsReading
    EverySliceEnds
    ImportCompletes
