SPECIFICATION Spec
CONSTANTS
    Requests = {r1, r2}
    Docs = {d1, d2}
    NoDoc = NoDoc
    NoRequest = NoRequest
SYMMETRY CycleSymmetry
INVARIANTS
    TypeOK
    StaysOutUntilTheLast
    ReturnsWithTheLast
PROPERTIES
    FinishLeavesNothingOut
