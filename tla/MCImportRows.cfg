SPECIFICATION Spec
CONSTANTS
    Rows = 3
    SliceLength = 2
    RasBoxes = {ras}
    SituBoxes = {situ}
    None = None
    Slots = {s1, s2}
    MaxDeaths = 1
SYMMETRY SlotSymmetry
CHECK_DEADLOCK FALSE
INVARIANTS
    TypeOK
    NoHalfRows
    SuccessIsDurable
    FaultlessRowFailsOnlyBehindAFailure
    MisplacedOnlyBehindAFailure
    OneBoxIsNoMoveTheFirstTime
