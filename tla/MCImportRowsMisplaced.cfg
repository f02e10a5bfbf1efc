SPECIFICATION Spec
CONSTANTS
    Rows = 3
    SliceLength = 2
    RasBoxes = {ras}
    SituBoxes = {situ}
    None = None
    Slots = {s1, s2}
    MaxDeaths = 0
SYMMETRY SlotSymmetry
CHECK_DEADLOCK FALSE
INVARIANTS
    DocumentsAreWhereTheirRowsSay
