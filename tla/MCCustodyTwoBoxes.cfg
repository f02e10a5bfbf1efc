SPECIFICATION Spec
CONSTANTS
    Boxes = {b1, b2}
    Docs = {d1}
    Batches = {t1}
    WillsBatches = {}
    Kinds = {"RAS"}
    NoBox = NoBox
    NoBatch = NoBatch
    Gone = Gone
SYMMETRY RowSymmetry
INVARIANTS
    StatusMirror
    BatchMirror
PROPERTIES
    EntersOpenBoxes
    ImplementsPlacement
    PermOutIsLeftForInOnly
