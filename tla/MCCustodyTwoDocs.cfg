SPECIFICATION Spec
CONSTANTS
    Boxes = {b1}
    Docs = {d1, d2}
    Batches = {t50}
    WillsBatches = {t50}
    Kinds = {"RAS", "LEGACY"}
    NoBox = NoBox
    NoBatch = NoBatch
    Gone = Gone
SYMMETRY RowSymmetry
INVARIANTS
    StatusMirror
