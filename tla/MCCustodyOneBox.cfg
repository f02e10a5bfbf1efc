SPECIFICATION Spec
CONSTANTS
    Boxes = {b1}
    Docs = {d1}
    Batches = {t1, t50}
    WillsBatches = {t50}
    Kinds = {"RAS", "LEGACY", "OTHER"}
    NoBox = NoBox
    NoBatch = NoBatch
    Gone = Gone
SYMMETRY RowSymmetry
INVARIANTS
    TypeOK
    BatchMirror
    WillsReserve
