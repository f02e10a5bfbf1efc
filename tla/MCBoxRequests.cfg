SPECIFICATION Spec
CONSTANTS
    Requests = {r1, r2}
    Docs = {d1}
    Barcodes = {x, y}
    NoDoc = NoDoc
    NoRetired = NoRetired
SYMMETRY RequestSymmetry
INVARIANTS
    TypeOK
    HistoryTellsTheBox
    MirrorUnlessTorn
PROPERTIES
    PermOutUnlessOutdated
