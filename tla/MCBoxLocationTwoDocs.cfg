SPECIFICATION Spec
CONSTANTS
    Boxes = {b1}
    RasBoxes = {b1}
    Docs = {d1, d2}
    Places = {ras, dis, hall}
    Ras = ras
    Disinfestation = dis
    Archives = {hall}
    NoPlace = NoPlace
    NoBox = NoBox
SYMMETRY DocSymmetry
INVARIANTS
    TypeOK
    HistoryNamesThePlace
    TakenPlaceFollowsDocs
PROPERTIES
    HandSetPlaceIsKept
