SPECIFICATION Spec
CONSTANTS
    Series = {s1, s2, s3}
    NoSeries = NoSeries
    Requests = {r1, r2}
SYMMETRY TreeSymmetry
INVARIANTS
    TypeOK
    LoopsWereOutOfSight
    DescendantsAreThoseBelow
