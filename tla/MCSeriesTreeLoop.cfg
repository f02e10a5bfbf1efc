SPECIFICATION Spec
CONSTANTS
    Series = {s1, s2, s3}
    NoSeries = NoSeries
    Requests = {r1}
SYMMETRY TreeSymmetry
INVARIANTS
    NoSeriesIsItsOwnAncestor
