SPECIFICATION Spec
CONSTANTS
    Instrument = {u1, u2}
    Bar = {b1}
    Kind = {"missing_bar", "close_divergence"}
    MaxTime = 2
    ConflictId = {c1, c2, c3}
    NoRow = NoRow
    NULL = NULL
SYMMETRY GateSymmetry
INVARIANTS TypeOK OneOpenPerKey MarkerBackedByGate SkipsJustified
PROPERTIES RowsOnlyMature GateHistoryKept
