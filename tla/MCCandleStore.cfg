SPECIFICATION Spec
CONSTANTS
    Instrument = {u1}
    Bar = {1, 2}
    Kind = {"close_divergence"}
    MaxTime = 2
    ConflictId = {c1}
    NULL = NULL
    NoRow = NoRow
    MaxVersion = 2
    MaxRows = 3
VIEW StoreView
PROPERTIES AuditReadsKept EntryReadsOnlyShrink
