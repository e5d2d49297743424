SPECIFICATION Spec
CONSTANTS
    Instrument = {i1, i2}
    Account = {a1, a2}
    SignalId = {s1, s2}
    ProposalId = {p1, p2}
    PositionId = {q1}
    OrderId = {o1, o2}
    Decision = {"candidate", "selected"}
    ProposalState = {"awaiting_confirmation", "confirmed"}
    OrderState = {"submitted"}
    Overwritten = {"positions", "orders", "audit_journal"}
    MaxLots = 2
    MaxJournal = 1
    NULL = NULL
    NoRow = NoRow
SYMMETRY ChainSymmetry
INVARIANTS TypeOK EntryChainSound ReferencesResolve
PROPERTIES ConfirmedDecisionFrozen ImplementsAuthority
