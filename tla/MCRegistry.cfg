SPECIFICATION Spec
CONSTANTS
    t1 = t1
    t2 = t2
    share1 = share1
    share2 = share2
    index1 = index1
    index2 = index2
    opaque = opaque
    Ticker <- MCTicker
    Status = {"approved", "blocked"}
    Uid <- MCUid
    ShareUid <- MCShareUid
    IndexUid <- MCIndexUid
    MaxChanges = 3
    NULL = NULL
    NoRow = NoRow
INVARIANTS TypeOK OneUidPerTicker JournalExplainsStatus
PROPERTY NoSilentChange
