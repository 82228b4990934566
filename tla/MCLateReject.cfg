SPECIFICATION MCSpec
CONSTANTS
    u1 = u1  u2 = u2
    w1 = w1  w2 = w2
    t1 = t1  t2 = t2  t3 = t3
    s1 = s1  s2 = s2
    c1 = c1
    Absent = Absent
    Users <- MCUsers
    Wallets <- MCWallets
    Txs <- MCTxs
    OtherDocs <- NoRows
    OtherRows <- NoRows
    Owner <- MCOwner
    Amounts <- MCAmounts
    StatusUpdates <- MCStatusUpdates
    Sessions <- MCSessions
    Callers <- MCCallers
    NewStatus <- MCNewStatus
    MaxBalance = 60000
SYMMETRY Symmetry
PROPERTY
    RejectsOnlyPending
