SPECIFICATION MCSpec
CONSTANTS
    u1 = u1  u2 = u2
    w1 = w1  w2 = w2
    t1 = t1  t2 = t2
    v1 = v1
    s1 = s1  s2 = s2
    c1 = c1  c2 = c2
    Absent = Absent
    Users <- MCUsers
    Wallets <- MCWallets
    Txs <- MCTxs
    OtherDocs <- MCVerifs
    OtherRows <- Verification
    Owner <- MCOwner
    Amounts <- MCAmounts
    StatusUpdates <- MCStatusUpdates
    Sessions <- MCSessions
    Callers <- MCCallers
    MaxAttempts = 1
SYMMETRY Symmetry
INVARIANT
    RefundsAreBacked
