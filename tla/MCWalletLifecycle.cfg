SPECIFICATION MCSpec
CONSTANTS
    u1 = u1
    w1 = w1  w2 = w2  w3 = w3  w4 = w4
    t1 = t1  t2 = t2  t3 = t3
    a1 = a1
    s1 = s1  s2 = s2
    c1 = c1  c2 = c2
    h1 = h1
    Absent = Absent
    Users <- MCUsers
    Wallets <- MCWallets
    Txs <- MCTxs
    OtherDocs <- MCApps
    OtherRows <- Application
    Owner <- MCOwner
    Amounts <- MCAmounts
    StatusUpdates <- MCStatusUpdates
    Sessions <- MCSessions
    Closers <- MCClosers
    Refusers <- MCRefusers
    Deposits <- MCAmounts
    Type <- MCType
    AccountTypes <- MCAccountTypes
SYMMETRY Symmetry
VIEW View
INVARIANTS
    LifeTypeOK
    ClosingConserves
    ClosedIsEmpty
    PaidOncePerApplication
    ApprovalsStillPossible
\* When every identity is used and every application settled, nothing is left
\* to do.
CHECK_DEADLOCK FALSE
