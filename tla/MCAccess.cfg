SPECIFICATION AccessSpec
CONSTANTS
    c1 = c1  c2 = c2  c3 = c3
    l1 = l1  l2 = l2
    q1 = q1  q2 = q2
    t1 = t1  t2 = t2  t3 = t3  t4 = t4
    x1 = x1  x2 = x2
    NotSet = NotSet
    Calls <- MCCalls
    Retries = 2
    Logins <- MCLogins
    Max = 3
    MaxUnseen = 2
    Redeemers <- MCRedeemers
    Tokens <- MCTokens
    Codes <- MCCodes
    Type <- MCType
    MaxExposures = 2
INVARIANTS
    LockTypeOK
    ExclusionUpToOverruns
    GuessesBounded
PROPERTIES
    LockComesFree
    LockoutEnds
    OneTimePromise
\* Every call ends, and every secret is spent in the end.
CHECK_DEADLOCK FALSE
