SPECIFICATION RequestsQueriesSpec
CONSTANTS
    r1 = r1  r2 = r2  r3 = r3  r4 = r4
    k1 = k1
    p1 = p1  p2 = p2
    c1 = c1  c2 = c2  c3 = c3
    NoKey = NoKey
    NoAnswer = NoAnswer
    Failure = Failure
    None = None
    Requests <- MCRequestSet
    Keys <- MCKeys
    Processes <- MCProcesses
    Key <- MCKey
    Calls <- MCCalls
    MaxWrites = 1
    MaxStrays = 2
    MaxStores = 2
INVARIANTS
    MissesShareOneQuery
