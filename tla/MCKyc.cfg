SPECIFICATION MCSpec
CONSTANTS
    c1 = c1  c2 = c2
    f1 = f1  f2 = f2
    id = id
    None = None
    Calls <- MCCalls
    Files <- MCFiles
    Kinds <- MCKinds
    Kind <- MCKind
    Identity <- id
SYMMETRY Symmetry
INVARIANTS
    KycTypeOK
    CachedStatusFresh
    NamedFilesExist
    VerifiedDocumentsKept
PROPERTIES
    ApprovalStands
