SPECIFICATION Spec
CONSTANTS
    j1 = j1  j2 = j2  o1 = o1  o2 = o2  watcher = watcher
    w1 = w1  w2 = w2  i1 = i1  i2 = i2  k1 = k1  a1 = a1  h1 = h1  h2 = h2
    None = None
    Jobs = {j1, j2}
    Owners = {o1}
    Consumers = {o1}
    Tokens = {}
    Invocations = {i1, i2}
    TaskKeys = {k1}
    Refs <- RefPairs
    Requests <- LedgerRequests
    Events <- LedgerEvents
    Afters = {}
    MaxSeq = 4
    MaxGap = 1
SYMMETRY JobSymmetry
CHECK_DEADLOCK FALSE
INVARIANTS
    TypeOK
    CancelHonoured
    LogExplainsState
    AliasUnique
    OneJobPerInvocation
    RetryAnswered
PROPERTIES
    ClosedIsFinal
    RestartSettles
    LedgerSpec
