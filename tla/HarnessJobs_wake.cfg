SPECIFICATION Spec
CONSTANTS
    j1 = j1  j2 = j2  o1 = o1  o2 = o2  watcher = watcher
    w1 = w1  w2 = w2  i1 = i1  i2 = i2  k1 = k1  a1 = a1  h1 = h1  h2 = h2
    None = None
    Jobs = {j1, j2}
    Owners = {o1}
    Consumers = {o1, watcher}
    Tokens = {w1, w2}
    Invocations = {i1, i2}
    TaskKeys = {}
    Refs = {}
    Requests <- WakeRequests
    Events <- WakeEvents
    Afters = {0}
    MaxSeq = 3
    MaxGap = 0
SYMMETRY WakeSymmetry
INVARIANTS
    SeqIsGlobal
    NeverRedelivered
    NoWakeSkipped
