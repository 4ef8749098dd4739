SPECIFICATION ReaderSpec
CONSTANTS
    j1 = j1  j2 = j2  o1 = o1  w1 = w1  i1 = i1  i2 = i2
    None = None
    Jobs = {j1, j2}
    Owners = {o1}
    Consumers = {o1}
    Tokens = {w1}
    Invocations = {i1, i2}
    TaskKeys = {}
    Refs = {}
    Requests <- ReaderRequests
    Events <- ReaderEvents
    Afters = {}
    MaxSeq = 4
    MaxGap = 0
SYMMETRY JobSymmetry
INVARIANT
    LateJoinSeesWakes
