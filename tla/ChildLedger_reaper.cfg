SPECIFICATION Spec
CONSTANTS
    c1 = c1
    c2 = c2
    Children = {c1}
    Kept = {}
    Slots = 1
    MaxRun = 1
    MaxTurn = 2
INVARIANTS
    ReapsOwnTurn
