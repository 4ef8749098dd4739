SPECIFICATION Spec
CONSTANTS
    c1 = c1
    c2 = c2
    Children = {c1, c2}
    Kept = {c2}
    Slots = 2
    MaxRun = 1
    MaxTurn = 2
INVARIANTS
    TypeOK
    SlotsConserved
    ReapingEnds
PROPERTIES
    RunsCloseOnce
