SPECIFICATION FairSpec
CONSTANTS
    c1 = c1
    c2 = c2
    Children = {c1}
    Kept = {}
    Slots = 1
    MaxRun = 2
    MaxTurn = 2
PROPERTIES
    LiveRunHoldsSlot
    ClosedMeansStopped
    RunsAreClosed
