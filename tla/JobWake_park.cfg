SPECIFICATION FairSpec
CONSTANTS
    j1 = j1  j2 = j2
    Jobs = {j1, j2}
    MaxTurn = 2
INVARIANTS
    TypeOK
    NoMissedWake
    StopWins
    OneSubscription
PROPERTIES
    WakeAfterTask
    NeverRevived
    ParkEnds
