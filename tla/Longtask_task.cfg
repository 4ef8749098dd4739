SPECIFICATION Spec
CONSTANTS
    root = root
    kid = kid
    Root <- root
    Kids <- OneKid
    StepLimit = 2
    TimeLimit = 3
    Bound = 1
    Reserve = 1
    MaxTurn = 2
    MaxOwner = 1
    MaxGrant = 1
    MaxBoot = 2
    MaxRev = 7
    MaxStop = 2
CHECK_DEADLOCK FALSE
INVARIANTS
    TypeOK
    BudgetHolds
    UnusedReturned
    FencedByLease
PROPERTIES
    StopHolds
    OpensOnce
    BudgetKept
    GrantedOnce
