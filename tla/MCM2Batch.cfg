CONSTANTS
    NoCeiling = NoCeiling
    Plan <- MCPlan
    ApifyRequests <- MCApifyRequests
    Companies <- OneCompany
    Queries = 2
    Reservation <- UnitReservation
    Configs <- ChangingConfigs
    MaxFaults = 2
    TearAppends = TRUE

SPECIFICATION Spec

INVARIANTS
    TypeOK
    CompletedHasOutput
    BatchInv

PROPERTIES
    StoredIsNeverBoughtAgain
    FollowsLifecycle

CHECK_DEADLOCK FALSE
