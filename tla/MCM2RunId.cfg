CONSTANTS
    NoCeiling = NoCeiling
    Plan <- MCPlan
    ApifyRequests <- MCApifyRequests
    Companies <- OneCompany
    Queries = 2
    Reservation <- UnitReservation
    Configs <- OneConfig
    MaxFaults = 2
    TearAppends = FALSE

SPECIFICATION Spec

PROPERTY
    RunIdIsKept

CHECK_DEADLOCK FALSE
