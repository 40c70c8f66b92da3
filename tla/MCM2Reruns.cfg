CONSTANTS
    NoCeiling = NoCeiling
    Plan <- ShortPlan
    ApifyRequests = {"apify:ca"}
    Companies <- TwoCompanies
    Queries = 1
    Reservation <- UnitReservation
    Configs <- OneConfig
    MaxFaults = 2
    TearAppends = FALSE

SPECIFICATION FairSpec

INVARIANT
    CompletedIsComplete

PROPERTY
    RerunsSettle

CHECK_DEADLOCK FALSE
