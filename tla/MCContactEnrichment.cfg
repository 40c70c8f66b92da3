CONSTANTS
    NoCeiling = NoCeiling
    NoSnapshot = NoSnapshot
    Companies = {1, 2}
    Contacts = {1, 2}
    CompanyOf <- PairCompanyOf
    Snapshots = {"s1", "s2"}
    AcceptedIn <- ShrinkingSnapshots
    MaxPaid = 1
    Configs <- OneConfig
    MaxFaults = 1
    MaxChanges = 2

SPECIFICATION Spec

INVARIANTS
    TypeOK
    OnlyBoundWork

PROPERTIES
    BoughtOnce
    WorkIsNotAbandoned

CHECK_DEADLOCK FALSE
