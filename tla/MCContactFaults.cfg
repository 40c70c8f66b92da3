CONSTANTS
    NoCeiling = NoCeiling
    NoSnapshot = NoSnapshot
    Companies = {1, 2}
    Contacts = {1, 2, 3}
    CompanyOf <- TwoCompanyOf
    Snapshots = {"s1"}
    AcceptedIn <- PairSnapshot
    MaxPaid = 1
    Configs <- TwoConfigs
    MaxFaults = 2
    MaxChanges = 0

SPECIFICATION Spec

INVARIANTS
    SettledIsPublished
    ContactInv

PROPERTIES
    ImplementsContract
    CompletedIsDone

CHECK_DEADLOCK FALSE
