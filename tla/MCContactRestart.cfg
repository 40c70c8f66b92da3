CONSTANTS
    NoCeiling = NoCeiling
    NoSnapshot = NoSnapshot
    Companies = {1}
    Contacts = {1}
    CompanyOf <- OneCompanyOf
    Snapshots = {"s1"}
    AcceptedIn <- OneSnapshot
    MaxPaid = 1
    Configs <- CappedReads
    MaxFaults = 1
    MaxChanges = 0

SPECIFICATION Spec

INVARIANT
    RestartsLoad

CHECK_DEADLOCK FALSE
