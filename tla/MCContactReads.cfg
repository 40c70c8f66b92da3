CONSTANTS
    NoCeiling = NoCeiling
    NoSnapshot = NoSnapshot
    Companies = {1}
    Contacts = {1}
    CompanyOf <- OneCompanyOf
    Snapshots = {"s1"}
    AcceptedIn <- OneSnapshot
    MaxPaid = 1
    Configs <- CappedReads
    MaxFaults = 3
    MaxChanges = 0

SPECIFICATION Spec

PROPERTY
    ReadsWithinCap

CHECK_DEADLOCK FALSE
