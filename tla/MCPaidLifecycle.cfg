CONSTANTS
    NoCeiling = NoCeiling
    Op <- MCOp
    Provider <- MCProvider
    ProviderOf <- MCProviderOf
    Reservation <- MCReservation
    ResumableProvider <- MCResumableProvider
    CeilingChoices <- MCCeilingChoices
    MaxUnits = 3

SPECIFICATION Spec

CONSTRAINT MoneyBound

INVARIANTS
    TypeOK
    OneOpenIntent
    LedgerCoversBill

PROPERTIES
    SpendWithinCeiling
    ImplementsContract

CHECK_DEADLOCK FALSE
