SPECIFICATION Spec
CONSTANTS
    Client = {r1, r2}
    NoPayload = NoPayload
    Payload = {}
    MaxAssets = 60
    ReadLimit = 2
    MaxPasses = 5
    Scenarios <- MCScenarios
    MaxStarts = 2
SYMMETRY Runners
CHECK_DEADLOCK FALSE
INVARIANTS
    TypeOK
    NoPaidStartTwice
    FreshRunnerCanOpen
    PassesReachEveryRead
    SuccessIsEarned
PROPERTIES
    CallsHaveDurableIntent
    ImplementsRegister
    SettledStaysSettled
