SPECIFICATION Spec
CONSTANTS
    Client = {r1}
    NoPayload = NoPayload
    Payload = {}
    MaxAssets = 60
    ReadLimit = 2
    MaxPasses = 5
    Scenarios <- MCScenarios
    MaxStarts = 1
CHECK_DEADLOCK FALSE
INVARIANT
    RestoredIsCompleted
