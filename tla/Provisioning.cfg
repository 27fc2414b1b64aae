SPECIFICATION Spec
CONSTANTS
    a1 = a1
    x1 = x1
    x2 = x2
    Attempts <- OneAttempt
    Runs <- TwoRuns
    Console = Console
    Roles = {"releases", "staging"}
    StagingRole = "staging"
    Deferred = {"data"}
    MaxStops = 1
    MaxFaults = 1
    MaxRelinks = 2
    MaxConsole = 1
INVARIANTS
    ProductionStaysCertified
    OneApplyPerAttempt
    SuccessMeansProvisioned
SYMMETRY RunSymmetry
CHECK_DEADLOCK FALSE
