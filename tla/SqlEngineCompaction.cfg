SPECIFICATION SpecBackup
\* A behaviour ends when its transactions are used up.
CHECK_DEADLOCK FALSE
CONSTANTS
    k1 = k1
    k2 = k2
    v1 = v1
    v2 = v2
    Keys <- OneKey
    NewKeys <- OtherKey
    Vals <- TwoVals
    CompactionThreshold = 2
    CommitFaults = {}
    MaxOps = 2
    MaxTx = 3
    MaxCrashes = 1
    MaxBackups = 0
    MaxRestores = 0
SYMMETRY ValSymmetry
INVARIANT
    DurableThroughCompaction
