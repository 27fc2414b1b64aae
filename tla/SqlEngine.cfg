SPECIFICATION SpecSmall
\* A behaviour ends when its transactions and backups are used up.
CHECK_DEADLOCK FALSE
CONSTANTS
    k1 = k1
    k2 = k2
    v1 = v1
    v2 = v2
    Keys <- OneKey
    NewKeys <- OtherKey
    Vals <- TwoVals
    CompactionThreshold = 2
    CommitFaults = {"buffered", "torn", "unended", "written", "snapshot", "truncate", "truncated"}
    MaxOps = 2
    MaxTx = 3
    MaxCrashes = 1
    MaxBackups = 1
    MaxRestores = 1
SYMMETRY ValSymmetry
INVARIANTS
    
    
    ACopySurvives

    
