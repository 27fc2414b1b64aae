SPECIFICATION SpecFocus
CONSTANTS
    Texts <- MCTexts
    Numerals <- MCNumerals
    DayTexts <- MCDayTexts
    Spelling <- MCSpelling
    Like <- MCLike
    Heads <- MCHeads
    Groups <- MCGroups
    SampleRows <- MCSampleRows
    SampleParams <- MCSampleParams
    Repertoire <- MCRepertoire
    ParamLists <- MCParamLists
    MaxGroups = 6
    MaxRows = 3
INVARIANTS
    ConditionsMeanWhatTheySay
    
    PagesPartitionTheListing

    
    
CHECK_DEADLOCK FALSE
