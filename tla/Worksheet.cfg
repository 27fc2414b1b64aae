SPECIFICATION SpecWindow
CONSTANTS
    Ids = {p1, p2}
    NoId = NoId
    NoItem = NoItem
    Companies = {"HMS"}
    Details = {"jig"}
    Sizes = {}
    Initials <- Letters
    Dates = {"may31", "june1"}
    MonthOf <- TwoMonths
    Today = "may31"
    NoDate = NoDate
    NoMonth = "none"
    MinRows = 1
    Spare = 1
    MaxRows = 2
    MaxEdits = 2
    MaxWrites = 2
    MaxTrouble = 1
    Faults = {"list", "call", "reply", "kill"}
    Sheets <- SomeSheets
    Entries <- TwoEntries
    MaxUndo = 6
    MaxGridRows = 3
    MaxGridEdits = 2
SYMMETRY Symmetry
INVARIANT
    FormulasMeanWhatTheySay
PROPERTIES
    DraftsKeepWork
    OnlyFillSharesLinks
    NoStepLosesTheGrid
