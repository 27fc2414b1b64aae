SPECIFICATION SpecSite
CONSTANTS
    n1 = n1
    n2 = n2
    short = short
    NoAccount = NoAccount
    NoValue = NoValue
    AccountIds = {"u1", "u2"}
    Names <- SomeNames
    ValidNames <- TwoNames
    Passwords = {"long", "short"}
    BadPasswords = {"short"}
    Patches <- AccountPatches
    Threads = {"t1", "t2"}
    d1 = d1
    d2 = d2
    Desktops = {d1, d2}
    Licences <- SomeLicences
    Absent = Absent
    Unreadable = Unreadable
    Empty = Empty
    GraceDays = 1
    MaxDay = 2
    LanUrls = {"http1", "http2"}
    RelayUrls = {"https"}
    NoUrl = "none"
    a = a
    a2 = a2
    b = b
    other = other
    picture = picture
    NoImage = NoImage
    Skipped = Skipped
    Rows <- TwoRows
    jpeg = jpeg
    Pngs = {picture, other}
    Workbooks <- FewWorkbooks
    MaxProducts = 4
    MaxStops = 2
    MaxEdits = 2
    MaxForeign = 1
    Procs = {"s1", "s2"}
    NoProc = "none"
    HeadVersion = 2
    MaxKeys = 3
    Bundles = {"b1", "b2"}
    Keys = {"k1", "k2"}
    NoBundle = "none"
    ReleaseIds = {"r1", "r2", "r3"}
    NoRelease = "none"
SYMMETRY AlikeDesktops
\* A behaviour of the import ends when its bounds are used up.
CHECK_DEADLOCK FALSE
INVARIANTS
    AdministrableAccounts
    RunsLicensed
    OnlyReadyServersAreTrusted
    CompletedImportIsConsistent
    
    AutostartFollowsPreference
    PublishedBundlesVerify
    ActiveReleaseIsWhole
PROPERTY
    KeysAreKept
