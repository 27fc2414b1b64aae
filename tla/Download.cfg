SPECIFICATION FairSpecRead
CONSTANTS
    f1 = f1
    a1 = a1
    r1 = r1
    Files <- OneFile
    GraceFiles <- OneFile
    Admins <- OneAdmin
    Readers <- OneReader
    Loop = loop
    NoWorker = NoWorker
    NoFile = NoFile
    Quota = 1
    MaxFaults = 2
    RenameBlocked = TRUE
INVARIANTS
    DownloadsTellTheTruth
PROPERTY
    QueuedJobsSettle
