SPECIFICATION Spec
CONSTANTS
    f1 = f1
    a1 = a1
    a2 = a2
    Files <- OneFile
    GraceFiles <- OneFile
    Admins <- TwoAdmins
    Loop = loop
    NoWorker = NoWorker
    NoFile = NoFile
    Quota = 1
    MaxFaults = 2
    RenameBlocked = FALSE
INVARIANTS
    QueueInvariant
    NoLoss
PROPERTIES
    VerifiedNeverRequeued
    LiveLeaseIsExclusive
