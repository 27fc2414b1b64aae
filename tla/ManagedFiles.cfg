SPECIFICATION FairSpec
CONSTANTS
    f1 = f1
    f2 = f2
    f3 = f3
    p1 = p1
    Files <- ThreeFiles
    Images <- ThreeFiles
    ProductOf <- OneProduct
    Chosen <- OnlyThird
    Replaces <- BothReplaceFirst
    NoFile = NoFile
    MaxRequests = 2
    MaxFaults = 1
INVARIANTS
    ListedFilesAreStored
PROPERTIES
    SuccessorBeforeRemoval
    ImplementsCatalogue
    InterruptedUploadsFinish
CHECK_DEADLOCK FALSE
