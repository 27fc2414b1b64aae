SPECIFICATION Spec
CONSTANTS
    q1 = q1
    q2 = q2
    q3 = q3
    p1 = p1
    p2 = p2
    MaxTarget = 2
    Requests <- ThreeRequests
    NoRequest = NoRequest
    Async = async
    Pool <- TwoThreads
    MaxRows = 3
    MaxSaves = 1
    MaxImports = 0
SYMMETRY Symmetry
INVARIANT
    DeliveredMeansDelivered
