SPECIFICATION SpecFocus
CONSTANTS
    t1 = t1
    t2 = t2
    n1 = n1
    n2 = n2
    Threads <- TwoThreads
    Numbers <- TwoNumbers
    NoNumber = NoNumber
    Kinds = {"delivery", "run"}
    Years = {2026, 2027}
    ThisYear = 2026
    MaxQuantity = 2
    MaxCode = 2
    MaxCustomers = 1
    MaxEntries = 2
INVARIANTS
    NextCodeIsFree
    ChecksHoldUnlessRaced
SYMMETRY OrdersSymmetry
CHECK_DEADLOCK FALSE
