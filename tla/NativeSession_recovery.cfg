\* One record, three calls of two processes, failures anywhere, two crashes.
CONSTANTS
    Key = {k1}
    Owner = {o1, o2, o3, o4}
    Proc = {p1, p2}
    Call = {c1, c2, c3}
    c1 = c1
    c2 = c2
    c3 = c3
    c4 = c4
    p1 = p1
    p2 = p2
    ProcOf <- TwoAndOne
    k1 = k1
    k2 = k2
    Workload <- AnyCall
    NoOwner = NoOwner
    NoCall = NoCall
    MaxStarts = 5
    MaxCrashes = 2
    MaxFailures = 3
SPECIFICATION Spec
SYMMETRY OwnerSymmetry
INVARIANTS TypeOK NoSelfBlock OneLiveOwner ReturnsCurrentOwner EndReleases
PROPERTIES ReleaseNeedsIntent LifecycleSpec
\* The bounded number of calls is used up.
CHECK_DEADLOCK FALSE
