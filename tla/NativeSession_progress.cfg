\* Two records, two calls in each of two processes: each process may hold one
\* guard and freeze on the other. No crash: a call that ends by dying shows
\* nothing.
CONSTANTS
    Key = {k1, k2}
    Owner = {o1, o2, o3}
    Proc = {p1, p2}
    Call = {c1, c2, c3, c4}
    c1 = c1
    c2 = c2
    c3 = c3
    c4 = c4
    p1 = p1
    p2 = p2
    ProcOf <- TwoAndTwo
    k1 = k1
    k2 = k2
    Workload <- Crossed
    NoOwner = NoOwner
    NoCall = NoCall
    MaxStarts = 4
    MaxCrashes = 0
    MaxFailures = 0
SPECIFICATION FairSpec
PROPERTIES CallsEnd
\* The bounded number of calls is used up.
CHECK_DEADLOCK FALSE
