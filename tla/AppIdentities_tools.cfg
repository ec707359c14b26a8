\* Any two tools at once; two of the identities exist, one is adopted.
CONSTANTS
    n1 = n1
    n2 = n2
    n3 = n3
    k1 = k1
    k2 = k2
    Name = {n1, n2, n3}
    Call = {k1, k2}
    Adopted = {n1}
    Hosted = {n1, n2}
    Workload <- AnyTwo
    MaxFailures = 3
SPECIFICATION Spec
INVARIANTS TypeOK ListFollowsResult RefusalRestores NoOrphan
PROPERTIES EditComesFirst
\* Every call has ended.
CHECK_DEADLOCK FALSE
