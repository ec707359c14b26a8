\* Two sessions want one identity, one of them switches, a third is managed.
CONSTANTS
    u = u
    v = v
    m = m
    a = a
    b = b
    Client = {u, v, m}
    Managed = {m}
    Name = {a, b}
    k1 = k1
    k2 = k2
    k3 = k3
    Call = {k1, k2, k3}
    None = None
    Workload <- Rivals
    Supervised <- SupervisesB
    MaxRestarts = 1
    MaxFaults = 1
SPECIFICATION FairSpec
INVARIANTS TypeOK AtMostOnce OnlyChosen
PROPERTIES EvictionIsForced ManagedIsLeftAlone CallsEnd
\* Every call has ended.
CHECK_DEADLOCK FALSE
