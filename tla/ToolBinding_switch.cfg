\* One session that switches from one identity to the other, one restart.
CONSTANTS
    u = u
    v = v
    m = m
    a = a
    b = b
    k1 = k1
    k2 = k2
    k3 = k3
    Client = {u}
    Managed = {}
    Name = {a, b}
    Call = {k1, k2, k3}
    None = None
    Workload <- Switching
    Supervised <- NobodySupervised
    MaxRestarts = 1
    MaxFaults = 0
SPECIFICATION Spec
INVARIANTS ActsAsWanted
CHECK_DEADLOCK FALSE
