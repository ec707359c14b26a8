\* Two identities are created at once, nothing fails.
CONSTANTS
    n1 = n1
    n2 = n2
    n3 = n3
    k1 = k1
    k2 = k2
    Name = {n1, n2, n3}
    Call = {k1, k2}
    Adopted = {}
    Hosted = {}
    Workload <- TwoAdoptions
    MaxFailures = 0
SPECIFICATION Spec
INVARIANTS AdoptedIsListed
CHECK_DEADLOCK FALSE
