\* Calls of two sessions, a session that ends, an eviction, failures, a shutdown.
CONSTANTS
    s1 = s1
    s2 = s2
    c1 = c1
    c2 = c2
    c3 = c3
    k1 = k1
    k2 = k2
    v1 = v1
    v2 = v2
    i1 = i1
    i2 = i2
    Session = {s1, s2}
    Client = {c1, c2, c3}
    Call = {k1, k2}
    Boot = Boot
    Supervised = {s2}
    Watcher = {v1, v2}
    Identity = {i1, i2}
    Seed = i1
    Null = Null
    Work = Work
    Workload <- MCWorkload
    Owners <- MCOwners
    MaxArrivals = 1
    MaxTroubles = 2
SPECIFICATION FairSpec
INVARIANTS ClientsInv
PROPERTIES SeedYields WatchResumes ExitsWhenIdle
CHECK_DEADLOCK FALSE
