\* One launcher with two commands, two threads, a request of the watcher, faults, a signal.
CONSTANTS
    c1 = c1
    c2 = c2
    i1 = i1
    Initialize = Initialize
    Id = {Initialize, i1}
    Command = {c1, c2}
    t1 = t1
    t2 = t2
    Thread = {t1, t2}
    NoThread = NoThread
    MaxFaults = 2
    MaxSignals = 1
SPECIFICATION FairSpec
INVARIANTS LauncherTypeOK NothingHeld ThreadIsEnded
PROPERTIES LauncherEnds
\* The launcher is gone.
CHECK_DEADLOCK FALSE
