\* Two arrivals, a turn of the user and a failure, or a restart of the watcher.
CONSTANTS
    l1 = l1
    l2 = l2
    w1 = w1
    w2 = w2
    Loop = {l1, l2}
    Wake = {w1, w2}
    Null = Null
    User = User
    Bounds <- MCBounds
SPECIFICATION FairSpec
INVARIANTS WatcherInv NoArrivalSlips
PROPERTIES MailIsRead
CHECK_DEADLOCK FALSE
