\* A session of ours-codex with four commands, which fail, overlap and are given
\* up anywhere; or one of plain codex with two foreground calls.
CONSTANTS
    a = a
    b = b
    t = t
    Identity = {a, b}
    Thread = {t}
    Command = {1, 2, 3}
    None = None
    MayFail = TRUE
    Modes = {TRUE, FALSE}
    Call = {c1, c2}
SPECIFICATION FairSession
INVARIANTS SessionTypeOK WatchNeedsConsent WatcherFollowsState MonitorFollowsSession
PROPERTIES ForegroundStops
\* Every command has been answered.
CHECK_DEADLOCK FALSE
