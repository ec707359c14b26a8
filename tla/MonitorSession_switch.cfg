\* Nothing fails: every command is sent, saved and answered.
CONSTANTS
    a = a
    b = b
    t = t
    Identity = {a, b}
    Thread = {t}
    Command = {1, 2, 3, 4}
    None = None
    MayFail = FALSE
    Modes = {TRUE}
    Call = {}
SPECIFICATION SessionSpec
INVARIANTS SwitchDisarms
CHECK_DEADLOCK FALSE
