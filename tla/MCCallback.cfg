SPECIFICATION Spec
CONSTANTS
    Callbacks = {c1, c2}
    NoHandle = {c2}
    Oneshots = {c2}
    Threads = {t1, t2}
    Pollers = {t1}
    Starts = {"now", "delay", "never"}
    Periods = {"own", "long"}
    MaxAdjust = 1
    ResumeBlocked = FALSE
INVARIANTS CallbackInvariant NoWakeupLost PollersKept
PROPERTIES Implements ReadyServed
CHECK_DEADLOCK FALSE
