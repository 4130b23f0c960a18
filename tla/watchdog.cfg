SPECIFICATION Spec
CONSTANTS
    a1 = a1
    a2 = a2
    App = {a1, a2}
    watchdog_secs <- MCSecs
    Background = {a1, a2}
    MaxBackoff = 3
    MaxRestart = 2
    MaxUnread = 1
INVARIANTS
    TypeOK
    CountAgrees
PROPERTIES
    KilledForItsSilence
    LeastStableFirst
    SilentIsKilled
