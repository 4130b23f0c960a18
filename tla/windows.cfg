SPECIFICATION Spec
CONSTANTS
    a1 = a1
    a2 = a2
    a3 = a3
    dock = dock
    App = {a1, a2, a3, dock}
    order <- MCOrder
    Pinned = {dock}
    min_w <- MCHints
    Point <- MCPoint
    SW = 400
    SH = 600
    MENUBAR_H = 24
    TITLEBAR_H = 28
    MIN_W = 200
    MIN_H = 100
    SNAP = 40
    BORDER = 6
    STRIP_W = 240
    STRIP_H = 28
    DOCK_STRIP_H = 64
    MaxPress = 2
    MaxExit = 1
    MaxToggle = 1
INVARIANTS
    TypeOK
    OnScreen
PROPERTIES
    TilesPartition
CHECK_DEADLOCK FALSE
