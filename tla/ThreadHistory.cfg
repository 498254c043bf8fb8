SPECIFICATION Spec
CONSTANTS
    w1 = w1
    w2 = w2
    b1 = b1
    m1 = m1
    m2 = m2
    m3 = m3
    c1 = c1
    p1 = p1
    View = {w1, w2}
    Sidebar = {b1}
    Msg = {m1, m2, m3}
    Value = {c1}
    MaxSelected = 1
    Preview = {p1}
    Policies = {0, 1}
    MaxTime = 2
    MaxEvents = 2
CHECK_DEADLOCK FALSE
INVARIANT SavedOrStuck
INVARIANT RemovalIsFinal
PROPERTY NoTurnLost
PROPERTY ContentsHold
CONSTRAINT Explored
SYMMETRY SwapViews
