SPECIFICATION HostSpec
CONSTANTS
    ag = ag
    gw = gw
    u1 = u1
    u2 = u2
    s1 = s1
    Agent = {ag}
    Standalone = {gw}
    Pruner = {u1, u2}
    Secret = {s1}
    Permanent = {}
    MaxAge = 1
    TraceAge = 1
    SizeCap = 2
    MaxLogged = 2
    MaxPasses = 2
    MaxClock = 2
    Unset = Unset
    Everything = Everything
    card = card
    p1 = p1
    p2 = p2
    Proc = {p1, p2}
    Shells <- MCShells
    Started <- MCStarted
    Answers <- MCAnswers
    Edits <- MCEdits
    MaxChanges = 1
    MaxStarts = 3
    Text = {"a", "bad"}
    NoUrl = {"bad"}
    MaxSends = 3
INVARIANT PruningIsSafe
INVARIANT OneKey
INVARIANT FileIsTrue
INVARIANT SavedIsShown
SYMMETRY Symm
CHECK_DEADLOCK FALSE
