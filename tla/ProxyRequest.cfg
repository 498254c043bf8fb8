SPECIFICATION Spec
CONSTANTS
    None = None
    q1 = q1
    q2 = q2
    s1 = s1
    s2 = s2
    e1 = e1
    e2 = e2
    x1 = x1
    v1 = v1
    Req = {q1, q2}
    Value = {v1}
    Registrable = {v1}
    Scope = {s1}
    Event = {e1, e2}
    Text = {x1}
    MaxTickets = 1
    TicketsMax = 1
    ScopeTicketsMax = 1
    TicketTTL = 1
    ProofTTL = 0
    MaxTime = 1
    Settings <- AllModes
CHECK_DEADLOCK FALSE
INVARIANT SentOnceAsReviewed
INVARIANT KnownNeverLeaves
INVARIANT ProofTrue
CONSTRAINT Explored
SYMMETRY SwapRequests
