SPECIFICATION Spec
CONSTANTS
    None = None
    firm = firm
    person = person
    form = form
    bad = bad
    g1 = g1
    g2 = g2
    Gateway <- Both
    Approved <- MCApproved
    Unusable <- MCUnusable
    Required = TRUE
    MaxRevisions = 2
    MaxQueue = 1
    MaxStarts = 2
INVARIANT VerdictHolds
INVARIANT JudgedFileStarts
PROPERTY QueueDrains
CHECK_DEADLOCK FALSE
