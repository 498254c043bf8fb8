SPECIFICATION FairSpec
CONSTANTS
    p1 = p1
    p2 = p2
    r1 = r1
    r2 = r2
    r3 = r3
    v1 = v1
    v2 = v2
    Inst = {p1}
    Value = {v1}
    Req = {r1, r2}
    InstOf <- OneInstance
    Kinds = {"body", "text", "restore"}
    StoreIsSync = TRUE
    Retention = FALSE
    MaxTime = 0
INVARIANT MatchKept
PROPERTY EveryCallEnds
