SPECIFICATION Spec
CONSTANTS
    k1 = k1
    k2 = k2
    k3 = k3
    o1 = o1
    o2 = o2
    o3 = o3
    r1 = r1
    r2 = r2
    org = org
    secret = secret
    Values <- Surfaces
    Records = {org, secret}
    FormsOf <- RecordForms
    AliasesOf <- RecordAliases
    EntityRecords = {org}
    Texts = {"t1", "t2"}
    Leaves <- Places
    PlainIn <- Plain
    NestsIn <- Nested
    Destroyed = {"card"}
    InTexts = {"corp", "card"}
    Patterned = {"card"}
    Structural = {"corp"}
    Selectable = {"card"}
    Keys = {k1, k2, k3}
    NoKey = NoKey
    Objects = {o1, o2, o3}
    Requests = {r1, r2}
    ByHint = FALSE
    ScopesMax = 2
    IdleTtl = 1
    MaxTime = 2
INVARIANT Isolation
INVARIANT SecretsStayOutOfTools
INVARIANT SeenWasShown
INVARIANT CacheSound
PROPERTY TokensStay
PROPERTY DetectionMintsNoSecret
PROPERTY GateStopsOnRemainders
PROPERTY KeysKeepScopes
CONSTRAINT Explored
SYMMETRY Swap
