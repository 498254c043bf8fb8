SPECIFICATION GatewaySpec
CONSTANTS
    Absent = Absent
    memo = memo
    note = note
    name = name
    code = code
    Texts <- MCTexts
    Values <- MCValues
    Holds <- MCHolds
    Detects <- MCDetects
    ValuesMax = 1
    Modes <- MCModes
    Minima <- MCMinima
    Suggested <- MCSuggested
    Serial = FALSE
    MaxPreviews = 2
    MaxSends = 2
    Nothing = Nothing
    Turns = {1, 2, 3}
    Policies <- MCPolicies
    Longest = 4
    LastDay = 2
    Readings = 1
    OneByOne = FALSE
    Unseen = Unseen
    Requests = {1, 2}
    Outcomes <- MCOutcomes
    Runs = {1, 2}
    MaxEvents = 2
    MaxSnapshots = 3
    Serialized = FALSE
SYMMETRY MCSymmetry
INVARIANT ReviewedBeforeModel
INVARIANT AnsweredIsStored
INVARIANT LedgerHolds
INVARIANT TrendCovers
PROPERTY SentWithConsent
CHECK_DEADLOCK FALSE
