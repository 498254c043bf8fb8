SPECIFICATION EngineSpec
CONSTANTS
    Issued <- MCIssued
    Blocks = {"say", "call"}
    Options <- MCOptions
    PlainTexts <- MCPlainTexts
    BlockTexts <- MCBlockTexts
    Siblings <- MCSiblings
    JsonTexts <- MCJsonTexts
    MaxDelta = 3
    Bodies <- MCBodyTexts
    Registries <- MCRegistries
    Categories <- MCCategories
    Findings <- MCFindings
    CredentialLike <- MCCredentialLike
    MinInToken = 2
    plain = plain
    quoted = quoted
    BodyValue = {plain, quoted}
    Quoted = {quoted}
    Numeric = {plain}
    Requests <- MCRequests
    Answers <- MCAnswers
    Texts <- MCTexts
INVARIANT StreamIsWhole
INVARIANT ToolsKeepSecrets
INVARIANT EveryClaimOwned
INVARIANT DestroyedForGood
INVARIANT TokensSurvive
INVARIANT BodiesReadBack
PROPERTY CallsKeepPolicy
CHECK_DEADLOCK FALSE
