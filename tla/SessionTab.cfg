SPECIFICATION FairSpec
CONSTANTS
    c1 = c1
    c2 = c2
    Call = {c1, c2}
    MaxGrant = 3
    MaxEpoch = 2
    Losses = TRUE
CHECK_DEADLOCK FALSE
INVARIANTS
    OneGrant
    OwnTokens
    OldAnswersDropped
PROPERTIES
    LogoutEnds
    RestoreEnds
