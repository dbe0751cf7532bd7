SPECIFICATION Spec
CONSTANTS
    p1 = p1
    p2 = p2
    w1 = w1
    q0 = q0
    q1 = q1
    s1 = s1
    s2 = s2
    x1 = x1
    None = None
    Project = {p1, p2}
    Widget = {w1}
    Query = {q0, q1}
    Blank = q0
    Source = {s1, s2}
    Pick = {x1}
    MaxRevision = 3
    MaxClicks = 4
    MaxCalls = 2
    MaxEvents = 4
    MaxReads = 3
    MaxVersion = 3
    MaxChanges = 2
    MaxImports = 2
    MaxRequests = 2
SYMMETRY Symmetry
INVARIANTS
    SpinnersEnd
    AnswersInPlace
    AuditContiguous
    OwnChangesShown
    CommittedAsValidated
CHECK_DEADLOCK FALSE
