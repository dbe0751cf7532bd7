SPECIFICATION Spec
CONSTANTS
    u1 = u1
    u2 = u2
    o1 = o1
    n1 = n1
    s1 = s1
    k1 = k1
    k2 = k2
    User = {u1, u2}
    Organization = {o1}
    Session = {s1}
    Request = {k1, k2}
    Name = {n1}
    MaxVersion = 3
SYMMETRY Symmetry
CHECK_DEADLOCK FALSE
INVARIANTS
    OperatorsUnassigned
    SessionScope
PROPERTIES
    ReplacementApplied
