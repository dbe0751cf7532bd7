SPECIFICATION Spec
CONSTANTS
    boot = boot
    ann = ann
    bob = bob
    s1 = s1
    s2 = s2
    k1 = k1
    k2 = k2
    User = {boot, ann, bob}
    Boot = boot
    Session = {s1, s2}
    Request = {k1, k2}
    Installed = {ann, bob}
    MaxVersion = 2
    MaxTokens = 2
SYMMETRY Symmetry
CHECK_DEADLOCK FALSE
INVARIANTS
    TypeOK
    SessionsCurrent
    BootstrapEnds
PROPERTIES
    RotationIsCurrent
    UpdatePinned
    ChainKept
