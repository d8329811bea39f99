CONSTANTS
    Lines = {a1, a2, a3, a4, a5}
    SmallSize = 2
    LargeSize = 4
SPECIFICATION Spec
INVARIANTS
    ListAndMapAgree
    Inclusion
