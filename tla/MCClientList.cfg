SPECIFICATION Spec
CONSTANTS
    h1 = h1
    h2 = h2
    n1 = n1
    n2 = n2
    n3 = n3
    c0 = c0
    c1 = c1
    p1 = p1
    p2 = p2
    p3 = p3
    p4 = p4
    Node = {n1, n2, n3}
    Addr <- MCAddr
    Camera = {c0, c1}
    Camera0 = c0
    Port = {p1, p2, p3, p4}
    MaxFd = 6
    Server = Server
    NULL = NULL
SYMMETRY MCSymmetry
INVARIANTS
    TypeOK
    ListWellFormed
    NoUseAfterFree
    RecordsDistinct
PROPERTIES
    OnlyVisitorLeaves
    RegistrySpec
