SPECIFICATION FairSpec
CONSTANTS
    h1 = h1
    h2 = h2
    n1 = n1
    n2 = n2
    n3 = n3
    c0 = c0
    c1 = c1
    p1 = p1
    p2 = p2
    p3 = p3
    p4 = p4
    Node = {n1, n2}
    Addr <- MCAddrTwo
    Camera = {c0, c1}
    Camera0 = c0
    Port = {p1, p2}
    MaxFd = 5
    Server = Server
    NULL = NULL
PROPERTIES
    WalkEnds
    VisitEnds
