SPECIFICATION Spec
CONSTANTS
    s1 = s1
    s2 = s2
    s3 = s3
    i0 = i0
    i1 = i1
    i2 = i2
    p1 = p1
    p2 = p2
    Socket = {s1, s2, s3}
    Ip = {i0, i1, i2}
    Port = {p1}
    NoIp = i0
    MaxChange = 1
    NULL = NULL
INVARIANT ConnectedToConfigured
