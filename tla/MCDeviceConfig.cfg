SPECIFICATION Spec
CONSTANTS
    i0 = i0
    i1 = i1
    NCam = 2
    NPart = 2
    Ip = {i0, i1}
    NoIp = i0
    Status = {"closed", "opened", "other"}
    Request <- MCRequest
    MaxSet = 2
    MaxCrash = 1
    NULL = NULL
INVARIANTS
    TypeOK
    FileIsMemory
    AnswerIsDurable
    TornAtOnePlace
    CamerasAsConfigured
    AlgAsConfigured
    LinkAsConfigured
