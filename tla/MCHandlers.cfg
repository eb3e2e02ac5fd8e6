SPECIFICATION HandlerSpec
CONSTANTS
    Sessions = {s1, s2}
    Clients = {c1}
    Topics = {t1}
    NoSession = NoSession  NoClient = NoClient  NoTopic = NoTopic
    Workers = 2
    MaxPub = 1
    ReConnects = FALSE
    BinaryPayloads = TRUE
    DbMayFail = FALSE
    Markable = {}
PROPERTIES
    HandlersReturn
INVARIANTS
    ThrownReachesNobody
