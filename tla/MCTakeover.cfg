SPECIFICATION Spec
CONSTANTS
    Sessions = {s1, s2}
    Clients = {c1, c2}
    Topics = {t1}
    NoSession = NoSession  NoClient = NoClient  NoTopic = NoTopic
    Workers = 3
    MaxPub = 0
    ReConnects = TRUE
    BinaryPayloads = FALSE
    DbMayFail = FALSE
    Markable = {c1}
SYMMETRY Symmetry
INVARIANTS
    TypeOK
    NoGhostSubscriber
    NoGhostSession
    AddressOfRegistered
