SPECIFICATION Spec
CONSTANTS
    Sessions = {s1, s2}
    Clients = {c1}
    Topics = {t1}
    NoSession = NoSession  NoClient = NoClient  NoTopic = NoTopic
    Workers = 2
    MaxPub = 0
    ReConnects = FALSE
    BinaryPayloads = FALSE
    DbMayFail = FALSE
    Markable = {}
SYMMETRY Symmetry
INVARIANTS
    OnlyMarkedAreKicked
