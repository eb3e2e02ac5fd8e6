SPECIFICATION Spec
CONSTANTS
    Sessions = {s1, s2}
    Clients = {c1}
    Topics = {t1}
    NoSession = NoSession  NoClient = NoClient  NoTopic = NoTopic
    Workers = 2
    MaxPub = 2
    ReConnects = FALSE
    BinaryPayloads = FALSE
    DbMayFail = TRUE
    Markable = {}
SYMMETRY Symmetry
INVARIANTS
    DeliveredInOrderOnce
PROPERTIES
    RoutesAsPromised
    SubscriptionsIsolated
