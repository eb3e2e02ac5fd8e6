SPECIFICATION Spec
CONSTANTS
    c1 = c1
    c2 = c2
    NoClient = NoClient
    Clients = {c1, c2}
    Topics = {t1}
    t1 = t1
    h1 = h1
    Threads = {h1}
    Answers = {"packet", "json"}
    Operations = {"request", "answer", "revoke", "resign", "set"}
    DbMayFail = FALSE
    Ancestor = c1
    Prefix <- Plain
SYMMETRY Symmetry
INVARIANTS
    AdminIsApproved
    NoticesInStep
    DeviceInStep
