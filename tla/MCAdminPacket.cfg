SPECIFICATION Spec
CONSTANTS
    c1 = c1
    c2 = c2
    NoClient = NoClient
    Clients = {c1, c2}
    Topics = {t1}
    t1 = t1
    h1 = h1
    h2 = h2
    Threads = {h1, h2}
    Answers = {"packet"}
    Operations = {"request", "answer", "revoke", "resign"}
    DbMayFail = FALSE
    Ancestor = c1
    Prefix <- Nested
SYMMETRY ThreadSymmetry
VIEW Untold
INVARIANTS
    RevokedIsNotAdmin
