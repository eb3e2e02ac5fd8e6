SPECIFICATION Spec
CONSTANTS
    s1 = s1
    s2 = s2
    c1 = c1
    c2 = c2
    n1 = n1
    r1 = r1
    Sessions = {s1, s2}
    NoSession = NoSession
    Clients = {c1, c2}
    Names = {n1}
    Rows = {r1}
    NoClient = NoClient
    NoRow = NoRow
    ReConnects = FALSE
    PrefixOf <- MCPrefixOf
    RowOf <- MCRowOf
SYMMETRY Symmetry
VIEW View
INVARIANTS
    TypeOK
    References
    CacheTruthful
    AllLogged
    SubscribedIsActive
PROPERTIES
    DirectoryAsPromised
