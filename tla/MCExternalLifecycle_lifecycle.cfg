SPECIFICATION Spec
CONSTANTS
    p1 = p1
    p2 = p2
    v1 = v1
    o1 = o1
    o2 = o2
    h1 = h1
    h2 = h2
    Proc = {p1, p2}
    Provider = {v1}
    Role = {o1, o2}
    Auth = {"user_helper"}
    Helper = {h1, h2}
    Qualified = {}
    Counts <- MCCounts
SYMMETRY Alike
INVARIANTS
    TypeOK
    RegistryIsSound
    ProvenMeansProbed
    RegisteredIsConfigured
    RecoveryIsPossible
    AgentsFollowRoles
PROPERTIES
    LaunchIsAttested
    ForeignTableIsKept
