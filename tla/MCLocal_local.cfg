SPECIFICATION Spec
CONSTANTS
    Threads = {t1, t2}
    Processes = {q1, q2}
    None = None
    MaxCrashes = 1
    Pages = {g1}
    Origins = {o1}
    Fields = {f1, f2}
    Click = Click
    MaxRecordings = 1
    MaxActions = 2
    MaxRuns = 1
    MaxTargets = 2
    n1 = n1
    n2 = n2
    p1 = p1
    p2 = p2
    p3 = p3
    Services = {n1, n2}
    PathLists <- MCPathLists
    Basename <- MCBasename
    OwnRows <- MCOwnRows
    MaxSaves = 2
    MaxBorn = 3
    MaxUses = 3
    Questions <- MCQuestions
    Channels <- MCChannels
    shop = shop
    pay = pay
    mail = mail
    stock = stock
    k1 = k1
    k2 = k2
    k3 = k3
    h1 = h1
    h2 = h2
    gateway = gateway
    web = web
    orders = orders
    users = users
    c1 = c1
    get = get
    post = post
    order1 = order1
    order2 = order2
    anyOrder = anyOrder
    other = other
    link = link
    ViewMembers <- MCViewMembers
    ViewFacts <- MCViewFacts
    Repositories <- MCRepositories
    LogicalService <- MCLogicalService
    HostNames <- MCHostNames
    Databases <- MCDatabases
    Spans <- MCSpans
    Logs <- MCLogs
    Features <- MCFeatures
    StaticEdges <- MCStaticEdges
    Fits <- MCFits
    MaxChanges = 1
    MaxItems = 3
    MaxPayloads = 1
SYMMETRY Symmetric
INVARIANTS
    RecordedInOrder ServiceIsKnown TopologyIsSupported WalksAreWhole
PROPERTIES
    RegistryIsKept ReportsAreTrue
CHECK_DEADLOCK FALSE
