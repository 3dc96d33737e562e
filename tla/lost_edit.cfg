CONSTANTS
    main = main
    feature = feature
    a = a
    b = b
    e1 = e1
    e2 = e2
    e3 = e3
    p1 = p1
    Scenarios <- TwoOps
    c1 = c1
    c2 = c2
    Nil = Nil
    Pages = {p1}
    Docs = {a, b}
    Branches = {main, feature}
    Main = main
    Edits = {e1, e2, e3}
    Calls = {c1, c2}
    Does <- Anything
    Patient = FALSE
    Faults = {"refused"}
    UNDO_LIMIT = 2
    shop = shop
    desk = desk
    old = old
    concept = concept
    flow = flow
    d1 = d1
    d2 = d2
    main_ = main_
    pay = pay
    g = g
    h = h
    f1 = f1
    f2 = f2
    Projects = {shop, desk, old}
    Existing = {shop, desk}
    Documents <- PageDocuments
    Views = {concept, flow}
    Insides = {d1, d2, main_, pay}
    GraphPaths = {g, h}
    Files = {f1, f2}
    None = None
    Links <- PageLinks
    Unhurried = TRUE
    MaxPlaces = 3
    ann = ann
    bob = bob
    x = x
    y = y
    hub = hub
    lab = lab
    i1 = i1
    i2 = i2
    r1 = r1
    r2 = r2
    People = {ann, bob}
    Addresses = {x, y}
    Accounts = {hub, lab}
    Installations = {i1, i2}
    ReachOf <- AccountReach
    Requests = {r1, r2}
    Nobody = Nobody
    MaxStarts = 2
    MaxTime = 2
    SESSION_TTL = 2
    TOKEN_TTL = 2
    TOKEN_RENEW_MARGIN = 1
    web = web
    kiosk = kiosk
    api = api
    admin = admin
    apiPy = apiPy
    adminPy = adminPy
    s1 = s1
    s2 = s2
    WebClients = {web, kiosk}
    ApiBoundaries = {api, admin}
    NodeOrder <- NodesById
    ServerFiles = {apiPy, adminPy}
    ServerOrder <- ServersByPath
    StemOf <- StemsOf
    Sources <- SourceList
    CodeFiles = {f1, f2}
    Contents = {x, y}
    Puts = {s1, s2}
    NoFile = NoFile
    GitBranches = {main, feature}
    DefaultBranch = main
    Sketched = {a}
    Emitted = {b}
    MaxTip = 2
    MaxCalls = 2
    PortBase = 1
    FileLimit = 1
SPECIFICATION ScenarioSpec

PROPERTIES EditsBuildOnEachOther
