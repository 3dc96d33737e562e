CONSTANTS
    orders = orders
    ledger = ledger
    nightly = nightly
    app = app
    worker = worker
    ordersCtrl = ordersCtrl
    exportCtrl = exportCtrl
    fireCtrl = fireCtrl
    Parts = {orders, ledger}
    Domains = {1, 2, 3}
    Reader = reader
    Others = {analyst, verifier}
    Bases <- McBases
    Topics <- McTopics
    MaxClaims = 2
    Services = {1, 2, 3, 4, 5}
    Surfaces = {1, 2}
    Works = {nightly}
    Stores = {orders}
    FiledIn <- McFiledIn
    MaxChildren = 3
    Starts <- McStarts
    MaxFacts = 3
    Mods = {app, worker, orders, ledger}
    ByName <- McByName
    Ctrls = {ordersCtrl, exportCtrl, fireCtrl}
    DirOf <- McDirOf
    RootDirs <- McRootDirs
    Public = {ordersCtrl}
    Roles = {"api", "worker"}
    Conditions <- McConditions
    NestStarts <- McNestStarts
    MaxEntries = 2
SPECIFICATION McSpec
CHECK_DEADLOCK FALSE
INVARIANTS ClaimsHold ContainmentHolds DeploymentsHold
