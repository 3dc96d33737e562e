CONSTANTS
    a1 = a1
    a2 = a2
    angle = angle
    overview = overview
    l1 = l1
    AreaOrder <- TwoAreas
    Readings = {angle}
    Overview = overview
    Lifts = {l1}
    Edits = 2
    HandEdits = 1
    Upgrades = 2
    MaxAnswers = 2
    MaxLifts = 2
    MaxFailures = 1
    Faults = {"ask", "put", "refine", "meta"}
    api = api
    orders = orders
    cron = cron
    Finds = {api, orders, cron}
    TypeOf <- McTypeOf
    Anchored = {api, orders}
    NameOrder <- McNameOrder
    Named <- McNamed
    Needs <- McNeeds
    NoThing = NoThing
    Refusal = Refusal
    MaxCanvas = 5
    MaxEdits = 2
    MaxChanges = 1
    Names = {1, 2, 3, 4}
    MaxRenames = 2
SPECIFICATION AboutSpec
CHECK_DEADLOCK FALSE
INVARIANTS DocumentsSettle
PROPERTIES LiftsSettle LiftEnds AuthorsWorkStays RecordedAnswersHold
