CONSTANTS
    early = early
    registry = registry
    late = late
    prompt = prompt
    c1 = c1
    g1 = g1
    g2 = g2
    n1 = n1
    n2 = n2
    n3 = n3
    a = a
    b = b
    GraphOrder <- GraphList
    NodeIds <- NodeList
    Agents = {a, b}
    NoAgent = NoAgent
    OldProjects <- OldTrees
    Callers = {c1, c2}
    Sketches = {1, 2, 3}
    Codes = {0, 1, 2}
    TypeScript = {3}
    Outs = {early, late, prompt}
    Prompts = {prompt}
    Registry = registry
    SaveOrder <- Sorted
    MaxEmissions = 2
    Calls = {c1}
    Kinds = {"apply", "run", "stop", "save", "commit", "sync", "discard"}
    Faults = {"runner", "save"}
    Scenarios <- Everyday
SPECIFICATION ScenarioSpec
INVARIANTS TypeOK CurrentMeansEmitted EmittedIsMaintained  MigrationHolds
