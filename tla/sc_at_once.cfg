CONSTANTS
    main = main
    feature = feature
    f1 = f1
    f2 = f2
    v1 = v1
    v2 = v2
    r1 = r1
    r2 = r2
    Nil = Nil
    DefaultBranch = main
    Branches = {main, feature}
    Paths = {f1}
    Texts = {v1, v2}
    Requests = {r1, r2}
    MaxCommits = 3
    Does <- Anything
    World = {"push", "deleteBranch", "fail", "unopened"}
    Scenarios <- AtOnce
SYMMETRY RequestsAndContents
SPECIFICATION ScenarioSpec
PROPERTIES NothingLost ConflictGate BuiltOnExpectedHead
