CONSTANTS
    NumNodes = 2
    Limit = 2
    MaxTicks = 2
    MaxGivenUp = 1
    World = {"noRunner", "unhydrated", "break", "die", "cancel", "nodeFails"}
    Nodes = {1, 2, 3, 4}
    NodeType <- McNodeType
    MaxLines = 4
    Starts = {1}
    Polls = {1}
    MaxWatches = 3
SPECIFICATION FairScenarioSpec
CHECK_DEADLOCK FALSE
INVARIANTS TypesOK LogIsTold RunStops CheckIsRight SortIsRight
PROPERTIES LateAnswersAreHarmless EndsAreSeen
