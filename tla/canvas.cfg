SPECIFICATION PagesSpec
CONSTANTS
  Ids = {"web", "api", "svc", "svc-2", "job", "db"}
  EdgeIds = {"c1", "c2", "c3"}
  Refused = Refused
  MaxNodes = 3
  MaxEdges = 2
  Types = {"client", "boundary", "service", "process", "datastore"}
  Kinds = {"routes-to", "depends-on", "calls"}
  Starts <- MCStarts
  Names <- MCNames
  EdgeNames <- MCEdgeNames
  NewIds = {"svc-2"}
  MaxSelected = 2
  Inside = {"db"}
  Parts <- MCParts
  Lines <- MCLines
  DomainOrder <- MCDomains
  Unknown = "x"
  NoOne = "none"
  Views <- MCViews
CHECK_DEADLOCK FALSE
INVARIANTS  LevelsHold
