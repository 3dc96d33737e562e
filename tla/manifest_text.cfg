SPECIFICATION Spec
CONSTANTS
  Ids = {"a", "b", "c"}
  EdgeIds = {"e", "f"}
  Refused = Refused
  Nothing = Nothing
  MaxNodes = 2
  MaxEdges = 1
  Types = {"service"}
  Kinds = {"calls"}
  Texts <- MCTexts
CHECK_DEADLOCK FALSE
PROPERTIES SplicingHolds
