SPECIFICATION SheetSpec
CONSTANTS
 Beginnings <- SmallBeginnings
 Tokens <- SmallTokens
 MaxTyped = 3
 Bindings <- SmallBindings
 Values <- SmallValues
 MaxLength = 4
 Thresholds <- SmallThresholds
 Ids <- SmallIds
 Names = {"a", "b"}
 MaxMoves = 2
 Calendars <- SmallCalendars
 Days <- SmallDays
 Nodes = {a, b, c, d}
 Edges <- AllEdges
 Formulas <- ExtremePairs
 Calls = {}
SYMMETRY NodeSymmetry
INVARIANT WeeksEndOnSunday
CHECK_DEADLOCK FALSE
