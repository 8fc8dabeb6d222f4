SPECIFICATION SheetSpec
CONSTANTS
 Beginnings <- SmallBeginnings
 Tokens <- SmallTokens
 MaxTyped = 4
 Bindings <- SmallBindings
 Values <- SmallValues
 MaxLength = 4
 Thresholds <- SmallThresholds
 Ids <- SmallIds
 Names = {"a", "b"}
 MaxMoves = 2
 Calendars <- SmallCalendars
 Days <- SmallDays
 Nodes = {a, b, c, d}
 Edges <- AllEdges
 Formulas <- ExtremePairs
 Calls = {"order", "recalc", "cycles"}
SYMMETRY NodeSymmetry
INVARIANTS FormulasMeetGrammar FunctionsMeetDefinitions CalendarAgrees DependenciesFirst OrderOrCycle RecalcIsMinimal CyclesAreFound
CHECK_DEADLOCK FALSE
