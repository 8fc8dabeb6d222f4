SPECIFICATION PlanningSpec
CONSTANTS
    VersionIds = {"a", "f", "b"}
    AssumptionKeys <- MCAssumptionKeys
    WriteMembers <- MCWriteMembers
    VsValues = {1, 2}
    LastPeriod = 3
    CurrentPeriod = 2
    MaxVsEdits = 2
    Items = {"r", "x", "y", "u", "v"}
    NoItem = "no"
    ParentOf <- MCParentOf
    SortOrder <- MCOrder
    Clients = {"c1", "c2"}
    Bulks <- MCBulks
    CellNumbers = {0, 4}
    Summaries = {"none", "average", "min", "closing_balance"}
    MaxPlanOps = 2
    Dims = {"n", "s", "t", "c"}
    TypeOf <- MCTypeOf
    SourcesOf <- MCSources
    Names = {"A"}
    Files <- MCFiles
    Limits = {0, 2}
    DimClients = {"c1", "c2"}
    MaxItems = 5
    MaxDimOps = 3
    RangeIds = {"r1", "r2"}
    RangeModules = {"m"}
    Granularities = {"month", "year"}
    LastNumber = 2
    RangeClients = {"c1", "c2"}
    MaxRangeOps = 3
INVARIANTS HierarchyAddsUp
PROPERTIES VersionsAgree DimensionsAgree RangesStayOrdered
CHECK_DEADLOCK FALSE
