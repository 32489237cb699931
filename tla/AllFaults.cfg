\* Every fault: writes that no sketch hears of, transactions, crashes.
SPECIFICATION Spec
CONSTANTS
    Table <- OneTable
    Col <- UserOnly
    Expr <- NoExpr
    Row <- OneRow
    Cell <- TextCell
    Kept <- AllKept
    Bound <- MCBound
    DefaultBound = "default"
    Precision <- MCPrecision
    Capacity <- MCCapacity
    Width <- MCWidth
    Depth <- MCDepth
    ErrorTop <- MCErrorTop
    MaxK = 30
    Seed <- TwoSeeds
    Torn = Torn
    Inserts <- OneRowInserts
    Queries <- FaultQueries
    Rewrites <- AnyContent
    Overrides <- OtherSeed
    FileBacked = TRUE
    Habits <- NoHabits
    Faults <- FaultKind
    NoAnswer = NoAnswer
INVARIANTS
    WriteThrough
    SeedCoherent
