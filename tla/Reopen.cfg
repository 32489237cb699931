\* A database file that is closed and opened again.
SPECIFICATION Spec
CONSTANTS
    Table <- TwoTables
    Col <- UserOnly
    Expr <- NoExpr
    Row <- TwoRows
    Cell <- TwoTextCells
    Kept <- AllKept
    Bound <- MCBound
    DefaultBound = "default"
    Precision <- MCPrecision
    Capacity <- MCCapacity
    Width <- MCWidth
    Depth <- MCDepth
    ErrorTop <- MCErrorTop
    MaxK = 30
    Seed <- TwoSeeds
    Torn = Torn
    Inserts <- UserInserts
    Queries <- ReopenQueries
    Rewrites <- AnyContent
    Overrides <- NoSeeds
    FileBacked = TRUE
    Habits <- NoHabits
    Faults <- NoFaults
    NoAnswer = NoAnswer
INVARIANTS
    NoPhantom
    WriteThrough
    SeedCoherent
    Reusable
PROPERTIES
    AppendKeepsExact
