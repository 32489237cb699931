\* A :memory: database: mixed values, inserts with and without column
\* list and hint, filtered and computed inputs, two bounds.
SPECIFICATION Spec
CONSTANTS
    Table <- OneTable
    Col <- TwoCols
    Expr <- OneExpr
    Row <- ThreeRows
    Cell <- MixedCells
    Kept <- SomeKept
    Bound <- MCBound
    DefaultBound = "default"
    Precision <- MCPrecision
    Capacity <- MCCapacity
    Width <- MCWidth
    Depth <- MCDepth
    ErrorTop <- MCErrorTop
    MaxK = 30
    Seed <- OneSeed
    Torn = Torn
    Inserts <- EventInserts
    Queries <- MemQueries
    Rewrites <- AnyContent
    Overrides <- NoSeeds
    FileBacked = FALSE
    Habits <- NoHabits
    Faults <- NoFaults
    NoAnswer = NoAnswer
INVARIANTS
    TypeOK
    NoPhantom
    GuaranteeMet
PROPERTIES
    AppendKeepsExact
    ImplementsLossy
