\* A client that keeps to what streaming can do, reads its sketches back
\* before it inserts, and has none prewarmed for a table with rows.
SPECIFICATION Spec
CONSTANTS
    Table <- OneTable
    Col <- TwoCols
    Expr <- NoExpr
    Row <- ThreeRows
    Cell <- CleanCells
    Kept <- AllKept
    Bound <- MCBound
    DefaultBound = "default"
    Precision <- MCPrecision
    Capacity <- MCCapacity
    Width <- MCWidth
    Depth <- MCDepth
    ErrorTop <- MCErrorTop
    MaxK = 30
    Seed <- OneSeed
    Torn = Torn
    Inserts <- CarefulInserts
    Queries <- CarefulQueries
    Rewrites <- AnyContent
    Overrides <- NoSeeds
    FileBacked = TRUE
    Habits <- AllHabits
    Faults <- NoFaults
    NoAnswer = NoAnswer
INVARIANTS
    AnswerExact
PROPERTIES
    ImplementsPrecise
