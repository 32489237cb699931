\* A mutation that leaves rows, then an INSERT with a column list, then a query.
SPECIFICATION Spec
CONSTANTS
    Table <- OneTable
    Col <- TwoCols
    Expr <- NoExpr
    Row <- ThreeRows
    Cell <- CleanCells
    Kept <- AllKept
    Bound <- MCBound
    DefaultBound = "default"
    Precision <- MCPrecision
    Capacity <- MCCapacity
    Width <- MCWidth
    Depth <- MCDepth
    ErrorTop <- MCErrorTop
    MaxK = 30
    Seed <- OneSeed
    Torn = Torn
    Inserts <- ListedInserts
    Queries <- OneCount
    Rewrites <- AnyContent
    Overrides <- NoSeeds
    FileBacked = FALSE
    Habits <- NoHabits
    Faults <- NoFaults
    NoAnswer = NoAnswer
INVARIANTS
    AnswerExact
