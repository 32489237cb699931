\* Quantiles of two expressions over one table.
SPECIFICATION Spec
CONSTANTS
    Table <- OneTable
    Col <- TwoCols
    Expr <- TwoExprs
    Row <- ThreeRows
    Cell <- CleanCells
    Kept <- AllKept
    Bound <- MCBound
    DefaultBound = "default"
    Precision <- MCPrecision
    Capacity <- MCCapacity
    Width <- MCWidth
    Depth <- MCDepth
    ErrorTop <- MCErrorTop
    MaxK = 30
    Seed <- OneSeed
    Torn = Torn
    Inserts <- ListedInserts
    Queries <- ExprQueries
    Rewrites <- AnyContent
    Overrides <- NoSeeds
    FileBacked = FALSE
    Habits <- NoHabits
    Faults <- NoFaults
    NoAnswer = NoAnswer
INVARIANTS
    AnswerOwnInput
