\* The calls of SketchEngine step by step, with crashes.
SPECIFICATION ExecSpec
CONSTANTS
    Table <- OneTable
    Col <- TwoCols
    Expr <- NoExpr
    Row <- OneRow
    Cell <- ExecCells
    Kept <- AllKept
    Bound <- MCBound
    DefaultBound = "default"
    Precision <- MCPrecision
    Capacity <- MCCapacity
    Width <- MCWidth
    Depth <- MCDepth
    ErrorTop <- MCErrorTop
    MaxK = 30
    Seed <- OneSeed
    Torn = Torn
    Inserts <- ExecInserts
    Queries <- ExecQueries
    Rewrites <- OnlyEmpty
    Overrides <- NoSeeds
    FileBacked = TRUE
    Habits <- NoHabits
    Faults <- OnlyCrash
    NoAnswer = NoAnswer
    NoCall = NoCall
PROPERTIES
    ImplementsEngine
    DiskBehindTables
    CallReturns
