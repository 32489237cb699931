\* Every stream of up to six of four values, with reloads in between.
SPECIFICATION Spec
CONSTANTS
    Value <- FourValues
    Depth = 2
    Width = 2
    TopCapacities <- UpToTwo
    MaxLength = 6
INVARIANTS
    TypeOK
    NeverUnder
    ErrorBounds
    NothingMissed
    HeavyHitters
