\* Every stream of up to sixteen numbers with every choice of offsets.
SPECIFICATION Spec
CONSTANTS
    Value <- ThreeValues
    Capacities <- ThreeOrFour
    MaxCount = 16
INVARIANTS
    TypeOK
    WeightKept
    RanksClose
    QuartilesClose
