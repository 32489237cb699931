\* Values that are spread over up to three partitions.
SPECIFICATION Spec
CONSTANTS
    Bits = 6
    Precision = 2
    Hash <- SomeHashes
    PartitionRows = 2
    MaxPartitions = 3
INVARIANTS
    TypeOK
    RegistersExact
PROPERTIES
    ImplementsSingle
