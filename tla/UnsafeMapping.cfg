\* An INSERT with a quoted column, and a DELETE behind it.
\* A session ends.
CHECK_DEADLOCK FALSE
SPECIFICATION Spec
CONSTANTS
    UnitNumbers <- MCUnitNumbers
    Counts <- MCCounts
    Scripts <- UnsafeScripts
    MaxLines = 1
INVARIANTS
    MappedSafely
