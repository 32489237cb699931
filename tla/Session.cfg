\* Two calls of every kind of text, by every kind of client.
\* A session ends.
CHECK_DEADLOCK FALSE
SPECIFICATION Spec
CONSTANTS
    UnitNumbers <- MCUnitNumbers
    Counts <- MCCounts
    Scripts <- AllScripts
    MaxLines = 2
INVARIANTS
    TypeOK
    Truthful
    NothingLeaks
    ChangesHeard
    NothingDropped
    ValuesInPlace
    CallsUnderstood
PROPERTIES
    SessionEnds
