SPECIFICATION LogSpec
CONSTANTS
    Capacity = 2
    Entry = {a, b}
    Empty = none
    MaxEntries = 5
INVARIANTS
    QueueExact
PROPERTIES
    EveryEntryPrinted
CHECK_DEADLOCK FALSE
