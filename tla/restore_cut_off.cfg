SPECIFICATION Spec
CONSTANTS
    MaxRows = 3
    Missing = Missing
    Unreadable = Unreadable
INVARIANT RestoreIsAtomic
CHECK_DEADLOCK FALSE
