SPECIFICATION Spec
CONSTANTS
    MaxRows = 3
    Missing = Missing
    Unreadable = Unreadable
INVARIANTS
    BackupIsConsistent
    SuccessIsTheSnapshot
    CleanRestoreIsAtomic
    VerifierLocatesHarm
PROPERTY OnlyValidSnapshotsLand
CHECK_DEADLOCK FALSE
