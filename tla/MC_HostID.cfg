CONSTANTS
    r1 = r1
    r2 = r2
    r3 = r3
    Readers <- MCReaders
    NumFields = 3
    SetterLists <- MCSetterLists
    MaxUpdates = 4
SPECIFICATION Spec
INVARIANTS
    TypeOK
    CopiesAreSnapshots
PROPERTIES
    ReadersReturnOnceReady
    ImplementsRegister
CHECK_DEADLOCK FALSE
