SPECIFICATION Spec
CONSTANTS
    NumPages = 10
    DataSize = 1
    NumTables = 2
    PerTable = 2
    NumNodes = 3
    Names <- TwoNames
    Bytes <- TwoBytes
    Absent = Absent
    Junk = Junk
    a = a
    b = b
    MaxFailures = 1
    Avoided <- Disciplined
    MaxSize = 1
    MaxWrite = 1
    MaxVersion = 5
INVARIANT NewestIsCurrent
PROPERTY ImplementsFileStore
CHECK_DEADLOCK FALSE
