SPECIFICATION Spec
CONSTANTS
    NumPages = 10
    DataSize = 2
    NumTables = 1
    PerTable = 5
    NumNodes = 3
    Names <- TwoNames
    Bytes <- TwoBytes
    Absent = Absent
    Junk = Junk
    a = a
    b = b
    MaxFailures = 0
    Avoided <- Disciplined
    MaxSize = 4
    MaxWrite = 2
    MaxVersion = 5
INVARIANT ReadsTheFile
INVARIANT ChainsEnd
PROPERTY ImplementsFileStore
PROPERTY CopyOnWrite
