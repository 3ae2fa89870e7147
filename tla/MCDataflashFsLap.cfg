SPECIFICATION Spec
CONSTANTS
    NumPages = 12
    DataSize = 1
    NumTables = 1
    PerTable = 5
    NumNodes = 3
    Names <- TwoNames
    Bytes <- TwoBytes
    Absent = Absent
    Junk = Junk
    a = a
    b = b
    MaxFailures = 0
    Avoided <- Lap
    MaxSize = 2
    MaxWrite = 1
    MaxVersion = 6
PROPERTY CopyOnWrite
