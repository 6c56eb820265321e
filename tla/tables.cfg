\* Table ids, namesakes, savepoints and definitions that change.
SPECIFICATION Spec
CONSTANTS
    a1 = a1
    a2 = a2
    u = u
    NameA = NameA
    NameU = NameU
    NoTable = NoTable
    Tables <- TwoNamesakes
    Watched <- TwoNamesakes
    NameOf <- NamesOfNamesakes
    Kinds = {"UPDATE"}
    Wide = {}
    Checksum = FALSE
    Faults = {}
    MasterMay = {"alter", "savepoint"}
    MaxEvents = 8
    MaxFiles = 1
    MaxIds = 3
    MaxFailures = 0
SYMMETRY Namesakes
INVARIANTS
    RowsReachTheirTable
    NoSilentLoss
CHECK_DEADLOCK FALSE
