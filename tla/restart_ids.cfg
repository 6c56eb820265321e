\* Rows of a table nobody watches, after a restart of the server.
SPECIFICATION CrashSpec
CONSTANTS
    a1 = a1
    a2 = a2
    u = u
    NameA = NameA
    NameU = NameU
    NoTable = NoTable
    Tables <- WatchedAndOther
    Watched <- OneWatched
    NameOf <- NamesOfTwo
    Kinds = {"WRITE"}
    MasterMay = {}
    MaxEvents = 7
    MaxFiles = 2
    MaxIds = 2
    Wide = {}
    Checksum = FALSE
    Faults = {}
    MaxFailures = 1
INVARIANTS
    OnlyWatchedTables
CHECK_DEADLOCK FALSE
