\* A reconnect to a server that writes checksums.
SPECIFICATION FairSpec
CONSTANTS
    a1 = a1
    a2 = a2
    u = u
    NameA = NameA
    NameU = NameU
    NoTable = NoTable
    Tables <- OneWatched
    Watched <- OneWatched
    NameOf <- NameOfOne
    Kinds = {"WRITE"}
    MasterMay = {}
    MaxEvents = 4
    MaxFiles = 1
    MaxIds = 1
    Wide = {}
    Checksum = TRUE
    Faults = {}
    MaxFailures = 1
PROPERTIES
    EventuallyCaughtUp
CHECK_DEADLOCK FALSE
