\* Every exception dispatch_events() can end with, checksums, files that end;
\* the promise of ChangeFeed and the inductive invariant.
SPECIFICATION Spec
CONSTANTS
    a1 = a1
    a2 = a2
    u = u
    NameA = NameA
    NameU = NameU
    NoTable = NoTable
    Tables <- WatchedAndOther
    Watched <- OneWatched
    NameOf <- NamesOfTwo
    Kinds = {"DELETE"}
    MasterMay = {"unsupported", "rotate"}
    MaxEvents = 5
    MaxFiles = 2
    MaxIds = 2
    Wide <- Unwatched
    Checksum = TRUE
    Faults = {"header", "body", "callback", "hook"}
    MaxFailures = 2
INVARIANTS
    TypeOK
    IInv
    NoSilentLoss
PROPERTY
    ImplementsFeed
CHECK_DEADLOCK FALSE
