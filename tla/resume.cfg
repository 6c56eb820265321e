\* Connections that break, exceptions, refused QUERY events, files that end and a
\* master that restarts: the resume point, the promise of ChangeFeed, that nothing
\* is skipped in silence, and that the loop gets on until it is stopped.
SPECIFICATION FairCrashSpec
CONSTANTS
    a1 = a1
    a2 = a2
    u = u
    NameA = NameA
    NameU = NameU
    NoTable = NoTable
    Tables <- OneWatched
    Watched <- OneWatched
    NameOf <- NameOfOne
    Kinds = {"WRITE"}
    MasterMay = {"rotate", "longquery"}
    MaxEvents = 5
    MaxFiles = 2
    MaxIds = 1
    Wide = {}
    Checksum = FALSE
    Faults = {"callback"}
    MaxFailures = 2
INVARIANTS
    ResumeAtStatementBoundary
    ReplayWithinTransaction
    NeverWaitsWithoutDump
    NoSilentLoss
PROPERTIES
    ImplementsFeed
    EventuallyCaughtUp
    StopEndsTheLoop
    ResumeNeverMovesBack
CHECK_DEADLOCK FALSE
