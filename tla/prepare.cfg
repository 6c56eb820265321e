\* prepare() against a master that alters and drops tables and switches its
\* checksums, with queries and connections that fail.
SPECIFICATION Spec
CONSTANTS
    Watched = {t1, t2}
    Definitions <- Grown
    Versions = {"5", "10.2"}
    NoName = NoName
    MasterMay = {"alter", "drop", "checksum"}
    MaxLog = 2
    MaxChanges = 2
    MaxFailures = 1
INVARIANTS
    TypeOK
    NamesFitLongerAndShorterRows
    NoSilentMisread
    NothingMissedByRetries
CHECK_DEADLOCK FALSE
