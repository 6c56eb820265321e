\* Stopping the loop from another thread, in a process that opens and closes
\* files meanwhile.
SPECIFICATION Spec
CONSTANTS
    MaxFd = 2
    NoFd = NoFd
    MaxEvents = 1
    MaxFailures = 2
    MaxOpens = 2
INVARIANTS
    TypeOK
    NoForeignEvents
    OthersLeftAlone
    NoConnectionLeft
PROPERTY
    StopEndsTheLoop
CHECK_DEADLOCK FALSE
