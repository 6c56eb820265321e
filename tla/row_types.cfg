\* A TIME column in front of another one.
SPECIFICATION Spec
CONSTANTS
    Written <- WithTimes
    Kinds = {"WRITE", "UPDATE"}
    Formats <- EventFormats
    MaxRows = 2
    KeyColumns = 1
INVARIANTS
    RowsAsWritten
