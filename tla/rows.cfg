\* Rows of tables with the types the library knows.
SPECIFICATION Spec
CONSTANTS
    Written <- Supported
    Kinds = {"WRITE", "UPDATE", "DELETE"}
    Formats <- EventFormats
    MaxRows = 2
    KeyColumns = 1
INVARIANTS
    RowsAsWritten
    CursorsInStep
    PositionAsWritten
PROPERTIES
    ImagesTakeBytes
