\* The DATETIME columns of MySQL 5.6 and later.
SPECIFICATION Spec
CONSTANTS
    Fields <- Datetimes2
    Widths <- AllWidths
INVARIANTS
    TemporalAsWritten
