\* Fields of the types the library reads, and each of its functions.
SPECIFICATION Spec
CONSTANTS
    Fields <- Supported
    Widths <- AllWidths
INVARIANTS
    DecimalAsWritten
    TemporalAsWritten
    ElementsAsWritten
    NullGivesNothing
