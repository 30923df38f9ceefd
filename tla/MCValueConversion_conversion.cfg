SPECIFICATION Spec
CONSTANTS
    Tables <- MCTables
    Wire <- MCWire
    TighteningIndex = 2
INVARIANTS
    KnownTypesNeverMisread
    FieldsKeepTheirNames
    ArraysKeepShape
    ResultsArrive
