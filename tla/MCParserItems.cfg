SPECIFICATION Spec
CONSTANTS
    Tokens = {"fn", "extern", "ident", "(", ")", ",", ":", ";", "num"}
    MaxTokens = 6
    MaxNodes = 7
INVARIANTS
    TypeOK
    OneDiagnosticPerFailure
    ExplicitLocationsOwned
    StallsOnlyOnOrphans
    RecursionConsumesTokens
PROPERTIES
    NeverReadsPastEnd
    Terminates
