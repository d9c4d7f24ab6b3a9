SPECIFICATION Spec
CONSTANTS
    Tokens = {"if", "else", ":", "for", "var", "in", "=", ",", "ident"}
    MaxTokens = 8
    MaxNodes = 9
INVARIANTS
    OneDiagnosticPerFailure
    ExplicitLocationsOwned
    RecursionConsumesTokens
