SPECIFICATION Spec
CONSTANTS
    Tokens = {"num", ","}
    MaxTokens = 3
    MaxNodes = 4
INVARIANTS
    NodesAreItems
