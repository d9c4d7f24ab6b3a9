SPECIFICATION Spec
CONSTANTS
    Tokens = {"num", "(", ")", "=", "+", "*"}
    MaxTokens = 7
    MaxNodes = 8
INVARIANTS
    BindsByPrecedence
    Inductive
