\* Two definitions of a name, with two constructs of any kind nested or side by side.
SPECIFICATION Spec
CONSTANTS
    Variables = {"x"}
    FunctionNames = {"f"}
    Kinds = {"call", "unary", "=", "+", "if", "for", "var"}
    VarLists <- OneName
    MaxArgs = 1
    MaxItems = 2
    MaxBranches = 2
INVARIANTS
    TypeOK
    ScopeIsOwn
    NoHalfBuiltFunction
    PhiMatchesPredecessors
PROPERTIES
    ScopeRestored
