SPECIFICATION Spec
CONSTANTS
    Variables = {"x"}
    FunctionNames = {"f", "g"}
    Kinds = {"call"}
    VarLists = {}
    MaxArgs = 1
    MaxItems = 2
    MaxBranches = 1
INVARIANTS
    CallsFunctionNamed
