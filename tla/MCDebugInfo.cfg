\* A definition, callers of it and a redefinition, with calls nested in arguments.
SPECIFICATION IRSpec
CONSTANTS
    Variables = {"x"}
    FunctionNames = {"f", "g"}
    Kinds = {"call", "unary", "="}
    VarLists = {}
    MaxArgs = 1
    MaxItems = 3
    MaxBranches = 2
INVARIANTS
    IRTypeOK
    ResultFuncLive
    CalleesLive
    CallsMatchParameters
    LexicalBlocksBalanced
    LocatedInItsFunction
PROPERTIES
    LocatedInItsNode
