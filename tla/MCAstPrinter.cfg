\* Two items with at most three inner nodes, nested or side by side.
SPECIFICATION Spec
CONSTANTS
    MaxBranches = 3
    MaxChildren = 2
    MaxItems = 2
INVARIANTS
    TypeOK
    StrayOnlyFromUnprinted
    CrashesOnMissing
PROPERTIES
    BracketsAlign
