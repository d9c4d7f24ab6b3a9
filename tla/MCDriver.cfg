\* Two compilers, every pair of command lines, two temporary names.
CONSTANTS
    Compilers = {"first", "second"}
    Requests <- CommandLines
    Names = {"arx_1", "arx_2"}
SPECIFICATION Spec
INVARIANTS
    TypeOK
    NothingLeftBehind
PROPERTIES
    SuccessMeansBuilt
    Ends
