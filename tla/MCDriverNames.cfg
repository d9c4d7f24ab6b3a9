\* Two compilers and one name.
CONSTANTS
    Compilers = {"first", "second"}
    Requests <- TwoFiles
    Names = {"arx_1"}
SPECIFICATION Spec
INVARIANTS
    UniqueTmpFile
