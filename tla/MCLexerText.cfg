SPECIFICATION Spec
CONSTANTS
    Bytes = {9, 10, 13, 35, 43, 46, 49, 102, 105}
    MaxText = 4
    MaxLoads = 1
    Sources = {"file"}
INVARIANTS
    TypeOK
    LocationIsTokenStart
    TokenIsItsText
    LoadsWholeText
PROPERTIES
    KeepsPromise
