SPECIFICATION Spec
CONSTANTS
    Bytes = {10, 32, 43, 49, 105}
    MaxText = 3
    MaxLoads = 2
    Sources = {"string", "file", "stdin"}
INVARIANTS
    OneCharacterCarriedOver
PROPERTIES
    NothingFollowsEof
