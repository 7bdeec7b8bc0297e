CONSTANTS
    Names <- MNames
    Texts <- AllTexts
    a = a
    b = b
SPECIFICATION Spec
INVARIANT StructuralFailureRaises
CHECK_DEADLOCK FALSE
