CONSTANTS
    Names <- MNames
    Texts <- BalancedTexts
    a = a
    b = b
SPECIFICATION Spec
INVARIANT TypeOK
INVARIANT BodiesAreMatchedBlocks
INVARIANT FindsEveryFunction
CHECK_DEADLOCK FALSE
