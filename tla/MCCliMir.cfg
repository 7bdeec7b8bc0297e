CONSTANTS
    Paths <- MPaths
    Args <- DistinctArgs
    Names <- MNames
    Texts <- MTexts
    NoPath = NoPath
    p1 = p1
    p2 = p2
    p3 = p3
    fa = fa
SPECIFICATION Spec
INVARIANT TypeOK
INVARIANT ExitCodeReflectsOutput
CHECK_DEADLOCK FALSE
