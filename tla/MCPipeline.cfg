CONSTANTS
    Locals <- MLocals
    BBIds <- MBBIds
    Callees <- MCallees
    LockShaped <- MLockShaped
    UnwrapShaped <- MUnwrapShaped
    CalleeRole <- MCalleeRole
    Bodies <- OrderedBodies
    NoLocal = NoLocal
    NoTerm = NoTerm
    Main = Main
    NoLimit = NoLimit
    lockFn = lockFn
    unwrapFn = unwrapFn
    otherFn = otherFn
SPECIFICATION Spec
INVARIANT TypeOK
INVARIANT ProgramStepsInNet
PROPERTY ImplementsExec
PROPERTY Translates
CHECK_DEADLOCK FALSE
