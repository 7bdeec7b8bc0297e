CONSTANTS
    Locals <- MLocals
    BBIds <- MBBIds4
    Callees <- MCallees
    LockShaped <- MLockShaped
    UnwrapShaped <- MUnwrapShaped
    CalleeRole <- MCalleeRole
    Bodies <- AnyOrderBodies
    NoLocal = NoLocal
    NoTerm = NoTerm
    Main = Main
    NoLimit = NoLimit
    lockFn = lockFn
    unwrapFn = unwrapFn
    otherFn = otherFn
SPECIFICATION Spec
PROPERTY ImplementsExec
CHECK_DEADLOCK FALSE
