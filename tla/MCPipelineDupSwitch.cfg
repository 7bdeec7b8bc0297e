CONSTANTS
    Locals <- MLocals
    BBIds <- MBBIds
    Callees <- MCallees
    LockShaped <- MLockShaped
    UnwrapShaped <- MUnwrapShaped
    CalleeRole <- MCalleeRole
    Bodies <- DupSwitchBodies
    NoLocal = NoLocal
    NoTerm = NoTerm
    Main = Main
    NoLimit = NoLimit
    lockFn = lockFn
    unwrapFn = unwrapFn
    otherFn = otherFn
SPECIFICATION Spec
INVARIANT ProgramStepsInNet
CHECK_DEADLOCK FALSE
