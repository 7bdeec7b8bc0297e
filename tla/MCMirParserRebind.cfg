CONSTANTS
    Locals <- MLocals
    BBIds <- MBBIds
    Callees <- MCallees
    LockShaped <- MLockShaped
    UnwrapShaped <- MUnwrapShaped
    CalleeRole <- MCalleeRole
    Bodies <- RebindBodies
    NoLocal = NoLocal
    NoTerm = NoTerm
    lockFn = lockFn
    unwrapFn = unwrapFn
    otherFn = otherFn
    clockUnwrapFn = clockUnwrapFn
SPECIFICATION Spec
CHECK_DEADLOCK FALSE
INVARIANT GuardKeyAgreesWithLockKey
