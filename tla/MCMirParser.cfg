CONSTANTS
    Locals <- MLocals
    BBIds <- MBBIds
    Callees <- MCallees
    LockShaped <- MLockShaped
    UnwrapShaped <- MUnwrapShaped
    CalleeRole <- MCalleeRole
    Bodies <- SSABodies
    NoLocal = NoLocal
    NoTerm = NoTerm
    lockFn = lockFn
    unwrapFn = unwrapFn
    otherFn = otherFn
    clockUnwrapFn = clockUnwrapFn
SPECIFICATION Spec
INVARIANT TypeOK
INVARIANT GuardProvenance
CHECK_DEADLOCK FALSE
