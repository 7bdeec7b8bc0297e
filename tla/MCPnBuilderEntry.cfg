CONSTANTS
    FnNames <- MFnNames
    Locals <- MLocals
    BBIds <- MBBIds
    Callees <- MCallees
    LockShaped <- MLockShaped
    Inputs <- MInputs
    EntryFn = main
    MaxFns = 1
    NoLimit = NoLimit
    NoLocal = NoLocal
    NoTerm = NoTerm
    main = main
    helper = helper
    lockFn = lockFn
    otherFn = otherFn
SPECIFICATION Spec
CHECK_DEADLOCK FALSE
INVARIANT EntryMarked
