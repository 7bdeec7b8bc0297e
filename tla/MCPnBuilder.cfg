CONSTANTS
    FnNames <- MFnNames
    Locals <- MLocals
    BBIds <- MBBIds
    Callees <- MCallees
    LockShaped <- MLockShaped
    Inputs <- MInputs
    EntryFn = main
    MaxFns = NoLimit
    NoLimit = NoLimit
    NoLocal = NoLocal
    NoTerm = NoTerm
    main = main
    helper = helper
    lockFn = lockFn
    otherFn = otherFn
SPECIFICATION Spec
INVARIANT TypeOK
INVARIANT NetWellFormed
INVARIANT MutexSubnetSound
CHECK_DEADLOCK FALSE
