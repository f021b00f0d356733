SPECIFICATION Spec
CONSTANTS
    Txns <- MCTxns
    Kind <- MCKind
    Protocol <- MCProtocol
    Target <- MCTarget
    Targets <- MCTargets
    NoTxn = NoTxn
    Installed = Installed
    Absent = Absent
    MaxScheduled = 1
    ManualSelection = TRUE
    HookMayBeSkipped = FALSE
    NestedKinds = {}
INVARIANTS
    NoKernelCarryOver
