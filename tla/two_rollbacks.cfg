SPECIFICATION Spec
CONSTANTS
    Txns <- MCTxns
    Kind <- MCKind
    Protocol <- MCProtocol
    Target <- MCTarget
    Targets <- MCTargets
    NoTxn = NoTxn
    Installed = Installed
    Absent = Absent
    MaxScheduled = 2
    ManualSelection = FALSE
    HookMayBeSkipped = FALSE
    NestedKinds = {}
INVARIANTS
    ConfirmedRunsTarget LineageHeadIsRoot NoKernelCarryOver
PROPERTIES
    ImplementsAtomicRollback
