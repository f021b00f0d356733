SPECIFICATION Spec
CONSTANTS
    Txns <- MCTxns
    Kind <- MCKind
    Protocol <- MCProtocol
    Target <- MCTarget
    Targets <- MCTargets
    NoTxn = NoTxn
    Installed = Installed
    Absent = Absent
    MaxScheduled = 1
    ManualSelection = FALSE
    HookMayBeSkipped = FALSE
    NestedKinds = {}
INVARIANTS
    NeverWithoutRoot
