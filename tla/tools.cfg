SPECIFICATION Spec
CONSTANTS
    e1 = e1
    e2 = e2
    e3 = e3
    e4 = e4
    None = None
INVARIANTS
    TypesOK
    VoiceSafe
    SpeechSafe
    MemorySafe
    FirewallSafe
PROPERTIES
    StepsInOrder
CHECK_DEADLOCK FALSE
