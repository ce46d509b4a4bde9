SPECIFICATION Spec
CONSTANTS
    Cases <- MCCases
    Exe = "exe"
    DepAddr = 8
    DepAdd = 8
    TlsAddr = 40
    TlsSize = 3
    StackAddr = 48
    StackSize = 2
INVARIANTS NeededOnce PagesDisjoint EveryByteIsFound ReferencesAgree RelocationsHold StoppedAtEntry
PROPERTIES LoadingEnds AttachEnds
CHECK_DEADLOCK FALSE
