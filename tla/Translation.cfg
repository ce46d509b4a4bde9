CONSTANTS
    W8 = 5
    W16 = 6
    W32 = 8
    W64 = 16
    Cases <- MCCases
SPECIFICATION Spec
INVARIANTS
    RegistersAgree
    FlagsAgree
    ComparisonsDecide
PROPERTIES
    ProgramsEnd
\* the program ends
CHECK_DEADLOCK FALSE
