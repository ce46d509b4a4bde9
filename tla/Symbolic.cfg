SPECIFICATION Spec
CONSTANTS
    W8 = 2
    W16 = 3
    W128 = 3
    Forms <- MCForms
    BitAnd <- MCAnd
    BitOr <- MCOr
    BitXor <- MCXor
    Operations = {"sub", "mul", "mod", "xor", "shl", "eq", "lts"}
    Constants = {1}
    Targets = {"y"}
    MaxSteps = 2
    MaxBranches = 2
INVARIANTS EveryInputIsAdmitted NoOutcomeIsMissed
CHECK_DEADLOCK FALSE
