SPECIFICATION Spec
CONSTANTS
    W8 = 2
    W16 = 3
    W128 = 3
    Forms <- MCForms
    BitAnd <- MCAnd
    BitOr <- MCOr
    BitXor <- MCXor
    Operations = {"add", "sub", "mul", "eq"}
    Constants = {1}
    Targets = {"y"}
    MaxSteps = 2
    MaxBranches = 1
INVARIANT BothOutcomesAreFollowed
CHECK_DEADLOCK FALSE
