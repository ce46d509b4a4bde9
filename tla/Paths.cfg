SPECIFICATION Spec
CONSTANTS
    MaxVMs = 8
    Inputs = {0, 1}
    Names = {"a", "b"}
    Branches = 3
INVARIANTS LostOnlyAtComparisons PathsAreDisjoint AssertionsHold
PROPERTY ExploresNativeRuns
PROPERTY EveryInputFinishes
CHECK_DEADLOCK FALSE
