SPECIFICATION Spec
CONSTANTS
    VMs = {m1, m2}
    Root = m1
    Vars = {v1, v2, v3}
    Nodes = {n1, n2, n3, n4, n5}
    NULL = NULL
SYMMETRY HeapSymmetry
INVARIANTS OwnedOnce IntactUntilFork LostAreResults
CHECK_DEADLOCK FALSE
