SPECIFICATION Spec
CONSTANTS
    VMs = {m1, m2}
    Root = m1
    Addrs = {0, 1}
    Offsets = {0}
    Bytes = {0, 1}
    Zero = 0
    Wilds = {w}
    NoSym = NoSym
    Pages = {p1, p2, p3, p4}
    NULL = NULL
    Unmapped = Unmapped
    NoMemory = NoMemory
SYMMETRY PageSymmetry
INVARIANTS MappedIsAllocated
CHECK_DEADLOCK FALSE
