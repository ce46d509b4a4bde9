SPECIFICATION GuestSpec
CONSTANTS
    VMs = {m1, m2}
    Root = m1
    Addrs = {0}
    Offsets = {0}
    Bytes = {0, 1}
    Zero = 0
    Wilds = {w}
    NoSym = NoSym
    Pages = {p1, p2, p3}
    NULL = NULL
    Unmapped = Unmapped
    NoMemory = NoMemory
SYMMETRY PageSymmetry
PROPERTY CopyReadsTheSame
CHECK_DEADLOCK FALSE
