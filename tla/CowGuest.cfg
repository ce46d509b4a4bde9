SPECIFICATION FairGuestSpec
CONSTANTS
    VMs = {m1, m2, m3}
    Root = m1
    Addrs = {0}
    Offsets = {0, 1}
    Bytes = {0, 1}
    Zero = 0
    Wilds = {}
    NoSym = NoSym
    Pages = {1, 2, 3, 4}
    NULL = NULL
    Unmapped = Unmapped
    NoMemory = NoMemory
ACTION_CONSTRAINT AllocateInOrder
INVARIANTS TypeOK NoUseAfterFree DirtyIsPrivate ReferencesCoverReleases OnlyParentsAreLeft
PROPERTY PrivateStores
PROPERTY DestroyEnds
CHECK_DEADLOCK FALSE
