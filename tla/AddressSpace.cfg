SPECIFICATION LoaderSpec
CONSTANTS
    PageSize = 4
    Space = 10
    Limit = 9
    LoaderPages <- MCLoaderPages
    MmapBase = 0
    MmapSizes = {}
    Bytes = {0, 1}
INVARIANTS LookupIsExact WordReadsBack LongReadsBack
CHECK_DEADLOCK FALSE
