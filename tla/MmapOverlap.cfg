SPECIFICATION Spec
CONSTANTS
    PageSize = 4
    Space = 10
    Limit = 9
    LoaderPages <- MCLowPages
    MmapBase = 1
    MmapSizes = {1, 4, 5}
    Bytes = {0, 1}
PROPERTY MmapIsAvailable
CHECK_DEADLOCK FALSE
