CONSTANTS
    TREEBIN_SHIFT = 3
    NTREEBINS = 2
    SIZE_T_BITSIZE = 7
    granularity = 8
    Bases <- MCBases
    MemoryEnd = 60
    Requests <- MCRequests
    MaxLive = 3
SPECIFICATION Spec
INVARIANTS BinsAreSorted ChunksTileSegments InUseIsLive RefusedWhenFull
PROPERTIES BestFit HeapPromise
