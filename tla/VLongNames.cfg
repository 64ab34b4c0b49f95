SPECIFICATION Spec
CONSTANTS
    Parent <- FourFiles
    NameSize <- LongNames
    PageTarget = 4096
    EntryRest = 266
    RefRest = 169
    PageRest = 14
    Values = {v1, v2}
    v1 = v1
    v2 = v2
    MaxEdits = 3
    MaxMerges = 2
SYMMETRY Symmetry
INVARIANT Storable
CHECK_DEADLOCK FALSE
