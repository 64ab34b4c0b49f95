SPECIFICATION Spec
CONSTANTS
    Parent <- Nested
    NameSize <- ShortNames
    PageTarget = 8
    EntryRest = 4
    RefRest = 1
    PageRest = 1
    Values = {v1, v2}
    v1 = v1
    v2 = v2
    MaxEdits = 3
    MaxMerges = 2
SYMMETRY Symmetry
CHECK_DEADLOCK FALSE
INVARIANT MergeExact
INVARIANT PagesExact
