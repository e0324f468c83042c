SPECIFICATION FairWalkSpec
CONSTANTS
    NULL = NULL
    t1 = t1
    t2 = t2
    Callers = {t1, t2}
    Keys <- Keys4
    SearchKeys = {1, 2, 3, 4, 5, 6, 7, 8, 9}
    Originals <- TreesUpTo4
    Ops <- OneTraverses
    Nested <- HandlersSearch
    MaxCalls = 1
INVARIANTS
    EveryNodeVisited
    Restored
    SearchIsRight
    DestroyComplete
PROPERTIES
    CallsEnd
CHECK_DEADLOCK FALSE
