SPECIFICATION WalkSpec
CONSTANTS
    NULL = NULL
    t1 = t1
    t2 = t2
    Callers = {t1, t2}
    Keys <- Keys3
    SearchKeys = {1}
    Originals <- Trees3
    Ops <- BothMorris
    Nested <- NoneNested
    MaxCalls = 1
INVARIANTS
    EveryNodeVisited
CHECK_DEADLOCK FALSE
