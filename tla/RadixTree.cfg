SPECIFICATION FairSpec
CONSTANTS
    NULL = NULL
    a = a  a2 = a2  b = b  c = c  d = d
    t = t
    Alphabet = 2
    Data <- MCData
    Key <- MCKey
    Threads = {t}
    MallocMayFail = TRUE
    FlagsAtInit = {FALSE, TRUE}
INVARIANTS
    CountsMatchLinks
    HandsOutAll
PROPERTIES
    NoNewBareLeaves
    TraversalEnds
    ImplementsDictionary
CHECK_DEADLOCK FALSE
