SPECIFICATION Spec
CONSTANTS
    NULL = NULL
    a = a  a2 = a2  b = b  c = c  d = d
    t = t
    Alphabet = 2
    Data <- MCData
    Key <- MCKey
    Threads = {t}
    MallocMayFail = TRUE
    FlagsAtInit = {FALSE}
INVARIANTS
    NoNullDereference
CHECK_DEADLOCK FALSE
