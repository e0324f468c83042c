SPECIFICATION Spec
CONSTANTS
    a = a  a2 = a2  b = b  c = c  d = d  NULL = NULL
    Data <- MCData
    Key <- MCKey
    InitialSize = 2
    ExpansionSize = 1
    DefaultSize = 1
    MaxShrink = 2
INVARIANTS
    Sorted
    SearchIsRight
    HandsOutAll
PROPERTIES
    ImplementsDictionary
