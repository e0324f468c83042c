CONSTANTS
  Nodes = {a1, a2, a3, a4, a5}
  NULL = NULL
  Data = {1, 2}
  LifoMax = 2
  ListMax = 3
SPECIFICATION Spec
SYMMETRY Addresses
INVARIANTS WellLinked MonitorExact
PROPERTY RemovesTheRightOne
