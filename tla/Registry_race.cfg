SPECIFICATION Spec
CONSTANTS
  a = a
  b = b
  Procs = {p1, p2}
  Keys = {a, b}
  Paths <- MCPaths
  Conns = {c1, c2}
  Fresh = {n1, n2, n3, n4, n5, n6}
  Nodes <- MCNodes
  Root = Root
  None = None
SYMMETRY Symmetry
PROPERTIES
  ImplementsFlatMap
CHECK_DEADLOCK FALSE
