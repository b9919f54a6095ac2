CONSTANTS
  Node = {n1, n2, n3, n4}
  Data = {a, b}
  NULL = NULL
SPECIFICATION Spec
INVARIANTS WellLinked
PROPERTIES ImplementSequences
