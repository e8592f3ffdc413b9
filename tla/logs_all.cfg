SPECIFICATION Spec
CONSTANTS
  Run = {r1}
  p1 = p1
  p2 = p2
  p3 = p3
  p4 = p4
  Pod = {p1, p2, p3, p4}
  Component <- MCComponent
  Dependence <- MCDependence
  PodsOf <- MCPodsOf
  Order <- MCOrder
  Milvus = "milvus"
  Command <- MCAll
  NoPod = noPod
CHECK_DEADLOCK FALSE
INVARIANT AllIsExported
