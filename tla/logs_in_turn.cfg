SPECIFICATION Spec
CONSTANTS
  Run = {r1, r2}
  p1 = p1
  p2 = p2
  p3 = p3
  p4 = p4
  Pod = {p1, p2, p3, p4}
  Component <- MCComponent
  Dependence <- MCDependence
  PodsOf <- MCPodsOf
  Order <- MCOrder
  Milvus = "milvus"
  Command <- MCCommand
  NoPod = noPod
SYMMETRY Runs
CHECK_DEADLOCK FALSE
INVARIANTS TypeOK OneFailureEndsTheGroup ArchiveOfOneExport
PROPERTY ArchiveIsKept
