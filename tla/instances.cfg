SPECIFICATION Known
CONSTANTS
  Run = {r1, r2, r3}
  Key <- MCKey
  TheMilvus = "milvus"
  TheCluster = "milvuscluster"
  Field <- MCField
  Value <- MCValue
  keep = keep
  noFile = noFile
  Keep = keep
  Type = {"minimal"}
  Profile <- MCProfile
  Zero <- MCZero
  Existing <- MCExisting
  PvcField <- MCPvcField
  True = "true"
  Command <- MCCommand
  NoFile = noFile
  Absent = absent
  Nameless = nameless
  MaxRevision = 2
SYMMETRY Runs
CHECK_DEADLOCK FALSE
INVARIANTS
  TypeOK
  DeleteLeavesNothing
  MarkedBeforeDelete
  LoneDeleteMarks
PROPERTIES
  ImplementsRegistry
  ImplementsRequests
