SPECIFICATION Spec
CONSTANTS
  Run = {r1, r2, r3}
  CRD <- MCCRD
  Resource <- MCResource
  Namespace = "namespace"
  Namespaced <- MCNamespaced
  Needs <- MCNeeds
  ReadyCRD = "certificates"
  File <- MCFile
  Manifest <- MCManifest
  Command <- MCLifecycle
  None = none
  Serial = TRUE
SYMMETRY Runs
CHECK_DEADLOCK FALSE
INVARIANTS
  TypeOK
  RecordNamesAnInstall
  UninstallLeavesNothing
