SPECIFICATION Spec
CONSTANTS
  Run = {r1, r2}
  CRD <- MCCRD
  Resource <- MCResource
  Namespace = "namespace"
  Namespaced <- MCNamespaced
  Needs <- MCNeeds
  ReadyCRD = "certificates"
  File <- MCFile
  Manifest <- MCManifest
  Command <- MCExtra
  None = none
  Serial = TRUE
SYMMETRY Runs
CHECK_DEADLOCK FALSE
INVARIANT
  UninstallsTheOperator
