SPECIFICATION Race
CONSTANTS
  Run = {1, 2, 3}
  CRD <- MCCRD
  Resource <- MCResource
  Namespace = "namespace"
  Namespaced <- MCNamespaced
  Needs <- MCNeeds
  ReadyCRD = "certificates"
  File <- MCFile
  Manifest <- MCManifest
  Command <- MCRace
  None = none
  Serial = FALSE
CHECK_DEADLOCK FALSE
INVARIANTS
  InstallsExclude
  PartialCRDsHaveACulprit
  OneInstallAtATime
  
PROPERTIES
  EveryStepIsNearer
  
