SPECIFICATION Spec
CONSTANTS
  proxy1 = proxy1
  proxy2 = proxy2
  etcd1 = etcd1
  etcd2 = etcd2
  minio = minio
  bookie = bookie
  init = init
  pp = pp
  pe = pe
  pm = pm
  pb = pb
  pj = pj
  Workload = {proxy1, proxy2, etcd1, etcd2, minio, bookie, init}
  Pod = {pp, pe, pm, pb, pj}
  Component = {"proxy"}
  Dependence = {"etcd", "minio"}
  Pulsar = "pulsar"
  Milvus = "milvus"
  SectionOf <- MCSectionOf
  Kind <- MCKind
  PodsOf <- MCPodsOf
  Order <- MCOrder
  Command <- MCCommand
  MaxChanges = 3
CHECK_DEADLOCK FALSE
INVARIANTS TypeOK LossesAreReported CleanReportIsComplete
