------------------------------- MODULE MCDescribe -------------------------------
(***************************************************************************)
(* Small instances of Describe for TLC: a component of two deployments,    *)
(* etcd of two stateful sets, MinIO as a deployment, and Pulsar of a       *)
(* stateful set and a job.                                                 *)
(***************************************************************************)
EXTENDS Describe, TLC

CONSTANTS proxy1, proxy2, etcd1, etcd2, minio, bookie, init, pp, pe, pm, pb, pj

MCSectionOf ==
  proxy1 :> "proxy" @@ proxy2 :> "proxy" @@ etcd1 :> "etcd" @@ etcd2 :> "etcd"
    @@ minio :> "minio" @@ bookie :> "pulsar" @@ init :> "pulsar"
MCKind ==
  [w \in Workload |-> IF w \in {proxy1, proxy2, minio} THEN "deployment"
                      ELSE IF w = init THEN "job" ELSE "statefulset"]
MCPodsOf ==
  proxy1 :> {pp} @@ proxy2 :> {pp} @@ etcd1 :> {pe} @@ etcd2 :> {}
    @@ minio :> {pm} @@ bookie :> {pb} @@ init :> {pj}
MCOrder  == <<"etcd", "minio", "pulsar">>

Line(form, component, dependence) ==
  [form |-> form, component |-> component, dependence |-> dependence]

MCCommand ==
  { Line("milvus", "proxy", "etcd"), Line("milvus", "all", "pulsar"), Line("milvus", "other", "etcd"),
    Line("milvus", "", "all"), Line("nameless", "proxy", ""), Line("kubectl", "", ""), Line("empty", "", "") }

=============================================================================
