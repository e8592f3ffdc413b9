------------------------------ MODULE MCLogsExport ------------------------------
(* Small instances of LogsExport for TLC. *)
EXTENDS LogsExport, TLC

CONSTANTS p1, p2, p3, p4

MCComponent  == {"proxy", "datanode"}
MCDependence == {"etcd", "minio"}
MCPodsOf     == [g \in MCComponent \cup MCDependence |->
                   CASE g = "proxy" -> {p1} [] g = "datanode" -> {p2} [] g = "etcd" -> {p3} [] g = "minio" -> {p4}]

MCOrder      == [d \in MCDependence |-> IF d = "etcd" THEN 1 ELSE 4]

Line(form, all, component, deps) ==
  [form |-> form, all |-> all, component |-> component, deps |-> deps]

MCCommand ==
  { Line("instance", TRUE, "all", {}), Line("instance", TRUE, "proxy", {}),
    Line("instance", FALSE, "datanode", {"etcd"}), Line("instance", FALSE, "other", {"etcd"}),
    Line("instance", FALSE, "all", {}), Line("pod", FALSE, "all", {}), Line("shortPod", FALSE, "all", {}) }
MCAll == { Line("instance", TRUE, "all", {}) }

Runs == Permutations(Run)

=============================================================================
