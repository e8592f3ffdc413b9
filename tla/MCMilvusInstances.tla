-------------------------- MODULE MCMilvusInstances --------------------------
(* Small instances of MilvusInstances for TLC. *)
EXTENDS MilvusInstances, TLC

CONSTANTS keep, noFile

MCField == {"memory", "replicas", "pvc"}
MCValue == {"low", "high", "true"}
MCKey   == {"milvus", "milvuscluster"}

Fields(m, n, p) == [f \in MCField |-> CASE f = "memory" -> m [] f = "replicas" -> n [] f = "pvc" -> p]

MCZero     == Fields("low", "low", "low")
MCProfile  == [p \in {"minimal"} \X {"standalone", "cluster"} |->
                 IF p[2] = "standalone" THEN Fields("low", "low", "low") ELSE Fields("low", "high", "low")]
MCExisting == {MCZero}
MCPvcField == [k \in MCKey |-> {"pvc"}]

Nothing == Fields(keep, keep, keep)
Memory  == Fields("high", keep, keep)
Replicas == Fields(keep, "high", keep)

Line(verb, key, file, type, mode, set, withDeletion) ==
  [verb |-> verb, key |-> key, file |-> file, type |-> type, mode |-> mode,
   set |-> set, withDeletion |-> withDeletion]

(* Every form of the three commands, on the two resources of delete. *)
MCCommand ==
  {Line("create", "milvus", noFile, "minimal", "", Memory, FALSE),
   Line("create", "milvuscluster", Memory, "", "", Nothing, FALSE),
   Line("update", "milvus", noFile, "", "", Memory, FALSE),
   Line("update", "milvus", Replicas, "", "", Nothing, FALSE),
   Line("delete", "milvus", noFile, "", "", Nothing, FALSE),
   Line("delete", "milvus", noFile, "", "", Nothing, TRUE)}

Runs == Permutations(Run)

(* A MilvusCluster that is there from the start is known to the controller. *)
KnownInit == Init /\ (store["milvuscluster"] = Absent \/ store["milvuscluster"].finalizer)
Known == KnownInit /\ [][Next]_vars

=============================================================================
