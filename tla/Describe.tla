-------------------------------- MODULE Describe --------------------------------
(***************************************************************************)
(* milvusctl describe milvus <instance> --component --dependence: for each *)
(* section asked for, the workloads are listed and then read one by one,   *)
(* and after each of them its pods likewise, while workloads and pods come *)
(* and go.  One invocation; every request is a step.                       *)
(***************************************************************************)
EXTENDS Naturals, Sequences

CONSTANTS
  Workload,     \* deployments, stateful sets and jobs of the instance
  Pod,
  Component,    \* the milvus components, each a section
  Dependence,   \* etcd, minio and kafka, each a section
  Pulsar,       \* a section
  Milvus,       \* the custom resource, and the section of it alone
  SectionOf,    \* of every workload
  Kind,         \* of every workload: "deployment", "statefulset" or "job"
  PodsOf,       \* of every workload
  Order,        \* the sections of --dependence all
  Command,      \* the command lines that are typed
  MaxChanges    \* bound: objects that come or go while the command runs

Object  == Workload \cup Pod \cup {Milvus}
Section == Component \cup Dependence \cup {Pulsar, Milvus}

(* "milvus" is describe milvus with a flag; it needs a name, too.  Without *)
(* any argument there is no first one to look at.                          *)
CommandLine ==
  [form : {"milvus", "nameless", "kubectl", "empty"},
   component : Component \cup {"", "all", "other"},
   dependence : Dependence \cup {Pulsar, "", "all", "other"}]

ASSUME ConstantsFit ==
  /\ Milvus \notin Workload \cup Pod
  /\ Component \cap Dependence = {} /\ Milvus # Pulsar /\ Workload \cap Section = {}
  /\ {Milvus, Pulsar, "all", "", "other"} \cap (Component \cup Dependence) = {}
  /\ {"all", "", "other"} \cap {Milvus, Pulsar} = {}
  /\ SectionOf \in [Workload -> Section \ {Milvus}]
  /\ Kind \in [Workload -> {"deployment", "statefulset", "job"}]
  /\ PodsOf \in [Workload -> SUBSET Pod]
  /\ Order \in Seq(Dependence \cup {Pulsar})
  /\ Command \subseteq CommandLine

VARIABLES
  present,   \* the objects that are there
  bare,      \* the pods without conditions or container statuses
  steady,    \* the objects that were there all the time (history)
  changes,   \* how many have come or gone
  cmd,       \* the command line
  pc,        \* the next request
  sections,  \* the sections to come, the one at hand first
  works,     \* the workloads of the section to come
  current,   \* the workload at hand
  pods,      \* the pods of it to come
  errs,      \* allErrs of the section: the objects not found, failed lists
  report,    \* the errors that Run returns
  printed,   \* the objects a status was printed of
  lost       \* the objects that were listed and not found (history)

clusterVars == <<present, bare, steady, changes>>
sectionVars == <<sections, works, current, pods, errs, report>>
vars        == <<clusterVars, cmd, pc, sectionVars, printed, lost>>

Of(s, kind) == {w \in Workload : SectionOf[w] = s /\ Kind[w] = kind}

(* A component is described by its deployments, all else by stateful sets: *)
(* a dependence that runs as a deployment, like the MinIO of the           *)
(* standalone profiles, is not found.                                      *)
Searched(s) == Of(s, IF s \in Component THEN "deployment" ELSE "statefulset")

Jobs == Of(Pulsar, "job")

(* One selector finds the pods of a section, of workloads of any kind.     *)
AllPods(s) == UNION {PodsOf[w] : w \in {v \in Workload : SectionOf[v] = s}}

TypeOK ==
  /\ present \subseteq Object /\ bare \subseteq present \cap Pod /\ steady \subseteq present
  /\ changes \in Nat /\ cmd \in Command
  /\ pc \in {"start", "list", "jobs", "workload", "pods", "pod", "done", "failed", "crashed"}
  /\ sections \in Seq(Section) /\ works \subseteq Workload /\ pods \subseteq Pod
  /\ printed \subseteq Object /\ lost \subseteq Object
  /\ errs \subseteq Object \cup Section /\ report \subseteq Object \cup Section \cup {"usage"}
  /\ pc \in {"jobs", "workload", "pods", "pod"} =>
       sections # <<>> /\ \A w \in works : SectionOf[w] = Head(sections)
  /\ pc \in {"pods", "pod"} => current \in Workload /\ SectionOf[current] = Head(sections)
  /\ pc \in {"done", "list"} => errs = {} /\ pods = {}

(* A complete instance, at rest or just created; what is missing of one    *)
(* has gone by one of the changes.                                         *)
Init ==
  /\ present = Object /\ bare \in {{}, Pod} /\ steady = Object
  /\ changes = 0 /\ cmd \in Command
  /\ pc = "start" /\ sections = <<>> /\ works = {} /\ pods = {}
  /\ current = CHOOSE w \in Workload : TRUE
  /\ errs = {} /\ report = {} /\ printed = {} /\ lost = {}

-----------------------------------------------------------------------------
(* Sections of a flag; one that names none is an error, and the other flag *)
(* is looked at all the same.                                              *)
Chosen(flag, all) ==
  IF flag = "all" THEN all ELSE IF flag \in Section THEN <<flag>> ELSE <<>>

(* The command proper, Complete and the two switches of Run. *)
Start ==
  /\ pc = "start"
  /\ UNCHANGED <<clusterVars, cmd, works, current, pods, errs, printed, lost>>
  /\ IF cmd.form = "milvus"
     THEN /\ sections' = Chosen(cmd.component, <<Milvus>>) \o Chosen(cmd.dependence, Order)
          /\ report' = IF "other" \in {cmd.component, cmd.dependence} THEN {"usage"} ELSE {}
          /\ pc' = IF sections' = <<>> THEN "done" ELSE "list"
     ELSE /\ UNCHANGED <<sections, report>>
          /\ \/ cmd.form = "empty" /\ pc' = "crashed"
             \/ cmd.form = "nameless" /\ pc' = "failed"
             \/ cmd.form = "kubectl" /\ pc' \in {"done", "failed"}

(* A section returns the errors es. *)
Return(es) ==
  /\ report' = report \cup es
  /\ sections' = Tail(sections)
  /\ pc' = IF Tail(sections) = <<>> THEN "done" ELSE "list"
  /\ works' = {} /\ pods' = {} /\ errs' = {}
  /\ UNCHANGED current

Goto(next, ws) ==
  /\ pc' = next /\ works' = ws
  /\ UNCHANGED <<sections, current, pods, errs, report>>

(* Of Print*Status: only NotFound counts as an error.  After any other one *)
(* the status of an empty object is printed.                               *)
Prints(x) == printed' = printed \cup {x} /\ UNCHANGED lost
Misses(x) == x \notin present /\ lost' = lost \cup {x} /\ UNCHANGED printed

PrintMilvusStatus ==
  /\ pc = "list" /\ Head(sections) = Milvus
  /\ \/ Prints(Milvus) /\ Return({})
     \/ Misses(Milvus) /\ Return({Milvus})
  /\ UNCHANGED <<clusterVars, cmd>>

(* What is searched for a section; of the stateful sets of a dependence    *)
(* only the first is looked at, and without any it returns nil.            *)
List ==
  /\ pc = "list" /\ Head(sections) # Milvus
  /\ LET s     == Head(sections)
         found == present \cap Searched(s)
     IN \/ Return({s})
        \/ s = Pulsar /\ Goto("jobs", found)
        \/ s # Pulsar /\ found = {} /\ Return({})
        \/ s \in Component /\ found # {} /\ Goto("workload", found)
        \/ s \in Dependence /\ \E w \in found : Goto("workload", {w})
  /\ UNCHANGED <<clusterVars, cmd, printed, lost>>

(* DescribePulsar lists the jobs before it prints anything. *)
ListJobs ==
  /\ pc = "jobs"
  /\ LET all == works \cup (present \cap Jobs) IN
     \/ Return({Pulsar})
     \/ all = {} /\ Return({})
     \/ all # {} /\ Goto("workload", all)
  /\ UNCHANGED <<clusterVars, cmd, printed, lost>>

(* Mutant: the pods are listed for the workload before. *)
PrintWorkloadStale ==
  /\ pc = "workload"
  /\ \/ works = {} /\ Return(errs) /\ UNCHANGED <<printed, lost>>
     \/ \E w \in works :
          /\ w \in Jobs => works \subseteq Jobs
          /\ pc' = "pods" /\ works' = works \ {w}
          /\ \/ Prints(w) /\ UNCHANGED errs
             \/ Misses(w) /\ errs' = errs \cup {w}
          /\ UNCHANGED <<current, sections, pods, report>>
  /\ UNCHANGED <<clusterVars, cmd>>

(* PrintDeploymentStatus, PrintStatefulSetStatus, PrintJobStatus; stateful *)
(* sets come before jobs.  A workload that is gone still has its pods      *)
(* listed.                                                                 *)
PrintWorkload ==
  /\ pc = "workload"
  /\ \/ works = {} /\ Return(errs) /\ UNCHANGED <<printed, lost>>
     \/ \E w \in works :
          /\ w \in Jobs => works \subseteq Jobs
          /\ pc' = "pods" /\ works' = works \ {w} /\ current' = w
          /\ \/ Prints(w) /\ UNCHANGED errs
             \/ Misses(w) /\ errs' = errs \cup {w}
          /\ UNCHANGED <<sections, pods, report>>
  /\ UNCHANGED <<clusterVars, cmd>>

(* Mutant: every section returns nil when it finds no pod. *)
ListPodsNil ==
  /\ pc = "pods"
  /\ LET s     == Head(sections)
         found == present \cap IF s = Pulsar THEN PodsOf[current] ELSE AllPods(s)
     IN \/ IF s = Pulsar THEN /\ pc' = "workload" /\ errs' = errs \cup {s}
                              /\ UNCHANGED <<sections, works, current, pods, report>>
                         ELSE Return(errs \cup {s})
        \/ found = {} /\ Return({})
        \/ found # {} /\ pc' = "pod" /\ pods' = found
           /\ UNCHANGED <<sections, works, current, errs, report>>
  /\ UNCHANGED <<clusterVars, cmd, printed, lost>>

(* Mutant: without pods a section is at its end, with the errors it has. *)
ListPodsReturn ==
  /\ pc = "pods"
  /\ LET s     == Head(sections)
         found == present \cap IF s = Pulsar THEN PodsOf[current] ELSE AllPods(s)
     IN \/ IF s = Pulsar THEN /\ pc' = "workload" /\ errs' = errs \cup {s}
                              /\ UNCHANGED <<sections, works, current, pods, report>>
                         ELSE Return(errs \cup {s})
        \/ found = {} /\ Return(errs)
        \/ found # {} /\ pc' = "pod" /\ pods' = found
           /\ UNCHANGED <<sections, works, current, errs, report>>
  /\ UNCHANGED <<clusterVars, cmd, printed, lost>>

(* The pods of the section, or, for pulsar, of the workload at hand.  When *)
(* they cannot be listed, pulsar goes on with the next workload; when      *)
(* there is none, a dependence returns nil, whatever it has collected.     *)
ListPods ==
  /\ pc = "pods"
  /\ LET s     == Head(sections)
         found == present \cap IF s = Pulsar THEN PodsOf[current] ELSE AllPods(s)
     IN \/ s = Pulsar /\ pc' = "workload" /\ errs' = errs \cup {s}
           /\ UNCHANGED <<sections, works, current, pods, report>>
        \/ s # Pulsar /\ Return(errs \cup {s})
        \/ s \in Dependence /\ found = {} /\ Return({})
        \/ s \notin Dependence /\ found = {} /\ Goto("workload", works)
        \/ found # {} /\ pc' = "pod" /\ pods' = found
           /\ UNCHANGED <<sections, works, current, errs, report>>
  /\ UNCHANGED <<clusterVars, cmd, printed, lost>>

(* PrintPodStatus looks at the first condition and container, which a pod  *)
(* that was just created has not, nor one that could not be read.          *)
PrintPod ==
  /\ pc = "pod"
  /\ UNCHANGED <<clusterVars, cmd, sections, works, current, report>>
  /\ \/ pods = {} /\ pc' = "workload" /\ UNCHANGED <<pods, errs, printed, lost>>
     \/ \E p \in pods :
          /\ pods' = pods \ {p}
          /\ \/ p \in present \ bare /\ Prints(p) /\ UNCHANGED <<pc, errs>>
             \/ Misses(p) /\ errs' = errs \cup {p} /\ UNCHANGED pc
     \/ pc' = "crashed" /\ pods # {} /\ UNCHANGED <<pods, errs, printed, lost>>

(* The cluster: an object goes, or comes, a pod without a status at first. *)
Goes(x) ==
  /\ x \in present
  /\ present' = present \ {x} /\ bare' = bare \ {x} /\ steady' = steady \ {x}

Comes(x) ==
  /\ x \notin present
  /\ present' = present \cup {x} /\ bare' = bare \cup ({x} \cap Pod)
  /\ UNCHANGED steady

Change ==
  /\ pc \notin {"done", "failed", "crashed"} /\ changes < MaxChanges
  /\ changes' = changes + 1
  /\ \E x \in Object : Goes(x) \/ Comes(x)
  /\ UNCHANGED <<cmd, pc, sectionVars, printed, lost>>

Settle ==
  /\ pc \notin {"done", "failed", "crashed"}
  /\ \E p \in bare : bare' = bare \ {p}
  /\ UNCHANGED <<present, steady, changes, cmd, pc, sectionVars, printed, lost>>

Next ==
  \/ Start \/ PrintMilvusStatus \/ List \/ ListJobs
  \/ PrintWorkload \/ ListPods \/ PrintPod
  \/ Change \/ Settle

Spec == Init /\ [][Next]_vars

-----------------------------------------------------------------------------
(* What was listed and was gone when it was read is in the report          *)
(* (describe.go:124-139, 212-359), in whatever order the errors of the     *)
(* sections come; the one exception are stateful sets of a dependence all  *)
(* of whose pods were away, too, at some time: line 275 drops their error. *)
LossesAreReported ==
  pc = "done" =>
    \A x \in lost \ report :
      /\ x \in Workload /\ SectionOf[x] \in Dependence
      /\ steady \cap AllPods(SectionOf[x]) = {}

(* The steady objects of a section, of the kinds that are searched for it, *)
(* were printed: each workload with its pods; of a dependence the pods and *)
(* one of the stateful sets, if none of them went away.                    *)
Described(s) ==
  /\ s = Milvus /\ Milvus \in steady => Milvus \in printed
  /\ s \in Component =>
       \A w \in Searched(s) \cap steady : {w} \cup (PodsOf[w] \cap steady) \subseteq printed
  /\ s = Pulsar =>
       \A w \in (Searched(s) \cup Jobs) \cap steady : {w} \cup (PodsOf[w] \cap steady) \subseteq printed
  /\ s \in Dependence =>
       /\ Searched(s) # {} /\ Searched(s) \subseteq steady => Searched(s) \cap printed # {}
       /\ Searched(s) \cap steady # {} => AllPods(s) \cap steady \subseteq printed

(* No error means that nothing was left out (describe.go:124-359) of what  *)
(* is searched: every section asked for is described, whatever came and    *)
(* went meanwhile.  What is of another kind is silently left out: the      *)
(* deployments of a dependence, since describe.go:256 lists stateful sets  *)
(* and 260 returns nil when there is none.                                 *)
CleanReportIsComplete ==
  pc = "done" /\ report = {} /\ cmd.form = "milvus" =>
    LET asked == Chosen(cmd.component, <<Milvus>>) \o Chosen(cmd.dependence, Order)
    IN \A i \in DOMAIN asked : Described(asked[i])

=============================================================================
