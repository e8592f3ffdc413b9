---------------------------- MODULE Describe_proofs ----------------------------
(***************************************************************************)
(* Proofs about Describe, for any instance, any number of changes of the   *)
(* cluster and any command line.  The cluster only ever makes fewer        *)
(* objects steady, so that what is known of the steady ones stays known;   *)
(* a request adds to what is printed or to the errors; and a section ends  *)
(* by one kind of step, Return.                                            *)
(***************************************************************************)
EXTENDS Describe, SequenceTheorems, TLAPS

LEMMA ChosenType ==
  ASSUME NEW f, NEW all \in Seq(Section)
  PROVE  Chosen(f, all) \in Seq(Section)
  BY DEF Chosen

Asked == Chosen(cmd.component, <<Milvus>>) \o Chosen(cmd.dependence, Order)

LEMMA AskedType == Asked \in Seq(Section)
<1>1. <<Milvus>> \in Seq(Section)
  BY DEF Section
<1>2. Order \in Seq(Section)
  <2>1. Dependence \cup {Pulsar} \subseteq Section
    BY DEF Section
  <2>2. Order \in Seq(Dependence \cup {Pulsar})
    BY ConstantsFit
  <2> QED
    BY <2>1, <2>2, SeqMonotonic
<1>3. Chosen(cmd.component, <<Milvus>>) \in Seq(Section)
  BY <1>1, ChosenType
<1>4. Chosen(cmd.dependence, Order) \in Seq(Section)
  BY <1>2, ChosenType
<1> QED
  BY <1>3, <1>4, ConcatProperties DEF Asked

-----------------------------------------------------------------------------
(* Types, and the shape of the command.                                    *)

Here == Head(sections)

(* What the command may hold at each call: there is a section at hand, and *)
(* no error from the one before; of a dependence one workload is taken up. *)
Shape ==
  /\ pc = "start" => errs = {} /\ pods = {} /\ lost = {}
  /\ pc = "list" => sections # <<>>
  /\ pc = "jobs" => errs = {} /\ Here = Pulsar
  /\ pc \in {"workload", "pods", "pod"} => Here # Milvus
  /\ pc \in {"workload", "pods", "pod"} /\ Here \in Dependence =>
       \/ pc = "workload" /\ errs = {} /\ \E w : works = {w}
       \/ pc = "pods" /\ works = {} /\ errs \subseteq {current}
       \/ pc \in {"workload", "pod"} /\ works = {}

LEMMA TypeInit == Init => TypeOK /\ Shape
  BY DEF Init, TypeOK, Shape, Object

(* Return ends a section as the code that follows expects. *)
LEMMA ReturnType ==
  ASSUME TypeOK, sections # <<>>, NEW es \in SUBSET (Object \cup Section), Return(es)
  PROVE  /\ pc' \in {"list", "done"} /\ sections' \in Seq(Section)
         /\ works' = {} /\ pods' = {} /\ errs' = {} /\ current' = current
         /\ pc' = "list" => sections' # <<>>
         /\ report' = report \cup es
         /\ report' \subseteq Object \cup Section \cup {"usage"}
  BY DEF TypeOK, Return

LEMMA HereIsSection ==
  ASSUME TypeOK, sections # <<>>
  PROVE  Here \in Section /\ sections \in Seq(Section)
  BY DEF TypeOK, Here

(* A section goes on. *)
Going == /\ pc' \in {"jobs", "workload", "pods", "pod"}
         /\ sections' = sections /\ report' = report

LEMMA TypeNext == TypeOK /\ Shape /\ [Next]_vars => (TypeOK /\ Shape)'
<1> SUFFICES ASSUME TypeOK, Shape, [Next]_vars PROVE (TypeOK /\ Shape)'
  OBVIOUS
<1> USE DEF Here
<1>1. CASE UNCHANGED vars
  BY <1>1 DEF TypeOK, Shape, vars, clusterVars, sectionVars
<1>2. CASE Start
  <2>1. Asked \in Seq(Section)
    BY AskedType
  <2> QED
    BY <1>2, <2>1 DEF Start, Asked, TypeOK, Shape, clusterVars
<1>3. CASE PrintMilvusStatus
  <2>1. /\ sections # <<>> /\ UNCHANGED <<clusterVars, cmd>>
        /\ \E es \in SUBSET {Milvus} : Return(es)
        /\ printed' \subseteq Object /\ lost' \subseteq Object
    BY <1>3 DEF PrintMilvusStatus, Prints, Misses, TypeOK, Shape, Object
  <2> QED
    BY <2>1, ReturnType DEF TypeOK, Shape, clusterVars, Object
<1>4. CASE List
  <2>1. sections # <<>> /\ Here \in Section /\ Here # Milvus /\ errs = {} /\ pods = {}
    BY <1>4, HereIsSection DEF List, Shape, TypeOK
  <2>2. CASE \E es \in SUBSET Section : Return(es)
    BY <1>4, <2>1, <2>2, ReturnType DEF List, TypeOK, Shape, clusterVars
  <2>3. CASE \E ws \in SUBSET Workload :
               /\ \A w \in ws : SectionOf[w] = Here
               /\ \/ Here = Pulsar /\ Goto("jobs", ws)
                  \/ Here \in Component /\ Goto("workload", ws)
                  \/ \E w : ws = {w} /\ Goto("workload", ws)
    BY <1>4, <2>1, <2>3, ConstantsFit DEF List, Goto, TypeOK, Shape, clusterVars
  <2>4. Searched(Here) \subseteq {w \in Workload : SectionOf[w] = Here}
    BY DEF Searched, Of
  <2> QED
    BY <1>4, <2>1, <2>2, <2>3, <2>4 DEF List
<1>5. CASE ListJobs
  <2>1. sections # <<>> /\ Here = Pulsar /\ errs = {} /\ Pulsar \in Section
    BY <1>5 DEF ListJobs, Shape, TypeOK, Section
  <2>2. CASE \E es \in SUBSET Section : Return(es)
    BY <1>5, <2>1, <2>2, ReturnType DEF ListJobs, TypeOK, Shape, clusterVars
  <2>3. CASE \E ws \in SUBSET Workload :
               (\A w \in ws : SectionOf[w] = Here) /\ Goto("workload", ws)
    BY <1>5, <2>1, <2>3, ConstantsFit DEF ListJobs, Goto, TypeOK, Shape, clusterVars
  <2>4. Jobs \subseteq {w \in Workload : SectionOf[w] = Here}
    BY <2>1 DEF Jobs, Of
  <2> QED
    BY <1>5, <2>1, <2>2, <2>3, <2>4 DEF ListJobs, TypeOK
<1>6. CASE PrintWorkload
  <2>1. sections # <<>> /\ Here # Milvus
    BY <1>6 DEF PrintWorkload, Shape, TypeOK
  <2>2. CASE works = {} /\ Return(errs) /\ UNCHANGED <<printed, lost>>
    <3>1. errs \subseteq Object \cup Section
      BY DEF TypeOK
    <3> QED
      BY <1>6, <2>1, <2>2, <3>1, ReturnType DEF PrintWorkload, TypeOK, Shape, clusterVars
  <2>3. CASE works # {}
    <3>1. PICK w \in works :
            /\ pc' = "pods" /\ works' = works \ {w} /\ current' = w
            /\ \/ Prints(w) /\ UNCHANGED errs
               \/ Misses(w) /\ errs' = errs \cup {w}
            /\ UNCHANGED <<sections, pods, report>>
      BY <1>6, <2>3 DEF PrintWorkload
    <3>2. w \in Workload /\ SectionOf[w] = Here /\ w \in Object
      BY <1>6 DEF PrintWorkload, TypeOK, Object
    <3>3. Here \in Dependence => errs = {} /\ works = {w}
      BY <1>6, <2>3, <3>1, <3>2 DEF PrintWorkload, Shape, TypeOK
    <3>4. printed' \subseteq Object /\ lost' \subseteq Object /\ errs' \subseteq Object \cup Section
      BY <3>1, <3>2 DEF Prints, Misses, TypeOK
    <3> QED
      BY <1>6, <2>1, <3>1, <3>2, <3>3, <3>4 DEF PrintWorkload, TypeOK, Shape, clusterVars
  <2> QED
    BY <1>6, <2>2, <2>3 DEF PrintWorkload
<1>7. CASE ListPods
  <2>1. sections # <<>> /\ Here # Milvus /\ Here \in Section
    BY <1>7, HereIsSection DEF ListPods, Shape, TypeOK
  <2>2. CASE \E es \in SUBSET (Object \cup Section) : Return(es)
    BY <1>7, <2>1, <2>2, ReturnType DEF ListPods, TypeOK, Shape, clusterVars
  <2>3. CASE /\ pc' \in {"workload", "pod"} /\ pods' \subseteq Pod
             /\ errs' \subseteq errs \cup {Here} /\ UNCHANGED <<sections, works, current, report>>
    BY <1>7, <2>1, <2>3 DEF ListPods, TypeOK, Shape, clusterVars
  <2>4. /\ \A s : present \cap (IF s = Pulsar THEN PodsOf[current] ELSE AllPods(s)) \subseteq Pod
        /\ errs \cup {Here} \subseteq Object \cup Section
    <3>1. \A s : AllPods(s) \subseteq Pod
      <4>1. PodsOf \in [Workload -> SUBSET Pod]
        BY ConstantsFit
      <4> QED
        BY <4>1 DEF AllPods
    <3>2. PodsOf[current] \subseteq Pod
      BY <1>7, ConstantsFit DEF ListPods, TypeOK
    <3> QED
      BY <2>1, <3>1, <3>2 DEF TypeOK
  <2> QED
    BY <1>7, <2>1, <2>2, <2>3, <2>4 DEF ListPods, Goto, TypeOK
<1>8. CASE PrintPod
  <2>1. /\ pc = "pod" /\ pc' \in {"workload", "pod", "crashed"}
        /\ pods' \subseteq pods /\ errs' \subseteq errs \cup Pod
        /\ printed' \subseteq printed \cup Pod /\ lost' \subseteq lost \cup Pod
        /\ UNCHANGED <<clusterVars, cmd, sections, works, current, report>>
    BY <1>8 DEF PrintPod, Prints, Misses, TypeOK
  <2> QED
    BY <2>1 DEF TypeOK, Shape, clusterVars, Object
<1>9. CASE Change
  <2>1. /\ present' \subseteq Object /\ bare' \subseteq present' \cap Pod
        /\ steady' \subseteq present' /\ changes' \in Nat
    BY <1>9 DEF Change, Goes, Comes, TypeOK, Object
  <2> QED
    BY <1>9, <2>1 DEF Change, TypeOK, Shape, sectionVars
<1>10. CASE Settle
  BY <1>10 DEF Settle, TypeOK, Shape, sectionVars
<1> QED
  BY <1>1, <1>2, <1>3, <1>4, <1>5, <1>6, <1>7, <1>8, <1>9, <1>10 DEF Next

(* Every variable keeps its type: no section is left with the errors or    *)
(* the pods of another one.                                                *)
LEMMA ShapeCorrect == Spec => [](TypeOK /\ Shape)
<1>1. (TypeOK /\ Shape) /\ [Next]_vars => (TypeOK /\ Shape)'
  BY TypeNext
<1> QED
  BY TypeInit, <1>1, PTL DEF Spec

THEOREM TypeCorrect == Spec => []TypeOK
  BY ShapeCorrect, PTL

-----------------------------------------------------------------------------
(* No loss goes unreported.                                                *)

Excused(x) ==
  /\ x \in Workload /\ SectionOf[x] \in Dependence
  /\ steady \cap AllPods(SectionOf[x]) = {}

(* On the way, what was lost may also be among the errors of the section   *)
(* at hand; Shape says what those are when they are dropped.               *)
LossInv == \A x \in lost : x \in report \cup errs \/ Excused(x)

LEMMA LossNext == TypeOK /\ Shape /\ LossInv /\ [Next]_vars => LossInv'
<1> SUFFICES ASSUME TypeOK, Shape, LossInv, [Next]_vars PROVE LossInv'
  OBVIOUS
<1>1. ASSUME steady' \subseteq steady, NEW x, Excused(x) PROVE Excused(x)'
  BY <1>1 DEF Excused, AllPods
(* A section that goes on, and one that returns what it has. *)
<1>2. CASE /\ steady' \subseteq steady /\ report' = report
           /\ \A x \in lost' \ lost : x \in errs'
           /\ errs \subseteq errs'
  BY <1>1, <1>2 DEF LossInv
<1>3. ASSUME steady' \subseteq steady, NEW es, Return(es),
             \A x \in lost' : x \in lost \cup es,
             \A x \in errs : x \in es \/ Excused(x)
      PROVE  LossInv'
  BY <1>1, <1>3 DEF LossInv, Return
<1>4. CASE UNCHANGED vars
  BY <1>2, <1>4 DEF vars, clusterVars, sectionVars
<1>5. CASE Start
  BY <1>5 DEF Start, Shape, LossInv
<1>6. CASE PrintMilvusStatus
  <2>1. errs = {} /\ steady' = steady
    BY <1>6 DEF PrintMilvusStatus, TypeOK, clusterVars
  <2> QED
    BY <1>3, <1>6, <2>1 DEF PrintMilvusStatus, Prints, Misses
<1>7. CASE List
  <2>1. errs = {} /\ steady' = steady /\ lost' = lost
    BY <1>7 DEF List, TypeOK, clusterVars
  <2> QED
    BY <1>2, <1>3, <1>7, <2>1 DEF List, Goto
<1>8. CASE ListJobs
  <2>1. errs = {} /\ steady' = steady /\ lost' = lost
    BY <1>8 DEF ListJobs, Shape, clusterVars
  <2> QED
    BY <1>2, <1>3, <1>8, <2>1 DEF ListJobs, Goto
<1>9. CASE PrintWorkload
  BY <1>2, <1>3, <1>9 DEF PrintWorkload, Prints, Misses, clusterVars
<1>10. CASE ListPods
  <2>1. steady' = steady /\ lost' = lost
    BY <1>10 DEF ListPods, clusterVars
  <2>2. CASE Here \in Dependence /\ present \cap AllPods(Here) = {} /\ Return({})
    \* The one place where errors are dropped.
    <3>1. errs \subseteq {current} /\ current \in Workload /\ SectionOf[current] = Here
      BY <1>10, <2>2 DEF ListPods, Shape, TypeOK, Here
    <3>2. steady \cap AllPods(Here) = {}
      BY <2>2 DEF TypeOK
    <3>3. Excused(current)
      BY <2>2, <3>1, <3>2 DEF Excused
    <3> QED
      BY <1>3, <2>1, <2>2, <3>1, <3>3
  <2>3. CASE \E s : Return(errs \cup {s})
    BY <1>3, <2>1, <2>3
  <2>4. CASE errs \subseteq errs' /\ report' = report
    BY <1>2, <2>1, <2>4
  <2>5. Here \in Dependence => Here # Pulsar
    BY ConstantsFit
  <2> QED
    BY <1>10, <2>2, <2>3, <2>4, <2>5 DEF ListPods, Goto, Here
<1>11. CASE PrintPod
  BY <1>2, <1>11 DEF PrintPod, Prints, Misses, clusterVars
<1>12. CASE Change
  BY <1>2, <1>12 DEF Change, Goes, Comes, sectionVars
<1>13. CASE Settle
  BY <1>2, <1>13 DEF Settle, sectionVars
<1> QED
  BY <1>4, <1>5, <1>6, <1>7, <1>8, <1>9, <1>10, <1>11, <1>12, <1>13 DEF Next

(* What was listed and gone when it was read is in the report, but for     *)
(* stateful sets of a dependence whose pods were all away as well          *)
(* (describe.go:124-139, 212-359; line 275 drops their error).             *)
THEOREM LossesCorrect == Spec => []LossesAreReported
<1>1. Init => LossInv
  BY DEF Init, LossInv
<1>2. (TypeOK /\ Shape) /\ LossInv /\ [Next]_vars => LossInv'
  BY LossNext
<1>3. (TypeOK /\ Shape) /\ LossInv => LossesAreReported
  BY DEF TypeOK, LossInv, Excused, LossesAreReported
<1> QED
  BY ShapeCorrect, <1>1, <1>2, <1>3, PTL DEF Spec

-----------------------------------------------------------------------------
(* A report without errors is complete.                                    *)

Complete(w) == {w} \cup (PodsOf[w] \cap steady) \subseteq printed
Due(s)      == IF s = Pulsar THEN Searched(s) \cup Jobs ELSE Searched(s)
PodsHere    == IF Here = Pulsar THEN PodsOf[current] ELSE AllPods(Here)
Ahead(s)    == \E j \in DOMAIN sections : sections[j] = s

(* A section that was asked for is to come, or has left an error, or is    *)
(* described.  What is missing of the section at hand is one of the steady *)
(* workloads to come, or a pod of the current one, unless the section      *)
(* itself is among its errors; a steady object never is.  Of a dependence  *)
(* it is one of its stateful sets, and the pods of the section.            *)
CleanInv ==
  /\ cmd.form = "milvus" /\ pc \notin {"start", "crashed", "failed"} =>
       \A i \in DOMAIN Asked : Ahead(Asked[i]) \/ report # {} \/ Described(Asked[i])
  /\ cmd.form = "milvus" /\ pc = "done" => sections = <<>>
  /\ pc = "jobs" => Searched(Here) \cap steady \subseteq works
  /\ pc \in {"workload", "pods", "pod"} /\ Here \notin Dependence =>
       \/ Here \in errs
       \/ \A w \in Due(Here) \cap steady :
            w \in works \/ (pc # "workload" /\ w = current) \/ Complete(w)
  /\ pc \in {"workload", "pods", "pod"} /\ Here \in Dependence =>
       IF pc = "workload" THEN IF works = {} THEN Described(Here)
                                             ELSE works \subseteq Searched(Here)
                          ELSE current \in Searched(Here)
  /\ pc \in {"pods", "pod"} /\ current \in steady => current \in printed
  /\ pc = "pod" => PodsHere \cap steady \subseteq pods \cup printed

(* A section that is no dependence is described when its workloads are.    *)
LEMMA DescribedByWorkloads ==
  ASSUME NEW s, s \notin Dependence \cup {Milvus}, \A w \in Due(s) \cap steady : Complete(w)
  PROVE  Described(s)
  BY ConstantsFit DEF Described, Due, Complete

(* And a dependence when one of its stateful sets is and all its pods are. *)
LEMMA DescribedByPods ==
  ASSUME NEW s, s \in Dependence, NEW w, w \in Searched(s), w \in steady => w \in printed,
         AllPods(s) \cap steady \subseteq printed
  PROVE  Described(s)
  BY ConstantsFit DEF Described

(* What is described stays so, whatever goes.                              *)
LEMMA DescribedStays ==
  ASSUME NEW s, Described(s), steady' \subseteq steady, printed \subseteq printed'
  PROVE  Described(s)'
  BY DEF Described, Searched, Jobs, Of, AllPods

LEMMA ReturnKeepsClean ==
  ASSUME TypeOK, sections # <<>>, CleanInv, pc \notin {"start", "crashed", "failed"},
         steady' = steady, cmd' = cmd, printed \subseteq printed',
         NEW es, Return(es), NEW s, s = Here, es # {} \/ Described(s)'
  PROVE  CleanInv'
<1>1. /\ pc' \in {"list", "done"}
      /\ pc' = "done" => sections' = <<>>
      /\ sections' = Tail(sections) /\ report' = report \cup es
  BY DEF Return
<1>2. Asked' = Asked
  BY DEF Asked, Chosen
<1>3. ASSUME cmd.form = "milvus", NEW i \in DOMAIN Asked
      PROVE  Ahead(Asked[i])' \/ report' # {} \/ Described(Asked[i])'
  <2>1. CASE Ahead(Asked[i])
    <3>1. PICK j \in DOMAIN sections : sections[j] = Asked[i]
      BY <2>1 DEF Ahead
    <3>2. sections \in Seq(Section)
      BY DEF TypeOK
    <3>3. CASE j = 1
      BY <1>1, <1>2, <3>1, <3>2, <3>3 DEF Here
    <3>4. CASE j # 1
      <4>1. j - 1 \in DOMAIN Tail(sections) /\ Tail(sections)[j - 1] = sections[j]
        BY <3>1, <3>2, <3>4
      <4> QED
        BY <1>1, <1>2, <3>1, <4>1 DEF Ahead
    <3> QED
      BY <3>3, <3>4
  <2>2. CASE report # {}
    BY <1>1, <2>2
  <2>3. CASE Described(Asked[i])
    BY <1>2, <2>3, DescribedStays
  <2> QED
    BY <1>3, <2>1, <2>2, <2>3 DEF CleanInv
<1> QED
  BY <1>1, <1>2, <1>3 DEF CleanInv

(* A step within a section keeps what is asked for, and what is settled.   *)
LEMMA GoingOn ==
  ASSUME TypeOK, CleanInv, pc \notin {"start", "crashed", "failed"},
         steady' \subseteq steady, cmd' = cmd, printed \subseteq printed',
         sections' = sections, report' = report
  PROVE  /\ Here' = Here
         /\ \A w : Complete(w) => Complete(w)'
         /\ \A s : Described(s) => Described(s)'
         /\ cmd.form = "milvus" =>
              \A i \in DOMAIN Asked' : Ahead(Asked[i])' \/ report' # {} \/ Described(Asked[i])'
<1>1. Asked' = Asked
  BY DEF Asked, Chosen
<1>2. \A w : Complete(w) => Complete(w)'
  BY DEF Complete
<1>3. ASSUME cmd.form = "milvus", NEW i \in DOMAIN Asked'
      PROVE  Ahead(Asked[i])' \/ report' # {} \/ Described(Asked[i])'
  <2>1. Ahead(Asked[i]) \/ report # {} \/ Described(Asked[i])
    BY <1>1, <1>3 DEF CleanInv
  <2>2. Ahead(Asked[i]) => Ahead(Asked[i])'
    BY <1>1 DEF Ahead
  <2>3. Described(Asked[i]) => Described(Asked[i])'
    BY <1>1, DescribedStays
  <2> QED
    BY <2>1, <2>2, <2>3
<1> QED
  BY <1>2, <1>3, DescribedStays DEF Here

LEMMA CleanNext == TypeOK /\ Shape /\ CleanInv /\ [Next]_vars => CleanInv'
<1> SUFFICES ASSUME TypeOK, Shape, CleanInv, [Next]_vars PROVE CleanInv'
  OBVIOUS
<1>1. CASE Start
  <2>1. CASE cmd.form = "milvus"
    <3>1. /\ cmd' = cmd /\ sections' = Asked /\ pc' \in {"done", "list"}
          /\ pc' = "done" => sections' = <<>>
      BY <1>1, <2>1 DEF Start, Asked
    <3>2. Asked' = Asked
      BY <3>1 DEF Asked, Chosen
    <3>3. \A i \in DOMAIN Asked : Ahead(Asked[i])'
      BY <3>1, <3>2 DEF Ahead
    <3> QED
      BY <3>1, <3>2, <3>3 DEF CleanInv
  <2>2. CASE cmd.form # "milvus"
    BY <1>1, <2>2 DEF Start, CleanInv
  <2> QED
    BY <2>1, <2>2
<1>2. CASE PrintMilvusStatus
  <2>1. /\ sections # <<>> /\ Here = Milvus /\ pc = "list" /\ steady' = steady /\ cmd' = cmd
        /\ printed \subseteq printed'
    BY <1>2 DEF PrintMilvusStatus, Prints, Misses, Shape, Here, clusterVars
  <2>2. CASE Return({}) /\ Milvus \in printed'
    <3>1. Searched(Milvus) = {} /\ Milvus \notin Component \cup Dependence \cup {Pulsar}
      BY ConstantsFit DEF Searched, Of
    <3>2. \A s : s = Here => Described(s)'
      BY <2>1, <2>2, <3>1 DEF Described
    <3> QED
      BY <2>1, <2>2, <3>2, ReturnKeepsClean
  <2>3. CASE Return({Milvus})
    BY <2>1, <2>3, ReturnKeepsClean
  <2> QED
    BY <1>2, <2>2, <2>3 DEF PrintMilvusStatus, Prints
<1>3. CASE List
  <2>1. /\ sections # <<>> /\ steady' = steady /\ cmd' = cmd /\ printed' = printed
        /\ pc = "list"
    BY <1>3 DEF List, Shape, clusterVars
  <2> DEFINE found == present \cap Searched(Here)
  \* What is steady and searched is found.
  <2>2. Searched(Here) \cap steady \subseteq found
    BY DEF TypeOK
  <2>3. Pulsar \notin Component \cup Dependence /\ Component \cap Dependence = {}
    BY ConstantsFit
  <2>4. CASE Return({Here})
    BY <2>1, <2>4, ReturnKeepsClean
  <2>5. CASE Here # Pulsar /\ Here # Milvus /\ found = {} /\ Return({})
    <3>1. Searched(Here) \cap steady = {}
      BY <2>2, <2>5
    <3>2. \A s : s = Here => Described(s)'
      BY <2>1, <2>5, <3>1 DEF Described, Searched, Of
    <3> QED
      BY <2>1, <2>5, <3>2, ReturnKeepsClean
  <2>6. CASE Here = Pulsar /\ Goto("jobs", found)
    BY <2>1, <2>2, <2>6, GoingOn DEF Goto, CleanInv, Searched, Of
  <2>7. CASE Here \in Component /\ Goto("workload", found)
    <3>1. Due(Here) = Searched(Here)
      BY <2>3, <2>7 DEF Due
    <3>2. Due(Here)' = Due(Here)
      BY <2>7 DEF Due, Searched, Of, Jobs, Goto, Here
    <3> QED
      BY <2>1, <2>2, <2>3, <2>7, <3>1, <3>2, GoingOn DEF Goto, CleanInv
  <2>8. CASE Here \in Dependence /\ \E w \in found : Goto("workload", {w})
    <3>1. PICK w \in found : Goto("workload", {w})
      BY <2>8
    <3> QED
      BY <2>1, <2>8, <3>1, GoingOn DEF Goto, CleanInv, Searched, Of
  <2> QED
    BY <1>3, <2>4, <2>5, <2>6, <2>7, <2>8 DEF List, Here
<1>4. CASE ListJobs
  <2>1. /\ sections # <<>> /\ steady' = steady /\ cmd' = cmd /\ printed' = printed
        /\ pc = "jobs" /\ Here = Pulsar
    BY <1>4 DEF ListJobs, Shape, TypeOK, clusterVars
  <2> DEFINE all == works \cup (present \cap Jobs)
  <2>2. Due(Here) \cap steady \subseteq all
    BY <2>1 DEF TypeOK, CleanInv, Due
  <2>3. Pulsar \notin Dependence \cup {Milvus}
    BY ConstantsFit
  <2>4. CASE Return({Pulsar})
    BY <2>1, <2>4, ReturnKeepsClean
  <2>5. CASE all = {} /\ Return({})
    <3>1. \A s : s = Here => Described(s)'
      BY <2>1, <2>2, <2>3, <2>5, DescribedByWorkloads, DescribedStays
    <3> QED
      BY <2>1, <2>5, <3>1, ReturnKeepsClean
  <2>6. CASE Goto("workload", all)
    <3>1. Due(Here)' = Due(Here)
      BY <2>6 DEF Goto, Due, Searched, Of, Jobs, Here
    <3> QED
      BY <2>1, <2>2, <2>3, <2>6, <3>1, GoingOn DEF Goto, CleanInv
  <2> QED
    BY <1>4, <2>4, <2>5, <2>6 DEF ListJobs
<1>5. CASE PrintWorkload
  <2>1. /\ sections # <<>> /\ steady' = steady /\ cmd' = cmd /\ pc = "workload"
    BY <1>5 DEF PrintWorkload, TypeOK, clusterVars
  <2>2. CASE works = {} /\ Return(errs) /\ UNCHANGED printed
    <3>1. CASE Here \in errs
      BY <2>1, <2>2, <3>1, ReturnKeepsClean
    <3>2. CASE Here \notin errs
      <4>1. Here # Milvus
        BY <2>1 DEF Shape
      <4>2. Described(Here)
        BY <2>1, <2>2, <3>2, <4>1, DescribedByWorkloads DEF CleanInv
      <4>3. \A s : s = Here => Described(s)'
        BY <2>1, <2>2, <4>2, DescribedStays
      <4> QED
        BY <2>1, <2>2, <4>3, ReturnKeepsClean
    <3> QED
      BY <3>1, <3>2
  <2>3. ASSUME NEW w \in works,
               pc' = "pods", works' = works \ {w}, current' = w,
               (Prints(w) /\ UNCHANGED errs) \/ (Misses(w) /\ errs' = errs \cup {w}),
               UNCHANGED <<sections, pods, report>>
        PROVE  CleanInv'
    <3>1. printed \subseteq printed' /\ errs \subseteq errs'
      BY <2>3 DEF Prints, Misses
    \* What is steady was there, and is printed.
    <3>2. w \in steady' => w \in printed'
      BY <2>1, <2>3 DEF Prints, Misses, TypeOK
    <3>3. Due(Here)' = Due(Here) /\ Searched(Here)' = Searched(Here)
      BY <2>3 DEF Due, Searched, Of, Jobs, Here
    <3> QED
      BY <2>1, <2>3, <3>1, <3>2, <3>3, GoingOn DEF CleanInv
  <2> QED
    BY <1>5, <2>2, <2>3 DEF PrintWorkload
<1>6. CASE ListPods
  <2>1. /\ sections # <<>> /\ steady' = steady /\ cmd' = cmd /\ printed' = printed
        /\ pc = "pods" /\ current \in Workload /\ SectionOf[current] = Here
    BY <1>6 DEF ListPods, TypeOK, Here, clusterVars
  <2> DEFINE found == present \cap PodsHere
  <2>2. PodsHere \cap steady \subseteq found /\ PodsOf[current] \subseteq PodsHere
    BY <2>1 DEF TypeOK, PodsHere, AllPods
  <2>3. found = {} /\ current \in steady => Complete(current)
    BY <2>1, <2>2 DEF CleanInv, Complete
  <2>4. CASE Here \in Dependence /\ found = {} /\ Return({})
    <3>1. AllPods(Here) \cap steady = {}
      BY <2>2, <2>4, ConstantsFit DEF PodsHere
    <3>2. Described(Here)
      BY <2>1, <2>4, <3>1, DescribedByPods DEF CleanInv
    <3>3. \A s : s = Here => Described(s)'
      BY <2>1, <3>2, DescribedStays
    <3> QED
      BY <2>1, <2>4, <3>3, ReturnKeepsClean
  <2>5. CASE Return(errs \cup {Here})
    BY <2>1, <2>5, ReturnKeepsClean
  <2>6. CASE /\ Here \notin Dependence /\ pc' = "workload" /\ errs' = errs \cup {Here}
             /\ UNCHANGED <<sections, works, current, pods, report>>
    BY <2>1, <2>6, GoingOn DEF CleanInv
  <2>7. CASE Here \notin Dependence /\ found = {} /\ Goto("workload", works)
    <3>1. Due(Here)' = Due(Here)
      BY <2>7 DEF Goto, Due, Searched, Of, Jobs, Here
    <3> QED
      BY <2>1, <2>3, <2>7, <3>1, GoingOn DEF Goto, CleanInv
  <2>8. CASE /\ pc' = "pod" /\ pods' = found
             /\ UNCHANGED <<sections, works, current, errs, report>>
    <3>1. Due(Here)' = Due(Here) /\ Searched(Here)' = Searched(Here) /\ PodsHere' = PodsHere
      BY <2>8 DEF Due, Searched, Of, Jobs, Here, PodsHere, AllPods
    <3> QED
      BY <2>1, <2>2, <2>8, <3>1, GoingOn DEF CleanInv
  <2>9. Pulsar \notin Dependence
    BY ConstantsFit
  <2> QED
    BY <1>6, <2>4, <2>5, <2>6, <2>7, <2>8, <2>9 DEF ListPods, Here, PodsHere
<1>7. CASE PrintPod
  <2>1. /\ steady' = steady /\ cmd' = cmd /\ pc = "pod"
        /\ UNCHANGED <<sections, works, current, report>>
        /\ printed \subseteq printed' /\ errs \subseteq errs'
        /\ pc' \in {"workload", "pod", "crashed"}
    BY <1>7 DEF PrintPod, Prints, Misses, clusterVars
  <2>2. /\ Due(Here)' = Due(Here) /\ Searched(Here)' = Searched(Here) /\ PodsHere' = PodsHere
        /\ PodsOf[current] \subseteq PodsHere
    BY <2>1 DEF TypeOK, Due, Searched, Of, Jobs, Here, PodsHere, AllPods
  <2>3. CASE pods = {} /\ pc' = "workload" /\ printed' = printed
    <3>1. current \in steady => Complete(current)'
      BY <2>1, <2>2, <2>3 DEF CleanInv, Complete
    <3>2. CASE Here \in Dependence
      <4>1. AllPods(Here) \cap steady \subseteq printed /\ works = {}
        BY <2>1, <2>3, <3>2, ConstantsFit DEF PodsHere, CleanInv, Shape
      <4>2. Described(Here)
        BY <2>1, <3>2, <4>1, DescribedByPods DEF CleanInv
      <4>3. Described(Here)'
        BY <2>1, <4>2, GoingOn
      <4> QED
        BY <2>1, <2>2, <2>3, <3>1, <3>2, <4>1, <4>3, GoingOn DEF CleanInv
    <3>3. CASE Here \notin Dependence
      BY <2>1, <2>2, <2>3, <3>1, <3>3, GoingOn DEF CleanInv
    <3> QED
      BY <3>2, <3>3
  <2>4. CASE pc' = "pod"
    <3>1. PodsHere \cap steady \subseteq pods' \cup printed'
      BY <1>7, <2>1, <2>4 DEF PrintPod, Prints, Misses, TypeOK, CleanInv
    <3> QED
      BY <2>1, <2>2, <2>4, <3>1, GoingOn DEF CleanInv
  <2>5. CASE pc' = "crashed"
    BY <2>5 DEF CleanInv
  <2> QED
    BY <1>7, <2>1, <2>3, <2>4, <2>5 DEF PrintPod
<1>8. CASE Change \/ Settle \/ UNCHANGED vars
  <2>1. /\ steady' \subseteq steady /\ printed' = printed
        /\ UNCHANGED <<cmd, pc, sections, works, current, pods, errs, report>>
    BY <1>8 DEF Change, Settle, Goes, Comes, sectionVars, vars, clusterVars
  <2>2. Due(Here)' = Due(Here) /\ Searched(Here)' = Searched(Here) /\ PodsHere' = PodsHere
    BY <2>1 DEF Due, Searched, Of, Jobs, Here, PodsHere, AllPods
  <2>3. CASE pc \in {"start", "crashed", "failed"}
    BY <2>1, <2>3 DEF CleanInv
  <2>4. CASE pc \notin {"start", "crashed", "failed"}
    BY <2>1, <2>2, <2>4, GoingOn DEF CleanInv
  <2> QED
    BY <2>3, <2>4
<1> QED
  BY <1>1, <1>2, <1>3, <1>4, <1>5, <1>6, <1>7, <1>8 DEF Next

(* No error means that every section asked for is described, in what the   *)
(* code searches for it (describe.go:124-359), whatever came and went      *)
(* meanwhile: with any number of workloads of any kind in a section.       *)
THEOREM CleanCorrect == Spec => []CleanReportIsComplete
<1>1. Init => CleanInv
  BY DEF Init, CleanInv
<1>2. (TypeOK /\ Shape) /\ CleanInv /\ [Next]_vars => CleanInv'
  BY CleanNext
<1>3. CleanInv => CleanReportIsComplete
  BY DEF CleanInv, Ahead, Asked, CleanReportIsComplete
<1> QED
  BY ShapeCorrect, <1>1, <1>2, <1>3, PTL DEF Spec

=============================================================================
