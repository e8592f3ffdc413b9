-------------------------- MODULE CertManager_proofs --------------------------
(***************************************************************************)
(* Proofs about CertManager, for any number of runs and any set of CRDs.   *)
(* Each run is a sequential program over its own entries of stage and      *)
(* todo; what the runs share, the CRDs and the record of the release,      *)
(* grows, or is claimed, in one step, which is why so little suffices.     *)
(***************************************************************************)
EXTENDS CertManager, TLAPS

(* A step of r changes only r's own entries. *)
LEMMA StepOfOneRun ==
  ASSUME TypeOK, NEW r \in Run, Install(r) \/ BeginUninstall(r) \/ Uninstall(r)
  PROVE  /\ \A q \in Run \ {r} : stage'[q] = stage[q] /\ todo'[q] = todo[q]
         /\ stage' \in [Run -> Stage]
         /\ todo' \in [Run -> SUBSET CRD]
  BY DEF TypeOK, Stage, To, Install, Chart, Fetch, CreateCRD, Helm, Deploy,
         BeginUninstall, Uninstall, History, Purge

(* The steps that leave the CRDs, and what is left of them to create, as   *)
(* they are; that is all but Fetch and CreateCRD.                          *)
LEMMA OtherSteps ==
  ASSUME TypeOK, NEW r \in Run,
         Chart(r) \/ Helm(r) \/ Deploy(r) \/ BeginUninstall(r) \/ Uninstall(r)
  PROVE  /\ crds' = crds /\ todo' = todo
         /\ stage[r] # "crds" /\ todo[r] = {} /\ stage'[r] # "crds"
         /\ release' \in Status
  BY DEF TypeOK, Stage, Status, To, Chart, Helm, Deploy, BeginUninstall,
         Uninstall, History, Purge

-----------------------------------------------------------------------------
(* Types.                                                                  *)

LEMMA TypeInit == Init => TypeOK
  BY DEF Init, TypeOK, Stage, Status

LEMMA TypeNext == TypeOK /\ [Next]_cmVars => TypeOK'
<1> SUFFICES ASSUME TypeOK, [Next]_cmVars PROVE TypeOK'
  OBVIOUS
<1>1. CASE UNCHANGED cmVars
  BY <1>1 DEF TypeOK, cmVars
<1>2. ASSUME NEW r \in Run, Install(r) \/ BeginUninstall(r) \/ Uninstall(r)
      PROVE  TypeOK'
  <2>1. /\ \A q \in Run \ {r} : stage'[q] = stage[q] /\ todo'[q] = todo[q]
        /\ stage' \in [Run -> Stage]
        /\ todo' \in [Run -> SUBSET CRD]
    BY <1>2, StepOfOneRun
  <2>2. /\ crds' \subseteq CRD /\ release' \in Status
        /\ stage'[r] = "fetch" => CRD # {}
        /\ stage'[r] = "crds" => todo'[r] # {}
        /\ todo'[r] # {} => stage'[r] \in {"crds", "failed"}
    <3>1. CASE Fetch(r)
      BY <3>1 DEF Fetch, To, TypeOK, Stage
    <3>2. CASE CreateCRD(r)
      BY <3>2 DEF CreateCRD, To, TypeOK, Stage
    <3>3. CASE Chart(r) \/ Helm(r) \/ Deploy(r) \/ BeginUninstall(r) \/ Uninstall(r)
      <4>1. stage'[r] = "fetch" => CRD # {}
        BY <3>3 DEF Chart, Helm, Deploy, BeginUninstall, Uninstall, History, Purge, To, TypeOK
      <4> QED
        BY <3>3, <4>1, OtherSteps DEF TypeOK
    <3> QED
      BY <1>2, <3>1, <3>2, <3>3 DEF Install
  <2> QED
    BY <2>1, <2>2 DEF TypeOK
<1> QED
  BY <1>1, <1>2 DEF Next

(* Every variable keeps its type; in particular, what a run has left to    *)
(* create is remembered where it failed and nowhere else.                  *)
THEOREM TypeCorrect == Spec => []TypeOK
<1>1. TypeOK /\ [Next]_cmVars => TypeOK'
  BY TypeNext
<1> QED
  BY TypeInit, <1>1, PTL DEF Spec

-----------------------------------------------------------------------------
(* The record keeps installs apart.                                        *)

LEMMA OneInstallNext ==
  ASSUME TypeOK, OneInstallAtATime, [Next]_cmVars
  PROVE  OneInstallAtATime'
<1>1. CASE UNCHANGED cmVars
  BY <1>1 DEF OneInstallAtATime, Free, cmVars
<1>2. ASSUME NEW r \in Run, Install(r) \/ BeginUninstall(r) \/ Uninstall(r)
      PROVE  OneInstallAtATime'
  <2> SUFFICES ASSUME \A q \in Run : stage'[q] # "gone",
                      NEW p \in Run, stage'[p] = "deploy"
               PROVE  ~Free' /\ \A q \in Run \ {p} : stage'[q] # "deploy"
    BY DEF OneInstallAtATime
  <2>1. \A q \in Run \ {r} : stage'[q] = stage[q]
    BY <1>2, StepOfOneRun
  <2>2. stage[r] # "gone"
    BY <1>2 DEF Install, Chart, Fetch, CreateCRD, Helm, Deploy,
                BeginUninstall, Uninstall, History, Purge
  \* Nobody has uninstalled before either: "gone" is never left.
  <2>3. \A q \in Run : stage[q] = "deploy" =>
           ~Free /\ \A s \in Run \ {q} : stage[s] # "deploy"
    BY <2>1, <2>2 DEF OneInstallAtATime
  \* Only Helm begins to deploy, and finds the name free, so nobody else did.
  <2>4. CASE Helm(r)
    BY <2>1, <2>3, <2>4 DEF Helm, Free, To, TypeOK
  <2>5. CASE Deploy(r)
    <3>1. stage[r] = "deploy" /\ stage'[r] # "deploy"
      BY <2>5 DEF Deploy, To, TypeOK
    <3> QED
      BY <2>1, <2>3, <3>1
  <2>6. CASE Purge(r)
    BY <2>1, <2>3, <2>6 DEF Purge, Free, To, TypeOK
  <2>7. CASE History(r)
    BY <2>1, <2>3, <2>7 DEF History, Free, To, TypeOK
  <2>8. CASE Chart(r) \/ Fetch(r) \/ CreateCRD(r) \/ BeginUninstall(r)
    <3>1. release' = release /\ stage'[r] # "deploy"
      BY <2>8 DEF Chart, Fetch, CreateCRD, BeginUninstall, To, TypeOK
    <3> QED
      BY <2>1, <2>3, <3>1 DEF Free
  <2> QED
    BY <1>2, <2>4, <2>5, <2>6, <2>7, <2>8 DEF Install, Uninstall
<1> QED
  BY <1>1, <1>2 DEF Next

(* Until a run has uninstalled the release, at most one is creating the    *)
(* resources of the chart, and the name of the release is taken meanwhile: *)
(* RunInstall needs no lock of its own (cert_manager_install.go:129,134).  *)
THEOREM OneInstallCorrect == Spec => []OneInstallAtATime
<1>1. Init => OneInstallAtATime
  BY DEF Init, OneInstallAtATime
<1>2. TypeOK /\ OneInstallAtATime /\ [Next]_cmVars => OneInstallAtATime'
  BY OneInstallNext
<1> QED
  BY TypeCorrect, <1>1, <1>2, PTL DEF Spec

-----------------------------------------------------------------------------
(* Who leaves a part of the CRDs behind.                                   *)

Culprit(r) == todo[r] # {} /\ stage[r] \in {"crds", "failed"}

(* PartialCRDsHaveACulprit says nothing of a cluster without a release,    *)
(* where the harm is done; CRDInv does.  Its other parts say what a run    *)
(* knows: the CRDs it has left are the only ones missing, and who goes on  *)
(* to helm has seen, or made, at least one of those there are.             *)
CRDInv ==
  /\ crds \notin {{}, CRD} => \E r \in Run : Culprit(r)
  /\ \A r \in Run : stage[r] = "crds" => todo[r] \cup crds = CRD
  /\ \A r \in Run : stage[r] \in {"helm", "deploy"} => crds # {} \/ CRD = {}
  /\ release \in {"pending", "deployed"} => crds # {} \/ CRD = {}

LEMMA CRDNext ==
  ASSUME TypeOK, CRDInv, [Next]_cmVars
  PROVE  CRDInv'
<1>1. CASE UNCHANGED cmVars
  BY <1>1 DEF CRDInv, Culprit, cmVars
<1>2. ASSUME NEW r \in Run, Install(r) \/ BeginUninstall(r) \/ Uninstall(r)
      PROVE  CRDInv'
  <2>1. /\ \A q \in Run \ {r} : stage'[q] = stage[q] /\ todo'[q] = todo[q]
        /\ stage' \in [Run -> Stage]
        /\ todo' \in [Run -> SUBSET CRD]
    BY <1>2, StepOfOneRun
  <2>2. CASE Fetch(r)
    <3>1. /\ crds' = crds /\ release' = release /\ todo[r] = {}
          /\ \/ stage'[r] = "failed"
             \/ stage'[r] = "helm" /\ crds # {}
             \/ stage'[r] = "crds" /\ todo'[r] = CRD
      BY <2>2 DEF Fetch, To, TypeOK
    <3>2. \A q \in Run : Culprit(q) => Culprit(q)'
      BY <2>1, <3>1 DEF Culprit
    <3> QED
      BY <2>1, <3>1, <3>2 DEF CRDInv, TypeOK
  <2>3. CASE CreateCRD(r) /\ stage'[r] = "failed"
    <3>1. crds' = crds /\ release' = release /\ todo'[r] = todo[r]
      BY <2>3 DEF CreateCRD, To, TypeOK
    <3>2. \A q \in Run : Culprit(q) => Culprit(q)'
      BY <2>1, <2>3, <3>1 DEF Culprit
    <3> QED
      BY <2>1, <2>3, <3>1, <3>2 DEF CRDInv
  <2>4. CASE CreateCRD(r) /\ stage'[r] # "failed"
    <3>1. PICK c \in todo[r] \ crds :
            /\ crds' = crds \cup {c} /\ release' = release
            /\ todo'[r] = todo[r] \ {c}
            /\ stage[r] = "crds"
            /\ IF todo'[r] = {} THEN stage'[r] = "helm" ELSE stage'[r] = "crds"
      BY <2>4 DEF CreateCRD, To, TypeOK
    <3>2. todo'[r] \cup crds' = CRD
      BY <3>1 DEF CRDInv
    \* Either r has still something to create, or nothing is missing.
    <3>3. crds' # CRD => Culprit(r)'
      BY <3>1, <3>2 DEF Culprit
    <3>4. \A q \in Run \ {r} : stage'[q] = "crds" => todo'[q] \cup crds' = CRD
      BY <2>1, <3>1 DEF CRDInv, TypeOK
    <3> QED
      BY <2>1, <3>1, <3>2, <3>3, <3>4 DEF CRDInv
  <2>5. CASE Chart(r) \/ Helm(r) \/ Deploy(r) \/ BeginUninstall(r) \/ Uninstall(r)
    <3>1. /\ crds' = crds /\ todo' = todo
          /\ stage[r] # "crds" /\ todo[r] = {} /\ stage'[r] # "crds"
      BY <2>5, OtherSteps
    <3>2. /\ stage'[r] \in {"helm", "deploy"} => stage[r] = "helm"
          /\ release' \in {"pending", "deployed"} =>
               release' = release \/ stage[r] \in {"helm", "deploy"}
      BY <2>5 DEF Chart, Helm, Deploy, BeginUninstall, Uninstall, History, Purge, To, TypeOK
    <3>3. \A q \in Run : Culprit(q) => Culprit(q)'
      BY <2>1, <3>1 DEF Culprit
    <3> QED
      BY <2>1, <3>1, <3>2, <3>3 DEF CRDInv
  <2> QED
    BY <1>2, <2>2, <2>3, <2>4, <2>5 DEF Install
<1> QED
  BY <1>1, <1>2 DEF Next

LEMMA CRDsCorrect == Spec => []CRDInv
<1>1. Init => CRDInv
  BY DEF Init, CRDInv
<1>2. TypeOK /\ CRDInv /\ [Next]_cmVars => CRDInv'
  BY CRDNext
<1> QED
  BY TypeCorrect, <1>1, <1>2, PTL DEF Spec

(* A release lacks CRDs only while, or because, some run is stuck half-way *)
(* through CreateCRDs (cert_manager_install.go:107-113).                   *)
THEOREM CulpritCorrect == Spec => []PartialCRDsHaveACulprit
<1>1. CRDInv => PartialCRDsHaveACulprit
  BY DEF CRDInv, PartialCRDsHaveACulprit, Culprit
<1> QED
  BY CRDsCorrect, <1>1, PTL

=============================================================================
