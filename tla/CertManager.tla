------------------------------ MODULE CertManager ------------------------------
(***************************************************************************)
(* pkg/cert_manager_install.go and cert_manager_uninstall.go: the CRDs of  *)
(* cert-manager are created beside helm, then the chart is installed as a  *)
(* helm release.  Several runs may be at it at once, and any of them may   *)
(* stop between two calls.  Helm, and the helm package of cert-manager     *)
(* that fetches and creates the CRDs, are not in this repository; their    *)
(* part is what a release record and a set of CRDs do.  A run that is      *)
(* killed is one that takes no further step.                               *)
(***************************************************************************)
CONSTANTS
  Run,   \* invocations of milvusctl
  CRD    \* the custom resource definitions of the chart

VARIABLES
  crds,      \* the CRDs in the cluster
  release,   \* the status of helm's record of the release, "none" without one
  stage,     \* per run: the call it is about to make, or how it ended
  todo       \* per run: the CRDs it has yet to create

cmVars == <<crds, release, stage, todo>>

Status == {"none", "pending", "deployed", "failed", "uninstalling"}
Stage  == {"idle", "fetch", "crds", "helm", "deploy", "ok", "history", "purge", "gone", "failed"}

TypeOK ==
  /\ crds \subseteq CRD
  /\ release \in Status
  /\ stage \in [Run -> Stage]
  /\ todo \in [Run -> SUBSET CRD]
  /\ \A r \in Run : /\ stage[r] = "fetch" => CRD # {}
                    /\ stage[r] = "crds" => todo[r] # {}
                    /\ todo[r] # {} => stage[r] \in {"crds", "failed"}

(* A cluster without cert-manager, or with one installed completely.       *)
Init ==
  /\ \/ crds = {} /\ release = "none"
     \/ crds = CRD /\ release \in {"none", "deployed"}
  /\ stage = [r \in Run |-> "idle"]
  /\ todo = [r \in Run |-> {}]

To(r, st) == stage' = [stage EXCEPT ![r] = st]

(* RunInstall up to the parsed CRDs: locating, loading and rendering the   *)
(* chart changes nothing and may fail.  A chart without CRDs is an error.  *)
Chart(r) ==
  /\ stage[r] = "idle"
  /\ \/ CRD # {} /\ To(r, "fetch")
     \/ To(r, "failed")
  /\ UNCHANGED <<crds, release, todo>>

(* FetchResources, and the decision to create the CRDs: only where there   *)
(* is none of them.                                                        *)
Fetch(r) ==
  /\ stage[r] = "fetch"
  /\ \/ To(r, "failed") /\ UNCHANGED todo
     \/ crds # {} /\ To(r, "helm") /\ UNCHANGED todo
     \/ crds = {} /\ To(r, "crds") /\ todo' = [todo EXCEPT ![r] = CRD]
  /\ UNCHANGED <<crds, release>>

(* Mutant: the error of CreateCRDs is not looked at. *)
CreateCRDAnyway(r) ==
  /\ stage[r] = "crds"
  /\ UNCHANGED release
  /\ \/ \E c \in todo[r] \ crds :
          /\ crds' = crds \cup {c}
          /\ todo' = [todo EXCEPT ![r] = @ \ {c}]
          /\ IF todo'[r] = {} THEN To(r, "helm") ELSE UNCHANGED stage
     \/ To(r, "helm") /\ UNCHANGED <<crds, todo>>

(* CreateCRDs: one request for each; the first that fails, because it was  *)
(* not served or because somebody else has created the CRD, ends it.       *)
CreateCRD(r) ==
  /\ stage[r] = "crds"
  /\ UNCHANGED release
  /\ \/ \E c \in todo[r] \ crds :
          /\ crds' = crds \cup {c}
          /\ todo' = [todo EXCEPT ![r] = @ \ {c}]
          /\ IF todo'[r] = {} THEN To(r, "helm") ELSE UNCHANGED stage
     \/ To(r, "failed") /\ UNCHANGED <<crds, todo>>

(* Helm takes the name of the release: with Replace, also from a release   *)
(* that failed.                                                            *)
Free == release \in {"none", "failed"}

(* Mutant: helm is told to take any name. *)
HelmAnyway(r) ==
  /\ stage[r] = "helm"
  /\ UNCHANGED <<crds, todo>>
  /\ release' = "pending" /\ To(r, "deploy")

Helm(r) ==
  /\ stage[r] = "helm"
  /\ UNCHANGED <<crds, todo>>
  /\ \/ Free /\ release' = "pending" /\ To(r, "deploy")
     \/ To(r, "failed") /\ UNCHANGED release

(* The chart's resources are created and the record updated, if it is      *)
(* still there; neither Wait nor Atomic is set, nothing is rolled back.    *)
Deploy(r) ==
  /\ stage[r] = "deploy"
  /\ UNCHANGED <<crds, todo>>
  /\ \/ To(r, "ok") /\ release' = IF release = "none" THEN "none" ELSE "deployed"
     \/ To(r, "failed") /\ release' = IF release = "none" THEN "none" ELSE "failed"

(* RunUninstall: only a release that helm knows.  Whatever its status, it  *)
(* is taken apart; the CRDs are not part of it.                            *)
History(r) ==
  /\ stage[r] = "history"
  /\ UNCHANGED <<crds, todo>>
  /\ \/ release # "none" /\ release' = "uninstalling" /\ To(r, "purge")
     \/ To(r, "failed") /\ UNCHANGED release

Purge(r) ==
  /\ stage[r] = "purge"
  /\ UNCHANGED <<crds, todo>>
  /\ \/ release' = "none" /\ To(r, "gone")
     \/ To(r, "failed") /\ UNCHANGED release

Install(r) == Chart(r) \/ Fetch(r) \/ CreateCRD(r) \/ Helm(r) \/ Deploy(r)

BeginUninstall(r) ==
  /\ stage[r] = "idle"
  /\ To(r, "history")
  /\ UNCHANGED <<crds, release, todo>>

Uninstall(r) == History(r) \/ Purge(r)

Next == \E r \in Run : Install(r) \/ BeginUninstall(r) \/ Uninstall(r)

Spec == Init /\ [][Next]_cmVars

-----------------------------------------------------------------------------
(* The APIs cert-manager serves: its webhook runs and the CRD is there.    *)
Serves(c) == c \in crds /\ release = "deployed"

(* A release that was installed lacks a CRD only while, or because, some   *)
(* run is stuck half-way through creating them (cert_manager_install.go:   *)
(* 107-113): the rest of the code never leaves a part of the CRDs behind.  *)
PartialCRDsHaveACulprit ==
  release \in {"pending", "deployed"} /\ crds # CRD =>
    \E r \in Run : todo[r] # {} /\ stage[r] \in {"crds", "failed"}

(* Helm's record keeps two installs apart: until a run has uninstalled the *)
(* release, at most one run is creating the resources of the chart, and no *)
(* other can take the name meanwhile (cert_manager_install.go:129,134).    *)
OneInstallAtATime ==
  (\A r \in Run : stage[r] # "gone") =>
    \A r \in Run : stage[r] = "deploy" =>
      ~Free /\ \A q \in Run \ {r} : stage[q] # "deploy"

=============================================================================
