----------------------- MODULE OperatorLifecycle_proofs -----------------------
(***************************************************************************)
(* Proofs about OperatorLifecycle, for any number of runs and commands and *)
(* any manifests.  A run is a sequential program: the first lemmas say how *)
(* its steps move its own state, and what each may do to the cluster; the  *)
(* invariants then speak of one run and the cluster at a time.             *)
(***************************************************************************)
EXTENDS OperatorLifecycle, TLAPS

StepOf(r) == Start(r) \/ Work(r) \/ Kill(r) \/ LastGoroutineEnds(r)

-----------------------------------------------------------------------------
(* The part of the state that is cert-manager's.                           *)

LEMMA CertManagerStep ==
  ASSUME CM!TypeOK, NEW r \in Run, CM!Install(r) \/ CM!BeginUninstall(r) \/ CM!Uninstall(r)
  PROVE  CM!TypeOK'
<1>2. CASE CM!Install(r)
  <2>1. CASE CM!Fetch(r)
    BY <2>1 DEF CM!Fetch, CM!To, CM!TypeOK, CM!Stage
  <2>2. CASE CM!CreateCRD(r)
    BY <2>2 DEF CM!CreateCRD, CM!To, CM!TypeOK, CM!Stage
  <2>3. CASE CM!Chart(r) \/ CM!Helm(r) \/ CM!Deploy(r)
    BY <2>3 DEF CM!Chart, CM!Helm, CM!Deploy, CM!To, CM!TypeOK, CM!Stage, CM!Status
  <2> QED
    BY <1>2, <2>1, <2>2, <2>3 DEF CM!Install
<1>3. CASE CM!BeginUninstall(r) \/ CM!Uninstall(r)
  BY <1>3 DEF CM!BeginUninstall, CM!Uninstall, CM!History, CM!Purge, CM!To,
              CM!TypeOK, CM!Stage, CM!Status
<1> QED
  BY <1>2, <1>3

-----------------------------------------------------------------------------
(* Types.                                                                  *)

(* A run has no result before it is done, and works on the files of its    *)
(* command.                                                                *)
RunOK(r) ==
  /\ pc[r] # "done" => result[r] = "none"
  /\ pc[r] = "idle" => rest[r] = <<>>
  /\ bad[r] => pc[r] \in {"create", "delete", "apply", "done"} /\ result[r] # "ok"
  /\ pc[r] \in {"record", "saveRecord", "wait", "unCertManager", "forget"} \/ result[r] = "ok"
       => rest[r] = <<>>
  /\ pc[r] \in {"certManager", "poll", "create", "record", "saveRecord"} => cmd[r].verb = "install"
  /\ pc[r] \in {"fetch", "delete", "wait", "unCertManager", "forget"} => cmd[r].verb = "uninstall"
  /\ pc[r] = "apply" => cmd[r].verb = "upgrade"
  /\ pc[r] \in {"create", "record", "saveRecord"} => files[r] = Flags(cmd[r])
  /\ cmd[r].verb = "install" /\ result[r] = "ok" => files[r] = Flags(cmd[r])

RunsTyped ==
  /\ pc \in [Run -> PC] /\ cmd \in [Run -> Command]
  /\ files \in [Run -> Seq(File)] /\ rest \in [Run -> Seq(Resource)]
  /\ bad \in [Run -> BOOLEAN] /\ result \in [Run -> {"none", "ok", "failed", "timeout", "crashed"}]

Runs == RunsTyped /\ \A r \in Run : RunOK(r)

Others(r) ==
  \A q \in Run \ {r} : /\ pc'[q] = pc[q] /\ cmd'[q] = cmd[q] /\ files'[q] = files[q]
                       /\ rest'[q] = rest[q] /\ bad'[q] = bad[q] /\ result'[q] = result[q]

(* A run's own state changes in one of five ways. *)
Moves(r) ==
  \/ UNCHANGED runVars
  \/ \E p \in PC : Goto(r, p)
  \/ \E res \in {"ok", "failed", "crashed"} : Finish(r, res)
  \/ \E p \in PC, fs \in Seq(File) : Contents(fs) \in Seq(Resource) /\ Visit(r, p, fs)
  \/ \E failed \in BOOLEAN : rest[r] # <<>> /\ Visited(r, failed)

LEMMA MovesType ==
  ASSUME RunsTyped, NEW r \in Run, Moves(r)
  PROVE  RunsTyped' /\ Others(r) /\ cmd' = cmd
<1>1. CASE UNCHANGED runVars
  BY <1>1 DEF RunsTyped, Others, runVars
<1>2. CASE \E p \in PC : Goto(r, p)
  BY <1>2 DEF RunsTyped, Others, Goto
<1>3. CASE \E res \in {"ok", "failed", "crashed"} : Finish(r, res)
  BY <1>3 DEF RunsTyped, Others, Finish, PC
<1>4. CASE \E p \in PC, fs \in Seq(File) : Contents(fs) \in Seq(Resource) /\ Visit(r, p, fs)
  BY <1>4 DEF RunsTyped, Others, Visit
<1>5. CASE \E failed \in BOOLEAN : rest[r] # <<>> /\ Visited(r, failed)
  <2>1. PICK failed \in BOOLEAN : rest[r] # <<>> /\ Visited(r, failed)
    BY <1>5
  <2>2. Tail(rest[r]) \in Seq(Resource)
    BY <2>1 DEF RunsTyped
  <2> QED
    BY <2>1, <2>2 DEF RunsTyped, Others, Visited
<1> QED
  BY <1>1, <1>2, <1>3, <1>4, <1>5 DEF Moves

LEMMA FilesType ==
  ASSUME NEW c \in Command
  PROVE  /\ c.files \in Seq(File) /\ c.manifest \in File
         /\ Flags(c) \in Seq(File) /\ Flags(c) # <<>>
         /\ Contents(c.files) \in Seq(Resource) /\ Contents(Flags(c)) \in Seq(Resource)
<1>1. c.files \in Seq(File) /\ c.manifest \in File
  BY ConstantsFit DEF CommandLine
<1>2. Contents(c.files) \in Seq(Resource) /\ Contents(Flags(c)) \in Seq(Resource)
  BY ContentsFit
<1> QED
  BY <1>1, <1>2 DEF Flags

LEMMA StepMoves ==
  ASSUME Runs, record \in File \cup {None}, NEW r \in Run, StepOf(r)
  PROVE  Moves(r) /\ RunOK(r)'
<1> USE DEF Runs
<1>1. RunOK(r) /\ RunsTyped
  OBVIOUS
<1>2. cmd[r] \in Command
  BY DEF RunsTyped
<1>3. CASE Start(r)
  <2>1. CASE cmd[r].verb = "upgrade" /\ Visit(r, "apply", <<cmd[r].manifest>>)
    <3>1. <<cmd[r].manifest>> \in Seq(File) /\ Contents(<<cmd[r].manifest>>) \in Seq(Resource)
      BY <1>2, FilesType, ContentsFit
    <3> QED
      BY <1>1, <1>3, <2>1, <3>1 DEF Start, Visit, Moves, RunOK, RunsTyped, PC
  <2>2. CASE cmd[r].verb = "install" /\ Goto(r, "certManager")
    BY <1>1, <1>3, <2>2 DEF Start, Goto, Moves, RunOK, RunsTyped, PC
  <2>3. CASE cmd[r].verb = "uninstall" /\ Goto(r, "fetch")
    BY <1>1, <1>3, <2>3 DEF Start, Goto, Moves, RunOK, RunsTyped, PC
  <2> QED
    BY <1>3, <2>1, <2>2, <2>3 DEF Start
<1>4. CASE FirstCheck(r) \/ Poll(r) \/ Deadline(r)
  BY <1>1, <1>2, <1>4, FilesType DEF FirstCheck, Poll, Deadline, Visit, Goto, Moves, RunOK, RunsTyped, PC
<1>5. CASE FetchRecord(r)
  <2>1. CASE Finish(r, "failed")
    BY <1>1, <1>5, <2>1 DEF Finish, Moves, RunOK, RunsTyped, FetchRecord
  <2>2. CASE /\ record # None
             /\ Visit(r, "delete", IF cmd[r].files = <<>> THEN <<record>> ELSE cmd[r].files)
    <3> DEFINE fs == IF cmd[r].files = <<>> THEN <<record>> ELSE cmd[r].files
    <3>1. record \in File
      BY <2>2
    <3>2. fs \in Seq(File) /\ Contents(fs) \in Seq(Resource)
      BY <1>2, <3>1, FilesType, ContentsFit
    <3>3. Moves(r)
      BY <2>2, <3>2 DEF Moves, PC
    <3> QED
      BY <1>1, <1>5, <2>2, <3>3 DEF FetchRecord, Visit, RunOK, RunsTyped
  <2> QED
    BY <1>5, <2>1, <2>2 DEF FetchRecord
<1>6. CASE CreateNext(r) \/ DeleteNext(r) \/ ApplyNext(r)
  <2>1. \E failed \in BOOLEAN : Visited(r, failed)
    BY <1>6 DEF CreateNext, DeleteNext, ApplyNext
  <2>2. rest[r] # <<>> /\ pc[r] \in {"create", "delete", "apply"}
    BY <1>6 DEF CreateNext, DeleteNext, ApplyNext
  <2> QED
    BY <1>1, <2>1, <2>2 DEF Visited, Moves, RunOK, RunsTyped
<1>7. CASE InstallCertManager(r)
  BY <1>1, <1>7 DEF InstallCertManager, Moves, RunOK, runVars
<1>8. CASE Created(r) \/ Deleted(r)
  BY <1>1, <1>8 DEF Created, Deleted, Goto, Finish, Moves, RunOK, RunsTyped, PC
<1>9. CASE GetRecord(r) \/ SaveRecord(r) \/ Forget(r)
  BY <1>1, <1>9 DEF GetRecord, SaveRecord, Forget, Goto, Finish, Moves, RunOK, RunsTyped, PC
<1>10. CASE Wait(r)
  BY <1>1, <1>10 DEF Wait, Goto, Moves, RunOK, RunsTyped, PC
<1>11. CASE UninstallCertManager(r)
  BY <1>1, <1>11 DEF UninstallCertManager, Goto, Moves, RunOK, RunsTyped, PC, runVars
<1>12. CASE Applied(r) \/ Kill(r) \/ LastGoroutineEnds(r)
  BY <1>1, <1>12 DEF Applied, Kill, LastGoroutineEnds, Finish, Moves, RunOK, RunsTyped
<1> QED
  BY <1>3, <1>4, <1>5, <1>6, <1>7, <1>8, <1>9, <1>10, <1>11, <1>12 DEF StepOf, Work

-----------------------------------------------------------------------------
(* What a step may do to the cluster.                                      *)

ClusterOK ==
  /\ objs \subseteq Resource /\ closing \in BOOLEAN /\ record \in File \cup {None}
  /\ closing => Namespace \in objs
  /\ record # None => Namespace \in objs
  /\ Namespaced \cap objs # {} => Namespace \in objs

(* The resource that r visits is created, or goes; the record is written   *)
(* or removed.                                                             *)
Touches(r) ==
  \/ UNCHANGED clusterVars
  \/ /\ pc[r] \in {"create", "apply"} /\ rest[r] # <<>> /\ Head(rest[r]) \notin objs
     /\ Head(rest[r]) \in Namespaced => Namespace \in objs
     /\ objs' = objs \cup {Head(rest[r])} /\ UNCHANGED <<closing, record>>
  \/ pc[r] = "delete" /\ rest[r] # <<>> /\ Head(rest[r]) \in objs /\ Vanish(Head(rest[r]))
  \/ /\ pc[r] = "saveRecord" /\ Namespace \in objs
     /\ record' = Head(files[r]) /\ UNCHANGED <<objs, closing>>
  \/ pc[r] = "forget" /\ record' = None /\ UNCHANGED <<objs, closing>>

LEMMA StepTouches ==
  ASSUME NEW r \in Run, StepOf(r)
  PROVE  Touches(r)
<1> USE DEF Touches, clusterVars
<1>1. CASE \/ Start(r) \/ InstallCertManager(r) \/ FirstCheck(r) \/ Poll(r) \/ Deadline(r)
           \/ Created(r) \/ GetRecord(r)
  BY <1>1 DEF Start, InstallCertManager, FirstCheck, Poll, Deadline, Created, GetRecord
<1>2. CASE FetchRecord(r) \/ Deleted(r) \/ Wait(r) \/ UninstallCertManager(r) \/ Applied(r)
  BY <1>2 DEF FetchRecord, Deleted, Wait, UninstallCertManager, Applied
<1>3. CASE Kill(r) \/ LastGoroutineEnds(r)
  BY <1>3 DEF Kill, LastGoroutineEnds
<1>4. CASE CreateNext(r)
  BY <1>4 DEF CreateNext, Creatable
<1>5. CASE ApplyNext(r)
  BY <1>5 DEF ApplyNext, Creatable
<1>6. CASE DeleteNext(r)
  BY <1>6 DEF DeleteNext
<1>7. CASE SaveRecord(r) \/ Forget(r)
  BY <1>7 DEF SaveRecord, Forget
<1> QED
  BY <1>1, <1>2, <1>3, <1>4, <1>5, <1>6, <1>7 DEF StepOf, Work

LEMMA TouchesOK ==
  ASSUME Runs, ClusterOK, NEW r \in Run, Touches(r)
  PROVE  ClusterOK'
<1>1. rest[r] # <<>> => Head(rest[r]) \in Resource
  BY DEF Runs, RunsTyped
<1>2. pc[r] = "saveRecord" => Head(files[r]) \in File
  BY FilesType DEF Runs, RunsTyped, RunOK
<1>3. CASE UNCHANGED clusterVars
  BY <1>3 DEF ClusterOK, clusterVars
<1>4. CASE /\ rest[r] # <<>> /\ objs' = objs \cup {Head(rest[r])} /\ UNCHANGED <<closing, record>>
           /\ Head(rest[r]) \in Namespaced => Namespace \in objs
  BY <1>1, <1>4 DEF ClusterOK
<1>5. CASE rest[r] # <<>> /\ Head(rest[r]) \in objs /\ Vanish(Head(rest[r]))
  <2> DEFINE x == Head(rest[r])
  <2>1. CASE x = Namespace
    <3>1. closing' = TRUE /\ objs' = objs /\ record' = record /\ Namespace \in objs
      BY <1>5, <2>1 DEF Vanish
    <3> QED
      BY <3>1 DEF ClusterOK
  <2>2. CASE x # Namespace
    <3>1. objs' = objs \ {x} /\ closing' = closing /\ record' = record
      BY <1>5, <2>2 DEF Vanish
    <3>2. Namespace \in objs => Namespace \in objs'
      BY <2>2, <3>1
    <3> QED
      BY <3>1, <3>2, Zenon DEF ClusterOK
  <2> QED
    BY <2>1, <2>2
<1>6. CASE /\ pc[r] = "saveRecord" /\ Namespace \in objs
           /\ record' = Head(files[r]) /\ UNCHANGED <<objs, closing>>
  BY <1>2, <1>6 DEF ClusterOK
<1>7. CASE record' = None /\ UNCHANGED <<objs, closing>>
  BY <1>7 DEF ClusterOK
<1> QED
  BY <1>3, <1>4, <1>5, <1>6, <1>7 DEF Touches

LEMMA CascadeOK ==
  ASSUME ClusterOK, Cascade
  PROVE  ClusterOK'
  BY ConstantsFit DEF ClusterOK, Cascade

(* TypeOK, and what a run knows of itself. *)
TypeInv == TypeOK /\ Runs /\ ClusterOK

LEMMA TypeInit == Init => TypeInv
<1> SUFFICES ASSUME Init PROVE TypeInv
  OBVIOUS
<1>1. CM!TypeOK
  BY ConstantsFit DEF Init, CM!Init, CM!TypeOK, CM!Stage, CM!Status
<1>2. Runs
  BY DEF Init, Runs, RunsTyped, RunOK, PC
<1> QED
  BY <1>1, <1>2 DEF Init, TypeInv, TypeOK, ClusterOK, Runs, RunsTyped, RunOK

LEMMA TypeNext == TypeInv /\ [Next]_vars => TypeInv'
<1> SUFFICES ASSUME TypeInv, [Next]_vars PROVE TypeInv'
  OBVIOUS
<1>1. CM!TypeOK /\ Runs /\ ClusterOK
  BY DEF TypeInv, TypeOK
<1>2. CM!TypeOK' /\ Runs' /\ ClusterOK'
  <2>1. CASE UNCHANGED vars
    BY <1>1, <2>1 DEF CM!TypeOK, Runs, RunsTyped, RunOK, ClusterOK,
                      vars, clusterVars, cmVars, runVars
  <2>2. CASE Cascade
    BY <1>1, <2>2, CascadeOK DEF Cascade, CM!TypeOK, Runs, RunsTyped, RunOK, cmVars, runVars
  <2>3. ASSUME NEW r \in Run, StepOf(r)
        PROVE  CM!TypeOK' /\ Runs' /\ ClusterOK'
    <3>1. Moves(r) /\ RunOK(r)'
      BY <1>1, <2>3, StepMoves DEF ClusterOK
    <3>2. RunsTyped' /\ Others(r)
      BY <1>1, <3>1, MovesType DEF Runs
    <3>3. Runs'
      BY <1>1, <3>1, <3>2 DEF Runs, RunOK, Others
    <3>4. ClusterOK'
      BY <1>1, <2>3, StepTouches, TouchesOK
    <3>5. \/ UNCHANGED cmVars
          \/ CM!Install(r) \/ CM!BeginUninstall(r) \/ CM!Uninstall(r)
      BY <2>3 DEF StepOf, Work, Start, InstallCertManager, FirstCheck, Poll, Deadline, CreateNext, Created, GetRecord,
                  SaveRecord, FetchRecord, DeleteNext, Deleted, Wait, UninstallCertManager,
                  Forget, ApplyNext, Applied, Kill, LastGoroutineEnds
    <3>6. UNCHANGED cmVars => CM!TypeOK'
      BY <1>1 DEF CM!TypeOK, cmVars
    <3> QED
      BY <1>1, <3>3, <3>4, <3>5, <3>6, CertManagerStep
  <2> QED
    BY <2>1, <2>2, <2>3 DEF Next, StepOf
<1> QED
  BY <1>2 DEF TypeInv, TypeOK, Runs, RunsTyped, RunOK, ClusterOK

LEMMA TypeInvCorrect == Spec => []TypeInv
  BY TypeInit, TypeNext, PTL DEF Spec

-----------------------------------------------------------------------------
(* cert-manager as a part of it.                                           *)

LEMMA StepOfCertManager ==
  ASSUME NEW r \in Run, StepOf(r)
  PROVE  UNCHANGED cmVars \/ CM!Install(r) \/ CM!BeginUninstall(r) \/ CM!Uninstall(r)
  BY DEF StepOf, Work, Start, InstallCertManager, FirstCheck, Poll, Deadline, CreateNext, Created, GetRecord,
         SaveRecord, FetchRecord, DeleteNext, Deleted, Wait, UninstallCertManager,
         Forget, ApplyNext, Applied, Kill, LastGoroutineEnds

(* The commands are composed with CertManager: they take its steps.        *)
LEMMA CertManagerSteps == Spec => CM!Spec
<1>1. Init => CM!Init
  BY DEF Init
<1>2. [Next]_vars => [CM!Next]_(CM!cmVars)
  <2> SUFFICES ASSUME [Next]_vars PROVE CM!Next \/ UNCHANGED cmVars
    BY DEF cmVars, CM!cmVars
  <2>1. CASE UNCHANGED vars \/ Cascade
    BY <2>1 DEF vars, Cascade
  <2>2. ASSUME NEW r \in Run, StepOf(r) PROVE CM!Next \/ UNCHANGED cmVars
    BY <2>2, StepOfCertManager DEF CM!Next
  <2> QED
    BY <2>1, <2>2 DEF Next, StepOf
<1> QED
  BY <1>1, <1>2, PTL DEF Spec, CM!Spec

CMProofs == INSTANCE CertManager_proofs

(* What CertManager promises, it promises among the commands of the        *)
(* operator as well: of installs that race, one at a time creates the      *)
(* resources of cert-manager, until somebody has uninstalled it; and a     *)
(* part of its CRDs is missing from a release only where an install stands *)
(* half-way (cert_manager_install.go:107-113,129).                         *)
THEOREM CertManagerCorrect == Spec => [](OneInstallAtATime /\ PartialCRDsHaveACulprit)
<1>2. CMProofs!Spec => []CMProofs!OneInstallAtATime
  BY CMProofs!OneInstallCorrect
<1>3. CMProofs!Spec => []CMProofs!PartialCRDsHaveACulprit
  BY CMProofs!CulpritCorrect
\* Both instances are of the same variables, and say the same of them.
<1>4. CM!Init => CMProofs!Init
  BY DEF CM!Init, CMProofs!Init
<1>5. [CM!Next]_(CM!cmVars) => [CMProofs!Next]_(CMProofs!cmVars)
  BY DEF CM!cmVars, CMProofs!cmVars, CM!Next, CMProofs!Next,
     CM!To, CM!Install, CM!BeginUninstall, CM!Uninstall, CM!Chart, CM!Fetch, CM!CreateCRD,
     CM!Free, CM!Helm, CM!Deploy, CM!History, CM!Purge,
     CMProofs!To, CMProofs!Install, CMProofs!BeginUninstall, CMProofs!Uninstall, CMProofs!Chart,
     CMProofs!Fetch, CMProofs!CreateCRD, CMProofs!Free, CMProofs!Helm, CMProofs!Deploy,
     CMProofs!History, CMProofs!Purge
<1>6. CMProofs!OneInstallAtATime => OneInstallAtATime
  BY DEF OneInstallAtATime, CM!OneInstallAtATime, CMProofs!OneInstallAtATime, CM!Free, CMProofs!Free
<1>7. CMProofs!PartialCRDsHaveACulprit => PartialCRDsHaveACulprit
  BY DEF PartialCRDsHaveACulprit, CM!PartialCRDsHaveACulprit, CMProofs!PartialCRDsHaveACulprit
<1> QED
  BY CertManagerSteps, <1>2, <1>3, <1>4, <1>5, <1>6, <1>7, PTL DEF CM!Spec, CMProofs!Spec

(* Every variable keeps its type; in particular the record is never        *)
(* without the namespace it lies in.                                       *)
THEOREM TypeCorrect == Spec => []TypeOK
<1>1. TypeInv => TypeOK
  BY DEF TypeInv
<1> QED
  BY TypeInvCorrect, <1>1, PTL

-----------------------------------------------------------------------------
(* The record.                                                             *)

(* A run that is done stays done, and one that was started is not idle.    *)
LEMMA StepOfOneRun ==
  ASSUME TypeInv, NEW r \in Run, StepOf(r)
  PROVE  /\ Others(r) /\ cmd' = cmd /\ RunOK(r)'
         /\ pc[r] # "done" /\ pc'[r] # "idle"
<1>1. Moves(r) /\ RunOK(r)'
  BY StepMoves DEF TypeInv, ClusterOK
<1>2. Others(r) /\ cmd' = cmd
  BY <1>1, MovesType DEF TypeInv, Runs
<1>3. pc \in [Run -> PC]
  BY DEF TypeInv, Runs, RunsTyped
<1>4. pc[r] # "done" /\ pc'[r] # "idle"
  <2>1. CASE \/ Start(r) \/ InstallCertManager(r) \/ FirstCheck(r) \/ Poll(r) \/ Deadline(r)
            \/ Kill(r) \/ LastGoroutineEnds(r)
    BY <1>3, <2>1 DEF Start, InstallCertManager, FirstCheck, Poll, Deadline, Kill, LastGoroutineEnds,
                      Goto, Visit, Finish, runVars
  <2>2. CASE CreateNext(r) \/ DeleteNext(r) \/ ApplyNext(r)
    BY <1>3, <2>2 DEF CreateNext, DeleteNext, ApplyNext, Visited
  <2>3. CASE Created(r) \/ GetRecord(r) \/ SaveRecord(r) \/ FetchRecord(r) \/ Deleted(r)
    BY <1>3, <2>3 DEF Created, GetRecord, SaveRecord, FetchRecord, Deleted, Goto, Visit, Finish
  <2>4. CASE Wait(r) \/ UninstallCertManager(r) \/ Forget(r) \/ Applied(r)
    BY <1>3, <2>4 DEF Wait, UninstallCertManager, Forget, Applied, Goto, Finish, runVars
  <2> QED
    BY <2>1, <2>2, <2>3, <2>4 DEF StepOf, Work
<1> QED
  BY <1>1, <1>2, <1>4

(* The run the record is of. *)
Recorder(r) ==
  Installed(r) /\ ~bad[r] /\ files[r] # <<>> /\ record = Head(files[r])

LEMMA RecordNext ==
  ASSUME TypeInv, RecordNamesAnInstall, [Next]_vars
  PROVE  RecordNamesAnInstall'
<1> SUFFICES ASSUME record' # None PROVE \E q \in Run : Recorder(q)'
  BY DEF RecordNamesAnInstall, Recorder
<1>1. record # None => \E q \in Run : Recorder(q)
  BY DEF RecordNamesAnInstall, Recorder
<1>2. CASE UNCHANGED vars
  BY <1>1, <1>2 DEF Recorder, Installed, vars, clusterVars, runVars
<1>3. CASE Cascade
  BY <1>1, <1>3 DEF Recorder, Installed, Cascade, runVars
<1>4. ASSUME NEW r \in Run, StepOf(r) PROVE \E q \in Run : Recorder(q)'
  <2>1. Others(r) /\ pc[r] # "done"
    BY <1>4, StepOfOneRun
  <2>2. CASE record' = record
    <3>1. PICK q \in Run : Recorder(q)
      BY <1>1, <2>2
    \* It is over, so that it is not r.
    <3>2. q # r
      BY <2>1, <3>1 DEF Recorder, Installed, TypeInv, Runs, RunOK
    <3> QED
      BY <2>1, <2>2, <3>1, <3>2 DEF Recorder, Installed, Others
  <2>3. CASE record' # record
    <3>1. SaveRecord(r)
      BY <1>4, <2>3
      DEF StepOf, Work, Start, InstallCertManager, FirstCheck, Poll, Deadline, CreateNext, Created, GetRecord,
          FetchRecord, DeleteNext, Vanish, Deleted, Wait, UninstallCertManager, Forget,
          ApplyNext, Applied, Kill, LastGoroutineEnds, clusterVars
    <3>2. /\ pc[r] = "saveRecord" /\ record' = Head(files[r]) /\ Finish(r, "ok")
      BY <2>3, <3>1 DEF SaveRecord
    <3>3. /\ cmd[r].verb = "install" /\ ~bad[r] /\ files[r] = Flags(cmd[r])
          /\ cmd[r] \in Command
      BY <3>2 DEF TypeInv, Runs, RunsTyped, RunOK
    <3>4. files[r] # <<>>
      BY <3>3, FilesType
    <3> QED
      BY <3>2, <3>3, <3>4 DEF Recorder, Installed, Finish, TypeInv, Runs, RunsTyped
  <2> QED
    BY <2>2, <2>3
<1> QED
  BY <1>2, <1>3, <1>4 DEF Next, StepOf

(* A record names the first file of an install that reported success after *)
(* every request for its resources did (operator_install.go:87-90):        *)
(* uninstall never works from the record of one that did not complete.     *)
THEOREM RecordCorrect == Spec => []RecordNamesAnInstall
<1>1. Init => RecordNamesAnInstall
  BY DEF Init, RecordNamesAnInstall
<1>2. TypeInv /\ RecordNamesAnInstall /\ [Next]_vars => RecordNamesAnInstall'
  BY RecordNext
<1> QED
  BY TypeInvCorrect, <1>1, <1>2, PTL DEF Spec

-----------------------------------------------------------------------------
(* Installs exclude each other.                                            *)

LEMMA HeadAndTail ==
  ASSUME NEW s \in Seq(Resource), s # <<>>
  PROVE  ToSet(s) = {Head(s)} \cup ToSet(Tail(s)) /\ Tail(s) \in Seq(Resource)
<1>1. s = <<Head(s)>> \o Tail(s) /\ Tail(s) \in Seq(Resource) /\ Len(Tail(s)) = Len(s) - 1
  OBVIOUS
<1>2. \A i \in 1..Len(Tail(s)) : Tail(s)[i] = s[i + 1]
  OBVIOUS
<1>3. ToSet(s) \subseteq {Head(s)} \cup ToSet(Tail(s))
  <2> SUFFICES ASSUME NEW i \in 1..Len(s) PROVE s[i] \in {Head(s)} \cup ToSet(Tail(s))
    BY DEF ToSet
  <2>1. CASE i = 1
    BY <2>1
  <2>2. CASE i # 1
    <3>1. i - 1 \in 1..Len(Tail(s)) /\ (i - 1) + 1 = i
      BY <1>1, <2>2
    <3>2. Tail(s)[i - 1] = s[i]
      BY <1>2, <3>1
    <3>3. DOMAIN Tail(s) = 1..Len(Tail(s))
      BY <1>1
    <3>4. Tail(s)[i - 1] \in ToSet(Tail(s))
      BY <3>1, <3>3 DEF ToSet
    <3> QED
      BY <3>2, <3>4
  <2> QED
    BY <2>1, <2>2
<1>4. ToSet(Tail(s)) \subseteq ToSet(s)
  BY <1>1, <1>2 DEF ToSet
<1>5. Head(s) \in ToSet(s)
  BY DEF ToSet
<1> QED
  BY <1>1, <1>3, <1>4, <1>5

(* An install that may yet report success, or has; and one that has got    *)
(* the namespace created, by which it excludes the others.                 *)
Mine(r) ==
  /\ cmd[r].verb = "install" /\ ~bad[r]
  /\ pc[r] \in {"create", "record", "saveRecord"} \/ result[r] = "ok"

Owner(r) == Mine(r) /\ Namespace \notin ToSet(rest[r])

NoUninstall == \A r \in Run : cmd[r].verb = "uninstall" => pc[r] = "idle"

(* InstallsExclude on the way: what such an install has visited it has     *)
(* created, and nobody takes it away again.                                *)
InstallInv ==
  NoUninstall =>
    /\ ~closing
    /\ \A r \in Run : Mine(r) => Everything(files[r]) \subseteq objs \cup ToSet(rest[r])
    /\ \A r, q \in Run : Owner(r) /\ Owner(q) => r = q

LEMMA MineHasNamespace ==
  ASSUME TypeInv, NEW r \in Run, Mine(r)
  PROVE  Namespace \in Everything(files[r])
<1>1. files[r] = Flags(cmd[r]) /\ cmd[r].verb = "install" /\ cmd[r] \in Command
  BY DEF TypeInv, Runs, RunsTyped, RunOK, Mine
<1> QED
  BY <1>1, ContentsFit DEF Everything

(* How a run comes to be, or stays, such an install. *)
LEMMA MineStep ==
  ASSUME TypeInv, NEW r \in Run, StepOf(r), Mine(r)'
  PROVE  \/ Mine(r) /\ files'[r] = files[r] /\ rest'[r] = rest[r]
         \/ /\ Mine(r) /\ files'[r] = files[r]
            /\ rest[r] # <<>> /\ rest'[r] = Tail(rest[r])
            /\ Head(rest[r]) \notin objs /\ objs' = objs \cup {Head(rest[r])}
         \/ rest'[r] = Contents(files'[r])
<1>1. /\ RunsTyped /\ RunOK(r) /\ RunOK(r)' /\ cmd' = cmd
      /\ cmd[r].verb = "install" /\ ~bad'[r]
      /\ pc'[r] \in {"create", "record", "saveRecord"} \/ result'[r] = "ok"
  BY StepOfOneRun DEF TypeInv, Runs, Mine
<1>2. CASE Start(r) \/ InstallCertManager(r)
  BY <1>1, <1>2 DEF Start, InstallCertManager, Goto, Visit, RunsTyped, RunOK, runVars
<1>3. CASE FirstCheck(r) \/ Poll(r) \/ Deadline(r)
  BY <1>1, <1>3 DEF FirstCheck, Poll, Deadline, Goto, Visit, RunsTyped, RunOK
<1>4. CASE CreateNext(r)
  BY <1>1, <1>4 DEF CreateNext, Creatable, Visited, RunsTyped, RunOK, Mine
<1>5. CASE Created(r) \/ GetRecord(r) \/ SaveRecord(r)
  BY <1>1, <1>5 DEF Created, GetRecord, SaveRecord, Goto, Finish, RunsTyped, RunOK, Mine
<1>6. CASE \/ FetchRecord(r) \/ DeleteNext(r) \/ Deleted(r) \/ Wait(r)
           \/ UninstallCertManager(r) \/ Forget(r)
  BY <1>1, <1>6 DEF FetchRecord, DeleteNext, Deleted, Wait, UninstallCertManager, Forget, RunOK
<1>7. CASE ApplyNext(r) \/ Applied(r)
  BY <1>1, <1>7 DEF ApplyNext, Applied, RunOK
<1>8. CASE Kill(r) \/ LastGoroutineEnds(r)
  BY <1>1, <1>8 DEF Kill, LastGoroutineEnds, Finish, RunsTyped
<1> QED
  BY <1>2, <1>3, <1>4, <1>5, <1>6, <1>7, <1>8 DEF StepOf, Work

LEMMA InstallNext ==
  ASSUME TypeInv, InstallInv, [Next]_vars
  PROVE  InstallInv'
<1>1. CASE UNCHANGED vars
  BY <1>1 DEF InstallInv, NoUninstall, Mine, Owner, Everything, vars, clusterVars, runVars
<1>2. CASE Cascade
  BY <1>2 DEF Cascade, InstallInv, NoUninstall, runVars
<1>3. ASSUME NEW r \in Run, StepOf(r) PROVE InstallInv'
  <2> SUFFICES ASSUME NoUninstall'
               PROVE  /\ ~closing'
                      /\ \A q \in Run : Mine(q)' =>
                           Everything(files[q])' \subseteq objs' \cup ToSet(rest[q])'
                      /\ \A p, q \in Run : Owner(p)' /\ Owner(q)' => p = q
    BY DEF InstallInv
  <2>1. Others(r) /\ cmd' = cmd /\ RunOK(r)' /\ pc'[r] # "idle" /\ RunOK(r)
    BY <1>3, StepOfOneRun DEF TypeInv, Runs
  <2>2. NoUninstall /\ cmd[r].verb # "uninstall"
    BY <2>1 DEF NoUninstall, Others
  <2>3. /\ ~closing
        /\ \A q \in Run : Mine(q) => Everything(files[q]) \subseteq objs \cup ToSet(rest[q])
        /\ \A p, q \in Run : Owner(p) /\ Owner(q) => p = q
    BY <2>2 DEF InstallInv
  <2>4. closing' = closing /\ objs \subseteq objs'
    BY <1>3, <2>1, <2>2, StepTouches DEF Touches, RunOK, clusterVars
  <2>5. \A q \in Run \ {r} : /\ Mine(q)' <=> Mine(q)
                             /\ Owner(q)' <=> Owner(q)
                             /\ files'[q] = files[q] /\ rest'[q] = rest[q]
    BY <2>1 DEF Others, Mine, Owner
  \* An owner has created the namespace, so that nobody else can.
  <2>6. \A q \in Run : Owner(q) => Namespace \in objs
    BY <2>3, MineHasNamespace DEF Owner
  <2>7. Mine(r)' => /\ Everything(files[r])' \subseteq objs' \cup ToSet(rest[r])'
                    /\ Owner(r)' => Owner(r) \/ Namespace \notin objs
    <3> SUFFICES ASSUME Mine(r)'
                 PROVE  /\ Everything(files[r])' \subseteq objs' \cup ToSet(rest[r])'
                        /\ Owner(r)' => Owner(r) \/ Namespace \notin objs
      OBVIOUS
    <3>1. CASE Mine(r) /\ files'[r] = files[r] /\ rest'[r] = rest[r]
      BY <2>3, <2>4, <3>1 DEF Owner, Everything
    <3>2. CASE /\ Mine(r) /\ files'[r] = files[r]
               /\ rest[r] # <<>> /\ rest'[r] = Tail(rest[r])
               /\ Head(rest[r]) \notin objs /\ objs' = objs \cup {Head(rest[r])}
      <4>1. ToSet(rest[r]) = {Head(rest[r])} \cup ToSet(rest'[r])
        BY <3>2, HeadAndTail DEF TypeInv, Runs, RunsTyped
      <4> QED
        BY <2>3, <3>2, <4>1 DEF Owner, Everything
    <3>3. CASE rest'[r] = Contents(files'[r])
      <4>1. files'[r] = Flags(cmd[r]) /\ cmd[r].verb = "install" /\ cmd[r] \in Command
        BY <2>1 DEF Mine, RunOK, TypeInv, Runs, RunsTyped
      <4>2. Namespace \in ToSet(rest'[r])
        BY <3>3, <4>1, ContentsFit
      <4> QED
        BY <3>3, <4>2 DEF Owner, Everything
    <3> QED
      BY <1>3, <3>1, <3>2, <3>3, MineStep
  <2>8. \A q \in Run : Mine(q)' => Everything(files[q])' \subseteq objs' \cup ToSet(rest[q])'
    BY <2>3, <2>4, <2>5, <2>7 DEF Everything
  <2>9. \A p, q \in Run : Owner(p)' /\ Owner(q)' => p = q
    BY <2>3, <2>5, <2>6, <2>7 DEF Owner
  <2> QED
    BY <2>3, <2>4, <2>8, <2>9
<1> QED
  BY <1>1, <1>2, <1>3 DEF Next, StepOf

(* Of installs that race, however many, at most one reports success, and   *)
(* then all its resources are there (operator_install.go:85-90): creating  *)
(* is exclusive, and the namespace is in everybody's manifest.             *)
THEOREM InstallsCorrect == Spec => []InstallsExclude
<1>1. Init => InstallInv
  BY DEF Init, InstallInv, Mine, Owner
<1>2. TypeInv /\ InstallInv /\ [Next]_vars => InstallInv'
  BY InstallNext
<1>3. TypeInv /\ InstallInv => InstallsExclude
  <2> SUFFICES ASSUME TypeInv, InstallInv, NoUninstall
               PROVE  \A r \in Run : Installed(r) =>
                        /\ Everything(files[r]) \subseteq objs
                        /\ \A q \in Run \ {r} : ~Installed(q)
    BY DEF InstallsExclude, NoUninstall
  <2>1. \A r \in Run : Installed(r) => Owner(r) /\ ToSet(rest[r]) = {}
    BY DEF TypeInv, Runs, RunsTyped, RunOK, Installed, Owner, Mine, ToSet
  <2> QED
    BY <2>1 DEF InstallInv, Owner
<1> QED
  BY TypeInvCorrect, <1>1, <1>2, <1>3, PTL DEF Spec

-----------------------------------------------------------------------------
(* What the poll has found stays.                                          *)

(* An install that has found cert-manager's API, and has not given up.     *)
Polled(r) == pc[r] \in {"create", "record", "saveRecord"} \/ Installed(r)

(* Nobody takes the release apart; who deploys it has put it to pending,   *)
(* alone, and so cannot do so once it is deployed.                         *)
StaysInv ==
  NoUninstall =>
    /\ \A r \in Run : stage[r] \notin {"history", "purge", "gone"}
    /\ \A r \in Run : stage[r] = "deploy" =>
         release = "pending" /\ \A q \in Run \ {r} : stage[q] # "deploy"
    /\ \A r \in Run : Polled(r) => CM!Serves(ReadyCRD)

(* What an install's steps are to cert-manager, while nobody uninstalls.   *)
LEMMA InstallKeepsServing ==
  ASSUME CM!TypeOK, NEW r \in Run, CM!Install(r),
         \A q \in Run : stage[q] \notin {"history", "purge", "gone"},
         \A q \in Run : stage[q] = "deploy" =>
           release = "pending" /\ \A s \in Run \ {q} : stage[s] # "deploy"
  PROVE  /\ \A q \in Run : stage'[q] \notin {"history", "purge", "gone"}
         /\ \A q \in Run : stage'[q] = "deploy" =>
              release' = "pending" /\ \A s \in Run \ {q} : stage'[s] # "deploy"
         /\ CM!Serves(ReadyCRD) => CM!Serves(ReadyCRD)'
<1>1. stage \in [Run -> CM!Stage]
  BY DEF CM!TypeOK
<1>2. CASE CM!Chart(r) \/ CM!Fetch(r) \/ CM!CreateCRD(r)
  <2>1. release' = release /\ crds \subseteq crds'
    BY <1>2 DEF CM!Chart, CM!Fetch, CM!CreateCRD
  <2>2. /\ \A q \in Run \ {r} : stage'[q] = stage[q]
        /\ stage'[r] \in {"fetch", "failed", "helm", "crds"}
    BY <1>1, <1>2 DEF CM!Chart, CM!Fetch, CM!CreateCRD, CM!To
  <2> QED
    BY <2>1, <2>2 DEF CM!Serves
<1>3. CASE CM!Helm(r)
  BY <1>1, <1>3 DEF CM!Helm, CM!Free, CM!To, CM!Serves
<1>4. CASE CM!Deploy(r)
  BY <1>1, <1>4 DEF CM!Deploy, CM!To, CM!Serves
<1> QED
  BY <1>2, <1>3, <1>4 DEF CM!Install

LEMMA StaysNext ==
  ASSUME TypeInv, StaysInv, [Next]_vars
  PROVE  StaysInv'
<1>1. CASE UNCHANGED vars
  BY <1>1 DEF StaysInv, NoUninstall, Polled, Installed, CM!Serves, vars, cmVars, runVars
<1>2. CASE Cascade
  BY <1>2 DEF Cascade, StaysInv, NoUninstall, Polled, Installed, CM!Serves, cmVars, runVars
<1>3. ASSUME NEW r \in Run, StepOf(r), NoUninstall'
      PROVE  /\ \A q \in Run : stage'[q] \notin {"history", "purge", "gone"}
             /\ \A q \in Run : stage'[q] = "deploy" =>
                  release' = "pending" /\ \A s \in Run \ {q} : stage'[s] # "deploy"
             /\ \A q \in Run : Polled(q)' => CM!Serves(ReadyCRD)'
  <2>1. /\ Others(r) /\ cmd' = cmd /\ RunOK(r)' /\ pc'[r] # "idle"
        /\ RunOK(r) /\ RunsTyped /\ CM!TypeOK
    BY <1>3, StepOfOneRun DEF TypeInv, TypeOK, Runs
  <2>2. NoUninstall /\ cmd[r].verb # "uninstall"
    BY <1>3, <2>1 DEF NoUninstall, Others
  <2>3. /\ \A q \in Run : stage[q] \notin {"history", "purge", "gone"}
        /\ \A q \in Run : stage[q] = "deploy" =>
             release = "pending" /\ \A s \in Run \ {q} : stage[s] # "deploy"
        /\ \A q \in Run : Polled(q) => CM!Serves(ReadyCRD)
    BY <2>2 DEF StaysInv
  <2>4. UNCHANGED cmVars \/ CM!Install(r)
    BY <1>3, <2>1, <2>2
    DEF RunOK, StepOf, Work, Start, InstallCertManager, FirstCheck, Poll, Deadline, CreateNext,
        Created, GetRecord, SaveRecord, FetchRecord, DeleteNext, Deleted, Wait,
        UninstallCertManager, Forget, ApplyNext, Applied, Kill, LastGoroutineEnds
  <2>5. /\ \A q \in Run : stage'[q] \notin {"history", "purge", "gone"}
        /\ \A q \in Run : stage'[q] = "deploy" =>
             release' = "pending" /\ \A s \in Run \ {q} : stage'[s] # "deploy"
        /\ CM!Serves(ReadyCRD) => CM!Serves(ReadyCRD)'
    <3>1. CASE UNCHANGED cmVars
      BY <2>3, <3>1 DEF cmVars, CM!Serves
    <3>2. CASE CM!Install(r)
      BY <2>1, <2>3, <3>2, InstallKeepsServing
    <3> QED
      BY <2>4, <3>1, <3>2
  <2>6. \A q \in Run \ {r} : Polled(q)' => Polled(q)
    BY <2>1 DEF Others, Polled, Installed
  \* It comes to the manifests only by an answer to the poll.
  <2>7. Polled(r)' => Polled(r) \/ CM!Serves(ReadyCRD)
    <3>1. CASE FirstCheck(r) \/ Poll(r)
      BY <2>1, <3>1 DEF FirstCheck, Poll, Goto, Visit, RunsTyped, RunOK, Polled, Installed
    <3>2. CASE Start(r) \/ InstallCertManager(r) \/ Deadline(r) \/ Kill(r) \/ LastGoroutineEnds(r)
      BY <2>1, <3>2 DEF Start, InstallCertManager, Deadline, Kill, LastGoroutineEnds, Goto, Visit,
                        Finish, RunsTyped, RunOK, Polled, Installed, runVars
    <3>3. CASE CreateNext(r) \/ Created(r) \/ GetRecord(r) \/ SaveRecord(r)
      BY <3>3 DEF CreateNext, Created, GetRecord, SaveRecord, Polled
    <3>4. CASE \/ FetchRecord(r) \/ DeleteNext(r) \/ Deleted(r) \/ Wait(r)
               \/ UninstallCertManager(r) \/ Forget(r)
      BY <2>1, <2>2, <3>4 DEF FetchRecord, DeleteNext, Deleted, Wait, UninstallCertManager, Forget, RunOK
    <3>5. CASE ApplyNext(r) \/ Applied(r)
      BY <2>1, <3>5 DEF ApplyNext, Applied, Visited, Finish, RunsTyped, RunOK, Polled, Installed
    <3> QED
      BY <1>3, <3>1, <3>2, <3>3, <3>4, <3>5 DEF StepOf, Work
  <2> QED
    BY <2>3, <2>5, <2>6, <2>7
<1>4. ASSUME NEW r \in Run, StepOf(r) PROVE StaysInv'
  BY <1>3, <1>4 DEF StaysInv
<1> QED
  BY <1>1, <1>2, <1>4 DEF Next, StepOf

(* While an install creates the manifests, and after it has reported       *)
(* success, cert-manager's API is served, however many others install it   *)
(* at the same time, fail or are killed (operator_install.go:84-87,        *)
(* cert_manager_install.go:129); as long as nobody uninstalls.             *)
THEOREM StaysCorrect == Spec => []CertManagerStays
<1>1. Init => StaysInv
  BY DEF Init, CM!Init, StaysInv, Polled, Installed
<1>2. TypeInv /\ StaysInv /\ [Next]_vars => StaysInv'
  BY StaysNext
<1>3. StaysInv => CertManagerStays
  BY DEF StaysInv, CertManagerStays, NoUninstall, Polled
<1> QED
  BY TypeInvCorrect, <1>1, <1>2, <1>3, PTL DEF Spec

-----------------------------------------------------------------------------
(* Uninstall, when commands are typed one after the other.                 *)

Active(r) == pc[r] \notin {"idle", "done", "goexit"}

(* What uninstall has visited without an error is gone; the namespace may  *)
(* be on its way until the deletion has been waited for.                   *)
Cleared(r) ==
  /\ pc[r] \in {"delete", "wait", "unCertManager", "forget"} /\ ~bad[r] =>
       \A x \in Everything(files[r]) \cap objs :
         x \in ToSet(rest[r]) \/ (x = Namespace /\ closing)
  /\ pc[r] \in {"unCertManager", "forget"} /\ Namespace \in Everything(files[r]) => ~closing

UninstallInv ==
  Serial =>
    /\ \A r, q \in Run : Active(r) /\ Active(q) => r = q
    /\ \A r \in Run : Cleared(r)

LEMMA UninstallStep ==
  ASSUME TypeInv, NEW r \in Run, StepOf(r), Cleared(r)
  PROVE  Cleared(r)' /\ (Active(r) \/ ~Active(r)' \/ Start(r))
<1>1. RunsTyped /\ RunOK(r) /\ RunOK(r)'
  BY StepOfOneRun DEF TypeInv, Runs
<1>2. CASE Start(r) \/ InstallCertManager(r) \/ FirstCheck(r) \/ Poll(r) \/ Deadline(r)
  BY <1>1, <1>2 DEF Start, InstallCertManager, FirstCheck, Poll, Deadline, Goto, Visit, RunsTyped, Cleared, Active, runVars
<1>3. CASE CreateNext(r) \/ ApplyNext(r) \/ Created(r) \/ Applied(r)
  BY <1>1, <1>3 DEF CreateNext, ApplyNext, Created, Applied, Visited, Goto, Finish,
                    RunsTyped, Cleared, Active
<1>4. CASE GetRecord(r) \/ SaveRecord(r) \/ Forget(r)
  BY <1>1, <1>4 DEF GetRecord, SaveRecord, Forget, Goto, Finish, RunsTyped, Cleared, Active
<1>5. CASE FetchRecord(r)
  <2>1. pc'[r] = "done" \/ (pc'[r] = "delete" /\ rest'[r] = Contents(files'[r]))
    BY <1>1, <1>5 DEF FetchRecord, Visit, Finish, RunsTyped
  <2> QED
    BY <1>5, <2>1 DEF FetchRecord, Cleared, Everything, Active
<1>6. CASE DeleteNext(r)
  <2>1. /\ pc[r] = "delete" /\ pc'[r] = "delete" /\ files' = files
        /\ rest[r] # <<>> /\ rest'[r] = Tail(rest[r])
        /\ ~bad'[r] => ~bad[r] /\ Vanish(Head(rest[r]))
    BY <1>1, <1>6 DEF DeleteNext, Visited, RunsTyped
  <2> DEFINE x == Head(rest[r])
  <2>2. ToSet(rest[r]) = {x} \cup ToSet(rest'[r])
    BY <1>1, <2>1, HeadAndTail DEF RunsTyped
  <2>3. ASSUME ~bad'[r], NEW y \in Everything(files[r]) \cap objs'
        PROVE  y \in ToSet(rest'[r]) \/ (y = Namespace /\ closing')
    <3>1. CASE x = Namespace
      <4>1. closing' = TRUE /\ objs' = objs
        BY <2>1, <2>3, <3>1 DEF Vanish
      <4>2. y \in ToSet(rest[r]) \/ y = Namespace
        BY <2>1, <2>3, <4>1 DEF Cleared
      <4> QED
        BY <2>2, <3>1, <4>1, <4>2
    <3>2. CASE x # Namespace
      <4>1. closing' = closing /\ objs' = objs \ {x}
        BY <2>1, <2>3, <3>2 DEF Vanish
      <4>2. y \in ToSet(rest[r]) \/ (y = Namespace /\ closing)
        BY <2>1, <2>3, <4>1 DEF Cleared
      <4>3. y # x
        BY <2>3, <4>1
      <4> QED
        BY <2>2, <4>1, <4>2, <4>3
    <3> QED
      BY <3>1, <3>2
  <2> QED
    BY <2>1, <2>3 DEF Cleared, Everything, Active
<1>7. CASE Deleted(r) \/ Wait(r)
  <2>1. /\ UNCHANGED <<objs, closing>> /\ pc[r] \in {"delete", "wait"} /\ files' = files
        /\ pc'[r] \in {"done", "wait", "unCertManager", "forget"}
        /\ pc'[r] \in {"unCertManager", "forget"} /\ Namespace \in Everything(files[r]) => ~closing
        /\ pc'[r] # "done" => rest' = rest /\ bad' = bad
    BY <1>1, <1>7 DEF Deleted, Wait, Everything, Goto, Finish, RunsTyped, clusterVars
  <2> QED
    BY <2>1 DEF Cleared, Everything, Active
<1>8. CASE UninstallCertManager(r)
  <2>1. /\ UNCHANGED <<objs, closing, files, rest, bad>>
        /\ pc[r] = "unCertManager" /\ pc'[r] \in {"unCertManager", "forget"}
    BY <1>1, <1>8 DEF UninstallCertManager, Goto, RunsTyped, clusterVars, runVars
  <2> QED
    BY <2>1 DEF Cleared, Everything, Active
<1>9. CASE Kill(r) \/ LastGoroutineEnds(r)
  BY <1>1, <1>9 DEF Kill, LastGoroutineEnds, Finish, RunsTyped, Cleared, Active
<1> QED
  BY <1>2, <1>3, <1>4, <1>5, <1>6, <1>7, <1>8, <1>9 DEF StepOf, Work

LEMMA UninstallNext ==
  ASSUME TypeInv, UninstallInv, [Next]_vars, Serial
  PROVE  /\ \A r, q \in Run : Active(r)' /\ Active(q)' => r = q
         /\ \A r \in Run : Cleared(r)'
<1>1. /\ \A r, q \in Run : Active(r) /\ Active(q) => r = q
      /\ \A r \in Run : Cleared(r)
  BY DEF UninstallInv
<1>2. CASE UNCHANGED vars
  BY <1>1, <1>2 DEF Active, Cleared, Everything, vars, clusterVars, runVars
<1>3. CASE Cascade
  \* The namespace goes last.
  <2>1. /\ objs' \subseteq objs /\ closing /\ UNCHANGED runVars
        /\ Namespace \in objs' => closing'
    BY <1>3, ConstantsFit DEF Cascade
  <2> QED
    BY <1>1, <2>1 DEF Active, Cleared, Everything, runVars
<1>4. ASSUME NEW r \in Run, StepOf(r)
      PROVE  /\ \A p, q \in Run : Active(p)' /\ Active(q)' => p = q
             /\ \A q \in Run : Cleared(q)'
  <2>1. Cleared(r)' /\ (Active(r) \/ ~Active(r)' \/ Start(r)) /\ Others(r)
    BY <1>1, <1>4, UninstallStep, StepOfOneRun
  <2>2. \A q \in Run \ {r} : Active(q)' <=> Active(q)
    BY <2>1 DEF Active, Others
  \* The others have nothing cleared yet, or are done with it.
  <2>3. CASE \A q \in Run \ {r} : ~Active(q)
    BY <2>1, <2>2, <2>3 DEF Active, Cleared
  <2>4. CASE \E q \in Run \ {r} : Active(q)
    <3>1. ~Active(r) /\ ~Start(r)
      BY <1>1, <2>4 DEF Start, Active
    <3>2. LastGoroutineEnds(r)
      BY <1>4, <3>1
      DEF Active, StepOf, Work, InstallCertManager, FirstCheck, Poll, Deadline, CreateNext, Created, GetRecord,
          SaveRecord, FetchRecord, DeleteNext, Deleted, Wait, UninstallCertManager, Forget,
          ApplyNext, Applied, Kill
    <3>3. UNCHANGED clusterVars
      BY <3>2 DEF LastGoroutineEnds
    <3>4. \A q \in Run \ {r} : Cleared(q)'
      BY <1>1, <2>1, <3>3 DEF Cleared, Everything, Others, clusterVars
    <3> QED
      BY <1>1, <2>1, <2>2, <3>1, <3>4
  <2> QED
    BY <2>3, <2>4
<1> QED
  BY <1>2, <1>3, <1>4 DEF Next, StepOf

(* When uninstall turns to cert-manager and to the record, nothing of what *)
(* it deletes is left, nor a record in a deleted namespace, whatever the   *)
(* commands before it have left behind (operator_uninstall.go:36-45).      *)
THEOREM UninstallCorrect == Spec => []UninstallLeavesNothing
<1>1. Init => UninstallInv
  BY DEF Init, UninstallInv, Active, Cleared
<1>2. TypeInv /\ UninstallInv /\ [Next]_vars => UninstallInv'
  BY UninstallNext DEF UninstallInv
<1>3. TypeInv /\ UninstallInv => UninstallLeavesNothing
  <2> SUFFICES ASSUME TypeInv, UninstallInv, Serial, NEW r \in Run,
                      pc[r] \in {"unCertManager", "forget"}
               PROVE  /\ Everything(files[r]) \cap objs = {}
                      /\ Namespace \in Everything(files[r]) =>
                           record = None /\ Namespaced \cap objs = {}
    BY DEF UninstallLeavesNothing
  <2>1. rest[r] = <<>> /\ ~bad[r]
    BY DEF TypeInv, Runs, RunsTyped, RunOK
  <2>2. ToSet(rest[r]) = {}
    BY <2>1 DEF ToSet
  <2>3. Everything(files[r]) \cap objs = {}
    BY <2>1, <2>2 DEF UninstallInv, Cleared
  <2> QED
    BY <2>3 DEF TypeInv, ClusterOK
<1> QED
  BY TypeInvCorrect, <1>1, <1>2, <1>3, PTL DEF Spec

-----------------------------------------------------------------------------
(* Why every command ends.                                                 *)

LEMMA StepOfOneRunForCertManager ==
  ASSUME CM!TypeOK, NEW r \in Run, CM!Install(r) \/ CM!BeginUninstall(r) \/ CM!Uninstall(r)
  PROVE  \A q \in Run \ {r} : stage'[q] = stage[q] /\ todo'[q] = todo[q]
  BY DEF CM!TypeOK, CM!To, CM!Install, CM!Chart, CM!Fetch, CM!CreateCRD, CM!Helm, CM!Deploy,
         CM!BeginUninstall, CM!Uninstall, CM!History, CM!Purge

LEMMA CertManagerIsNearer ==
  ASSUME CM!TypeOK, NEW r \in Run, CM!Install(r) \/ CM!BeginUninstall(r) \/ CM!Uninstall(r)
  PROVE  CertManagerNearer(r)
<1>1. stage \in [Run -> CM!Stage] /\ todo \in [Run -> SUBSET CRD]
  BY DEF CM!TypeOK
<1>2. CASE CM!Chart(r) \/ CM!Fetch(r)
  BY <1>1, <1>2 DEF CM!Chart, CM!Fetch, CM!To, CertManagerNearer, StagesLeft
<1>3. CASE CM!CreateCRD(r)
  <2>1. stage[r] = "crds"
    BY <1>3 DEF CM!CreateCRD
  <2>2. CASE stage' = stage
    <3>1. \E c \in todo[r] : todo'[r] = todo[r] \ {c}
      BY <1>1, <1>3, <2>1, <2>2 DEF CM!CreateCRD, CM!To
    <3> QED
      BY <2>2, <3>1 DEF CertManagerNearer
  <2>3. CASE stage' # stage
    <3>1. stage'[r] \in {"helm", "failed"}
      BY <1>1, <1>3, <2>3 DEF CM!CreateCRD, CM!To
    <3> QED
      BY <2>1, <3>1 DEF CertManagerNearer, StagesLeft
  <2> QED
    BY <2>2, <2>3
<1>4. CASE CM!Helm(r) \/ CM!Deploy(r)
  BY <1>1, <1>4 DEF CM!Helm, CM!Deploy, CM!To, CertManagerNearer, StagesLeft
<1>5. CASE CM!BeginUninstall(r) \/ CM!Uninstall(r)
  BY <1>1, <1>5 DEF CM!BeginUninstall, CM!Uninstall, CM!History, CM!Purge, CM!To,
                    CertManagerNearer, StagesLeft
<1> QED
  BY <1>2, <1>3, <1>4, <1>5 DEF CM!Install

(* What a run that is nearer to its end has done: a step of its own goes   *)
(* to a later call, visits a resource, or is a step of cert-manager's.     *)
LEMMA StepIsNearer ==
  ASSUME TypeInv, NEW r \in Run, StepOf(r)
  PROVE  Nearer(r)
<1>1. /\ pc \in [Run -> PC] /\ rest \in [Run -> Seq(Resource)]
      /\ CM!TypeOK
  BY DEF TypeInv, TypeOK
<1>2. CASE InstallCertManager(r)
  BY <1>1, <1>2, CertManagerIsNearer DEF InstallCertManager, runVars, Nearer
<1>3. CASE CreateNext(r) \/ DeleteNext(r) \/ ApplyNext(r)
  <2>1. rest[r] # <<>> /\ pc' = pc /\ rest'[r] = Tail(rest[r])
    BY <1>1, <1>3 DEF CreateNext, DeleteNext, ApplyNext, Visited
  <2>2. Len(Tail(rest[r])) < Len(rest[r])
    BY <1>1, <2>1
  <2> QED
    BY <2>1, <2>2 DEF Nearer
<1>4. CASE Start(r) \/ FirstCheck(r) \/ Poll(r) \/ Deadline(r) \/ LastGoroutineEnds(r)
  BY <1>1, <1>4 DEF Start, FirstCheck, Poll, Deadline, LastGoroutineEnds, Goto, Visit, Finish, Nearer, CallsLeft
<1>5. CASE Created(r) \/ GetRecord(r) \/ SaveRecord(r)
  BY <1>1, <1>5 DEF Created, GetRecord, SaveRecord, Goto, Finish, Nearer, CallsLeft
<1>6. CASE FetchRecord(r) \/ Deleted(r) \/ Wait(r) \/ Forget(r)
  BY <1>1, <1>6 DEF FetchRecord, Deleted, Wait, Forget, Goto, Visit, Finish, Nearer, CallsLeft
<1>7. CASE UninstallCertManager(r)
  <2>1. CASE CM!Uninstall(r) /\ UNCHANGED runVars
    BY <1>1, <2>1, CertManagerIsNearer DEF runVars, Nearer
  <2>2. CASE pc[r] = "unCertManager" /\ Goto(r, "forget")
    BY <1>1, <2>2 DEF Goto, Nearer, CallsLeft
  <2> QED
    BY <1>7, <2>1, <2>2 DEF UninstallCertManager
<1>8. CASE Applied(r)
  BY <1>1, <1>8 DEF Applied, Finish, Nearer, CallsLeft
<1>9. CASE Kill(r)
  <2>1. pc[r] \in PC \ {"idle", "goexit", "done"} /\ pc'[r] = "done"
    BY <1>1, <1>9 DEF Kill, Finish
  <2> QED
    BY <2>1 DEF Nearer, CallsLeft, PC
<1> QED
  BY <1>2, <1>3, <1>4, <1>5, <1>6, <1>7, <1>8, <1>9 DEF StepOf, Work

(* A command ends, whatever the others do and however large the manifests  *)
(* are: each of its steps leaves it fewer calls to make, or fewer          *)
(* resources to visit, or less to do for cert-manager                      *)
(* (operator_install.go:61-90, operator_uninstall.go:29-47).               *)
THEOREM NearerCorrect == Spec => EveryStepIsNearer
<1>1. ASSUME TypeInv, [Next]_vars, NEW r \in Run, StateOf(r)' # StateOf(r)
      PROVE  Nearer(r)
  <2>1. CASE UNCHANGED vars \/ Cascade
    BY <1>1, <2>1 DEF vars, cmVars, runVars, Cascade, StateOf
  <2>2. ASSUME NEW q \in Run, StepOf(q), q # r
        PROVE  StateOf(r)' = StateOf(r)
    <3>1. pc'[r] = pc[r] /\ files'[r] = files[r] /\ rest'[r] = rest[r] /\ bad'[r] = bad[r]
          /\ result'[r] = result[r]
      BY <1>1, <2>2, StepOfOneRun DEF Others
    <3>2. stage'[r] = stage[r] /\ todo'[r] = todo[r]
      BY <1>1, <2>2, StepOfCertManager, StepOfOneRunForCertManager DEF TypeInv, TypeOK, cmVars
    <3> QED
      BY <3>1, <3>2 DEF StateOf
  <2> QED
    BY <1>1, <2>1, <2>2, StepIsNearer DEF Next, StepOf
<1>2. TypeInv /\ [Next]_vars => \A r \in Run : StateOf(r)' # StateOf(r) => Nearer(r)
  BY <1>1
<1> QED
  BY TypeInvCorrect, <1>2, PTL DEF Spec, EveryStepIsNearer

=============================================================================
