-------------------------- MODULE OperatorLifecycle --------------------------
(***************************************************************************)
(* The commands operator install, uninstall and upgrade, with cert-manager *)
(* (module CertManager) as a part of the first two.  What they work on is  *)
(* shared: the resources of the manifests, and the ConfigMap in the        *)
(* operator's namespace that records which manifest was installed.         *)
(*                                                                         *)
(* A manifest is worked through one resource at a time, by kubectl: the    *)
(* requests are its, which of them are made and what follows from their    *)
(* outcome is decided here.  Deleting the namespace takes everything in it *)
(* along, in the background; the record as well.                           *)
(***************************************************************************)
EXTENDS Naturals, Sequences, SequencesExt

CONSTANTS
  Run,         \* invocations of milvusctl
  CRD,         \* CRDs of cert-manager
  Resource,    \* the resources of all manifests
  Namespace,   \* the one that is the operator's namespace
  Namespaced,  \* those that live in it
  Needs,       \* for every resource, the APIs of cert-manager it needs
  ReadyCRD,    \* the API the install polls
  File,        \* manifests: files, and the manifests of operator versions
  Manifest,    \* for every file, its resources in order
  Command,     \* the command lines that are typed
  None,        \* no record
  Serial       \* TRUE: nobody types a command while another one runs

CommandLine ==
  [verb : {"install", "uninstall", "upgrade"},
   files : Seq(File),     \* the -f options
   manifest : File,       \* the manifest the version stands for
   certManager : BOOLEAN] \* --delete-cert-manager

ASSUME ConstantsFit ==
  /\ Namespace \in Resource \ Namespaced /\ Namespaced \subseteq Resource
  /\ Needs \in [Resource -> SUBSET CRD] /\ ReadyCRD \in CRD
  /\ Manifest \in [File -> Seq(Resource)]
  /\ \A c \in Command : c \in CommandLine
  /\ None \notin File
  /\ Serial \in BOOLEAN

VARIABLES
  objs,      \* the resources in the cluster
  closing,   \* the namespace is being deleted
  record,    \* ConfigMap milvusctl-milvus-operator: the recorded file, or None
  crds, release, stage, todo,   \* see CertManager
  pc,        \* per run: what it does next
  cmd,       \* per run: its command line
  files,     \* per run: the files it works on
  rest,      \* per run: the resources of these files it has yet to visit
  bad,       \* per run: some request failed
  result     \* per run: how it ended

CM == INSTANCE CertManager

clusterVars == <<objs, closing, record>>
cmVars  == <<crds, release, stage, todo>>
runVars == <<pc, cmd, files, rest, bad, result>>
vars == <<clusterVars, cmVars, runVars>>

PC == {"idle", "certManager", "poll", "create", "record", "saveRecord", "fetch", "delete", "wait",
       "unCertManager", "forget", "apply", "goexit", "done"}

TypeOK ==
  /\ CM!TypeOK
  /\ objs \subseteq Resource /\ closing \in BOOLEAN /\ record \in File \cup {None}
  /\ pc \in [Run -> PC] /\ cmd \in [Run -> Command]
  /\ files \in [Run -> Seq(File)] /\ rest \in [Run -> Seq(Resource)]
  /\ bad \in [Run -> BOOLEAN] /\ result \in [Run -> {"none", "ok", "failed", "timeout", "crashed"}]
  /\ closing => Namespace \in objs
  /\ record # None => Namespace \in objs
  /\ \A r \in Run : bad[r] => /\ pc[r] \in {"create", "delete", "apply", "done"}
                              /\ result[r] # "ok"

Init ==
  /\ CM!Init
  /\ objs = {} /\ closing = FALSE /\ record = None
  /\ pc = [r \in Run |-> "idle"] /\ cmd \in [Run -> Command]
  /\ files = [r \in Run |-> <<>>] /\ rest = [r \in Run |-> <<>>]
  /\ bad = [r \in Run |-> FALSE] /\ result = [r \in Run |-> "none"]

-----------------------------------------------------------------------------
(* The API server and the namespace controller.                            *)

Contents(fs) == FlattenSeq([i \in DOMAIN fs |-> Manifest[fs[i]]])

Flags(c) == Append(c.files, c.manifest)

(* What flattening yields, which is proved by induction, for the files     *)
(* that are ever put together; and that the operator brings its namespace. *)
ASSUME ContentsFit ==
  /\ \A f \in File : Contents(<<f>>) \in Seq(Resource)
  /\ \A c \in Command : Contents(c.files) \in Seq(Resource) /\ Contents(Flags(c)) \in Seq(Resource)
  /\ \A c \in Command : c.verb = "install" => Namespace \in ToSet(Contents(Flags(c)))

(* A resource can be created once, where its namespace and its API are.    *)
Creatable(x) ==
  /\ x \notin objs
  /\ x \in Namespaced => Namespace \in objs /\ ~closing
  /\ \A c \in Needs[x] : CM!Serves(c)

(* A resource goes at once, the namespace when it is empty.                *)
Vanish(x) ==
  IF x = Namespace
  THEN closing' = TRUE /\ UNCHANGED <<objs, record>>
  ELSE objs' = objs \ {x} /\ UNCHANGED <<closing, record>>

Cascade ==
  /\ closing
  /\ \/ \E x \in objs \cap Namespaced : objs' = objs \ {x} /\ UNCHANGED <<closing, record>>
     \/ record # None /\ record' = None /\ UNCHANGED <<objs, closing>>
     \/ /\ objs \cap Namespaced = {} /\ record = None
        /\ objs' = objs \ {Namespace} /\ closing' = FALSE /\ UNCHANGED record
  /\ UNCHANGED <<cmVars, runVars>>

-----------------------------------------------------------------------------
(* Steps of a run.                                                         *)

Goto(r, p) ==
  /\ pc' = [pc EXCEPT ![r] = p]
  /\ UNCHANGED <<cmd, files, rest, bad, result>>

(* CheckErr, os.Exit or the end of Run.                                    *)
Finish(r, res) ==
  /\ pc' = [pc EXCEPT ![r] = "done"]
  /\ result' = [result EXCEPT ![r] = res]
  /\ rest' = [rest EXCEPT ![r] = <<>>]
  /\ UNCHANGED <<cmd, files, bad>>

(* The resources of fs are going to be visited.                            *)
Visit(r, p, fs) ==
  /\ pc' = [pc EXCEPT ![r] = p]
  /\ files' = [files EXCEPT ![r] = fs]
  /\ rest' = [rest EXCEPT ![r] = Contents(fs)]
  /\ UNCHANGED <<cmd, bad, result>>

(* The next of them; an error is kept and the visit goes on.               *)
Visited(r, failed) ==
  /\ rest' = [rest EXCEPT ![r] = Tail(@)]
  /\ bad' = [bad EXCEPT ![r] = @ \/ failed]
  /\ UNCHANGED <<pc, cmd, files, result>>

Start(r) ==
  /\ pc[r] = "idle"
  /\ Serial => \A q \in Run : pc[q] \in {"idle", "done", "goexit"}
  /\ UNCHANGED <<clusterVars, cmVars>>
  /\ \/ cmd[r].verb = "install" /\ Goto(r, "certManager")
     \/ cmd[r].verb = "uninstall" /\ Goto(r, "fetch")
     \/ cmd[r].verb = "upgrade" /\ Visit(r, "apply", <<cmd[r].manifest>>)

(* install: cert-manager comes first, and an error is only printed.        *)
InstallCertManager(r) ==
  /\ pc[r] = "certManager"
  /\ CM!Install(r)
  /\ UNCHANGED <<clusterVars, runVars>>

(* run: the API is asked for as soon as RunInstall is over; a check that   *)
(* fails, for whatever reason, is not the last.                            *)
FirstCheck(r) ==
  /\ pc[r] = "certManager" /\ stage[r] \in {"ok", "failed"}
  /\ UNCHANGED <<clusterVars, cmVars>>
  /\ \/ CM!Serves(ReadyCRD) /\ Visit(r, "create", Flags(cmd[r]))
     \/ Goto(r, "poll")

(* It is asked for again every five seconds; when it answers the manifests *)
(* are created.  A check that fails changes nothing.                       *)
Poll(r) ==
  /\ pc[r] = "poll"
  /\ CM!Serves(ReadyCRD)
  /\ Visit(r, "create", Flags(cmd[r]))
  /\ UNCHANGED <<clusterVars, cmVars>>

(* Mutant: the context that is polled on is the parent, without deadline. *)
NoDeadline(r) ==
  /\ pc[r] = "poll" /\ FALSE
  /\ UNCHANGED vars

(* Three minutes have passed, answer or not: the main goroutine is ended.  *)
Deadline(r) ==
  /\ pc[r] = "poll"
  /\ Goto(r, "goexit")
  /\ UNCHANGED <<clusterVars, cmVars>>

(* Without a main goroutine the runtime ends the program as soon as no     *)
(* other is left; no deferred function has set the exit code.              *)
LastGoroutineEnds(r) ==
  /\ pc[r] = "goexit"
  /\ Finish(r, "crashed")
  /\ UNCHANGED <<clusterVars, cmVars>>

(* Mutant: a request that failed is noted and made again. *)
CreateRetried(r) ==
  /\ pc[r] = "create" /\ rest[r] # <<>>
  /\ LET x == Head(rest[r]) IN
     \/ Creatable(x) /\ objs' = objs \cup {x} /\ Visited(r, FALSE)
     \/ /\ bad' = [bad EXCEPT ![r] = TRUE]
        /\ UNCHANGED <<objs, pc, cmd, files, rest, result>>
  /\ UNCHANGED <<closing, record, cmVars>>

(* RunCreate: every resource of every file, whatever became of the others. *)
CreateNext(r) ==
  /\ pc[r] = "create" /\ rest[r] # <<>>
  /\ LET x == Head(rest[r]) IN
     \/ /\ Creatable(x)
        /\ objs' = objs \cup {x}
        /\ \E lost \in BOOLEAN : Visited(r, lost)
     \/ Visited(r, TRUE) /\ UNCHANGED objs
  /\ UNCHANGED <<closing, record, cmVars>>

(* Mutant: an install ends well when some request has failed. *)
CreatedAnyway(r) ==
  /\ pc[r] = "create" /\ rest[r] = <<>>
  /\ Goto(r, "record")
  /\ UNCHANGED <<clusterVars, cmVars>>

Created(r) ==
  /\ pc[r] = "create" /\ rest[r] = <<>>
  /\ IF bad[r] THEN Finish(r, "failed") ELSE Goto(r, "record")
  /\ UNCHANGED <<clusterVars, cmVars>>

(* CreateMilvusOperatorSecert: a record that is there stays, and no error  *)
(* is looked at.                                                           *)
GetRecord(r) ==
  /\ pc[r] = "record"
  /\ \/ record = None /\ Goto(r, "saveRecord")
     \/ Finish(r, "ok")
  /\ UNCHANGED <<clusterVars, cmVars>>

SaveRecord(r) ==
  /\ pc[r] = "saveRecord"
  /\ \/ /\ record = None /\ Namespace \in objs /\ ~closing
        /\ record' = Head(files[r])
     \/ UNCHANGED record
  /\ Finish(r, "ok")
  /\ UNCHANGED <<objs, closing, cmVars>>

(* uninstall: without a record the command ends, even with -f.             *)
FetchRecord(r) ==
  /\ pc[r] = "fetch"
  /\ \/ /\ record # None
        /\ Visit(r, "delete", IF cmd[r].files = <<>> THEN <<record>> ELSE cmd[r].files)
     \/ Finish(r, "failed")
  /\ UNCHANGED <<clusterVars, cmVars>>

(* RunDelete: what is not found counts as an error, and so does a          *)
(* namespace that is going already.                                        *)
DeleteNext(r) ==
  /\ pc[r] = "delete" /\ rest[r] # <<>>
  /\ LET x == Head(rest[r]) IN
     \/ /\ x \in objs /\ (x = Namespace => ~closing)
        /\ Vanish(x)
        /\ \E lost \in BOOLEAN : Visited(r, lost)
     \/ Visited(r, TRUE) /\ UNCHANGED clusterVars
  /\ UNCHANGED cmVars

Deleted(r) ==
  /\ pc[r] = "delete" /\ rest[r] = <<>>
  /\ IF bad[r] THEN Finish(r, "failed") ELSE Goto(r, "wait")
  /\ UNCHANGED <<clusterVars, cmVars>>

(* Mutant: the deletion is not waited for. *)
WaitNot(r) ==
  /\ pc[r] = "wait"
  /\ UNCHANGED clusterVars
  /\ IF cmd[r].certManager
     THEN CM!BeginUninstall(r) /\ Goto(r, "unCertManager")
     ELSE UNCHANGED cmVars /\ Goto(r, "forget")

(* RunDelete returns when what it has deleted is gone: this may take a     *)
(* while for the namespace.                                                *)
Wait(r) ==
  /\ pc[r] = "wait"
  /\ Namespace \in ToSet(Contents(files[r])) => ~closing
  /\ UNCHANGED clusterVars
  /\ IF cmd[r].certManager
     THEN CM!BeginUninstall(r) /\ Goto(r, "unCertManager")
     ELSE UNCHANGED cmVars /\ Goto(r, "forget")

UninstallCertManager(r) ==
  /\ pc[r] = "unCertManager"
  /\ \/ CM!Uninstall(r) /\ UNCHANGED runVars
     \/ stage[r] \in {"gone", "failed"} /\ Goto(r, "forget") /\ UNCHANGED cmVars
  /\ UNCHANGED clusterVars

(* DeleteMilvusOperatorSecert; no error is looked at.                      *)
Forget(r) ==
  /\ pc[r] = "forget"
  /\ record' \in {record, None}
  /\ Finish(r, "ok")
  /\ UNCHANGED <<objs, closing, cmVars>>

(* upgrade: kubectl apply creates or patches every resource of the         *)
(* version; the record is not touched.                                     *)
ApplyNext(r) ==
  /\ pc[r] = "apply" /\ rest[r] # <<>>
  /\ LET x == Head(rest[r]) IN
     \/ x \in objs /\ Visited(r, FALSE) /\ UNCHANGED objs
     \/ /\ Creatable(x)
        /\ objs' = objs \cup {x}
        /\ \E lost \in BOOLEAN : Visited(r, lost)
     \/ Visited(r, TRUE) /\ UNCHANGED objs
  /\ UNCHANGED <<closing, record, cmVars>>

Applied(r) ==
  /\ pc[r] = "apply" /\ rest[r] = <<>>
  /\ Finish(r, IF bad[r] THEN "failed" ELSE "ok")
  /\ UNCHANGED <<clusterVars, cmVars>>

(* The process is interrupted, or panics: when the poll could not be set   *)
(* up, install goes on with a checker that is nil.                         *)
Kill(r) ==
  /\ pc[r] \notin {"idle", "goexit", "done"}
  /\ Finish(r, "failed")
  /\ UNCHANGED <<clusterVars, cmVars>>

Work(r) ==
  \/ InstallCertManager(r) \/ FirstCheck(r) \/ Poll(r) \/ Deadline(r)
  \/ CreateNext(r) \/ Created(r) \/ GetRecord(r) \/ SaveRecord(r)
  \/ FetchRecord(r) \/ DeleteNext(r) \/ Deleted(r) \/ Wait(r)
  \/ UninstallCertManager(r) \/ Forget(r)
  \/ ApplyNext(r) \/ Applied(r)

Next ==
  \/ \E r \in Run : Start(r) \/ Work(r) \/ Kill(r) \/ LastGoroutineEnds(r)
  \/ Cascade

Spec == Init /\ [][Next]_vars

(* A process that runs goes on, the Go runtime ends one that is left with  *)
(* no goroutine, and the namespace controller works.                       *)
Fairness ==
  /\ WF_vars(Cascade)
  /\ \A r \in Run : WF_vars(Work(r)) /\ WF_vars(LastGoroutineEnds(r))

-----------------------------------------------------------------------------
(* Properties.                                                             *)

Everything(fs) == ToSet(Contents(fs))

(* This install has reported success. *)
Installed(r) == cmd[r].verb = "install" /\ result[r] = "ok"

(* A record names the first file of an install that reported success after *)
(* every request for its files' resources did (operator_install.go:87-90), *)
(* whatever failed, was killed or was installed again around it: uninstall *)
(* never works from the record of an install that did not complete.        *)
RecordNamesAnInstall ==
  record # None =>
    \E r \in Run : /\ Installed(r) /\ ~bad[r]
                   /\ files[r] # <<>> /\ record = Head(files[r])

(* Of installs that race, at most one reports success, and then it is all  *)
(* there: nobody is told of success while a part is somebody else's        *)
(* (operator_install.go:85-90); as long as nobody uninstalls.              *)
InstallsExclude ==
  (\A r \in Run : cmd[r].verb = "uninstall" => pc[r] = "idle") =>
    \A r \in Run : Installed(r) =>
      /\ Everything(files[r]) \subseteq objs
      /\ \A q \in Run \ {r} : ~Installed(q)

(* When uninstall turns to cert-manager and to the record, nothing of the  *)
(* files it deletes is left, and when these hold the namespace, nothing    *)
(* that lies in it either: not the record, and not what an upgrade has     *)
(* brought and they do not name (operator_uninstall.go:36-45).  Others do  *)
(* not work at the same time, but may have failed or been killed at any    *)
(* point before.                                                           *)
UninstallLeavesNothing ==
  Serial =>
    \A r \in Run : pc[r] \in {"unCertManager", "forget"} =>
      /\ Everything(files[r]) \cap objs = {}
      /\ Namespace \in Everything(files[r]) => record = None /\ Namespaced \cap objs = {}

(* What CertManager promises, among the commands of the operator: also     *)
(* with runs that are killed while cert-manager is installed, or go on     *)
(* after it failed (operator_install.go:76-78).                            *)
PartialCRDsHaveACulprit == CM!PartialCRDsHaveACulprit
OneInstallAtATime == CM!OneInstallAtATime

(* The answer to the poll stays true: while an install creates the         *)
(* manifests, which need cert-manager's API, and after it has reported     *)
(* success, the API is served, although other installs run helm on the     *)
(* same release, fail there or are killed, with Replace set                *)
(* (operator_install.go:84-87, cert_manager_install.go:129); as long as    *)
(* nobody uninstalls.                                                      *)
CertManagerStays ==
  (\A r \in Run : cmd[r].verb = "uninstall" => pc[r] = "idle") =>
    \A r \in Run : pc[r] \in {"create", "record", "saveRecord"} \/ Installed(r) =>
      CM!Serves(ReadyCRD)

(* What a run has ahead of it: of its calls, and of those for cert-manager. *)
CallsLeft ==
  [idle |-> 7, certManager |-> 6, poll |-> 5, create |-> 4, record |-> 3, saveRecord |-> 2, goexit |-> 1,
   fetch |-> 5, delete |-> 4, wait |-> 3, unCertManager |-> 2, forget |-> 1, apply |-> 5, done |-> 0]
StagesLeft ==
  [idle |-> 5, fetch |-> 4, crds |-> 3, helm |-> 2, deploy |-> 1, history |-> 4, purge |-> 3,
   ok |-> 0, gone |-> 0, failed |-> 0]

StateOf(r) == <<pc[r], files[r], rest[r], bad[r], result[r], stage[r], todo[r]>>

CertManagerNearer(r) ==
  \/ StagesLeft[stage'[r]] < StagesLeft[stage[r]]
  \/ stage'[r] = stage[r] /\ todo'[r] \subseteq todo[r] /\ todo'[r] # todo[r]

Nearer(r) ==
  \/ CallsLeft[pc'[r]] < CallsLeft[pc[r]]
  \/ pc'[r] = pc[r] /\ Len(rest'[r]) < Len(rest[r])
  \/ pc'[r] = pc[r] /\ rest'[r] = rest[r] /\ CertManagerNearer(r)

(* Why a command ends whatever the others do and however large the         *)
(* manifests are: each of its steps leaves it fewer calls to make, or      *)
(* fewer resources to visit, or less to do for cert-manager.  Nothing is   *)
(* tried again (operator_install.go:61-90, operator_uninstall.go:29-47).   *)
EveryStepIsNearer ==
  [][\A r \in Run : StateOf(r)' # StateOf(r) => Nearer(r)]_vars

(* Every command ends, if only with an error: no run waits for the         *)
(* namespace, for cert-manager's API or for another run for ever           *)
(* (operator_install.go:116-138, operator_uninstall.go:36).                *)
EveryRunEnds == \A r \in Run : pc[r] # "idle" ~> pc[r] = "done"

-----------------------------------------------------------------------------
(* What the program says of itself and does not keep.                      *)

(* operator_uninstall.go:23, "The uninstall subcommand uninstalls the      *)
(* milvus operator controller in the cluster": what the last install that  *)
(* reported success has created is gone when uninstall, without -f, is     *)
(* through.  The record names only the first -f file of that install.      *)
UninstallsTheOperator ==
  Serial =>
    \A r \in Run : pc[r] = "forget" /\ cmd[r].files = <<>> =>
      \A q \in Run : Installed(q) => Everything(files[q]) \cap objs = {}

=============================================================================
