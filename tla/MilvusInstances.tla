---------------------------- MODULE MilvusInstances ----------------------------
(***************************************************************************)
(* The commands create, update and delete, as processes that race on the   *)
(* Milvus and MilvusCluster resources of one namespace.  Every invocation  *)
(* is a short program of API calls: what it computes between two calls     *)
(* happens with the call before it, and anything may happen between.       *)
(*                                                                         *)
(* The API server, the operator's controller and the kubectl commands      *)
(* behind -f are not in this repository; they are modelled by the part of  *)
(* their behaviour the commands rely on, at the end of the first half.     *)
(***************************************************************************)
EXTENDS MilvusSpecs, Naturals

CONSTANTS
  Run,          \* invocations of milvusctl
  Key,          \* the resources: Milvus and MilvusCluster names
  TheMilvus,    \* the Milvus named "milvus"
  TheCluster,   \* the MilvusCluster named "milvuscluster"
  Type,         \* the values of -t that name a profile
  Profile,      \* deploy/<type>_<mode>.yaml
  Zero,         \* the spec of an object no field of which was set
  Existing,     \* the specs of the resources that are there already
  PvcField,     \* for either target of delete, its PVC deletion fields
  True,         \* what delete --with-deletion stores there
  Command,      \* the command lines that are typed
  NoFile,       \* no -f option
  Absent,       \* no resource of that name
  Nameless,     \* the object a failed Get leaves behind: it has no name
  MaxRevision   \* bounds how often the controller reconciles

Targets == {TheMilvus, TheCluster}

(* "" is the absence of the option -m or -t; any other string is rejected  *)
(* in the same way as "other".                                             *)
Mode == {"", "standalone", "cluster", "other"}

CommandLine ==
  [verb : {"create", "update", "delete"}, key : Key,
   file : Setting \cup {NoFile}, type : Type \cup {"", "other"}, mode : Mode,
   set : Setting, withDeletion : BOOLEAN]

ASSUME ConstantsFit ==
  /\ Targets \subseteq Key /\ TheMilvus # TheCluster
  /\ Profile \in [Type \X {"standalone", "cluster"} -> MilvusSpec]
  /\ Type \cap {"", "other"} = {}
  /\ Zero \in MilvusSpec /\ Existing \subseteq MilvusSpec
  /\ PvcField \in [Targets -> SUBSET Field]
  /\ True \in Value
  /\ Command \subseteq CommandLine
  /\ NoFile \notin Setting
  /\ MaxRevision \in Nat

(* A resource as the API server keeps it; uid tells incarnations of a name *)
(* apart and rv is the resourceVersion of the last write.                  *)
Object == [uid : Nat, rv : Nat, spec : MilvusSpec,
           finalizer : BOOLEAN, terminating : BOOLEAN]

ASSUME MarkersAreNoObjects == Absent \notin Object \cup MilvusSpec /\ Nameless \notin Object

VARIABLES
  store,    \* the API server: the object under each key, or Absent
  rev,      \* the API server: revision of its last write
  pc,       \* per run: the API call it is about to make
  cmd,      \* per run: its command line
  target,   \* per run: the resource it is working on
  seen,     \* per run: the object its last Get filled in
  result,   \* per run: what it reported
  began     \* per delete: rev when it started (history, for the properties)

apiVars == <<store, rev>>
vars == <<store, rev, pc, cmd, target, seen, result, began>>

PC     == {"idle", "get", "create", "update", "patch", "delete", "done"}
Result == {"none", "ok", "exists", "missing", "refused", "failed"}

TypeOK ==
  /\ store \in [Key -> Object \cup {Absent}]
  /\ rev \in Nat
  /\ pc \in [Run -> PC]
  /\ cmd \in [Run -> Command]
  /\ target \in [Run -> Key]
  /\ seen \in [Run -> Object \cup {Nameless}]
  /\ result \in [Run -> Result]
  /\ began \in [Run -> Nat]

(* Some of the resources may exist already, known to the controller or not. *)
Init ==
  /\ store \in [Key -> {[uid |-> 1, rv |-> 1, spec |-> s, finalizer |-> f,
                         terminating |-> FALSE] : s \in Existing, f \in BOOLEAN}
                       \cup {Absent}]
  /\ rev = 1
  /\ pc = [r \in Run |-> "idle"]
  /\ cmd \in [Run -> Command]
  /\ target = [r \in Run |-> TheMilvus]
  /\ seen = [r \in Run |-> Nameless]
  /\ result = [r \in Run |-> "none"]
  /\ began = [r \in Run |-> 0]

-----------------------------------------------------------------------------
(* The API server: the effect of a request it serves.                      *)

Write(k, obj) ==
  /\ store' = [store EXCEPT ![k] = obj]
  /\ rev' = rev + 1

ApiCreate(k, spec) ==
  /\ store[k] = Absent
  /\ Write(k, [uid |-> rev + 1, rv |-> rev + 1, spec |-> spec,
               finalizer |-> FALSE, terminating |-> FALSE])

(* A write that changes nothing leaves the resourceVersion alone.          *)
Replace(k, spec) ==
  IF spec = store[k].spec
  THEN UNCHANGED apiVars
  ELSE Write(k, [store[k] EXCEPT !.spec = spec, !.rv = rev + 1])

(* PUT: only the version that was read may be replaced.                    *)
ApiUpdate(k, obj, spec) ==
  /\ obj # Nameless /\ store[k] # Absent
  /\ store[k].rv = obj.rv
  /\ Replace(k, spec)

(* PATCH: merged into whatever the resource is by now.                     *)
ApiPatch(k, patch) ==
  /\ store[k] # Absent
  /\ Replace(k, Overlay(store[k].spec, patch))

(* DELETE without preconditions: a finalizer keeps the object, marked.     *)
ApiDelete(k) ==
  /\ store[k] # Absent
  /\ IF ~store[k].finalizer
     THEN store' = [store EXCEPT ![k] = Absent] /\ UNCHANGED rev
     ELSE IF store[k].terminating
          THEN UNCHANGED apiVars
          ELSE Write(k, [store[k] EXCEPT !.terminating = TRUE, !.rv = rev + 1])

(* The operator's controller takes up the object: it adds its finalizer    *)
(* and writes the status.                                                  *)
Reconcile(k) ==
  /\ store[k] # Absent /\ rev < MaxRevision
  /\ Write(k, [store[k] EXCEPT !.finalizer = TRUE, !.rv = rev + 1])
  /\ UNCHANGED <<pc, cmd, target, seen, result, began>>

(* The controller has cleaned up after a deleted object.                   *)
Finalize(k) ==
  /\ store[k] # Absent /\ store[k].terminating
  /\ store' = [store EXCEPT ![k] = Absent]
  /\ UNCHANGED <<rev, pc, cmd, target, seen, result, began>>

(* kubectl apply sends the fields of the file that differ from what it     *)
(* read.                                                                   *)
PatchOf(obj, file) ==
  [f \in Field |-> IF file[f] = obj.spec[f] THEN Keep ELSE file[f]]

-----------------------------------------------------------------------------
(* The commands.                                                           *)

(* The process ends; what it held in memory is gone.                       *)
Finish(r, res) ==
  /\ pc' = [pc EXCEPT ![r] = "done"]
  /\ result' = [result EXCEPT ![r] = res]
  /\ seen' = [seen EXCEPT ![r] = Nameless]
  /\ UNCHANGED <<cmd, target, began>>

Goto(r, call, obj) ==
  /\ pc' = [pc EXCEPT ![r] = call]
  /\ seen' = [seen EXCEPT ![r] = obj]
  /\ UNCHANGED <<cmd, target, result, began>>

Working(r, call, verb) == pc[r] = call /\ cmd[r].verb = verb

(* create -f together with -m or -t is refused before anything else.       *)
FileConflict(c) == c.verb = "create" /\ c.file # NoFile /\ (c.mode # "" \/ c.type # "")

(* PreRun, Complete, the parsing of --set and the choice of path in Run;   *)
(* any of them may refuse the command line (bad --set, wrong number of     *)
(* arguments, unreadable file).  create -f posts without looking first.    *)
Start(r) ==
  /\ pc[r] = "idle"
  /\ UNCHANGED apiVars
  /\ \/ Finish(r, "refused")
     \/ /\ ~FileConflict(cmd[r])
        /\ pc' = [pc EXCEPT ![r] =
             IF cmd[r].verb = "create" /\ cmd[r].file # NoFile THEN "create" ELSE "get"]
        /\ target' = [target EXCEPT ![r] =
             IF cmd[r].verb = "delete" THEN TheMilvus ELSE cmd[r].key]
        /\ began' = [began EXCEPT ![r] = IF cmd[r].verb = "delete" THEN rev ELSE 0]
        /\ UNCHANGED <<cmd, seen, result>>

(* newMilvusInstance up to the call of Create: everything but NotFound     *)
(* counts as existing, a failed Get included; then mode, type and --set    *)
(* are looked at, and the profile read, any of which may fail.             *)
HasProfile(c) == c.mode # "other" /\ c.type \in Type

CreateGet(r) ==
  /\ Working(r, "get", "create")
  /\ UNCHANGED apiVars
  /\ \/ Finish(r, "exists")
     \/ /\ store[target[r]] = Absent
        /\ \/ Finish(r, "refused")
           \/ HasProfile(cmd[r]) /\ Goto(r, "create", Nameless)

(* The profile of the type, for a cluster unless the mode is standalone,   *)
(* under the --set options; the resource in the file for create -f.        *)
NewSpec(c) ==
  IF c.file # NoFile
  THEN Overlay(Zero, c.file)
  ELSE Overlay(Profile[<<c.type, IF c.mode = "standalone" THEN c.mode ELSE "cluster">>], c.set)

(* Every call may also fail: the server was not reached or said no (the    *)
(* object exists, is gone, has changed), or it did its part and the answer *)
(* was lost.  Either way the command gives up.                             *)
Create(r) ==
  /\ Working(r, "create", "create")
  /\ \/ ApiCreate(target[r], NewSpec(cmd[r])) /\ \E res \in {"ok", "failed"} : Finish(r, res)
     \/ UNCHANGED apiVars /\ Finish(r, "failed")

(* Mutant: a NotFound is not looked for. *)
UpdateGetUnchecked(r) ==
  /\ Working(r, "get", "update") /\ cmd[r].file = NoFile
  /\ UNCHANGED apiVars
  /\ Goto(r, "update", store[target[r]])

(* updateMilvusInstance up to the call of Update; of the ways Get can fail *)
(* it looks at NotFound only.  The overlay may fail (an unknown key, a     *)
(* value of the wrong type).                                               *)
UpdateGet(r) ==
  /\ Working(r, "get", "update") /\ cmd[r].file = NoFile
  /\ UNCHANGED apiVars
  /\ \/ store[target[r]] = Absent /\ Finish(r, "missing")
     \/ store[target[r]] # Absent /\ Goto(r, "update", store[target[r]])
     \/ Goto(r, "update", Nameless)
     \/ Finish(r, "refused")

(* Mutant: the update is sent without the version that was read. *)
UpdateUnversioned(r) ==
  /\ Working(r, "update", "update")
  /\ seen[r] # Nameless /\ store[target[r]] # Absent
  /\ Replace(target[r], Overlay(seen[r].spec, cmd[r].set))
  /\ Finish(r, "ok")

Update(r) ==
  /\ Working(r, "update", "update")
  /\ \/ /\ seen[r] # Nameless
        /\ ApiUpdate(target[r], seen[r], Overlay(seen[r].spec, cmd[r].set))
        /\ \E res \in {"ok", "failed"} : Finish(r, res)
     \/ UNCHANGED apiVars /\ Finish(r, "failed")

(* update -f: kubectl apply reads, then creates or patches.                *)
ApplyGet(r) ==
  /\ Working(r, "get", "update") /\ cmd[r].file # NoFile
  /\ UNCHANGED apiVars
  /\ \/ store[target[r]] = Absent /\ Goto(r, "create", Nameless)
     \/ store[target[r]] # Absent /\ Goto(r, "patch", store[target[r]])
     \/ Finish(r, "failed")

ApplyWrite(r) ==
  /\ \/ /\ Working(r, "create", "update")
        /\ ApiCreate(target[r], NewSpec(cmd[r]))
        /\ \E res \in {"ok", "failed"} : Finish(r, res)
     \/ /\ Working(r, "patch", "update")
        /\ ApiPatch(target[r], PatchOf(seen[r], cmd[r].file))
        /\ \E res \in {"ok", "failed"} : Finish(r, res)
     \/ /\ Working(r, "create", "update") \/ Working(r, "patch", "update")
        /\ UNCHANGED apiVars
        /\ Finish(r, "failed")

(* Mutant: the MilvusCluster is forgotten. *)
NextTargetNone(r) == Finish(r, "ok")

(* Run: deleteMilvus is followed by deleteMilvusCluster.                   *)
NextTarget(r) ==
  IF target[r] = TheMilvus
  THEN /\ target' = [target EXCEPT ![r] = TheCluster]
       /\ pc' = [pc EXCEPT ![r] = "get"]
       /\ seen' = [seen EXCEPT ![r] = Nameless]
       /\ UNCHANGED <<cmd, result, began>>
  ELSE Finish(r, "ok")

(* Any other error than NotFound goes unnoticed and leaves a nameless      *)
(* object.  With --with-deletion, an object without the in-cluster         *)
(* sections the flags live in ends the process (a nil pointer).            *)
DeleteGet(r) ==
  LET call == IF cmd[r].withDeletion THEN "update" ELSE "delete" IN
  /\ Working(r, "get", "delete")
  /\ UNCHANGED apiVars
  /\ \/ store[target[r]] = Absent /\ NextTarget(r)
     \/ store[target[r]] # Absent /\ Goto(r, call, store[target[r]])
     \/ ~cmd[r].withDeletion /\ Goto(r, call, Nameless)
     \/ cmd[r].withDeletion /\ Finish(r, "failed")

(* Mutant: the flags of the MilvusCluster are forgotten. *)
PvcMarkMilvus(k) ==
  [f \in Field |-> IF k = TheMilvus /\ f \in PvcField[k] THEN True ELSE Keep]

PvcMark(k) == [f \in Field |-> IF f \in PvcField[k] THEN True ELSE Keep]

(* Mutant: the error of the update is not looked at. *)
DeleteMarkAnyway(r) ==
  /\ Working(r, "update", "delete")
  /\ \/ ApiUpdate(target[r], seen[r], Overlay(seen[r].spec, PvcMark(target[r])))
     \/ UNCHANGED apiVars
  /\ Goto(r, "delete", seen[r])

DeleteMark(r) ==
  /\ Working(r, "update", "delete")
  /\ \/ /\ ApiUpdate(target[r], seen[r], Overlay(seen[r].spec, PvcMark(target[r])))
        /\ Goto(r, "delete", seen[r]) \/ Finish(r, "failed")
     \/ UNCHANGED apiVars /\ Finish(r, "failed")

(* Mutant: the error of the DELETE is not looked at. *)
DeleteUnchecked(r) ==
  /\ Working(r, "delete", "delete")
  /\ \/ /\ seen[r] # Nameless
        /\ ApiDelete(target[r])
        /\ NextTarget(r) \/ Finish(r, "failed")
     \/ UNCHANGED apiVars /\ NextTarget(r)

Delete(r) ==
  /\ Working(r, "delete", "delete")
  /\ \/ /\ seen[r] # Nameless
        /\ ApiDelete(target[r])
        /\ NextTarget(r) \/ Finish(r, "failed")
     \/ UNCHANGED apiVars /\ Finish(r, "failed")

(* The process is interrupted.                                             *)
Kill(r) ==
  /\ pc[r] \notin {"idle", "done"}
  /\ UNCHANGED apiVars
  /\ Finish(r, "failed")

RunNext(r) ==
  \/ Start(r) \/ Kill(r)
  \/ CreateGet(r) \/ Create(r)
  \/ UpdateGet(r) \/ Update(r) \/ ApplyGet(r) \/ ApplyWrite(r)
  \/ DeleteGet(r) \/ DeleteMark(r) \/ Delete(r)

Next ==
  \/ \E r \in Run : RunNext(r)
  \/ \E k \in Key : Reconcile(k) \/ Finalize(k)

Spec == Init /\ [][Next]_vars

-----------------------------------------------------------------------------
(* Properties.                                                             *)

(* The command lines that may bring a resource into being. *)
Creates(c) ==
  \/ c.verb = "create" /\ (c.file # NoFile \/ HasProfile(c))
  \/ c.verb = "update" /\ c.file # NoFile

PartOf(file) == {p \in Setting : \A f \in Field : p[f] \in {Keep, file[f]}}

(* What a command line asks for, resource by resource: the specs that may  *)
(* be created, the settings that may be applied, what is to be removed.    *)
Orders ==
  [c \in Command |-> [k \in Key |-> IF k = c.key /\ Creates(c) THEN {NewSpec(c)} ELSE {}]]

Changes ==
  [c \in Command |-> [k \in Key |->
     CASE c.verb = "update" /\ k = c.key -> IF c.file = NoFile THEN {c.set} ELSE PartOf(c.file)
       [] c.verb = "delete" /\ k \in Targets /\ c.withDeletion -> {PvcMark(k)}
       [] OTHER -> {}]]

Removals == [c \in Command |-> IF c.verb = "delete" THEN Targets ELSE {}]

(* What anybody asks for. *)
Ordered == [k \in Key |-> UNION {Orders[c][k] : c \in Command}]
Change  == [k \in Key |-> UNION {Changes[c][k] : c \in Command}]

Registered == [k \in Key |-> IF store[k] = Absent THEN Absent ELSE store[k].spec]

Registry == INSTANCE MilvusRegistry WITH instances <- Registered

(* However the commands interleave with each other and with the            *)
(* controller, what they read being stale by the time they write, the      *)
(* resources change as if every write were one atomic request of some      *)
(* user: no update undoes another one's setting (update.go:146-158), and   *)
(* no create replaces what another one made (create.go:137-204).           *)
ImplementsRegistry == Registry!Spec

Answers ==
  [r \in Run |-> CASE pc[r] = "idle" -> "new"
                   [] pc[r] = "done" -> result[r]
                   [] OTHER -> "open"]

Going == {k \in Key : store[k] # Absent /\ store[k].terminating}

(* delete takes the MilvusCluster when it is through with the Milvus. *)
Dealt ==
  [r \in Run |-> IF cmd[r].verb # "delete" THEN {}
                 ELSE IF result[r] = "ok" THEN Targets
                 ELSE IF target[r] = TheCluster THEN {TheMilvus} ELSE {}]

Requests == INSTANCE MilvusRequests WITH
  instances <- Registered, doomed <- Going,
  Request <- Command, request <- cmd, answer <- Answers, dealt <- Dealt

(* To each user the command is one atomic request, although it is several  *)
(* calls and others work in between: it changes what the line asks for, at *)
(* one moment between its start and its answer, with success only if it    *)
(* did, and never after it has given up; and a delete answers with         *)
(* success when it has dealt with both resources (create.go:137-204,       *)
(* update.go:146-158, delete.go:52-81).                                    *)
ImplementsRequests == Requests!Spec

(* Part of the inductive invariant: every object was written at a revision *)
(* of the past, and a resource that still has the revision a run read is   *)
(* the object it read.                                                     *)
RevisionsIdentifyObjects ==
  /\ \A k \in Key : store[k] # Absent => store[k].uid <= store[k].rv /\ store[k].rv <= rev
  /\ \A r \in Run :
       /\ began[r] <= rev
       /\ seen[r] # Nameless =>
            /\ seen[r].uid <= rev /\ seen[r].rv <= rev
            /\ LET obj == store[target[r]] IN
               obj # Absent /\ obj.rv = seen[r].rv => obj = seen[r]

(* Gone, or going, or only here since the run r began. *)
Gone(r, k) == store[k] = Absent \/ store[k].terminating \/ store[k].uid > began[r]

(* A delete that reports success has left neither of the two resources it  *)
(* is about as it found them, whatever was created, updated or reconciled  *)
(* while it worked; what is there now was created later (delete.go:52-61). *)
DeleteLeavesNothing ==
  \A r \in Run : cmd[r].verb = "delete" /\ result[r] = "ok" =>
    \A k \in Targets : Gone(r, k)

(* How far a run is: what it knows of its command line by the time it      *)
(* writes, the resource it works on, and, for a delete, that the Milvus    *)
(* was dealt with before the MilvusCluster, and both before it reports     *)
(* success.                                                                *)
RightCall ==
  \A r \in Run :
    /\ pc[r] = "create" => Creates(cmd[r])
    /\ pc[r] = "patch" => /\ cmd[r].verb = "update" /\ cmd[r].file # NoFile
                          /\ seen[r] # Nameless
    /\ pc[r] = "update" /\ cmd[r].verb = "update" => cmd[r].file = NoFile
    /\ pc[r] = "update" /\ cmd[r].verb = "delete" => cmd[r].withDeletion
    /\ pc[r] \notin {"idle", "done"} /\ cmd[r].verb # "delete" => target[r] = cmd[r].key

DeleteProgress ==
  \A r \in Run :
    /\ result[r] = "ok" => pc[r] = "done"
    /\ pc[r] = "idle" => target[r] = TheMilvus /\ seen[r] = Nameless
    /\ cmd[r].verb = "delete" =>
         /\ target[r] \in Targets
         /\ target[r] = TheCluster => Gone(r, TheMilvus)
         /\ result[r] = "ok" => \A k \in Targets : Gone(r, k)

(* No setting that is typed touches the PVC deletion flags. *)
PvcLeftToDelete ==
  \A c \in Command : \A k \in Targets : \A f \in PvcField[k] :
    c.set[f] = Keep /\ (c.file # NoFile => c.file[f] = Keep)

(* When delete --with-deletion is about to send its DELETE, the resource   *)
(* it read carries the PVC deletion flags, although another command or the *)
(* controller may have written it since (delete.go:72-81), provided nobody *)
(* changes these flags by hand.                                            *)
MarkedBeforeDelete ==
  PvcLeftToDelete =>
    \A r \in Run :
      LET obj == store[target[r]] IN
      (/\ pc[r] = "delete" /\ cmd[r].withDeletion /\ seen[r] # Nameless
       /\ obj # Absent /\ obj.uid = seen[r].uid)
      => \A f \in PvcField[target[r]] : obj.spec[f] = True

(* r is the only delete that is typed. *)
LoneDelete(r) ==
  /\ cmd[r].verb = "delete" /\ cmd[r].withDeletion
  /\ \A q \in Run \ {r} : cmd[q].verb # "delete"

(* The volume claims go with the instance: whatever a delete               *)
(* --with-deletion removes, or is about to, carries the PVC deletion flags *)
(* (delete.go:72-81), whoever writes it before or after.  The DELETE is    *)
(* sent by name, so this needs that no other delete is typed: another one  *)
(* may have removed what was marked, and what is there now be another      *)
(* object, without the flags.                                              *)
LoneDeleteMarks ==
  PvcLeftToDelete =>
    \A r \in Run : LoneDelete(r) =>
      \A k \in Targets :
        store[k] # Absent /\ (store[k].terminating \/ (pc[r] = "delete" /\ target[r] = k))
        => \A f \in PvcField[k] : store[k].spec[f] = True

=============================================================================
