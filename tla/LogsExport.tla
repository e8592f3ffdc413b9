------------------------------- MODULE LogsExport -------------------------------
(***************************************************************************)
(* milvusctl logs milvus/<instance>: the logs of the pods of an instance   *)
(* and of what it depends on are written to files of one directory, which  *)
(* is then packed into an archive beside it.  All commands here are about  *)
(* the same instance and the same --dir, and nobody types one while        *)
(* another one runs; but each may fail or stop anywhere, and the next one  *)
(* finds what it has left.  Only pods of the namespace "default" are ever  *)
(* listed: Complete sets o.Namespace in a copy of the options.             *)
(***************************************************************************)
EXTENDS Naturals, FiniteSets

CONSTANTS
  Run,         \* invocations of milvusctl
  Pod,         \* the pods of the instance and of what it depends on
  Component,   \* the milvus components
  Dependence,  \* etcd, pulsar, kafka and minio
  PodsOf,      \* for every component and dependence, its pods
  Order,       \* of every dependence, when its turn comes
  Milvus,      \* the group of all components
  Command,     \* the command lines that are typed
  NoPod        \* no file is open

(* What is asked for: "instance" for milvus/<name>; otherwise the logs of  *)
(* one pod, by a name of at least 7 bytes or by a shorter one.             *)
CommandLine ==
  [form : {"instance", "pod", "shortPod"}, all : BOOLEAN,
   component : Component \cup {"all", "other"}, deps : SUBSET Dependence]

ASSUME ConstantsFit ==
  /\ Milvus \notin Dependence /\ {"all", "other"} \cap Component = {}
  /\ Component \cap Dependence = {}
  /\ PodsOf \in [Component \cup Dependence -> SUBSET Pod]
  /\ \A d \in Dependence : \A g \in (Component \cup Dependence) \ {d} :
       PodsOf[d] \cap PodsOf[g] = {}
  /\ Order \in [Dependence -> Nat]
  /\ Command \subseteq CommandLine
  /\ NoPod \notin Pod

VARIABLES
  dir,      \* the directory of the instance is there
  log,      \* in it, per pod: how much of its log
  archive,  \* the archive beside it, and per pod what is in it
  pc,       \* per run: what it does next
  cmd,      \* per run: its command line
  groups,   \* per run: the groups of pods it has yet to list
  left,     \* per run: pods of the group it has yet to save; files to pack
  open,     \* per run: the pod whose log it is writing
  listed,   \* per run: the pods it was told of (history)
  result    \* per run: how it ended

diskVars == <<dir, log, archive>>
runVars  == <<pc, cmd, groups, left, open, listed, result>>
vars     == <<diskVars, runVars>>

Content   == {"none", "partial", "whole"}
NoLogs    == [p \in Pod |-> "none"]
NoArchive == [state |-> "none", entry |-> NoLogs]
PC == {"idle", "mkdir", "list", "save", "zip", "pack", "done"}

TypeOK ==
  /\ dir \in BOOLEAN /\ log \in [Pod -> Content]
  /\ archive \in [state : {"none", "broken", "closed"}, entry : [Pod -> Content]]
  /\ pc \in [Run -> PC] /\ cmd \in [Run -> Command]
  /\ groups \in [Run -> SUBSET (Dependence \cup {Milvus})]
  /\ left \in [Run -> SUBSET Pod] /\ listed \in [Run -> SUBSET Pod]
  /\ open \in [Run -> Pod \cup {NoPod}]
  /\ result \in [Run -> {"none", "ok", "failed", "crashed"}]
  /\ ~dir => log = NoLogs
  /\ \A r \in Run : /\ open[r] # NoPod => pc[r] = "save" /\ log[open[r]] # "none"
                    /\ pc[r] = "save" => left[r] \subseteq listed[r]

(* No directory, one that an earlier export has left, or one emptied.      *)
Init ==
  /\ dir \in BOOLEAN /\ log = NoLogs
  /\ archive = NoArchive
  /\ pc = [r \in Run |-> "idle"] /\ cmd \in [Run -> Command]
  /\ groups = [r \in Run |-> {}]
  /\ left = [r \in Run |-> {}] /\ open = [r \in Run |-> NoPod]
  /\ listed = [r \in Run |-> {}] /\ result = [r \in Run |-> "none"]

-----------------------------------------------------------------------------
(* CheckErr, or the end of Run; open files are closed as they are.         *)
Finish(r, res) ==
  /\ pc' = [pc EXCEPT ![r] = "done"]
  /\ result' = [result EXCEPT ![r] = res]
  /\ left' = [left EXCEPT ![r] = {}] /\ open' = [open EXCEPT ![r] = NoPod]
  /\ UNCHANGED <<cmd, groups, listed>>

Goto(r, p, pods) ==
  /\ pc' = [pc EXCEPT ![r] = p]
  /\ left' = [left EXCEPT ![r] = pods]
  /\ open' = [open EXCEPT ![r] = NoPod]
  /\ UNCHANGED <<cmd, result>>

(* The next group; what is left of this one is not saved.                  *)
NextGroup(r) == Goto(r, "list", {}) /\ UNCHANGED <<groups, listed>>

Quiet == \A r \in Run : pc[r] \in {"idle", "done"}

(* Run decides by the first 7 bytes of the argument, which a short one     *)
(* does not have.  The logs of a pod are kubectl's business.               *)
Pods(r) ==
  /\ pc[r] = "idle" /\ Quiet
  /\ \/ cmd[r].form = "pod" /\ \E res \in {"ok", "failed"} : Finish(r, res)
     \/ cmd[r].form = "shortPod" /\ Finish(r, "crashed")
  /\ UNCHANGED diskVars

(* Mutant: a directory that is there is used. *)
CompleteAnyway(r) ==
  /\ pc[r] = "idle" /\ Quiet /\ cmd[r].form = "instance"
  /\ \/ Goto(r, "mkdir", {}) /\ UNCHANGED <<groups, listed>>
     \/ Finish(r, "failed")
  /\ UNCHANGED diskVars

(* Complete: only a directory that is not there will do; other reasons to  *)
(* refuse are a --dir that is a file, and no namespace.                    *)
Complete(r) ==
  /\ pc[r] = "idle" /\ Quiet /\ cmd[r].form = "instance"
  /\ \/ ~dir /\ Goto(r, "mkdir", {}) /\ UNCHANGED <<groups, listed>>
     \/ Finish(r, "failed")
  /\ UNCHANGED diskVars

Chosen(c) == {Milvus} \cup IF c.all THEN Dependence ELSE c.deps

(* MkdirAll; then Validate, which may find a conflict, after which the     *)
(* directory stays; and the start of RunLogs.                              *)
Mkdir(r) ==
  /\ pc[r] = "mkdir"
  /\ \/ /\ dir' = TRUE
        /\ IF cmd[r].all /\ cmd[r].component # "all"
           THEN Finish(r, "failed")
           ELSE /\ Goto(r, "list", {})
                /\ groups' = [groups EXCEPT ![r] = Chosen(cmd[r])]
                /\ UNCHANGED listed
     \/ Finish(r, "failed") /\ UNCHANGED dir
  /\ UNCHANGED <<log, archive>>

(* SaveMilvusComLogs and its like: the label of the group, or of the one   *)
(* component, selects the pods.                                            *)
PodsOfGroup(g) ==
  IF g = Milvus THEN UNION {PodsOf[m] : m \in Component} ELSE PodsOf[g]

Selected(c, g) ==
  IF g # Milvus \/ c.component = "all" THEN PodsOfGroup(g) ELSE PodsOf[c.component]

(* The milvus components come first, then the dependences in their order.  *)
Turn(g, gs) ==
  \/ g = Milvus
  \/ Milvus \notin gs /\ \A h \in gs : Order[g] <= Order[h]

(* GetObjRequest: those of the pods that are there.  When it fails, or     *)
(* there is no such component, the group is left out.                      *)
List(r) ==
  /\ pc[r] = "list"
  /\ \E g \in groups[r] :
       /\ Turn(g, groups[r])
       /\ groups' = [groups EXCEPT ![r] = @ \ {g}]
       /\ \/ Goto(r, "list", {}) /\ UNCHANGED listed
          \/ /\ g = Milvus => cmd[r].component # "other"
             /\ \E found \in SUBSET Selected(cmd[r], g) :
                  Goto(r, "save", found) /\ listed' = [listed EXCEPT ![r] = @ \cup found]
  /\ UNCHANGED diskVars

(* writeLogs goes through a Go map: the pods come in any order.  The file  *)
(* is created, or emptied; an error ends the group.                        *)
OpenLog(r) ==
  /\ pc[r] = "save" /\ open[r] = NoPod
  /\ \/ NextGroup(r) /\ UNCHANGED log   \* none is left, or the file was not created
     \/ \E p \in left[r] :
          /\ dir
          /\ log' = [log EXCEPT ![p] = "partial"]
          /\ open' = [open EXCEPT ![r] = p]
          /\ left' = [left EXCEPT ![r] = @ \ {p}]
          /\ UNCHANGED <<pc, cmd, groups, listed, result>>
  /\ UNCHANGED <<dir, archive>>

(* Mutant: the file is not closed when the request breaks off. *)
CopyLogLeak(r) ==
  /\ pc[r] = "save" /\ open[r] # NoPod
  /\ \/ /\ log' = [log EXCEPT ![open[r]] = "whole"]
        /\ open' = [open EXCEPT ![r] = NoPod]
        /\ UNCHANGED <<pc, cmd, groups, left, listed, result>>
     \/ /\ pc' = [pc EXCEPT ![r] = "list"] /\ left' = [left EXCEPT ![r] = {}]
        /\ UNCHANGED <<cmd, groups, open, listed, result, log>>
  /\ UNCHANGED <<dir, archive>>

(* Mutant: an error is printed, and the group goes on. *)
CopyLogOn(r) ==
  /\ pc[r] = "save" /\ open[r] # NoPod
  /\ \/ log' = [log EXCEPT ![open[r]] = "whole"]
     \/ UNCHANGED log
  /\ open' = [open EXCEPT ![r] = NoPod]
  /\ UNCHANGED <<pc, cmd, groups, left, listed, result, dir, archive>>

(* DefaultConsumeRequest: the log is copied up to its end, or the request  *)
(* breaks off, which ends the group.                                       *)
CopyLog(r) ==
  /\ pc[r] = "save" /\ open[r] # NoPod
  /\ \/ /\ log' = [log EXCEPT ![open[r]] = "whole"]
        /\ open' = [open EXCEPT ![r] = NoPod]
        /\ UNCHANGED <<pc, cmd, groups, left, listed, result>>
     \/ NextGroup(r) /\ UNCHANGED log
  /\ UNCHANGED <<dir, archive>>

(* Mutant: one that is there is written again. *)
ZipCheckNot(r) ==
  /\ pc[r] = "list" /\ groups[r] = {}
  /\ Goto(r, "zip", {}) /\ UNCHANGED <<groups, listed>>
  /\ UNCHANGED diskVars

(* Zip: an archive that is there stays.                                    *)
ZipCheck(r) ==
  /\ pc[r] = "list" /\ groups[r] = {}
  /\ IF archive.state # "none"
     THEN Finish(r, "failed")
     ELSE Goto(r, "zip", {}) /\ UNCHANGED <<groups, listed>>
  /\ UNCHANGED diskVars

(* The archive is created, or emptied, and Walk lists the directory; that  *)
(* it could not be created is not noticed.                                 *)
ZipCreate(r) ==
  /\ pc[r] = "zip"
  /\ Goto(r, "pack", {p \in Pod : log[p] # "none"}) /\ UNCHANGED <<groups, listed>>
  /\ archive' \in {archive, [state |-> "broken", entry |-> NoLogs]}
  /\ UNCHANGED <<dir, log>>

(* One file is packed, if it can be read; when all are, the archive is     *)
(* closed, which makes it readable.  No error is noticed, but after one of *)
(* writing there is no writer for the next file, which is a panic.         *)
ZipPack(r) ==
  /\ pc[r] = "pack"
  /\ \/ \E p \in left[r] :
          /\ left' = [left EXCEPT ![r] = @ \ {p}]
          /\ archive' \in IF archive.state = "none" THEN {archive}
                          ELSE {[archive EXCEPT !.entry[p] = w] : w \in {log[p], "partial"}}
          /\ UNCHANGED <<pc, cmd, groups, open, listed, result>>
     \/ left[r] # {} /\ Finish(r, "crashed") /\ UNCHANGED archive
     \/ /\ left[r] = {}
        /\ archive' \in IF archive.state = "none" THEN {archive}
                        ELSE {archive, [archive EXCEPT !.state = "closed"]}
        /\ Finish(r, "ok")
  /\ UNCHANGED <<dir, log>>

(* The process is interrupted. *)
Kill(r) ==
  /\ pc[r] \notin {"idle", "done"}
  /\ Finish(r, "failed")
  /\ UNCHANGED diskVars

(* The user follows the advice to remove the directory. *)
RemoveDir ==
  /\ Quiet /\ dir
  /\ dir' = FALSE /\ log' = NoLogs
  /\ UNCHANGED <<archive, runVars>>

Next ==
  \/ \E r \in Run :
       \/ Pods(r) \/ Complete(r) \/ Mkdir(r) \/ List(r) \/ OpenLog(r) \/ CopyLog(r)
       \/ ZipCheck(r) \/ ZipCreate(r) \/ ZipPack(r) \/ Kill(r)
  \/ RemoveDir

Spec == Init /\ [][Next]_vars

-----------------------------------------------------------------------------
(* A group of pods is exported up to the first failure (logs.go:295-302):  *)
(* whatever broke off, was killed or was tried again after the directory   *)
(* was removed, at most one log of a group is cut short.                   *)
OneFailureEndsTheGroup ==
  \A g \in Dependence \cup {Milvus} :
    Cardinality({p \in PodsOfGroup(g) : log[p] = "partial"}) <= 1

(* An archive is of one export (logs.go:143-161, 398-436): its entries     *)
(* are all from what one run was told of, and none of the files that       *)
(* another, interrupted one has left.                                      *)
ArchiveOfOneExport ==
  archive.state # "none" =>
    \E r \in Run : /\ pc[r] \in {"pack", "done"}
                   /\ {p \in Pod : archive.entry[p] # "none"} \subseteq listed[r]

(* An archive that was closed stays as it is, whatever is run after the    *)
(* export, and in whatever state that finds the directory (logs.go:399-    *)
(* 401).  This is about exports typed one after another, as all of this    *)
(* module is: of two that overlap both may find no archive, and the second *)
(* to create one empties the first one's.                                  *)
ArchiveIsKept ==
  [][archive.state = "closed" => UNCHANGED archive]_vars

-----------------------------------------------------------------------------
(* What the program says of itself and does not keep.                      *)

(* logs.go:124, "Specify if saved all the logs of Milvus and dependences": *)
(* an export of all that ends without an error, and closes its archive,    *)
(* has not packed a log that was cut short.  The errors of writeLogs are   *)
(* only printed, and Zip takes the files as they are.                      *)
AllIsExported ==
  \A r \in Run : cmd[r].all /\ result[r] = "ok" /\ archive.state = "closed" =>
    \A p \in listed[r] : log[p] = "partial" => archive.entry[p] = "none"

=============================================================================
