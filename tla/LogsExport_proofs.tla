-------------------------- MODULE LogsExport_proofs --------------------------
(***************************************************************************)
(* Proofs about LogsExport, for any number of exports one after the other, *)
(* any pods and any command lines.  An export is alone while it runs, and  *)
(* it begins with no directory; so what is in the directory is its own,    *)
(* and the test for the archive holds until the archive is closed.         *)
(***************************************************************************)
EXTENDS LogsExport, FiniteSetTheorems, TLAPS

Active(r) == pc[r] \notin {"idle", "done"}

StepOf(r) ==
  \/ Pods(r) \/ Complete(r) \/ Mkdir(r) \/ List(r) \/ OpenLog(r) \/ CopyLog(r)
  \/ ZipCheck(r) \/ ZipCreate(r) \/ ZipPack(r) \/ Kill(r)

(* The groups, and the pods of a group, are what the constants say.        *)
LEMMA SelectedArePods ==
  ASSUME NEW c \in Command, NEW g \in Dependence \cup {Milvus},
         g = Milvus => c.component # "other"
  PROVE  Selected(c, g) \subseteq PodsOfGroup(g) /\ PodsOfGroup(g) \subseteq Pod
<1>1. c.component \in Component \cup {"all", "other"}
  BY ConstantsFit DEF CommandLine
<1>2. \A d \in Component \cup Dependence : PodsOf[d] \subseteq Pod
  BY ConstantsFit
<1> QED
  BY <1>1, <1>2 DEF Selected, PodsOfGroup

(* The same pod is not in two groups. *)
LEMMA GroupsDiffer ==
  ASSUME NEW g \in Dependence \cup {Milvus}, NEW h \in Dependence \cup {Milvus}, g # h
  PROVE  PodsOfGroup(g) \cap PodsOfGroup(h) = {}
<1>1. CASE g = Milvus \/ h = Milvus
  BY <1>1, ConstantsFit DEF PodsOfGroup
<1>2. CASE g # Milvus /\ h # Milvus
  BY <1>2, ConstantsFit DEF PodsOfGroup
<1> QED
  BY <1>1, <1>2

LEMMA ChosenAreGroups ==
  ASSUME NEW c \in Command
  PROVE  Chosen(c) \subseteq Dependence \cup {Milvus}
  BY ConstantsFit DEF CommandLine, Chosen

-----------------------------------------------------------------------------
(* Types.                                                                  *)

(* A run that takes a step is running, or nobody is and it begins; and it  *)
(* changes no other run's state.                                           *)
LEMMA StepOfOneRun ==
  ASSUME TypeOK, NEW r \in Run, StepOf(r)
  PROVE  /\ \A q \in Run \ {r} : /\ pc'[q] = pc[q] /\ left'[q] = left[q]
                                 /\ open'[q] = open[q] /\ listed'[q] = listed[q]
         /\ pc' \in [Run -> PC] /\ cmd' \in [Run -> Command]
         /\ groups' \in [Run -> SUBSET (Dependence \cup {Milvus})]
         /\ left' \in [Run -> SUBSET Pod] /\ listed' \in [Run -> SUBSET Pod]
         /\ open' \in [Run -> Pod \cup {NoPod}]
         /\ result' \in [Run -> {"none", "ok", "failed", "crashed"}]
         /\ listed[r] \subseteq listed'[r]
         /\ Active(r) \/ Quiet
         /\ pc[r] # "done"
<1>1. CASE Pods(r) \/ Complete(r) \/ Kill(r)
  BY <1>1 DEF TypeOK, PC, Pods, Complete, Kill, Finish, Goto, Active, Quiet
<1>2. CASE Mkdir(r)
  <2>1. Chosen(cmd[r]) \subseteq Dependence \cup {Milvus}
    BY ChosenAreGroups DEF TypeOK
  <2> QED
    BY <1>2, <2>1 DEF TypeOK, PC, Mkdir, Finish, Goto, Active
<1>3. CASE List(r)
  <2>1. PICK g \in groups[r] :
          /\ groups' = [groups EXCEPT ![r] = @ \ {g}]
          /\ \/ Goto(r, "list", {}) /\ UNCHANGED listed
             \/ /\ g = Milvus => cmd[r].component # "other"
                /\ \E found \in SUBSET Selected(cmd[r], g) :
                     Goto(r, "save", found) /\ listed' = [listed EXCEPT ![r] = @ \cup found]
    BY <1>3 DEF List
  <2>2. g \in Dependence \cup {Milvus} /\ cmd[r] \in Command
    BY DEF TypeOK
  <2>3. CASE Goto(r, "list", {}) /\ UNCHANGED listed
    BY <1>3, <2>1, <2>3 DEF TypeOK, PC, List, Goto, Active
  <2>4. CASE \E found \in SUBSET Selected(cmd[r], g) :
               /\ g = Milvus => cmd[r].component # "other"
               /\ Goto(r, "save", found) /\ listed' = [listed EXCEPT ![r] = @ \cup found]
    <3>1. PICK found \in SUBSET Selected(cmd[r], g) :
            /\ g = Milvus => cmd[r].component # "other"
            /\ Goto(r, "save", found) /\ listed' = [listed EXCEPT ![r] = @ \cup found]
      BY <2>4
    <3>2. found \subseteq Pod
      BY <2>2, <3>1, SelectedArePods
    <3> QED
      BY <1>3, <2>1, <3>1, <3>2 DEF TypeOK, PC, List, Goto, Active
  <2> QED
    BY <2>1, <2>3, <2>4
<1>4. CASE OpenLog(r) \/ CopyLog(r)
  BY <1>4 DEF TypeOK, PC, OpenLog, CopyLog, NextGroup, Goto, Active
<1>5. CASE ZipCheck(r) \/ ZipCreate(r) \/ ZipPack(r)
  BY <1>5 DEF TypeOK, PC, ZipCheck, ZipCreate, ZipPack, Finish, Goto, Active
<1> QED
  BY <1>1, <1>2, <1>3, <1>4, <1>5 DEF StepOf

LEMMA TypeInit == Init => TypeOK
  BY DEF Init, TypeOK, NoLogs, NoArchive, Content, PC

LEMMA TypeNext == TypeOK /\ [Next]_vars => TypeOK'
<1> SUFFICES ASSUME TypeOK, [Next]_vars PROVE TypeOK'
  OBVIOUS
<1>1. CASE UNCHANGED vars
  BY <1>1 DEF TypeOK, vars, diskVars, runVars
<1>2. CASE RemoveDir
  BY <1>2 DEF RemoveDir, TypeOK, runVars, Quiet, NoLogs, Content
<1>3. ASSUME NEW r \in Run, StepOf(r) PROVE TypeOK'
  <2>1. /\ \A q \in Run \ {r} : /\ pc'[q] = pc[q] /\ left'[q] = left[q]
                                /\ open'[q] = open[q] /\ listed'[q] = listed[q]
        /\ pc' \in [Run -> PC] /\ cmd' \in [Run -> Command]
        /\ groups' \in [Run -> SUBSET (Dependence \cup {Milvus})]
        /\ left' \in [Run -> SUBSET Pod] /\ listed' \in [Run -> SUBSET Pod]
        /\ open' \in [Run -> Pod \cup {NoPod}]
        /\ result' \in [Run -> {"none", "ok", "failed", "crashed"}]
    BY <1>3, StepOfOneRun
  \* The directory, and the logs in it, which no step removes.
  <2>2. /\ dir' \in BOOLEAN /\ log' \in [Pod -> Content]
        /\ ~dir' => log' = NoLogs
        /\ \A p \in Pod : log[p] # "none" => log'[p] # "none"
    <3>1. CASE OpenLog(r)
      BY <3>1 DEF OpenLog, TypeOK, Content
    <3>2. CASE CopyLog(r)
      <4>1. open[r] \in Pod /\ log[open[r]] # "none"
        BY <3>2 DEF CopyLog, TypeOK
      <4> QED
        BY <3>2, <4>1 DEF CopyLog, TypeOK, Content, NoLogs
    <3>3. CASE Mkdir(r)
      BY <3>3 DEF Mkdir, TypeOK
    <3>4. CASE UNCHANGED <<dir, log>>
      BY <3>4 DEF TypeOK
    <3> QED
      BY <1>3, <3>1, <3>2, <3>3, <3>4
      DEF StepOf, Pods, Complete, List, ZipCheck, ZipCreate, ZipPack, Kill, diskVars
  <2>3. archive' \in [state : {"none", "broken", "closed"}, entry : [Pod -> Content]]
    <3>1. CASE ZipCreate(r)
      BY <3>1 DEF ZipCreate, TypeOK, NoLogs, Content
    <3>2. CASE ZipPack(r)
      <4>1. \A p \in left[r] : log[p] \in Content /\ "partial" \in Content
        BY DEF TypeOK, Content
      <4> QED
        BY <3>2, <4>1 DEF ZipPack, TypeOK
    <3>3. CASE UNCHANGED archive
      BY <3>3 DEF TypeOK
    <3> QED
      BY <1>3, <3>1, <3>2, <3>3
      DEF StepOf, Pods, Complete, Mkdir, List, OpenLog, CopyLog, ZipCheck, Kill, diskVars
  <2>4. /\ open'[r] # NoPod => pc'[r] = "save" /\ log'[open'[r]] # "none"
        /\ pc'[r] = "save" => left'[r] \subseteq listed'[r]
    <3>1. CASE OpenLog(r)
      BY <3>1 DEF OpenLog, NextGroup, Goto, TypeOK
    <3>2. CASE CopyLog(r)
      BY <3>2 DEF CopyLog, NextGroup, Goto, TypeOK
    <3>3. CASE List(r)
      BY <3>3 DEF List, Goto, TypeOK
    <3>4. CASE Pods(r) \/ Complete(r) \/ Mkdir(r) \/ Kill(r)
      BY <3>4 DEF Pods, Complete, Mkdir, Kill, Finish, Goto, TypeOK
    <3>5. CASE ZipCheck(r) \/ ZipCreate(r) \/ ZipPack(r)
      BY <3>5 DEF ZipCheck, ZipCreate, ZipPack, Finish, Goto, TypeOK
    <3> QED
      BY <1>3, <3>1, <3>2, <3>3, <3>4, <3>5 DEF StepOf
  <2>5. \A q \in Run : /\ open'[q] # NoPod => pc'[q] = "save" /\ log'[open'[q]] # "none"
                       /\ pc'[q] = "save" => left'[q] \subseteq listed'[q]
    BY <2>1, <2>2, <2>4 DEF TypeOK
  <2> QED
    BY <2>1, <2>2, <2>3, <2>5 DEF TypeOK
<1> QED
  BY <1>1, <1>2, <1>3 DEF Next, StepOf

(* Every variable keeps its type; in particular a log that is being        *)
(* written is in the directory, and no log is where there is no directory. *)
THEOREM TypeCorrect == Spec => []TypeOK
<1>1. TypeOK /\ [Next]_vars => TypeOK'
  BY TypeNext
<1> QED
  BY TypeInit, <1>1, PTL DEF Spec

-----------------------------------------------------------------------------
(* What the export that is running knows.                                  *)

Saved   == {p \in Pod : log[p] # "none"}
Entries == {p \in Pod : archive.entry[p] # "none"}

Knows(r) ==
  /\ pc[r] = "mkdir" => ~dir
  /\ pc[r] \in {"list", "save", "zip", "pack"} => Saved \subseteq listed[r]
  /\ pc[r] = "zip" => archive.state = "none"
  /\ pc[r] = "pack" => /\ archive.state # "closed"
                       /\ left[r] \subseteq listed[r]
                       /\ Entries \subseteq listed[r]

(* ArchiveOfOneExport is about the end; that the directory holds the files *)
(* of one run, and the archive those of the directory, must hold on the    *)
(* way.  It rests on exports being typed one after the other.              *)
ExportInv ==
  /\ \A r, q \in Run : Active(r) /\ Active(q) => r = q
  /\ \A r \in Run : Knows(r)
  /\ archive.state = "none" => Entries = {}
  /\ ArchiveOfOneExport

LEMMA ExportInit == Init => ExportInv
  BY DEF Init, ExportInv, Active, Knows, Entries, NoLogs, NoArchive, ArchiveOfOneExport

LEMMA ExportNext ==
  ASSUME TypeOK, ExportInv, [Next]_vars
  PROVE  ExportInv'
<1>1. CASE UNCHANGED vars
  BY <1>1 DEF ExportInv, Active, Knows, Saved, Entries, ArchiveOfOneExport,
              vars, diskVars, runVars
<1>2. CASE RemoveDir
  <2>1. \A r \in Run : pc[r] \in {"idle", "done"} /\ pc'[r] = pc[r] /\ listed'[r] = listed[r]
    BY <1>2 DEF RemoveDir, Quiet, runVars
  <2>2. archive' = archive
    BY <1>2 DEF RemoveDir
  <2> QED
    BY <2>1, <2>2 DEF ExportInv, Active, Knows, Entries, ArchiveOfOneExport
<1>3. ASSUME NEW r \in Run, StepOf(r) PROVE ExportInv'
  <2>1. /\ \A q \in Run \ {r} : /\ pc'[q] = pc[q] /\ left'[q] = left[q]
                                /\ open'[q] = open[q] /\ listed'[q] = listed[q]
        /\ listed[r] \subseteq listed'[r]
        /\ Active(r) \/ Quiet
        /\ pc[r] # "done"
    BY <1>3, StepOfOneRun
  <2>2. \A q \in Run \ {r} : pc'[q] \in {"idle", "done"} /\ ~Active(q)'
    BY <2>1 DEF ExportInv, Active, Quiet
  <2>3. \A s, q \in Run : Active(s)' /\ Active(q)' => s = q
    BY <2>2
  <2>4. \A q \in Run \ {r} : Knows(q)'
    BY <2>2 DEF Knows
  \* The run that has made the archive is done, or it is r.
  <2>5. \A q \in Run \ {r} :
          pc[q] \in {"pack", "done"} => pc'[q] \in {"pack", "done"} /\ listed'[q] = listed[q]
    BY <2>1
  <2>6. Knows(r) /\ (archive.state = "none" => Entries = {}) /\ ArchiveOfOneExport
    BY DEF ExportInv
  <2>7. /\ Knows(r)'
        /\ archive'.state = "none" => Entries' = {}
        /\ archive' # archive => pc'[r] \in {"pack", "done"} /\ Entries' \subseteq listed'[r]
        /\ pc[r] \in {"pack", "done"} => pc'[r] \in {"pack", "done"} \/ pc'[r] = pc[r]
    <3>1. CASE Pods(r) \/ Complete(r)
      <4>1. /\ UNCHANGED <<dir, log, archive>> /\ pc[r] = "idle"
            /\ pc'[r] = "done" \/ (pc'[r] = "mkdir" /\ ~dir)
        BY <3>1 DEF Pods, Complete, Finish, Goto, TypeOK, diskVars
      <4> QED
        BY <2>6, <4>1 DEF Knows, Entries
    <3>2. CASE Mkdir(r)
      <4>1. /\ UNCHANGED <<log, archive>> /\ log = NoLogs /\ pc'[r] \in {"done", "list"}
            /\ pc[r] = "mkdir"
        BY <2>6, <3>2 DEF Mkdir, Finish, Goto, Knows, TypeOK
      <4>2. Saved' = {}
        BY <4>1 DEF Saved, NoLogs
      <4> QED
        BY <2>6, <4>1, <4>2 DEF Knows, Entries
    <3>3. CASE List(r)
      <4>1. /\ UNCHANGED <<dir, log, archive>> /\ pc[r] = "list"
            /\ pc'[r] \in {"list", "save"}
        BY <3>3 DEF List, Goto, TypeOK, diskVars
      <4> QED
        BY <2>1, <2>6, <4>1 DEF Knows, Saved, Entries
    <3>4. CASE OpenLog(r)
      \* The file that is created is of a pod that was listed.
      <4>1. /\ UNCHANGED <<dir, archive>> /\ pc[r] = "save" /\ pc'[r] \in {"list", "save"}
            /\ \A p \in Pod : log'[p] # "none" => log[p] # "none" \/ p \in left[r]
        BY <3>4 DEF OpenLog, NextGroup, Goto, TypeOK
      <4>2. Saved' \subseteq listed'[r]
        BY <2>1, <2>6, <4>1 DEF Knows, Saved, TypeOK
      <4> QED
        BY <2>6, <4>1, <4>2 DEF Knows, Entries
    <3>5. CASE CopyLog(r)
      <4>1. /\ UNCHANGED <<dir, archive>> /\ pc[r] = "save" /\ pc'[r] \in {"list", "save"}
            /\ \A p \in Pod : log'[p] # "none" => log[p] # "none"
        BY <3>5 DEF CopyLog, NextGroup, Goto, TypeOK
      <4>2. Saved' \subseteq listed'[r]
        BY <2>1, <2>6, <4>1 DEF Knows, Saved
      <4> QED
        BY <2>6, <4>1, <4>2 DEF Knows, Entries
    <3>6. CASE ZipCheck(r)
      <4>1. /\ UNCHANGED <<dir, log, archive>> /\ pc[r] = "list"
            /\ pc'[r] = "done" \/ (pc'[r] = "zip" /\ archive.state = "none")
        BY <3>6 DEF ZipCheck, Finish, Goto, TypeOK, diskVars
      <4> QED
        BY <2>1, <2>6, <4>1 DEF Knows, Saved, Entries
    <3>7. CASE ZipCreate(r)
      <4>1. /\ UNCHANGED <<dir, log>> /\ pc[r] = "zip" /\ pc'[r] = "pack"
            /\ left'[r] = Saved
            /\ \/ archive' = archive
               \/ archive' = [state |-> "broken", entry |-> NoLogs]
        BY <3>7 DEF ZipCreate, Goto, TypeOK, Saved
      <4>2. archive' = [state |-> "broken", entry |-> NoLogs] => Entries' = {}
        BY DEF Entries, NoLogs
      <4> QED
        BY <2>1, <2>6, <4>1, <4>2 DEF Knows, Saved, Entries
    <3>8. CASE ZipPack(r)
      <4>1. /\ UNCHANGED <<dir, log>> /\ pc[r] = "pack" /\ pc'[r] \in {"pack", "done"}
            /\ left'[r] \subseteq left[r]
        BY <3>8 DEF ZipPack, Finish, TypeOK
      <4>2. /\ pc'[r] = "pack" => archive'.state = archive.state
            /\ archive'.state = "none" => archive' = archive
            /\ \A p \in Pod : archive'.entry[p] # "none" =>
                              archive.entry[p] # "none" \/ p \in left[r]
        BY <3>8 DEF ZipPack, Finish, TypeOK
      <4>3. Entries' \subseteq listed'[r]
        BY <2>1, <2>6, <4>1, <4>2 DEF Knows, Entries
      <4> QED
        BY <2>1, <2>6, <4>1, <4>2, <4>3 DEF Knows, Saved, Entries
    <3>9. CASE Kill(r)
      <4>1. UNCHANGED <<dir, log, archive>> /\ pc'[r] = "done"
        BY <3>9 DEF Kill, Finish, TypeOK, diskVars
      <4> QED
        BY <2>6, <4>1 DEF Knows, Entries
    <3> QED
      BY <1>3, <3>1, <3>2, <3>3, <3>4, <3>5, <3>6, <3>7, <3>8, <3>9 DEF StepOf
  <2>8. ArchiveOfOneExport'
    BY <2>1, <2>5, <2>6, <2>7 DEF ArchiveOfOneExport, Entries
  <2> QED
    BY <2>3, <2>4, <2>7, <2>8 DEF ExportInv
<1> QED
  BY <1>1, <1>2, <1>3 DEF Next, StepOf

LEMMA ExportCorrect == Spec => []ExportInv
<1>1. TypeOK /\ ExportInv /\ [Next]_vars => ExportInv'
  BY ExportNext
<1> QED
  BY TypeCorrect, ExportInit, <1>1, PTL DEF Spec

(* What is in an archive was listed by the one run that has made it: the   *)
(* directory was not there when it began (logs.go:143-161, 398-436).       *)
THEOREM ArchiveCorrect == Spec => []ArchiveOfOneExport
<1>1. ExportInv => ArchiveOfOneExport
  BY DEF ExportInv
<1> QED
  BY ExportCorrect, <1>1, PTL

LEMMA ClosedStays ==
  ASSUME TypeOK, ExportInv, [Next]_vars, archive.state = "closed"
  PROVE  UNCHANGED archive
<1>1. CASE UNCHANGED vars
  BY <1>1 DEF vars, diskVars
<1>2. CASE RemoveDir
  BY <1>2 DEF RemoveDir
<1>3. ASSUME NEW r \in Run, StepOf(r) PROVE archive' = archive
  <2>1. Knows(r)
    BY DEF ExportInv
  \* Only the two steps that write it could change it, and neither is next.
  <2>2. ~ZipCreate(r) /\ ~ZipPack(r)
    BY <2>1 DEF Knows, ZipCreate, ZipPack
  <2> QED
    BY <1>3, <2>2
    DEF StepOf, Pods, Complete, Mkdir, List, OpenLog, CopyLog, ZipCheck, Kill, diskVars
<1> QED
  BY <1>1, <1>2, <1>3 DEF Next, StepOf

(* What a user was told is exported is never written again, although the   *)
(* archive is looked for in one step and created in another (logs.go:399). *)
THEOREM ArchiveKept == Spec => ArchiveIsKept
<1>1. TypeOK /\ ExportInv /\ [Next]_vars => (archive.state = "closed" => UNCHANGED archive)
  BY ClosedStays
<1>2. TypeOK /\ ExportInv /\ [Next]_vars => [archive.state = "closed" => UNCHANGED archive]_vars
  BY <1>1
<1> QED
  BY TypeCorrect, ExportCorrect, <1>2, PTL DEF Spec, ArchiveIsKept

-----------------------------------------------------------------------------
(* Failures and groups.                                                    *)

Groups == Dependence \cup {Milvus}

(* In a group at most one log is cut short, or it is the open one.         *)
OnePartial(g) ==
  \A p, q \in PodsOfGroup(g) : log[p] = "partial" /\ log[q] = "partial" => p = q

(* No log of the groups to come is there; of the one at hand, none is      *)
(* partial but the open one.                                               *)
Progress(r) ==
  /\ pc[r] \in {"list", "save"} =>
       \A g \in groups[r] : \A p \in PodsOfGroup(g) : log[p] = "none"
  /\ pc[r] = "save" => \E g \in Groups \ groups[r] :
       /\ left[r] \subseteq PodsOfGroup(g)
       /\ open[r] \in PodsOfGroup(g) \cup {NoPod}
       /\ \A p \in PodsOfGroup(g) : log[p] = "partial" => p = open[r]

FailInv ==
  /\ \A g \in Groups : OnePartial(g)
  /\ \A r \in Run : Progress(r)

LEMMA FailInit == Init => FailInv
<1> SUFFICES ASSUME Init PROVE FailInv
  OBVIOUS
<1>1. \A g \in Groups : PodsOfGroup(g) \subseteq Pod
  BY ConstantsFit DEF Groups, PodsOfGroup
<1> QED
  BY <1>1 DEF Init, FailInv, OnePartial, Progress, NoLogs

LEMMA FailNext ==
  ASSUME TypeOK, ExportInv, FailInv, [Next]_vars
  PROVE  FailInv'
<1>0. \A g \in Groups : PodsOfGroup(g) \subseteq Pod
  BY ConstantsFit DEF Groups, PodsOfGroup
<1>1. CASE UNCHANGED vars
  BY <1>1 DEF FailInv, OnePartial, Progress, vars, diskVars, runVars
<1>2. CASE RemoveDir
  BY <1>0, <1>2 DEF RemoveDir, Quiet, runVars, FailInv, OnePartial, Progress, NoLogs
<1>3. ASSUME NEW r \in Run, StepOf(r) PROVE FailInv'
  <2>1. \A q \in Run \ {r} : Progress(q)'
    <3>1. \A q \in Run \ {r} : pc'[q] = pc[q] /\ pc[q] \in {"idle", "done"}
      BY <1>3, StepOfOneRun DEF ExportInv, Active, Quiet
    <3> QED
      BY <3>1 DEF Progress
  <2>2. Progress(r) /\ \A g \in Groups : OnePartial(g)
    BY DEF FailInv
  <2>3. Progress(r)' /\ \A g \in Groups : OnePartial(g)'
    <3>1. CASE Pods(r) \/ Complete(r) \/ Kill(r)
      BY <2>2, <3>1 DEF Pods, Complete, Kill, Finish, Goto, diskVars, TypeOK, Progress, OnePartial
    <3>2. CASE Mkdir(r)
      <4>1. log' = NoLogs /\ pc'[r] \in {"done", "list"}
        BY <3>2 DEF Mkdir, Finish, Goto, ExportInv, Knows, TypeOK
      <4>2. groups'[r] \subseteq Groups
        BY <1>3, StepOfOneRun DEF Groups
      <4> QED
        BY <1>0, <4>1, <4>2 DEF Progress, OnePartial, NoLogs
    <3>3. CASE List(r)
      <4>1. PICK g \in groups[r] :
              /\ groups' = [groups EXCEPT ![r] = @ \ {g}]
              /\ \/ Goto(r, "list", {}) /\ UNCHANGED listed
                 \/ /\ g = Milvus => cmd[r].component # "other"
                    /\ \E found \in SUBSET Selected(cmd[r], g) :
                         Goto(r, "save", found) /\ listed' = [listed EXCEPT ![r] = @ \cup found]
        BY <3>3 DEF List
      <4>2. /\ g \in Groups /\ cmd[r] \in Command /\ log' = log /\ pc[r] = "list"
            /\ groups'[r] = groups[r] \ {g}
        BY <3>3, <4>1 DEF List, diskVars, Groups, TypeOK
      <4>3. /\ pc'[r] \in {"list", "save"} /\ open'[r] = NoPod
            /\ pc'[r] = "save" => left'[r] \subseteq PodsOfGroup(g)
        BY <4>1, <4>2, SelectedArePods DEF Goto, TypeOK, Groups
      <4>4. \A p \in PodsOfGroup(g) : log'[p] = "none"
        BY <2>2, <4>1, <4>2 DEF Progress
      <4> QED
        BY <2>2, <4>2, <4>3, <4>4 DEF Progress, OnePartial
    <3>4. CASE (OpenLog(r) \/ CopyLog(r)) /\ NextGroup(r) /\ UNCHANGED log
      BY <2>2, <3>4 DEF OpenLog, CopyLog, NextGroup, Goto, TypeOK, Progress, OnePartial
    <3>5. CASE (OpenLog(r) \/ CopyLog(r)) /\ ~(NextGroup(r) /\ UNCHANGED log)
      <4>1. /\ pc[r] = "save" /\ pc' = pc /\ groups' = groups
            /\ \/ /\ open[r] = NoPod /\ open'[r] \in left[r] /\ left'[r] \subseteq left[r]
                  /\ log' = [log EXCEPT ![open'[r]] = "partial"]
               \/ /\ open[r] # NoPod /\ open'[r] = NoPod /\ left' = left
                  /\ log' = [log EXCEPT ![open[r]] = "whole"]
        BY <3>5 DEF OpenLog, CopyLog, TypeOK
      <4>2. PICK g \in Groups \ groups[r] :
              /\ left[r] \subseteq PodsOfGroup(g)
              /\ open[r] \in PodsOfGroup(g) \cup {NoPod}
              /\ \A p \in PodsOfGroup(g) : log[p] = "partial" => p = open[r]
        BY <2>2, <4>1 DEF Progress
      <4>3. PICK x \in PodsOfGroup(g) : \A p \in Pod : p # x => log'[p] = log[p]
        BY <4>1, <4>2 DEF TypeOK
      \* The other groups are as they were.
      <4>4. \A h \in Groups \ {g} : \A p \in PodsOfGroup(h) : log'[p] = log[p]
        BY <1>0, <4>2, <4>3, GroupsDiffer DEF Groups
      <4>5. \A p \in PodsOfGroup(g) : log'[p] = "partial" => p = open'[r]
        BY <1>0, <4>1, <4>2, ConstantsFit DEF TypeOK
      <4>6. left'[r] \subseteq PodsOfGroup(g) /\ open'[r] \in PodsOfGroup(g) \cup {NoPod}
        BY <4>1, <4>2
      <4>7. Progress(r)'
        <5>1. \A h \in groups[r] : h \in Groups \ {g}
          BY <4>2 DEF TypeOK, Groups
        <5> QED
          BY <2>2, <4>1, <4>2, <4>4, <4>5, <4>6, <5>1 DEF Progress
      <4>8. \A h \in Groups : OnePartial(h)'
        BY <2>2, <4>4, <4>5 DEF OnePartial
      <4> QED
        BY <4>7, <4>8
    <3>6. CASE ZipCheck(r) \/ ZipCreate(r) \/ ZipPack(r)
      BY <2>2, <3>6 DEF ZipCheck, ZipCreate, ZipPack, Finish, Goto, diskVars, TypeOK, Progress, OnePartial
    <3> QED
      BY <1>3, <3>1, <3>2, <3>3, <3>4, <3>5, <3>6 DEF StepOf
  <2> QED
    BY <2>1, <2>3 DEF FailInv
<1> QED
  BY <1>1, <1>2, <1>3 DEF Next, StepOf

LEMMA AtMostOne ==
  ASSUME NEW S, \A p, q \in S : p = q
  PROVE  Cardinality(S) <= 1
<1>1. CASE S = {}
  BY <1>1, FS_EmptySet
<1>2. CASE S # {}
  <2>1. PICK p \in S : S = {p}
    BY <1>2
  <2>2. Cardinality(S) = 1
    BY <2>1, FS_Singleton
  <2> QED
    BY <2>2
<1> QED
  BY <1>1, <1>2

(* A failure ends the group it happens in, and no later export meets what  *)
(* it has left: at most one log of a group is cut short (logs.go:295-302). *)
THEOREM FailureCorrect == Spec => []OneFailureEndsTheGroup
<1>1. TypeOK /\ ExportInv /\ FailInv /\ [Next]_vars => FailInv'
  BY FailNext
<1>2. FailInv => OneFailureEndsTheGroup
  <2> SUFFICES ASSUME FailInv, NEW g \in Groups
               PROVE  Cardinality({p \in PodsOfGroup(g) : log[p] = "partial"}) <= 1
    BY DEF OneFailureEndsTheGroup, Groups
  <2> DEFINE S == {p \in PodsOfGroup(g) : log[p] = "partial"}
  <2>1. \A p, q \in S : p = q
    BY DEF FailInv, OnePartial
  <2> HIDE DEF S
  <2>2. Cardinality(S) <= 1
    BY <2>1, AtMostOne
  <2> QED
    BY <2>2 DEF S
<1> QED
  BY TypeCorrect, ExportCorrect, FailInit, <1>1, <1>2, PTL DEF Spec

=============================================================================
