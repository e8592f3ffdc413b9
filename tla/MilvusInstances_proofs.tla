------------------------ MODULE MilvusInstances_proofs ------------------------
(***************************************************************************)
(* Proofs about MilvusInstances, for any number of runs and resources.     *)
(*                                                                         *)
(* The argument has two halves.  What a request does to the API server is  *)
(* summed up by ApiStep: it writes at most one resource, at a revision     *)
(* nobody has seen, and keeps the uid of what was there.  What a command   *)
(* does to its own state is one of three steps, by which it goes on to its *)
(* next call, to its next resource, or ends.  Every action is one of each, *)
(* and the inductive invariant IInv survives any such pair.                *)
(***************************************************************************)
EXTENDS MilvusInstances, TLAPS

USE DEF apiVars

-----------------------------------------------------------------------------
(* Specs and settings.                                                     *)

LEMMA OverlayType ==
  ASSUME NEW spec \in MilvusSpec, NEW set \in Setting
  PROVE  Overlay(spec, set) \in MilvusSpec
BY DEF Overlay, MilvusSpec, Setting

LEMMA CommandType ==
  ASSUME NEW c \in Command
  PROVE  /\ c.verb \in {"create", "update", "delete"}
         /\ c.key \in Key
         /\ c.file \in Setting \cup {NoFile}
         /\ c.type \in Type \cup {"", "other"}
         /\ c.mode \in Mode
         /\ c.set \in Setting
         /\ c.withDeletion \in BOOLEAN
<1>1. c \in CommandLine
  BY ConstantsFit
<1> QED
  BY <1>1 DEF CommandLine

LEMMA NewSpecType ==
  ASSUME NEW c \in Command, Creates(c)
  PROVE  NewSpec(c) \in MilvusSpec
<1>0. c.file # NoFile \/ HasProfile(c)
  BY DEF Creates
<1>1. CASE c.file # NoFile
  <2>1. c.file \in Setting /\ Zero \in MilvusSpec
    BY <1>1, CommandType, ConstantsFit
  <2> QED
    BY <1>1, <2>1, OverlayType DEF NewSpec
<1>2. CASE c.file = NoFile /\ HasProfile(c)
  <2> DEFINE m == IF c.mode = "standalone" THEN c.mode ELSE "cluster"
  <2>1. <<c.type, m>> \in Type \X {"standalone", "cluster"}
    BY <1>2 DEF HasProfile
  <2>2. Profile[<<c.type, m>>] \in MilvusSpec
    BY <2>1, ConstantsFit
  <2>3. c.set \in Setting
    BY CommandType
  <2> QED
    BY <1>2, <2>2, <2>3, OverlayType DEF NewSpec
<1> QED
  BY <1>0, <1>1, <1>2

LEMMA PvcMarkType ==
  ASSUME NEW k
  PROVE  PvcMark(k) \in Setting
BY ConstantsFit DEF PvcMark, Setting

LEMMA PatchType ==
  ASSUME NEW obj, NEW file \in Setting
  PROVE  PatchOf(obj, file) \in Setting
BY DEF PatchOf, Setting

-----------------------------------------------------------------------------
(* The API server.                                                         *)

ApiOK ==
  /\ store \in [Key -> Object \cup {Absent}]
  /\ rev \in Nat
  /\ \A k \in Key : store[k] # Absent => store[k].uid <= store[k].rv /\ store[k].rv <= rev

(* What any request, and the controller, may do to the resource k. *)
ApiStep(k) ==
  \/ UNCHANGED apiVars
  \/ store' = [store EXCEPT ![k] = Absent] /\ UNCHANGED rev
  \/ \E obj \in Object :
       /\ obj.rv = rev + 1
       /\ store[k] = Absent => obj.uid = rev + 1
       /\ store[k] # Absent => /\ obj.uid = store[k].uid
                               /\ store[k].terminating => obj.terminating
       /\ Write(k, obj)

(* The resource j is as it was, or was written just now. *)
Written(j) == store'[j] = store[j] \/ store'[j].rv > rev

(* The resource j is the one it was, deleted if it was, or is new. *)
Identity(j) ==
  \/ store'[j].uid > rev
  \/ /\ store[j] # Absent /\ store'[j].uid = store[j].uid
     /\ store[j].terminating => store'[j].terminating

LEMMA ApiStepOK ==
  ASSUME ApiOK, NEW k \in Key, ApiStep(k)
  PROVE  /\ ApiOK' /\ rev <= rev'
         /\ \A j \in Key : store'[j] # Absent => Written(j) /\ Identity(j)
<1>1. CASE UNCHANGED apiVars
  BY <1>1 DEF ApiOK, Written, Identity
<1>2. CASE store' = [store EXCEPT ![k] = Absent] /\ UNCHANGED rev
  BY <1>2 DEF ApiOK, Written, Identity
<1>3. CASE \E obj \in Object :
             /\ obj.rv = rev + 1
             /\ store[k] = Absent => obj.uid = rev + 1
             /\ store[k] # Absent => /\ obj.uid = store[k].uid
                                     /\ store[k].terminating => obj.terminating
             /\ Write(k, obj)
  <2>1. PICK obj \in Object :
             /\ obj.rv = rev + 1
             /\ store[k] = Absent => obj.uid = rev + 1
             /\ store[k] # Absent => /\ obj.uid = store[k].uid
                                     /\ store[k].terminating => obj.terminating
             /\ Write(k, obj)
    BY <1>3
  <2>2. obj # Absent /\ obj.uid \in Nat /\ obj.rv \in Nat
    BY MarkersAreNoObjects DEF Object
  <2>3. store' = [store EXCEPT ![k] = obj] /\ rev' = rev + 1
    BY <2>1 DEF Write
  <2>4. obj.uid <= obj.rv
    BY <2>1, <2>2 DEF ApiOK, Object
  <2>5. store' \in [Key -> Object \cup {Absent}] /\ rev' \in Nat /\ rev <= rev'
    BY <2>3 DEF ApiOK
  <2>6. ASSUME NEW j \in Key, store'[j] # Absent
        PROVE  /\ store'[j].uid <= store'[j].rv /\ store'[j].rv <= rev'
               /\ Written(j) /\ Identity(j)
    <3>1. CASE j = k
      BY <2>1, <2>2, <2>3, <2>4, <3>1 DEF ApiOK, Written, Identity
    <3>2. CASE j # k
      <4>1. store'[j] = store[j] /\ store[j] \in Object
        BY <2>3, <2>6, <3>2 DEF ApiOK
      <4> QED
        BY <2>3, <2>6, <4>1 DEF ApiOK, Written, Identity, Object
    <3> QED
      BY <3>1, <3>2
  <2> QED
    BY <2>5, <2>6 DEF ApiOK
<1> QED
  BY <1>1, <1>2, <1>3 DEF ApiStep

LEMMA ApiCreateStep ==
  ASSUME ApiOK, NEW k \in Key, NEW spec \in MilvusSpec, ApiCreate(k, spec)
  PROVE  ApiStep(k)
<1> DEFINE obj == [uid |-> rev + 1, rv |-> rev + 1, spec |-> spec,
                   finalizer |-> FALSE, terminating |-> FALSE]
<1>1. obj \in Object
  BY DEF ApiOK, Object
<1> QED
  BY <1>1 DEF ApiCreate, ApiStep

(* An object the controller or a DELETE rewrites. *)
LEMMA FinalizerWritten ==
  ASSUME NEW o \in Object, NEW n \in Nat
  PROVE  LET obj == [o EXCEPT !.finalizer = TRUE, !.rv = n] IN
         /\ obj \in Object /\ obj.rv = n /\ obj.uid = o.uid
         /\ o.terminating => obj.terminating
         /\ obj.spec = o.spec
BY DEF Object

LEMMA TerminatingWritten ==
  ASSUME NEW o \in Object, NEW n \in Nat
  PROVE  LET obj == [o EXCEPT !.terminating = TRUE, !.rv = n] IN
         /\ obj \in Object /\ obj.rv = n /\ obj.uid = o.uid
         /\ o.terminating => obj.terminating
         /\ obj.spec = o.spec /\ obj.terminating
BY DEF Object

LEMMA ReplaceStep ==
  ASSUME ApiOK, NEW k \in Key, NEW spec \in MilvusSpec, store[k] # Absent,
         Replace(k, spec)
  PROVE  ApiStep(k)
<1> DEFINE obj == [store[k] EXCEPT !.spec = spec, !.rv = rev + 1]
<1>1. store[k] \in Object
  BY DEF ApiOK
<1>2. /\ obj \in Object /\ obj.rv = rev + 1 /\ obj.uid = store[k].uid
      /\ store[k].terminating => obj.terminating
  <2> DEFINE n == rev + 1
             o == store[k]
  <2>1. n \in Nat /\ o \in Object
    BY <1>1 DEF ApiOK
  <2> HIDE DEF n, o
  <2>2. LET w == [o EXCEPT !.spec = spec, !.rv = n] IN
        w \in Object /\ w.rv = n /\ w.uid = o.uid /\ (o.terminating => w.terminating)
    BY <2>1 DEF Object
  <2> QED
    BY <2>2 DEF n, o
<1> QED
  BY <1>2 DEF Replace, ApiStep

LEMMA ApiUpdateStep ==
  ASSUME ApiOK, NEW k \in Key, NEW spec \in MilvusSpec, NEW obj, ApiUpdate(k, obj, spec)
  PROVE  ApiStep(k)
BY ReplaceStep DEF ApiUpdate

LEMMA ApiPatchStep ==
  ASSUME ApiOK, NEW k \in Key, NEW patch \in Setting, ApiPatch(k, patch)
  PROVE  ApiStep(k)
<1>1. store[k] \in Object
  BY DEF ApiOK, ApiPatch
<1>2. Overlay(store[k].spec, patch) \in MilvusSpec
  BY <1>1, OverlayType DEF Object
<1> QED
  BY <1>2, ReplaceStep DEF ApiPatch

(* A served DELETE leaves nothing, or something that is going. *)
LEMMA ApiDeleteStep ==
  ASSUME ApiOK, NEW k \in Key, ApiDelete(k)
  PROVE  /\ ApiStep(k)
         /\ store'[k] = Absent \/ store'[k].terminating
<1> DEFINE obj == [store[k] EXCEPT !.terminating = TRUE, !.rv = rev + 1]
<1>1. store[k] \in Object
  BY DEF ApiOK, ApiDelete
<1>2. /\ obj \in Object /\ obj.rv = rev + 1 /\ obj.uid = store[k].uid
      /\ obj.terminating
  <2>1. rev + 1 \in Nat
    BY DEF ApiOK
  <2> QED
    BY <1>1, <2>1, TerminatingWritten
<1>3. CASE ~store[k].finalizer
  BY <1>3 DEF ApiOK, ApiDelete, ApiStep
<1>4. CASE store[k].finalizer /\ store[k].terminating
  BY <1>4 DEF ApiOK, ApiDelete, ApiStep
<1>5. CASE store[k].finalizer /\ ~store[k].terminating
  <2>1. Write(k, obj)
    BY <1>5 DEF ApiDelete
  <2>2. store'[k] = obj
    BY <2>1 DEF Write, ApiOK
  <2> QED
    BY <1>2, <2>1, <2>2, ApiDelete(k) DEF ApiStep, ApiDelete
<1> QED
  BY <1>3, <1>4, <1>5

LEMMA ReconcileStep ==
  ASSUME ApiOK, NEW k \in Key, Reconcile(k)
  PROVE  ApiStep(k)
<1> DEFINE obj == [store[k] EXCEPT !.finalizer = TRUE, !.rv = rev + 1]
<1>1. store[k] \in Object
  BY DEF ApiOK, Reconcile
<1>2. /\ obj \in Object /\ obj.rv = rev + 1 /\ obj.uid = store[k].uid
      /\ store[k].terminating => obj.terminating
  <2>1. rev + 1 \in Nat
    BY DEF ApiOK
  <2> QED
    BY <1>1, <2>1, FinalizerWritten
<1> QED
  BY <1>2 DEF Reconcile, ApiStep

-----------------------------------------------------------------------------
(* The inductive invariant.                                                *)

IInv == TypeOK /\ RevisionsIdentifyObjects /\ RightCall /\ DeleteProgress

RunTyped ==
  /\ pc \in [Run -> PC] /\ cmd \in [Run -> Command] /\ target \in [Run -> Key]
  /\ seen \in [Run -> Object \cup {Nameless}]
  /\ result \in [Run -> Result] /\ began \in [Run -> Nat]

(* What it says of one run. *)
RunOK(r) ==
  /\ began[r] <= rev
  /\ seen[r] # Nameless =>
       /\ seen[r].uid <= rev /\ seen[r].rv <= rev
       /\ store[target[r]] # Absent /\ store[target[r]].rv = seen[r].rv
          => store[target[r]] = seen[r]
  /\ pc[r] = "create" => Creates(cmd[r])
  /\ pc[r] = "patch" => /\ cmd[r].verb = "update" /\ cmd[r].file # NoFile
                        /\ seen[r] # Nameless
  /\ pc[r] = "update" /\ cmd[r].verb = "update" => cmd[r].file = NoFile
  /\ pc[r] = "update" /\ cmd[r].verb = "delete" => cmd[r].withDeletion
  /\ pc[r] \notin {"idle", "done"} /\ cmd[r].verb # "delete" => target[r] = cmd[r].key
  /\ result[r] = "ok" => pc[r] = "done"
  /\ pc[r] = "idle" => target[r] = TheMilvus /\ seen[r] = Nameless
  /\ cmd[r].verb = "delete" =>
       /\ target[r] \in Targets
       /\ target[r] = TheCluster => Gone(r, TheMilvus)
       /\ result[r] = "ok" => \A k \in Targets : Gone(r, k)

LEMMA IInvByRun ==
  /\ IInv <=> ApiOK /\ RunTyped /\ \A r \in Run : RunOK(r)
  /\ IInv' <=> (ApiOK /\ RunTyped)' /\ \A r \in Run : RunOK(r)'
BY DEF IInv, ApiOK, RunTyped, RunOK, TypeOK, RevisionsIdentifyObjects, RightCall,
       DeleteProgress

LEMMA GoneStable ==
  ASSUME ApiOK, NEW k \in Key, ApiStep(k), NEW r \in Run, NEW j \in Key,
         began[r] <= rev, began[r] \in Nat, began'[r] = began[r], Gone(r, j)
  PROVE  Gone(r, j)'
<1>1. CASE store'[j] = Absent
  BY <1>1 DEF Gone
<1>2. CASE store'[j] # Absent
  <2>1. Identity(j) /\ store'[j] \in Object /\ rev \in Nat
    BY <1>2, ApiStepOK DEF ApiOK
  <2> QED
    BY <2>1 DEF Identity, Gone, Object
<1> QED
  BY <1>1, <1>2

(* A run is not disturbed by what happens to the resources. *)
LEMMA RunUndisturbed ==
  ASSUME ApiOK, RunTyped, NEW k \in Key, ApiStep(k), NEW r \in Run, RunOK(r),
         pc'[r] = pc[r], cmd'[r] = cmd[r], target'[r] = target[r],
         seen'[r] = seen[r], result'[r] = result[r], began'[r] = began[r]
  PROVE  RunOK(r)'
<1>1. /\ rev \in Nat /\ rev' \in Nat /\ rev <= rev' /\ began[r] \in Nat
      /\ target[r] \in Key /\ seen[r] \in Object \cup {Nameless}
      /\ Targets \subseteq Key
  BY ApiStepOK, ConstantsFit DEF ApiOK, RunTyped
<1>2. \A j \in Key : Gone(r, j) => Gone(r, j)'
  BY <1>1, GoneStable DEF RunOK
<1>3. ASSUME seen[r] # Nameless
      PROVE  /\ seen[r].uid <= rev' /\ seen[r].rv <= rev'
             /\ store'[target[r]] # Absent /\ store'[target[r]].rv = seen[r].rv
                => store'[target[r]] = seen[r]
  <2>1. seen[r].uid \in Nat /\ seen[r].rv \in Nat /\ seen[r].uid <= rev /\ seen[r].rv <= rev
    BY <1>1, <1>3 DEF Object, RunOK
  <2>2. ASSUME store'[target[r]] # Absent, store'[target[r]].rv = seen[r].rv
        PROVE  store'[target[r]] = seen[r]
    <3>1. Written(target[r])
      BY <1>1, <2>2, ApiStepOK
    <3>2. store'[target[r]] = store[target[r]]
      BY <1>1, <2>1, <2>2, <3>1 DEF Written
    <3> QED
      BY <1>3, <2>2, <3>2 DEF RunOK
  <2> QED
    BY <1>1, <2>1, <2>2
<1>4. began'[r] <= rev'
  BY <1>1 DEF RunOK
<1>5. cmd[r].verb = "delete" =>
        /\ target[r] \in Targets
        /\ target[r] = TheCluster => Gone(r, TheMilvus)'
        /\ result[r] = "ok" => \A j \in Targets : Gone(r, j)'
  BY <1>1, <1>2 DEF RunOK, Targets
<1> QED
  BY <1>3, <1>4, <1>5 DEF RunOK

-----------------------------------------------------------------------------
(* The steps of a run.                                                     *)

LEMMA RunEnds ==
  ASSUME IInv, NEW k \in Key, ApiStep(k), NEW r \in Run, NEW res \in Result,
         Finish(r, res),
         res = "ok" /\ cmd[r].verb = "delete" => \A j \in Targets : Gone(r, j)'
  PROVE  IInv'
<1>1. ApiOK /\ RunTyped /\ (\A q \in Run : RunOK(q)) /\ ApiOK' /\ rev <= rev'
  BY IInvByRun, ApiStepOK
<1>2. RunTyped'
  BY <1>1 DEF RunTyped, Finish, PC
<1>3. ASSUME NEW q \in Run PROVE RunOK(q)'
  <2>1. CASE q # r
    BY <1>1, <2>1, RunUndisturbed DEF Finish, RunTyped
  <2>2. CASE q = r
    <3>1. /\ pc'[r] = "done" /\ seen'[r] = Nameless /\ result'[r] = res
          /\ target' = target /\ cmd' = cmd /\ began' = began
      BY <1>1 DEF Finish, RunTyped
    <3>2. rev \in Nat /\ rev' \in Nat /\ began[r] \in Nat /\ began[r] <= rev
      BY <1>1 DEF ApiOK, RunTyped, RunOK
    <3>3. cmd[r].verb = "delete" =>
            target[r] \in Targets /\ (target[r] = TheCluster => Gone(r, TheMilvus)')
      BY <1>1, <3>1, <3>2, GoneStable, ConstantsFit DEF RunOK, Targets
    <3> QED
      BY <1>1, <2>2, <3>1, <3>2, <3>3 DEF RunOK
  <2> QED
    BY <2>1, <2>2
<1> QED
  BY <1>1, <1>2, <1>3, IInvByRun

LEMMA RunGoesOn ==
  ASSUME IInv, NEW k \in Key, ApiStep(k), NEW r \in Run, pc[r] \notin {"idle", "done"},
         NEW call \in {"create", "update", "patch", "delete"},
         NEW obj \in Object \cup {Nameless}, Goto(r, call, obj),
         obj \in {Nameless, seen[r]} \/ (obj = store[target[r]] /\ UNCHANGED apiVars),
         call = "create" => Creates(cmd[r]),
         call = "patch" => cmd[r].verb = "update" /\ cmd[r].file # NoFile /\ obj # Nameless,
         call = "update" /\ cmd[r].verb = "update" => cmd[r].file = NoFile,
         call = "update" /\ cmd[r].verb = "delete" => cmd[r].withDeletion
  PROVE  IInv'
<1>1. ApiOK /\ RunTyped /\ (\A q \in Run : RunOK(q)) /\ ApiOK' /\ rev <= rev'
  BY IInvByRun, ApiStepOK
<1>2. RunTyped'
  BY <1>1 DEF RunTyped, Goto, PC
<1>3. ASSUME NEW q \in Run PROVE RunOK(q)'
  <2>1. CASE q # r
    BY <1>1, <2>1, RunUndisturbed DEF Goto, RunTyped
  <2>2. CASE q = r
    <3>1. /\ pc'[r] = call /\ seen'[r] = obj /\ result' = result
          /\ target' = target /\ cmd' = cmd /\ began' = began
      BY <1>1 DEF Goto, RunTyped
    <3>2. /\ rev \in Nat /\ rev' \in Nat /\ began[r] \in Nat /\ began[r] <= rev
          /\ target[r] \in Key
      BY <1>1 DEF ApiOK, RunTyped, RunOK
    <3>3. cmd[r].verb = "delete" =>
            target[r] \in Targets /\ (target[r] = TheCluster => Gone(r, TheMilvus)')
      BY <1>1, <3>1, <3>2, GoneStable, ConstantsFit DEF RunOK, Targets
    <3>4. ASSUME obj # Nameless
          PROVE  /\ obj.uid <= rev' /\ obj.rv <= rev'
                 /\ store'[target[r]] # Absent /\ store'[target[r]].rv = obj.rv
                    => store'[target[r]] = obj
      <4>1. obj.uid \in Nat /\ obj.rv \in Nat /\ obj # Absent
        BY <3>4, MarkersAreNoObjects DEF Object
      <4>2. CASE obj = store[target[r]] /\ UNCHANGED apiVars
        BY <1>1, <3>2, <4>1, <4>2 DEF ApiOK
      <4>3. CASE obj = seen[r]
        <5>1. obj.uid <= rev /\ obj.rv <= rev
          BY <1>1, <3>4, <4>3 DEF RunOK
        <5>2. ASSUME store'[target[r]] # Absent, store'[target[r]].rv = obj.rv
              PROVE  store'[target[r]] = obj
          <6>1. Written(target[r])
            BY <1>1, <3>2, <5>2, ApiStepOK
          <6>2. store'[target[r]] = store[target[r]]
            BY <3>2, <4>1, <5>1, <5>2, <6>1 DEF Written
          <6> QED
            BY <1>1, <3>4, <4>3, <5>2, <6>2 DEF RunOK
        <5> QED
          BY <1>1, <3>2, <4>1, <5>1, <5>2
      <4> QED
        BY <3>4, <4>2, <4>3
    <3>5. result[r] # "ok"
      BY <1>1 DEF RunOK
    <3> QED
      BY <1>1, <2>2, <3>1, <3>2, <3>3, <3>4, <3>5 DEF RunOK
  <2> QED
    BY <2>1, <2>2
<1> QED
  BY <1>1, <1>2, <1>3, IInvByRun

(* A delete has dealt with its resource. *)
LEMMA RunTurns ==
  ASSUME IInv, NEW k \in Key, ApiStep(k), NEW r \in Run, pc[r] \notin {"idle", "done"},
         cmd[r].verb = "delete", NextTarget(r), NEW t \in {target[r]}, Gone(r, t)'
  PROVE  IInv'
<1>1. ApiOK /\ RunTyped /\ (\A q \in Run : RunOK(q)) /\ ApiOK' /\ rev <= rev'
  BY IInvByRun, ApiStepOK
<1>2. /\ rev \in Nat /\ rev' \in Nat /\ began[r] \in Nat /\ began[r] <= rev
      /\ target[r] \in Targets /\ target \in [Run -> Key] /\ result[r] # "ok"
      /\ TheMilvus # TheCluster /\ TheMilvus \in Key /\ TheCluster \in Key
  BY <1>1, ConstantsFit DEF ApiOK, RunTyped, RunOK, Targets
<1>3. CASE target[r] = TheCluster
  <2>1. Finish(r, "ok") /\ began' = began
    BY <1>2, <1>3 DEF NextTarget, Finish
  <2>2. Gone(r, TheMilvus)'
    BY <1>1, <1>2, <1>3, <2>1, GoneStable DEF RunOK
  <2>3. \A j \in Targets : Gone(r, j)'
    BY <1>3, <2>1, <2>2 DEF Targets, Finish
  <2> QED
    BY <2>1, <2>3, RunEnds DEF Result
<1>4. CASE target[r] = TheMilvus
  <2>1. /\ target' = [target EXCEPT ![r] = TheCluster]
        /\ pc' = [pc EXCEPT ![r] = "get"]
        /\ seen' = [seen EXCEPT ![r] = Nameless]
        /\ UNCHANGED <<cmd, result, began>>
    BY <1>4 DEF NextTarget
  <2>2. RunTyped'
    BY <1>1, <1>2, <2>1 DEF RunTyped, PC
  <2>3. ASSUME NEW q \in Run PROVE RunOK(q)'
    <3>1. CASE q # r
      BY <1>1, <2>1, <3>1, RunUndisturbed DEF RunTyped
    <3>2. CASE q = r
      <4>1. pc'[r] = "get" /\ seen'[r] = Nameless /\ target'[r] = TheCluster
        BY <1>1, <2>1 DEF RunTyped
      <4>2. Gone(r, TheMilvus)'
        BY <1>4
      <4> QED
        BY <1>1, <1>2, <2>1, <3>2, <4>1, <4>2 DEF RunOK, Targets
    <3> QED
      BY <3>1, <3>2
  <2> QED
    BY <1>1, <2>2, <2>3, IInvByRun
<1> QED
  BY <1>2, <1>3, <1>4 DEF Targets

-----------------------------------------------------------------------------
(* Type correctness, and the safety invariants.                            *)

LEMMA InitIInv == Init => IInv
<1> SUFFICES ASSUME Init PROVE IInv
  OBVIOUS
<1>1. ApiOK
  <2>1. ASSUME NEW k \in Key, store[k] # Absent
        PROVE  store[k] \in Object /\ store[k].uid = 1 /\ store[k].rv = 1
    <3>1. PICK s \in Existing, f \in BOOLEAN :
            store[k] = [uid |-> 1, rv |-> 1, spec |-> s, finalizer |-> f,
                        terminating |-> FALSE]
      BY <2>1 DEF Init
    <3>2. s \in MilvusSpec
      BY ConstantsFit
    <3>3. store[k] \in Object
      BY <3>1, <3>2 DEF Object
    <3> QED
      BY <3>1, <3>3
  <2> QED
    BY <2>1 DEF Init, ApiOK
<1>2. TheMilvus \in Key /\ TheMilvus \in Targets /\ TheMilvus # TheCluster
  BY ConstantsFit DEF Targets
<1>3. RunTyped
  BY <1>2 DEF Init, RunTyped, PC, Result
<1>4. ASSUME NEW r \in Run PROVE RunOK(r)
  <2>1. /\ pc[r] = "idle" /\ target[r] = TheMilvus /\ seen[r] = Nameless
        /\ result[r] = "none" /\ began[r] = 0 /\ rev = 1
    BY DEF Init
  <2> QED
    BY <1>2, <2>1 DEF RunOK
<1> QED
  BY <1>1, <1>3, <1>4, IInvByRun

LEMMA ApiUnchanged ==
  ASSUME UNCHANGED apiVars
  PROVE  \A k \in Key : ApiStep(k)
BY DEF ApiStep

LEMMA StartIInv ==
  ASSUME IInv, NEW r \in Run, Start(r)
  PROVE  IInv'
<1>1. UNCHANGED apiVars /\ pc[r] = "idle" /\ TheMilvus \in Key /\ TheMilvus # TheCluster
  BY ConstantsFit DEF Start, Targets
<1>2. ApiOK /\ RunTyped /\ (\A q \in Run : RunOK(q)) /\ ApiOK' /\ ApiStep(TheMilvus)
  BY <1>1, IInvByRun, ApiUnchanged, ApiStepOK
<1>3. CASE Finish(r, "refused")
  BY <1>1, <1>2, <1>3, RunEnds DEF Result
<1>4. CASE ~Finish(r, "refused")
  <2>1. /\ pc' = [pc EXCEPT ![r] = 
             IF cmd[r].verb = "create" /\ cmd[r].file # NoFile THEN "create" ELSE "get"]
        /\ target' = [target EXCEPT ![r] =
             IF cmd[r].verb = "delete" THEN TheMilvus ELSE cmd[r].key]
        /\ began' = [began EXCEPT ![r] = IF cmd[r].verb = "delete" THEN rev ELSE 0]
        /\ UNCHANGED <<cmd, seen, result>>
    BY <1>4 DEF Start
  <2>2. cmd[r] \in Command /\ cmd[r].key \in Key /\ rev \in Nat
    BY <1>2, CommandType DEF RunTyped, ApiOK
  <2>3. RunTyped'
    BY <1>1, <1>2, <2>1, <2>2 DEF RunTyped, PC
  <2>4. ASSUME NEW q \in Run PROVE RunOK(q)'
    <3>1. CASE q # r
      BY <1>1, <1>2, <2>1, <3>1, RunUndisturbed DEF RunTyped
    <3>2. CASE q = r
      <4>1. seen[r] = Nameless /\ result[r] # "ok"
        BY <1>1, <1>2 DEF RunOK
      <4>2. /\ pc'[r] \in {"create", "get"} /\ seen'[r] = seen[r] /\ result'[r] = result[r]
            /\ pc'[r] = "create" => cmd[r].verb = "create" /\ cmd[r].file # NoFile
            /\ target'[r] = IF cmd[r].verb = "delete" THEN TheMilvus ELSE cmd[r].key
            /\ began'[r] = (IF cmd[r].verb = "delete" THEN rev ELSE 0) /\ cmd' = cmd
        BY <1>2, <2>1 DEF RunTyped
      <4>3. began'[r] <= rev
        BY <2>2, <4>2
      <4> QED
        BY <1>1, <3>2, <4>1, <4>2, <4>3 DEF RunOK, Targets, Creates
    <3> QED
      BY <3>1, <3>2
  <2> QED
    BY <1>2, <2>3, <2>4, IInvByRun
<1> QED
  BY <1>3, <1>4

(* What a working run can rely on. *)
LEMMA Facts ==
  ASSUME IInv, NEW r \in Run
  PROVE  /\ ApiOK /\ RunTyped /\ RunOK(r)
         /\ target[r] \in Key /\ cmd[r] \in Command /\ store[target[r]] \in Object \cup {Absent}
         /\ seen[r] \in Object \cup {Nameless}
         /\ UNCHANGED apiVars => ApiStep(target[r])
         /\ Nameless \in Object \cup {Nameless}
         /\ {"ok", "exists", "missing", "refused", "failed"} \subseteq Result
BY IInvByRun, ApiUnchanged DEF RunTyped, ApiOK, Result

LEMMA CreateGetIInv ==
  ASSUME IInv, NEW r \in Run, CreateGet(r)
  PROVE  IInv'
<1>1. UNCHANGED apiVars /\ pc[r] = "get" /\ cmd[r].verb = "create"
  BY DEF CreateGet, Working
<1>2. CASE \E res \in Result : Finish(r, res)
  BY <1>1, <1>2, Facts, RunEnds
<1>3. CASE HasProfile(cmd[r]) /\ Goto(r, "create", Nameless)
  BY <1>1, <1>3, Facts, RunGoesOn DEF Creates
<1> QED
  BY <1>2, <1>3, Facts DEF CreateGet

LEMMA CreateIInv ==
  ASSUME IInv, NEW r \in Run, Create(r)
  PROVE  IInv'
<1>1. pc[r] = "create" /\ cmd[r].verb = "create"
  BY DEF Create, Working
<1>2. NewSpec(cmd[r]) \in MilvusSpec
  BY <1>1, Facts, NewSpecType DEF RunOK
<1>3. ApiStep(target[r])
  BY <1>2, Facts, ApiCreateStep DEF Create
<1>4. PICK res \in Result : Finish(r, res)
  BY Facts DEF Create
<1> QED
  BY <1>1, <1>3, <1>4, Facts, RunEnds

LEMMA UpdateGetIInv ==
  ASSUME IInv, NEW r \in Run, UpdateGet(r)
  PROVE  IInv'
<1>1. UNCHANGED apiVars /\ pc[r] = "get" /\ cmd[r].verb = "update" /\ cmd[r].file = NoFile
  BY DEF UpdateGet, Working
<1>2. CASE \E res \in Result : Finish(r, res)
  BY <1>1, <1>2, Facts, RunEnds
<1>3. CASE store[target[r]] # Absent /\ Goto(r, "update", store[target[r]])
  BY <1>1, <1>3, Facts, RunGoesOn
<1>4. CASE Goto(r, "update", Nameless)
  BY <1>1, <1>4, Facts, RunGoesOn
<1> QED
  BY <1>2, <1>3, <1>4, Facts DEF UpdateGet

LEMMA UpdateIInv ==
  ASSUME IInv, NEW r \in Run, Update(r)
  PROVE  IInv'
<1>1. pc[r] = "update" /\ cmd[r].verb = "update"
  BY DEF Update, Working
<1>2. ASSUME seen[r] # Nameless
      PROVE  Overlay(seen[r].spec, cmd[r].set) \in MilvusSpec
  BY <1>2, Facts, CommandType, OverlayType DEF Object
<1>3. ApiStep(target[r])
  BY <1>2, Facts, ApiUpdateStep DEF Update
<1>4. PICK res \in Result : Finish(r, res)
  BY Facts DEF Update
<1> QED
  BY <1>1, <1>3, <1>4, Facts, RunEnds

LEMMA ApplyGetIInv ==
  ASSUME IInv, NEW r \in Run, ApplyGet(r)
  PROVE  IInv'
<1>1. UNCHANGED apiVars /\ pc[r] = "get" /\ cmd[r].verb = "update" /\ cmd[r].file # NoFile
  BY DEF ApplyGet, Working
<1>2. CASE Finish(r, "failed")
  BY <1>1, <1>2, Facts, RunEnds
<1>3. CASE store[target[r]] # Absent /\ Goto(r, "patch", store[target[r]])
  BY <1>1, <1>3, Facts, RunGoesOn, MarkersAreNoObjects
<1>4. CASE Goto(r, "create", Nameless)
  BY <1>1, <1>4, Facts, RunGoesOn DEF Creates
<1> QED
  BY <1>2, <1>3, <1>4 DEF ApplyGet

LEMMA ApplyWriteIInv ==
  ASSUME IInv, NEW r \in Run, ApplyWrite(r)
  PROVE  IInv'
<1>1. pc[r] \in {"create", "patch"} /\ cmd[r].verb = "update"
  BY DEF ApplyWrite, Working
<1>2. pc[r] = "create" => NewSpec(cmd[r]) \in MilvusSpec
  BY Facts, NewSpecType DEF RunOK
<1>3. pc[r] = "patch" => PatchOf(seen[r], cmd[r].file) \in Setting
  BY Facts, CommandType, PatchType DEF RunOK
<1>4. ApiStep(target[r])
  BY <1>2, <1>3, Facts, ApiCreateStep, ApiPatchStep DEF ApplyWrite, Working
<1>5. PICK res \in Result : Finish(r, res)
  BY Facts DEF ApplyWrite
<1> QED
  BY <1>1, <1>4, <1>5, Facts, RunEnds

LEMMA DeleteGetIInv ==
  ASSUME IInv, NEW r \in Run, DeleteGet(r)
  PROVE  IInv'
<1> DEFINE call == IF cmd[r].withDeletion THEN "update" ELSE "delete"
<1>1. UNCHANGED apiVars /\ pc[r] = "get" /\ cmd[r].verb = "delete"
  BY DEF DeleteGet, Working
<1>2. CASE store[target[r]] = Absent /\ NextTarget(r)
  <2>1. PICK t \in {target[r]} : store'[t] = Absent
    BY <1>1, <1>2
  <2>2. Gone(r, t)'
    BY <2>1 DEF Gone
  <2> QED
    BY <1>1, <1>2, <2>2, Facts, RunTurns
<1>3. CASE store[target[r]] # Absent /\ Goto(r, call, store[target[r]])
  BY <1>1, <1>3, Facts, RunGoesOn
<1>4. CASE Goto(r, call, Nameless)
  BY <1>1, <1>4, Facts, RunGoesOn
<1>5. CASE Finish(r, "failed")
  BY <1>1, <1>5, Facts, RunEnds
<1> QED
  BY <1>2, <1>3, <1>4, <1>5 DEF DeleteGet

LEMMA DeleteMarkIInv ==
  ASSUME IInv, NEW r \in Run, DeleteMark(r)
  PROVE  IInv'
<1>1. pc[r] = "update" /\ cmd[r].verb = "delete"
  BY DEF DeleteMark, Working
<1>2. ASSUME seen[r] # Nameless
      PROVE  Overlay(seen[r].spec, PvcMark(target[r])) \in MilvusSpec
  BY <1>2, Facts, PvcMarkType, OverlayType DEF Object
<1>3. ApiStep(target[r])
  BY <1>2, Facts, ApiUpdateStep DEF DeleteMark, ApiUpdate
<1>4. CASE Finish(r, "failed")
  BY <1>1, <1>3, <1>4, Facts, RunEnds
<1>5. CASE /\ ApiUpdate(target[r], seen[r], Overlay(seen[r].spec, PvcMark(target[r])))
           /\ Goto(r, "delete", seen[r])
  BY <1>1, <1>3, <1>5, Facts, RunGoesOn
<1> QED
  BY <1>4, <1>5 DEF DeleteMark

LEMMA DeleteIInv ==
  ASSUME IInv, NEW r \in Run, Delete(r)
  PROVE  IInv'
<1>1. pc[r] = "delete" /\ cmd[r].verb = "delete"
  BY DEF Delete, Working
<1>2. ApiStep(target[r])
  BY Facts, ApiDeleteStep DEF Delete
<1>3. CASE Finish(r, "failed")
  BY <1>1, <1>2, <1>3, Facts, RunEnds
<1>4. CASE ApiDelete(target[r]) /\ NextTarget(r)
  <2>1. PICK t \in {target[r]} : store'[t] = Absent \/ store'[t].terminating
    BY <1>4, Facts, ApiDeleteStep
  <2>2. Gone(r, t)'
    BY <2>1 DEF Gone
  <2> QED
    BY <1>1, <1>2, <1>4, <2>2, Facts, RunTurns
<1> QED
  BY <1>3, <1>4 DEF Delete

LEMMA KillIInv ==
  ASSUME IInv, NEW r \in Run, Kill(r)
  PROVE  IInv'
BY Facts, RunEnds DEF Kill

LEMMA ControllerIInv ==
  ASSUME IInv, NEW k \in Key, Reconcile(k) \/ Finalize(k)
  PROVE  IInv'
<1>1. ApiOK /\ RunTyped /\ \A r \in Run : RunOK(r)
  BY IInvByRun
<1>2. ApiStep(k) /\ UNCHANGED <<pc, cmd, target, seen, result, began>>
  BY <1>1, ReconcileStep DEF Reconcile, Finalize, ApiStep
<1>3. RunTyped' /\ ApiOK'
  BY <1>1, <1>2, ApiStepOK DEF RunTyped
<1>4. \A r \in Run : RunOK(r)'
  BY <1>1, <1>2, RunUndisturbed
<1> QED
  BY <1>3, <1>4, IInvByRun

LEMMA StepIInv == IInv /\ [Next]_vars => IInv'
<1> SUFFICES ASSUME IInv, [Next]_vars PROVE IInv'
  OBVIOUS
<1>1. ASSUME NEW r \in Run, RunNext(r) PROVE IInv'
  BY <1>1, StartIInv, KillIInv, CreateGetIInv, CreateIInv, UpdateGetIInv, UpdateIInv,
     ApplyGetIInv, ApplyWriteIInv, DeleteGetIInv, DeleteMarkIInv, DeleteIInv DEF RunNext
<1>2. ASSUME NEW k \in Key, Reconcile(k) \/ Finalize(k) PROVE IInv'
  BY <1>2, ControllerIInv
<1>3. CASE UNCHANGED vars
  BY <1>3 DEF vars, IInv, TypeOK, RevisionsIdentifyObjects, RightCall, DeleteProgress, Gone
<1> QED
  BY <1>1, <1>2, <1>3 DEF Next

(* What the theorems rest on holds in every reachable state: objects were  *)
(* written at revisions of the past, and every run is as far with its      *)
(* calls as its command line and the resources say.                        *)
THEOREM Inductive == Spec => []IInv
BY InitIInv, StepIInv, PTL DEF Spec

(* Every variable keeps to its type, for any number of runs and resources. *)
THEOREM TypeCorrect == Spec => []TypeOK
<1>1. IInv => TypeOK
  BY DEF IInv
<1> QED
  BY <1>1, Inductive, PTL

(* A delete that reports success has dealt with both resources, whatever   *)
(* else ran in the meantime (delete.go:52-61).                             *)
THEOREM DeleteCorrect == Spec => []DeleteLeavesNothing
<1>1. IInv => DeleteLeavesNothing
  BY DEF IInv, DeleteProgress, DeleteLeavesNothing
<1> QED
  BY <1>1, Inductive, PTL

-----------------------------------------------------------------------------
(* What a request shows of, from above: which spec is registered, and what *)
(* is going.                                                               *)

LEMMA SpecsAreNotAbsent ==
  ASSUME ApiOK, NEW k \in Key, store[k] # Absent
  PROVE  store[k] \in Object /\ store[k].spec \in MilvusSpec
BY DEF ApiOK, Object

LEMMA OverlaySame ==
  \A spec, set : /\ Registry!Overlay(spec, set) = Overlay(spec, set)
                 /\ Requests!Overlay(spec, set) = Overlay(spec, set)
BY DEF Registry!Overlay, Requests!Overlay, Overlay

(* A write of an object shows as its spec, and by whether it is going. *)
LEMMA WriteShows ==
  ASSUME ApiOK, NEW k \in Key, NEW obj \in Object, store' = [store EXCEPT ![k] = obj]
  PROVE  /\ Registered' = [Registered EXCEPT ![k] = obj.spec]
         /\ Going' = IF obj.terminating THEN Going \cup {k} ELSE Going \ {k}
<1>1. obj # Absent
  BY MarkersAreNoObjects
<1> DEFINE before == [j \in Key |-> IF store[j] = Absent THEN Absent ELSE store[j].spec]
           after  == [j \in Key |-> IF store'[j] = Absent THEN Absent ELSE store'[j].spec]
<1>2. \A j \in Key : store'[j] = IF j = k THEN obj ELSE store[j]
  BY DEF ApiOK
<1>3. \A j \in Key : after[j] = [before EXCEPT ![k] = obj.spec][j]
  BY <1>1, <1>2
<1>4. after = [before EXCEPT ![k] = obj.spec]
  <2> HIDE DEF before
  <2> SUFFICES ASSUME NEW j \in Key PROVE after[j] = [before EXCEPT ![k] = obj.spec][j]
    BY DEF before
  <2> QED
    BY <1>3
<1>5. Going' = IF obj.terminating THEN Going \cup {k} ELSE Going \ {k}
  BY <1>1, <1>2 DEF Going
<1> QED
  BY <1>4, <1>5 DEF Registered

LEMMA RemoveShows ==
  ASSUME ApiOK, NEW k \in Key, store' = [store EXCEPT ![k] = Absent]
  PROVE  Registered' = [Registered EXCEPT ![k] = Absent] /\ Going' = Going \ {k}
<1> DEFINE before == [j \in Key |-> IF store[j] = Absent THEN Absent ELSE store[j].spec]
           after  == [j \in Key |-> IF store'[j] = Absent THEN Absent ELSE store'[j].spec]
<1>1. \A j \in Key : store'[j] = IF j = k THEN Absent ELSE store[j]
  BY DEF ApiOK
<1>2. \A j \in Key : after[j] = [before EXCEPT ![k] = Absent][j]
  BY <1>1
<1>3. after = [before EXCEPT ![k] = Absent]
  <2> HIDE DEF before
  <2> SUFFICES ASSUME NEW j \in Key PROVE after[j] = [before EXCEPT ![k] = Absent][j]
    BY DEF before
  <2> QED
    BY <1>2
<1>4. Going' = Going \ {k}
  BY <1>1 DEF Going
<1> QED
  BY <1>3, <1>4 DEF Registered

(* What is there shows as its spec, and a registered spec is no marker. *)
LEMMA PresentShows ==
  ASSUME ApiOK, NEW k \in Key
  PROVE  /\ store[k] = Absent <=> Registered[k] = Absent
         /\ store[k] # Absent => /\ store[k] \in Object /\ Registered[k] = store[k].spec
                                 /\ k \in Going <=> store[k].terminating
         /\ [Registered EXCEPT ![k] = Registered[k]] = Registered
BY SpecsAreNotAbsent, MarkersAreNoObjects DEF Registered, Going

LEMMA CreateShows ==
  ASSUME ApiOK, NEW k \in Key, NEW spec \in MilvusSpec, ApiCreate(k, spec)
  PROVE  /\ Registered[k] = Absent
         /\ Registered' = [Registered EXCEPT ![k] = spec] /\ Going' = Going
<1> DEFINE obj == [uid |-> rev + 1, rv |-> rev + 1, spec |-> spec,
                   finalizer |-> FALSE, terminating |-> FALSE]
<1>1. obj \in Object /\ obj.spec = spec /\ ~obj.terminating
  BY DEF ApiOK, Object
<1>2. store[k] = Absent /\ store' = [store EXCEPT ![k] = obj]
  BY DEF ApiCreate, Write
<1> QED
  BY <1>1, <1>2, WriteShows DEF Registered, Going

(* A write that keeps whether the object is going. *)
LEMMA RewriteShows ==
  ASSUME ApiOK, NEW k \in Key, store[k] # Absent, NEW obj \in Object, Write(k, obj),
         obj.terminating = store[k].terminating
  PROVE  Registered' = [Registered EXCEPT ![k] = obj.spec] /\ Going' = Going
<1>1. /\ Registered' = [Registered EXCEPT ![k] = obj.spec]
      /\ Going' = IF store[k].terminating THEN Going \cup {k} ELSE Going \ {k}
  BY WriteShows DEF Write
<1>2. k \in Going <=> store[k].terminating
  BY PresentShows
<1> QED
  BY <1>1, <1>2

LEMMA ReplaceShows ==
  ASSUME ApiOK, NEW k \in Key, store[k] # Absent, NEW spec \in MilvusSpec, Replace(k, spec)
  PROVE  Registered' = [Registered EXCEPT ![k] = spec] /\ Going' = Going
<1> DEFINE obj == [store[k] EXCEPT !.spec = spec, !.rv = rev + 1]
<1>1. CASE spec = store[k].spec /\ UNCHANGED apiVars
  <2>1. Registered' = Registered /\ Going' = Going
    BY <1>1 DEF Registered, Going
  <2> QED
    BY <1>1, <2>1, PresentShows
<1>2. CASE Write(k, obj)
  <2> DEFINE n == rev + 1
             o == store[k]
  <2>1. n \in Nat /\ o \in Object
    BY SpecsAreNotAbsent DEF ApiOK
  <2>2. obj \in Object /\ obj.spec = spec /\ obj.terminating = o.terminating
    <3> HIDE DEF n, o
    <3>1. LET w == [o EXCEPT !.spec = spec, !.rv = n] IN
          w \in Object /\ w.spec = spec /\ w.terminating = o.terminating
      BY <2>1 DEF Object
    <3> QED
      BY <3>1 DEF n, o
  <2> QED
    BY <1>2, <2>2, RewriteShows
<1> QED
  BY <1>1, <1>2 DEF Replace

(* A served DELETE takes the object away or leaves it to go. *)
LEMMA DeleteShows ==
  ASSUME ApiOK, NEW k \in Key, ApiDelete(k)
  PROVE  /\ Registered[k] # Absent
         /\ \/ Registered' = [Registered EXCEPT ![k] = Absent] /\ Going' = Going \ {k}
            \/ Registered' = Registered /\ Going' = Going \cup {k}
<1> DEFINE obj == [store[k] EXCEPT !.terminating = TRUE, !.rv = rev + 1]
<1>1. store[k] # Absent /\ store[k] \in Object /\ rev + 1 \in Nat
  BY SpecsAreNotAbsent DEF ApiDelete, ApiOK
<1>2. CASE store' = [store EXCEPT ![k] = Absent]
  BY <1>1, <1>2, RemoveShows, PresentShows
<1>3. CASE store[k].terminating /\ UNCHANGED apiVars
  <2>1. Registered' = Registered /\ Going' = Going
    BY <1>3 DEF Registered, Going
  <2> QED
    BY <1>1, <1>3, <2>1, PresentShows
<1>4. CASE Write(k, obj)
  <2>1. obj \in Object /\ obj.spec = store[k].spec /\ obj.terminating
    BY <1>1, TerminatingWritten
  <2>2. /\ Registered' = [Registered EXCEPT ![k] = obj.spec]
        /\ Going' = Going \cup {k}
    BY <1>4, <2>1, WriteShows DEF Write
  <2> QED
    BY <1>1, <2>1, <2>2, PresentShows
<1> QED
  BY <1>2, <1>3, <1>4 DEF ApiDelete

LEMMA ReconcileShows ==
  ASSUME ApiOK, NEW k \in Key, Reconcile(k)
  PROVE  Registered' = Registered /\ Going' = Going
<1> DEFINE obj == [store[k] EXCEPT !.finalizer = TRUE, !.rv = rev + 1]
<1>1. store[k] # Absent /\ store[k] \in Object /\ rev + 1 \in Nat
  BY SpecsAreNotAbsent DEF Reconcile, ApiOK
<1>2. obj \in Object /\ obj.spec = store[k].spec /\ obj.terminating = store[k].terminating
  <2> DEFINE n == rev + 1
             o == store[k]
  <2> HIDE DEF n, o
  <2>1. LET w == [o EXCEPT !.finalizer = TRUE, !.rv = n] IN
        o \in Object /\ n \in Nat
        => w \in Object /\ w.spec = o.spec /\ w.terminating = o.terminating
    BY DEF Object
  <2> QED
    BY <1>1, <2>1 DEF n, o
<1>3. Registered' = [Registered EXCEPT ![k] = obj.spec] /\ Going' = Going
  BY <1>1, <1>2, RewriteShows DEF Reconcile
<1> QED
  BY <1>1, <1>2, <1>3, PresentShows

-----------------------------------------------------------------------------
(* To each user his command is one request.  Every action of a run is one  *)
(* of the three steps on the run's own state, seen through what was        *)
(* requested, answered and dealt with, together with at most one call,     *)
(* seen through the registered specs.                                      *)

(* What the steps of a command ask for is what its line asks for. *)
LEMMA Asked ==
  ASSUME NEW c \in Command
  PROVE  /\ Creates(c) => NewSpec(c) \in Orders[c][c.key]
         /\ c.verb = "update" /\ c.file = NoFile => c.set \in Changes[c][c.key]
         /\ c.verb = "update" /\ c.file # NoFile =>
              \A obj : PatchOf(obj, c.file) \in Changes[c][c.key]
         /\ c.verb = "delete" /\ c.withDeletion =>
              \A k \in Targets : PvcMark(k) \in Changes[c][k]
         /\ Removals[c] = IF c.verb = "delete" THEN Targets ELSE {}
<1>1. c.key \in Key /\ Targets \subseteq Key /\ (c.file # NoFile => c.file \in Setting)
  BY CommandType, ConstantsFit
<1>2. c.file # NoFile => \A obj : PatchOf(obj, c.file) \in PartOf(c.file)
  <2> SUFFICES ASSUME c.file # NoFile, NEW obj
               PROVE  PatchOf(obj, c.file) \in PartOf(c.file)
    OBVIOUS
  <2>1. PatchOf(obj, c.file) \in Setting
    BY <1>1, PatchType
  <2>2. \A f \in Field : PatchOf(obj, c.file)[f] \in {Keep, c.file[f]}
    BY DEF PatchOf
  <2> QED
    BY <2>1, <2>2 DEF PartOf
<1>3. Creates(c) => NewSpec(c) \in Orders[c][c.key]
  BY <1>1 DEF Orders
<1>4. c.verb = "update" =>
        Changes[c][c.key] = IF c.file = NoFile THEN {c.set} ELSE PartOf(c.file)
  BY <1>1 DEF Changes
<1>5. c.verb = "delete" /\ c.withDeletion =>
        \A k \in Targets : PvcMark(k) \in Changes[c][k]
  BY <1>1 DEF Changes
<1> QED
  BY <1>2, <1>3, <1>4, <1>5 DEF Removals

(* A run at work has not answered, and a delete that has reached the       *)
(* MilvusCluster has dealt with the Milvus and nothing else.               *)
LEMMA AtWork ==
  ASSUME IInv, NEW r \in Run, pc[r] \notin {"idle", "done"}
  PROVE  /\ Answers[r] = "open" /\ result[r] # "ok"
         /\ cmd[r].verb # "delete" => Dealt[r] = {}
         /\ cmd[r].verb = "delete" =>
              /\ target[r] \in Targets \ Dealt[r]
              /\ Targets \subseteq Dealt[r] \cup {target[r]} <=> target[r] # TheMilvus
              /\ Dealt[r] \cup {target[r]} = IF target[r] = TheMilvus THEN {TheMilvus}
                                                                   ELSE Targets
<1>1. RunOK(r) /\ TheMilvus # TheCluster
  BY Facts, ConstantsFit
<1> QED
  BY <1>1 DEF RunOK, Answers, Dealt, Targets

(* A step of the run r changes nothing of the others. *)
LEMMA OthersStand ==
  ASSUME RunTyped, NEW r \in Run, cmd' = cmd,
         \A q \in Run \ {r} : /\ pc'[q] = pc[q] /\ result'[q] = result[q]
                              /\ target'[q] = target[q]
  PROVE  /\ Answers' = [Answers EXCEPT ![r] = Answers'[r]]
         /\ Dealt' = [Dealt EXCEPT ![r] = Dealt'[r]]
<1>2. \A q \in Run : q # r => Answers'[q] = Answers[q] /\ Dealt'[q] = Dealt[q]
  BY DEF Answers, Dealt
<1>3. Answers' = [Answers EXCEPT ![r] = Answers'[r]]
  <2>1. Answers' = [q \in Run |-> Answers'[q]] /\ Answers = [q \in Run |-> Answers[q]]
    BY DEF Answers
  <2> QED
    BY <1>2, <2>1
<1>4. Dealt' = [Dealt EXCEPT ![r] = Dealt'[r]]
  <2>1. Dealt' = [q \in Run |-> Dealt'[q]] /\ Dealt = [q \in Run |-> Dealt[q]]
    BY DEF Dealt
  <2> QED
    BY <1>2, <2>1
<1> QED
  BY <1>3, <1>4

LEMMA FinishShows ==
  ASSUME IInv, NEW r \in Run, pc[r] # "done", NEW res \in Result, Finish(r, res),
         res = "ok" => cmd[r].verb # "delete"
  PROVE  /\ cmd' = cmd /\ Dealt' = Dealt
         /\ \A answers : res \in answers => Requests!Answer(r, answers)
<1>1. RunTyped /\ RunOK(r)
  BY Facts
<1>2. /\ cmd' = cmd /\ pc'[r] = "done" /\ result'[r] = res /\ target' = target
      /\ \A q \in Run \ {r} : pc'[q] = pc[q] /\ result'[q] = result[q]
  BY <1>1 DEF Finish, RunTyped
<1>3. Answers'[r] = res
  BY <1>2 DEF Answers
<1>4. Dealt'[r] = Dealt[r]
  BY <1>1, <1>2 DEF Dealt, RunOK
<1>5. [Dealt EXCEPT ![r] = Dealt[r]] = Dealt
  BY DEF Dealt
<1> QED
  BY <1>1, <1>2, <1>3, <1>4, <1>5, OthersStand DEF Requests!Answer

LEMMA GotoShows ==
  ASSUME IInv, NEW r \in Run, pc[r] \notin {"idle", "done"},
         NEW call \in {"get", "create", "update", "patch", "delete"}, NEW obj,
         Goto(r, call, obj)
  PROVE  /\ cmd' = cmd /\ Dealt' = Dealt /\ Answers' = Answers
         /\ \A answers : "open" \in answers => Requests!Answer(r, answers)
<1>1. RunTyped /\ RunOK(r)
  BY Facts
<1>2. /\ cmd' = cmd /\ pc'[r] = call /\ result' = result /\ target' = target
      /\ \A q \in Run \ {r} : pc'[q] = pc[q]
  BY <1>1 DEF Goto, RunTyped
<1>3. Answers'[r] = "open" /\ Answers[r] = "open" /\ Dealt'[r] = Dealt[r]
  BY <1>2 DEF Answers, Dealt
<1>4. [Dealt EXCEPT ![r] = Dealt[r]] = Dealt /\ [Answers EXCEPT ![r] = Answers[r]] = Answers
  BY DEF Dealt, Answers
<1> QED
  BY <1>1, <1>2, <1>3, <1>4, OthersStand DEF Requests!Answer

(* A delete that turns to its next resource, or is through, has dealt with *)
(* the one it was working on.                                              *)
LEMMA TurnShows ==
  ASSUME IInv, NEW r \in Run, pc[r] \notin {"idle", "done"}, cmd[r].verb = "delete",
         NextTarget(r)
  PROVE  cmd' = cmd /\ Requests!Deal(r, target[r])
<1>1. RunTyped /\ RunOK(r) /\ TheMilvus # TheCluster /\ target[r] \in Targets
  BY Facts, ConstantsFit DEF RunOK
<1>2. /\ cmd' = cmd
      /\ \A q \in Run \ {r} : /\ pc'[q] = pc[q] /\ result'[q] = result[q]
                              /\ target'[q] = target[q]
  BY <1>1 DEF NextTarget, Finish, RunTyped
<1>3. /\ Dealt'[r] = Dealt[r] \cup {target[r]}
      /\ Answers'[r] = IF Targets \subseteq Dealt[r] \cup {target[r]} THEN "ok" ELSE "open"
  <2>1. CASE target[r] = TheMilvus
    <3>1. pc'[r] = "get" /\ result'[r] = result[r] /\ target'[r] = TheCluster
      BY <1>1, <2>1 DEF NextTarget, RunTyped
    <3> QED
      BY <1>1, <1>2, <2>1, <3>1, AtWork DEF Answers, Dealt
  <2>2. CASE target[r] = TheCluster
    <3>1. pc'[r] = "done" /\ result'[r] = "ok"
      BY <1>1, <2>2 DEF NextTarget, Finish, RunTyped
    <3> QED
      BY <1>1, <1>2, <2>2, <3>1, AtWork DEF Answers, Dealt
  <2> QED
    BY <1>1, <2>1, <2>2 DEF Targets
<1>4. Removals[cmd[r]] = Targets
  BY Facts, AtWork, Asked
<1> QED
  BY <1>1, <1>2, <1>3, <1>4, OthersStand DEF Requests!Deal, Requests!Answer


(* The steps of a command, one by one. *)

LEMMA StandsStill ==
  ASSUME UNCHANGED apiVars
  PROVE  Registered' = Registered /\ Going' = Going
BY DEF Registered, Going

LEMMA BeginsRequest ==
  ASSUME IInv, NEW r \in Run, Start(r)
  PROVE  Requests!Begin(r)
<1>1. RunTyped /\ RunOK(r) /\ pc[r] = "idle" /\ UNCHANGED apiVars /\ TheMilvus # TheCluster
  BY Facts, ConstantsFit DEF Start
<1>2. Answers[r] = "new" /\ Registered' = Registered /\ Going' = Going
  BY <1>1, StandsStill DEF Answers
<1>3. CASE Finish(r, "refused")
  BY <1>1, <1>2, <1>3, FinishShows DEF Result, Requests!Begin
<1>4. CASE ~Finish(r, "refused")
  <2>1. /\ pc' = [pc EXCEPT ![r] =
             IF cmd[r].verb = "create" /\ cmd[r].file # NoFile THEN "create" ELSE "get"]
        /\ target' = [target EXCEPT ![r] =
             IF cmd[r].verb = "delete" THEN TheMilvus ELSE cmd[r].key]
        /\ UNCHANGED <<cmd, seen, result>>
    BY <1>4 DEF Start
  <2>2. /\ pc'[r] \in {"create", "get"} /\ result'[r] # "ok"
        /\ cmd[r].verb = "delete" => target'[r] = TheMilvus
        /\ \A q \in Run \ {r} : pc'[q] = pc[q] /\ target'[q] = target[q]
    BY <1>1, <2>1 DEF RunTyped, RunOK
  <2>3. Answers'[r] = "open" /\ Dealt'[r] = {} /\ Dealt[r] = {}
    BY <1>1, <2>1, <2>2 DEF Answers, Dealt, RunOK
  <2>4. [Dealt EXCEPT ![r] = Dealt[r]] = Dealt
    BY DEF Dealt
  <2>5. cmd' = cmd /\ Dealt' = Dealt /\ Requests!Answer(r, {"open", "refused"})
    BY <1>1, <2>1, <2>2, <2>3, <2>4, OthersStand DEF Requests!Answer
  <2> QED
    BY <1>2, <2>5 DEF Requests!Begin
<1> QED
  BY <1>3, <1>4

LEMMA GivesUp ==
  ASSUME IInv, NEW r \in Run, pc[r] \notin {"idle", "done"}, UNCHANGED apiVars,
         NEW res \in {"exists", "refused", "failed"}, Finish(r, res)
  PROVE  Requests!GiveUp(r)
<1>1. cmd' = cmd /\ Dealt' = Dealt /\ Requests!Answer(r, {"exists", "refused", "failed"})
  BY FinishShows DEF Result
<1> QED
  BY <1>1, AtWork, StandsStill DEF Requests!GiveUp

(* A call that changed nothing, and the run goes on. *)
LEMMA GoesOn ==
  ASSUME IInv, NEW r \in Run, pc[r] \notin {"idle", "done"}, UNCHANGED apiVars,
         NEW call \in {"get", "create", "update", "patch", "delete"}, NEW obj,
         Goto(r, call, obj)
  PROVE  UNCHANGED Requests!requestVars
BY GotoShows, StandsStill DEF Requests!requestVars

LEMMA CreatesOnce ==
  ASSUME IInv, NEW r \in Run, pc[r] = "create", ApiCreate(target[r], NewSpec(cmd[r])),
         NEW res \in {"ok", "failed"}, Finish(r, res)
  PROVE  Requests!Create(r, target[r])
<1> DEFINE k == target[r]
           c == cmd[r]
<1>1. ApiOK /\ k \in Key /\ c \in Command /\ RunOK(r)
  BY Facts
<1>2. Creates(c) /\ c.verb # "delete" /\ c.key = k
  BY <1>1 DEF RunOK, Creates
<1>3. NewSpec(c) \in MilvusSpec /\ NewSpec(c) \in Orders[c][k]
  BY <1>1, <1>2, NewSpecType, Asked
<1>4. /\ Registered[k] = Absent /\ Going' = Going
      /\ Registered' = [Registered EXCEPT ![k] = NewSpec(c)]
  BY <1>1, <1>3, CreateShows
<1>5. cmd' = cmd /\ Dealt' = Dealt /\ Requests!Answer(r, {"ok", "failed"})
  BY <1>2, FinishShows DEF Result
<1> QED
  BY <1>3, <1>4, <1>5 DEF Requests!Create, Requests!Register

(* What is applied is applied to the resource as it is at that moment.     *)
LEMMA AppliesOnce ==
  ASSUME IInv, NEW r \in Run, pc[r] \notin {"idle", "done"}, cmd[r].verb = "update",
         store[target[r]] # Absent,
         NEW set \in Setting, set \in Changes[cmd[r]][target[r]],
         Replace(target[r], Overlay(store[target[r]].spec, set)),
         NEW res \in {"ok", "failed"}, Finish(r, res)
  PROVE  Requests!Apply(r, target[r])
<1> DEFINE k == target[r]
           spec == Overlay(store[k].spec, set)
<1>1. ApiOK /\ k \in Key /\ cmd[r] \in Command
  BY Facts
<1>2. spec \in MilvusSpec
  BY <1>1, SpecsAreNotAbsent, OverlayType
<1>3. Registered' = [Registered EXCEPT ![k] = spec] /\ Going' = Going
  BY <1>1, <1>2, ReplaceShows
<1>4. Registered[k] # Absent /\ spec = Requests!Overlay(Registered[k], set)
  BY <1>1, PresentShows, OverlaySame
<1>5. cmd' = cmd /\ Dealt' = Dealt /\ Requests!Answer(r, {"ok", "failed"})
  BY FinishShows DEF Result
<1>6. /\ Removals[cmd[r]] = {}
  BY <1>1, AtWork, Asked
<1> QED
  BY <1>3, <1>4, <1>5, <1>6 DEF Requests!Apply, Requests!Register

LEMMA MarksOnce ==
  ASSUME IInv, NEW r \in Run, pc[r] \notin {"idle", "done"}, cmd[r].verb = "delete",
         cmd[r].withDeletion, store[target[r]] # Absent,
         Replace(target[r], Overlay(store[target[r]].spec, PvcMark(target[r]))),
         Goto(r, "delete", seen[r]) \/ Finish(r, "failed")
  PROVE  Requests!Mark(r, target[r])
<1> DEFINE k == target[r]
           spec == Overlay(store[k].spec, PvcMark(k))
<1>1. ApiOK /\ k \in Key /\ cmd[r] \in Command
  BY Facts
<1>2. spec \in MilvusSpec
  BY <1>1, SpecsAreNotAbsent, OverlayType, PvcMarkType
<1>3. Registered' = [Registered EXCEPT ![k] = spec] /\ Going' = Going
  BY <1>1, <1>2, ReplaceShows
<1>4. Registered[k] # Absent /\ spec = Requests!Overlay(Registered[k], PvcMark(k))
  BY <1>1, PresentShows, OverlaySame
<1>5. /\ cmd' = cmd /\ Dealt' = Dealt
      /\ Requests!Answer(r, {"open", "failed"})
  BY FinishShows, GotoShows DEF Result
<1>6. /\ k \in Removals[cmd[r]] \ Dealt[r] /\ PvcMark(k) \in Changes[cmd[r]][k]
  BY <1>1, AtWork, Asked
<1> QED
  BY <1>3, <1>4, <1>5, <1>6 DEF Requests!Mark, Requests!Register

LEMMA RemovesOnce ==
  ASSUME IInv, NEW r \in Run, pc[r] \notin {"idle", "done"}, cmd[r].verb = "delete",
         ApiDelete(target[r]), NextTarget(r) \/ Finish(r, "failed")
  PROVE  Requests!Remove(r, target[r])
<1> DEFINE k == target[r]
<1>1. ApiOK /\ k \in Key /\ cmd[r] \in Command
  BY Facts
<1>2. /\ Registered[k] # Absent
      /\ \/ Registered' = [Registered EXCEPT ![k] = Absent] /\ Going' = Going \ {k}
         \/ Registered' = Registered /\ Going' = Going \cup {k}
  BY <1>1, DeleteShows
<1>3. /\ k \in Removals[cmd[r]] \ Dealt[r]
  BY <1>1, AtWork, Asked
<1>4. /\ cmd' = cmd
      /\ \/ Requests!Deal(r, k)
         \/ Requests!Answer(r, {"failed"}) /\ Dealt' = Dealt
  BY FinishShows, TurnShows DEF Result
<1> QED
  BY <1>2, <1>3, <1>4 DEF Requests!Remove, Requests!Register

LEMMA FindsGone ==
  ASSUME IInv, NEW r \in Run, pc[r] \notin {"idle", "done"}, cmd[r].verb = "delete",
         store[target[r]] = Absent, UNCHANGED apiVars, NextTarget(r)
  PROVE  Requests!FindGone(r, target[r])
<1> DEFINE k == target[r]
<1>1. ApiOK /\ k \in Key /\ cmd[r] \in Command
  BY Facts
<1>2. /\ k \in Removals[cmd[r]] \ Dealt[r]
  BY <1>1, AtWork, Asked
<1>3. cmd' = cmd /\ Requests!Deal(r, k)
  BY TurnShows
<1> QED
  BY <1>1, <1>2, <1>3, StandsStill, PresentShows DEF Requests!FindGone

LEMMA FindsMissing ==
  ASSUME IInv, NEW r \in Run, pc[r] \notin {"idle", "done"}, cmd[r].verb = "update",
         cmd[r].file = NoFile, store[target[r]] = Absent, UNCHANGED apiVars,
         Finish(r, "missing")
  PROVE  Requests!GiveUp(r)
<1>1. ApiOK /\ target[r] \in Key /\ cmd[r] \in Command /\ cmd[r].key = target[r]
  BY Facts DEF RunOK
<1>2. cmd' = cmd /\ Dealt' = Dealt /\ Requests!Answer(r, {"missing"})
  BY FinishShows DEF Result
<1>3. /\ Answers[r] = "open" /\ Changes[cmd[r]][target[r]] # {}
      /\ Registered[target[r]] = Absent
  BY <1>1, AtWork, Asked, PresentShows
<1> QED
  BY <1>1, <1>2, <1>3, StandsStill DEF Requests!GiveUp

LEMMA WorkIsRequest ==
  ASSUME IInv, NEW r \in Run, RunNext(r), ~Start(r)
  PROVE  Requests!Work(r) \/ UNCHANGED Requests!requestVars
<1> DEFINE k == target[r]
           c == cmd[r]
<1>1. /\ ApiOK /\ k \in Key /\ c \in Command /\ RunOK(r)
      /\ seen[r] \in Object \cup {Nameless}
  BY Facts
<1>3. ASSUME pc[r] \notin {"idle", "done"}
      PROVE  /\ \A res \in {"exists", "refused", "failed"} :
                  UNCHANGED apiVars /\ Finish(r, res) => Requests!Work(r)
             /\ \A call \in {"get", "create", "update", "patch", "delete"} : \A obj :
                  UNCHANGED apiVars /\ Goto(r, call, obj) => UNCHANGED Requests!requestVars
  BY <1>3, GivesUp, GoesOn DEF Requests!Work
<1>4. CASE Kill(r) \/ CreateGet(r) \/ ApplyGet(r)
  BY <1>3, <1>4 DEF Kill, CreateGet, ApplyGet, Working
<1>5. CASE Create(r)
  BY <1>1, <1>3, <1>5, CreatesOnce DEF Create, Working, Requests!Work
<1>6. CASE UpdateGet(r)
  BY <1>3, <1>6, FindsMissing DEF UpdateGet, Working, Requests!Work
<1>7. CASE Update(r)
  <2>1. pc[r] = "update" /\ c.verb = "update" /\ c.file = NoFile
    BY <1>1, <1>7 DEF Update, Working, RunOK
  <2>2. CASE /\ seen[r] # Nameless
             /\ ApiUpdate(k, seen[r], Overlay(seen[r].spec, c.set))
             /\ \E res \in {"ok", "failed"} : Finish(r, res)
    <3>1. store[k] # Absent /\ store[k] = seen[r]
      BY <1>1, <2>2 DEF ApiUpdate, RunOK
    <3>2. c.set \in Setting /\ c.set \in Changes[c][k]
      BY <1>1, <2>1, CommandType, Asked DEF RunOK
    <3> QED
      BY <1>1, <2>1, <2>2, <3>1, <3>2, AppliesOnce DEF ApiUpdate, Requests!Work
  <2> QED
    BY <1>3, <1>7, <2>1, <2>2 DEF Update
<1>8. CASE ApplyWrite(r)
  <2>1. CASE /\ pc[r] = "create" /\ c.verb = "update" /\ ApiCreate(k, NewSpec(c))
             /\ \E res \in {"ok", "failed"} : Finish(r, res)
    BY <1>1, <2>1, CreatesOnce DEF Requests!Work
  <2>2. CASE /\ pc[r] = "patch" /\ ApiPatch(k, PatchOf(seen[r], c.file))
             /\ \E res \in {"ok", "failed"} : Finish(r, res)
    <3>1. c.verb = "update" /\ c.file # NoFile /\ c.key = k
      BY <1>1, <2>2 DEF RunOK
    <3>2. /\ PatchOf(seen[r], c.file) \in Setting
          /\ PatchOf(seen[r], c.file) \in Changes[c][k]
      BY <1>1, <3>1, CommandType, PatchType, Asked
    <3> QED
      BY <1>1, <2>2, <3>1, <3>2, AppliesOnce DEF ApiPatch, Requests!Work
  <2> QED
    BY <1>3, <1>8, <2>1, <2>2 DEF ApplyWrite, Working
<1>9. CASE DeleteGet(r)
  BY <1>1, <1>3, <1>9, FindsGone DEF DeleteGet, Working, Requests!Work
<1>10. CASE DeleteMark(r)
  <2>1. pc[r] = "update" /\ c.verb = "delete" /\ c.withDeletion
    BY <1>1, <1>10 DEF DeleteMark, Working, RunOK
  <2>2. CASE /\ ApiUpdate(k, seen[r], Overlay(seen[r].spec, PvcMark(k)))
             /\ Goto(r, "delete", seen[r]) \/ Finish(r, "failed")
    <3>1. store[k] # Absent /\ store[k] = seen[r]
      BY <1>1, <2>2 DEF ApiUpdate, RunOK
    <3> QED
      BY <1>1, <2>1, <2>2, <3>1, MarksOnce DEF ApiUpdate, Requests!Work
  <2> QED
    BY <1>3, <1>10, <2>1, <2>2 DEF DeleteMark
<1>11. CASE Delete(r)
  <2>1. pc[r] = "delete" /\ c.verb = "delete"
    BY <1>11 DEF Delete, Working
  <2>2. CASE ApiDelete(k) /\ (NextTarget(r) \/ Finish(r, "failed"))
    BY <1>1, <2>1, <2>2, RemovesOnce DEF Requests!Work
  <2> QED
    BY <1>3, <1>11, <2>1, <2>2 DEF Delete
<1> QED
  BY <1>4, <1>5, <1>6, <1>7, <1>8, <1>9, <1>10, <1>11 DEF RunNext

LEMMA RunIsRequest ==
  ASSUME IInv, NEW r \in Run, RunNext(r)
  PROVE  \/ Requests!Begin(r)
         \/ Answers[r] = "open" /\ Requests!Work(r)
         \/ UNCHANGED Requests!requestVars
<1>1. CASE Start(r)
  BY <1>1, BeginsRequest
<1>2. CASE ~Start(r)
  <2>1. pc[r] \notin {"idle", "done"}
    BY <1>2 DEF RunNext, Kill, CreateGet, Create, UpdateGet, Update, ApplyGet, ApplyWrite,
       DeleteGet, DeleteMark, Delete, Working
  <2>2. Answers[r] = "open"
    BY <2>1, AtWork
  <2> QED
    BY <1>2, <2>2, WorkIsRequest
<1> QED
  BY <1>1, <1>2

LEMMA ControllerIsQuiet ==
  ASSUME IInv, NEW k \in Key, Reconcile(k) \/ Finalize(k)
  PROVE  Requests!Vanish(k) \/ UNCHANGED Requests!requestVars
<1>1. ApiOK /\ cmd' = cmd /\ Answers' = Answers /\ Dealt' = Dealt
  BY IInvByRun DEF Reconcile, Finalize, Answers, Dealt
<1>2. CASE Reconcile(k)
  BY <1>1, <1>2, ReconcileShows DEF Requests!requestVars
<1>3. CASE Finalize(k)
  <2>1. k \in Going
    BY <1>3 DEF Finalize, Going
  <2> QED
    BY <1>1, <1>3, <2>1, RemoveShows DEF Finalize, Requests!Vanish, Requests!Register
<1> QED
  BY <1>2, <1>3

(* Whatever the interleaving, the failures and the lost answers, every     *)
(* command is to its user one request: carried out at one moment while it  *)
(* runs, as its line asks and on the resource as it is then, reported as   *)
(* done only if it was, and never carried out after it has given up        *)
(* (create.go:131-208, update.go:138-166, delete.go:52-114).               *)
THEOREM RequestsRefinement == Spec => ImplementsRequests
<1>1. Init => Requests!Init
  <2> SUFFICES ASSUME Init PROVE Requests!Init
    OBVIOUS
  <2>1. ApiOK /\ RunTyped
    BY InitIInv, IInvByRun
  <2>2. Registered \in [Key -> MilvusSpec \cup {Absent}]
    BY <2>1, SpecsAreNotAbsent DEF Registered
  <2>3. Going \in SUBSET Key
    BY DEF Going
  <2>4. cmd \in [Run -> Command]
    BY <2>1 DEF RunTyped
  <2>5. Answers = [r \in Run |-> "new"]
    BY DEF Init, Answers
  <2>6. Dealt = [r \in Run |-> {}]
    BY ConstantsFit DEF Init, Dealt
  <2> QED
    BY <2>2, <2>3, <2>4, <2>5, <2>6 DEF Requests!Init, Requests!MilvusSpec, MilvusSpec
<1>2. IInv /\ [Next]_vars => [Requests!Next]_(Requests!requestVars)
  <2> SUFFICES ASSUME IInv, [Next]_vars PROVE [Requests!Next]_(Requests!requestVars)
    OBVIOUS
  <2>1. CASE \E r \in Run : RunNext(r)
    BY <2>1, RunIsRequest DEF Requests!Next
  <2>2. CASE \E k \in Key : Reconcile(k) \/ Finalize(k)
    BY <2>2, ControllerIsQuiet DEF Requests!Next
  <2>3. CASE UNCHANGED vars
    BY <2>3 DEF vars, Registered, Going, Answers, Dealt, Requests!requestVars
  <2> QED
    BY <2>1, <2>2, <2>3 DEF Next
<1> QED
  BY <1>1, <1>2, Inductive, PTL DEF Spec, ImplementsRequests, Requests!Spec

(* What is a request to its user is a step of the registry, which forgets  *)
(* who has asked.                                                          *)
LEMMA RequestIsRegistered ==
  ASSUME RunTyped, [Requests!Next]_(Requests!requestVars)
  PROVE  [Registry!Next]_Registered
<1>1. /\ \A k \in Key : [Registered EXCEPT ![k] = Registered[k]] = Registered
      /\ \A r \in Run : cmd[r] \in Command
      /\ \A k \in Key : \A c \in Command : Orders[c][k] \subseteq Ordered[k]
                                           /\ Changes[c][k] \subseteq Change[k]
  BY DEF Registered, RunTyped, Ordered, Change
<1>2. ASSUME NEW k \in Key, Requests!Register(k, Absent)
      PROVE  [Registry!Next]_Registered
  BY <1>1, <1>2 DEF Requests!Register, Registry!Next, Registry!Remove
<1>3. ASSUME NEW r \in Run, NEW k \in Key, Requests!Create(r, k)
      PROVE  Registry!Next
  BY <1>1, <1>3 DEF Requests!Create, Requests!Register, Registry!Next, Registry!Create
<1>4. ASSUME NEW r \in Run, NEW k \in Key, Requests!Apply(r, k) \/ Requests!Mark(r, k)
      PROVE  Registry!Next
  BY <1>1, <1>4, OverlaySame DEF Requests!Apply, Requests!Mark, Requests!Register,
     Registry!Next, Registry!Apply
<1>5. ASSUME NEW r \in Run, NEW k \in Key, Requests!Remove(r, k)
      PROVE  [Registry!Next]_Registered
  BY <1>2, <1>5 DEF Requests!Remove
<1>6. ASSUME NEW r \in Run, NEW k \in Key, Requests!FindGone(r, k)
      PROVE  UNCHANGED Registered
  BY <1>6 DEF Requests!FindGone
<1>7. ASSUME NEW r \in Run, Requests!Begin(r) \/ Requests!GiveUp(r)
      PROVE  UNCHANGED Registered
  BY <1>7 DEF Requests!Begin, Requests!GiveUp
<1>8. ASSUME NEW k \in Key, Requests!Vanish(k)
      PROVE  [Registry!Next]_Registered
  BY <1>2, <1>8 DEF Requests!Vanish
<1>9. CASE UNCHANGED Requests!requestVars
  BY <1>9 DEF Requests!requestVars
<1> QED
  BY <1>3, <1>4, <1>5, <1>6, <1>7, <1>8, <1>9 DEF Requests!Next, Requests!Work

(* Whatever the interleaving, the resources change as the registry allows: *)
(* each write is one atomic request of a user, applied to the resource as  *)
(* it is (create.go:131-208, update.go:138-166, delete.go:52-114).         *)
THEOREM Refinement == Spec => ImplementsRegistry
<1>1. Requests!Init => Registry!Init
  BY DEF Requests!Init, Registry!Init, Requests!MilvusSpec, Registry!MilvusSpec
<1>2. IInv => RunTyped
  BY IInvByRun
<1>3. RunTyped /\ [Requests!Next]_(Requests!requestVars) => [Registry!Next]_Registered
  BY RequestIsRegistered
<1> QED
  BY <1>1, <1>2, <1>3, Inductive, RequestsRefinement, PTL
  DEF ImplementsRequests, ImplementsRegistry, Requests!Spec, Registry!Spec

-----------------------------------------------------------------------------
(* The PVC deletion flags: a request either sets them or leaves them, or   *)
(* makes another object of the resource.                                   *)

KeepsMarks(k) ==
  store'[k] # Absent =>
    \/ store'[k].uid > rev
    \/ /\ store[k] # Absent /\ store'[k].uid = store[k].uid
       /\ \A f \in PvcField[k] : store'[k].spec[f] \in {store[k].spec[f], True}

(* The request a step of a run has made, if any was served. *)
RunCalls(r) ==
  \/ UNCHANGED apiVars
  \/ /\ pc[r] = "create" /\ cmd[r].verb # "delete"
     /\ ApiCreate(target[r], NewSpec(cmd[r]))
  \/ /\ pc[r] = "update" /\ cmd[r].verb = "update"
     /\ ApiUpdate(target[r], seen[r], Overlay(seen[r].spec, cmd[r].set))
  \/ /\ pc[r] = "update" /\ cmd[r].verb = "delete"
     /\ ApiUpdate(target[r], seen[r], Overlay(seen[r].spec, PvcMark(target[r])))
  \/ pc[r] = "patch" /\ ApiPatch(target[r], PatchOf(seen[r], cmd[r].file))
  \/ cmd[r].verb = "delete" /\ ApiDelete(target[r])

LEMMA RunMakesOneCall ==
  ASSUME NEW r \in Run, RunNext(r)
  PROVE  RunCalls(r)
BY DEF RunNext, RunCalls, Start, Kill, CreateGet, Create, UpdateGet, Update, ApplyGet,
       ApplyWrite, DeleteGet, DeleteMark, Delete, Working

(* The part of the invariant that is about them. *)
MarkOK(r) ==
  pc[r] = "delete" =>
    /\ cmd[r].verb = "delete"
    /\ (/\ cmd[r].withDeletion /\ seen[r] # Nameless
        /\ store[target[r]] # Absent /\ store[target[r]].uid = seen[r].uid)
       => \A f \in PvcField[target[r]] : store[target[r]].spec[f] = True

LEMMA UnwrittenKeepsMarks ==
  ASSUME NEW k, store'[k] = store[k]
  PROVE  KeepsMarks(k)
BY DEF KeepsMarks

LEMMA CreateKeepsMarks ==
  ASSUME ApiOK, NEW k \in Key, NEW spec, ApiCreate(k, spec), NEW j \in Key
  PROVE  KeepsMarks(j)
<1>1. store'[j] = IF j = k THEN [uid |-> rev + 1, rv |-> rev + 1, spec |-> spec,
                                 finalizer |-> FALSE, terminating |-> FALSE]
                           ELSE store[j]
  BY DEF ApiCreate, Write, ApiOK
<1> QED
  BY <1>1 DEF KeepsMarks, ApiOK

LEMMA ReplaceKeepsMarks ==
  ASSUME ApiOK, NEW k \in Key, store[k] # Absent, NEW set,
         Replace(k, Overlay(store[k].spec, set)), NEW j \in Targets,
         j = k => \A f \in PvcField[k] : set[f] \in {Keep, True}
  PROVE  KeepsMarks(j)
<1> DEFINE o == store[k]
           n == rev + 1
           w == [o EXCEPT !.spec = Overlay(o.spec, set), !.rv = n]
<1>1. o \in Object /\ j \in Key
  BY SpecsAreNotAbsent, ConstantsFit
<1>2. CASE UNCHANGED apiVars
  BY <1>2, UnwrittenKeepsMarks
<1>3. CASE Write(k, w)
  <2>1. store'[j] = IF j = k THEN w ELSE store[j]
    BY <1>1, <1>3 DEF Write, ApiOK
  <2>2. w.uid = o.uid /\ w.spec = Overlay(o.spec, set)
    <3> HIDE DEF o, n
    <3> QED
      BY <1>1 DEF Object
  <2>3. j = k => \A f \in PvcField[k] : Overlay(o.spec, set)[f] \in {o.spec[f], True}
    BY ConstantsFit DEF Overlay
  <2> HIDE DEF w
  <2>4. CASE j = k
    BY <2>1, <2>2, <2>3, <2>4 DEF KeepsMarks
  <2>5. CASE j # k
    BY <2>1, <2>5, UnwrittenKeepsMarks
  <2> QED
    BY <2>4, <2>5
<1> QED
  BY <1>2, <1>3 DEF Replace

(* A write that keeps uid and spec keeps the flags. *)
LEMMA RewriteKeepsMarks ==
  ASSUME ApiOK, NEW k \in Key, store[k] # Absent, NEW j \in Key, NEW obj,
         obj.uid = store[k].uid, obj.spec = store[k].spec, Write(k, obj)
  PROVE  KeepsMarks(j)
<1>1. store'[j] = IF j = k THEN obj ELSE store[j]
  BY DEF Write, ApiOK
<1> QED
  BY <1>1 DEF KeepsMarks

LEMMA RemoveKeepsMarks ==
  ASSUME ApiOK, NEW k \in Key, NEW j \in Key, store' = [store EXCEPT ![k] = Absent]
  PROVE  KeepsMarks(j)
<1>1. store'[j] = IF j = k THEN Absent ELSE store[j]
  BY DEF ApiOK
<1> QED
  BY <1>1 DEF KeepsMarks

LEMMA DeleteKeepsMarks ==
  ASSUME ApiOK, NEW k \in Key, ApiDelete(k), NEW j \in Key
  PROVE  KeepsMarks(j)
<1> DEFINE obj == [store[k] EXCEPT !.terminating = TRUE, !.rv = rev + 1]
<1>1. store[k] # Absent /\ store[k] \in Object /\ rev + 1 \in Nat
  BY SpecsAreNotAbsent DEF ApiDelete, ApiOK
<1>2. CASE store' = [store EXCEPT ![k] = Absent]
  BY <1>2, RemoveKeepsMarks
<1>3. CASE UNCHANGED apiVars
  BY <1>3, UnwrittenKeepsMarks
<1>4. CASE Write(k, obj)
  <2>1. obj.uid = store[k].uid /\ obj.spec = store[k].spec
    BY <1>1, TerminatingWritten
  <2> QED
    BY <1>1, <1>4, <2>1, RewriteKeepsMarks
<1> QED
  BY <1>2, <1>3, <1>4 DEF ApiDelete

LEMMA ControllerKeepsMarks ==
  ASSUME ApiOK, NEW k \in Key, Reconcile(k) \/ Finalize(k), NEW j \in Key
  PROVE  KeepsMarks(j)
<1> DEFINE obj == [store[k] EXCEPT !.finalizer = TRUE, !.rv = rev + 1]
<1>1. store[k] # Absent /\ store[k] \in Object /\ rev + 1 \in Nat
  BY SpecsAreNotAbsent DEF Reconcile, Finalize, ApiOK
<1>2. CASE Finalize(k)
  BY <1>2, RemoveKeepsMarks DEF Finalize
<1>3. CASE Reconcile(k)
  <2>1. obj.uid = store[k].uid /\ obj.spec = store[k].spec
    BY <1>1, FinalizerWritten
  <2> QED
    BY <1>1, <1>3, <2>1, RewriteKeepsMarks DEF Reconcile
<1> QED
  BY <1>2, <1>3

LEMMA RunKeepsMarks ==
  ASSUME IInv, PvcLeftToDelete, NEW r \in Run, RunCalls(r), NEW j \in Targets
  PROVE  KeepsMarks(j)
<1> DEFINE k == target[r]
           c == cmd[r]
<1>1. /\ ApiOK /\ k \in Key /\ c \in Command /\ RunOK(r) /\ j \in Key
      /\ seen[r] \in Object \cup {Nameless}
  BY Facts, ConstantsFit
<1>2. CASE UNCHANGED apiVars
  BY <1>2, UnwrittenKeepsMarks
<1>3. CASE pc[r] = "create" /\ c.verb # "delete" /\ ApiCreate(k, NewSpec(c))
  BY <1>1, <1>3, CreateKeepsMarks
<1>4. CASE /\ pc[r] = "update" /\ c.verb = "update"
           /\ ApiUpdate(k, seen[r], Overlay(seen[r].spec, c.set))
  <2>1. store[k] # Absent /\ store[k] = seen[r]
    BY <1>1, <1>4 DEF ApiUpdate, RunOK
  <2>2. j = k => \A f \in PvcField[k] : c.set[f] \in {Keep, True}
    BY <1>1 DEF PvcLeftToDelete
  <2> QED
    BY <1>1, <1>4, <2>1, <2>2, ReplaceKeepsMarks DEF ApiUpdate
<1>5. CASE /\ pc[r] = "update" /\ c.verb = "delete"
           /\ ApiUpdate(k, seen[r], Overlay(seen[r].spec, PvcMark(k)))
  <2>1. store[k] # Absent /\ store[k] = seen[r]
    BY <1>1, <1>5 DEF ApiUpdate, RunOK
  <2>2. j = k => \A f \in PvcField[k] : PvcMark(k)[f] \in {Keep, True}
    BY ConstantsFit DEF PvcMark
  <2> QED
    BY <1>1, <1>5, <2>1, <2>2, ReplaceKeepsMarks DEF ApiUpdate
<1>6. CASE pc[r] = "patch" /\ ApiPatch(k, PatchOf(seen[r], c.file))
  <2>1. c.file # NoFile
    BY <1>1, <1>6 DEF RunOK
  <2>2. j = k => \A f \in PvcField[k] : PatchOf(seen[r], c.file)[f] \in {Keep, True}
    BY <1>1, <2>1, ConstantsFit DEF PvcLeftToDelete, PatchOf
  <2> QED
    BY <1>1, <1>6, <2>2, ReplaceKeepsMarks DEF ApiPatch
<1>7. CASE ApiDelete(k)
  BY <1>1, <1>7, DeleteKeepsMarks
<1> QED
  BY <1>2, <1>3, <1>4, <1>5, <1>6, <1>7 DEF RunCalls

(* A run that stands still keeps its part of the invariant. *)
LEMMA MarkStays ==
  ASSUME IInv, NEW r \in Run, MarkOK(r), \A j \in Targets : KeepsMarks(j),
         pc'[r] = pc[r], cmd'[r] = cmd[r], target'[r] = target[r], seen'[r] = seen[r]
  PROVE  MarkOK(r)'
<1> SUFFICES ASSUME pc[r] = "delete", cmd[r].withDeletion, seen[r] # Nameless,
                    store'[target[r]] # Absent, store'[target[r]].uid = seen[r].uid
             PROVE  \A f \in PvcField[target[r]] : store'[target[r]].spec[f] = True
  BY DEF MarkOK
<1>1. /\ RunOK(r) /\ rev \in Nat /\ seen[r] \in Object
      /\ cmd[r].verb = "delete" /\ target[r] \in Targets
  BY Facts DEF ApiOK, MarkOK, RunOK
<1>2. seen[r].uid \in Nat /\ seen[r].uid <= rev
  BY <1>1 DEF RunOK, Object
<1>3. /\ store[target[r]] # Absent /\ store'[target[r]].uid = store[target[r]].uid
      /\ \A f \in PvcField[target[r]] :
           store'[target[r]].spec[f] \in {store[target[r]].spec[f], True}
  BY <1>1, <1>2 DEF KeepsMarks
<1>4. \A f \in PvcField[target[r]] : store[target[r]].spec[f] = True
  BY <1>3 DEF MarkOK
<1> QED
  BY <1>3, <1>4

(* What a run has sent before its DELETE. *)
LEMMA Marks ==
  ASSUME IInv, NEW r \in Run, NEW obj,
         ApiUpdate(target[r], obj, Overlay(obj.spec, PvcMark(target[r]))),
         target[r] \in Targets
  PROVE  \A f \in PvcField[target[r]] : store'[target[r]].spec[f] = True
<1> DEFINE o == store[target[r]]
           n == rev + 1
           s == Overlay(obj.spec, PvcMark(target[r]))
           w == [o EXCEPT !.spec = s, !.rv = n]
<1>1. ApiOK /\ target[r] \in Key /\ o \in Object
  BY Facts, SpecsAreNotAbsent DEF ApiUpdate
<1>2. \A f \in PvcField[target[r]] : s[f] = True
  BY ConstantsFit, KeepIsNoValue DEF Overlay, PvcMark
<1> HIDE DEF s
<1>3. store'[target[r]].spec = s
  <2>1. CASE s = o.spec /\ UNCHANGED apiVars
    BY <2>1
  <2>2. CASE Write(target[r], w)
    <3>1. store'[target[r]] = w
      BY <1>1, <2>2 DEF Write, ApiOK
    <3>2. w.spec = s
      <4> HIDE DEF o, n
      <4> QED
        BY <1>1 DEF Object
    <3> QED
      BY <3>1, <3>2
  <2> QED
    BY <2>1, <2>2 DEF ApiUpdate, Replace, s
<1> QED
  BY <1>2, <1>3

LEMMA RunMarks ==
  ASSUME IInv, NEW r \in Run, MarkOK(r), RunNext(r)
  PROVE  MarkOK(r)'
<1>1. RunTyped /\ RunOK(r)
  BY Facts
<1>2. CASE pc'[r] # "delete"
  BY <1>2 DEF MarkOK
<1>3. CASE pc'[r] = "delete"
  <2>1. \/ /\ DeleteGet(r) /\ ~cmd[r].withDeletion
        \/ /\ DeleteMark(r) /\ Goto(r, "delete", seen[r])
           /\ ApiUpdate(target[r], seen[r], Overlay(seen[r].spec, PvcMark(target[r])))
    BY <1>1, <1>3 DEF RunNext, RunTyped, Start, Kill, CreateGet, Create, UpdateGet, Update,
       ApplyGet, ApplyWrite, DeleteGet, DeleteMark, Delete, NextTarget, Finish, Goto
  <2>2. cmd' = cmd /\ cmd[r].verb = "delete"
    BY <2>1 DEF DeleteGet, DeleteMark, Working, NextTarget, Finish, Goto
  <2>3. CASE ~cmd[r].withDeletion
    BY <2>2, <2>3 DEF MarkOK
  <2>4. CASE /\ Goto(r, "delete", seen[r])
             /\ ApiUpdate(target[r], seen[r], Overlay(seen[r].spec, PvcMark(target[r])))
    <3>1. target' = target /\ target[r] \in Targets
      BY <1>1, <2>2, <2>4 DEF Goto, RunOK
    <3>2. \A f \in PvcField[target[r]] : store'[target[r]].spec[f] = True
      BY <2>4, <3>1, Marks
    <3> QED
      BY <2>2, <3>1, <3>2 DEF MarkOK
  <2> QED
    BY <2>1, <2>3, <2>4
<1> QED
  BY <1>2, <1>3

MarkInv == PvcLeftToDelete => \A r \in Run : MarkOK(r)

LEMMA MarkInductive ==
  /\ Init => MarkInv
  /\ IInv /\ MarkInv /\ [Next]_vars => MarkInv'
<1> USE DEF MarkInv
<1>1. Init => MarkInv
  BY DEF Init, MarkOK
<1>2. IInv /\ MarkInv /\ [Next]_vars => MarkInv'
  <2> SUFFICES ASSUME IInv, MarkInv, [Next]_vars, PvcLeftToDelete, NEW r \in Run
               PROVE  MarkOK(r)'
    OBVIOUS
  <2>1. MarkOK(r) /\ ApiOK /\ RunTyped /\ Targets \subseteq Key
    BY Facts, ConstantsFit
  <2>2. CASE RunNext(r)
    BY <2>1, <2>2, RunMarks
  <2>3. ASSUME NEW q \in Run, q # r, RunNext(q)
        PROVE  MarkOK(r)'
    <3>1. \A j \in Targets : KeepsMarks(j)
      BY <2>3, RunMakesOneCall, RunKeepsMarks
    <3>2. /\ pc'[r] = pc[r] /\ cmd'[r] = cmd[r]
          /\ target'[r] = target[r] /\ seen'[r] = seen[r]
      BY <2>1, <2>3 DEF RunNext, RunTyped, Start, Kill, CreateGet, Create, UpdateGet, Update,
         ApplyGet, ApplyWrite, DeleteGet, DeleteMark, Delete, NextTarget, Finish, Goto
    <3> QED
      BY <2>1, <3>1, <3>2, MarkStays
  <2>4. ASSUME NEW k \in Key, Reconcile(k) \/ Finalize(k)
        PROVE  MarkOK(r)'
    <3>1. \A j \in Targets : KeepsMarks(j)
      BY <2>1, <2>4, ControllerKeepsMarks
    <3> QED
      BY <2>1, <2>4, <3>1, MarkStays DEF Reconcile, Finalize
  <2>5. CASE UNCHANGED vars
    <3>1. \A j \in Targets : KeepsMarks(j)
      BY <2>5, UnwrittenKeepsMarks DEF vars
    <3> QED
      BY <2>1, <2>5, <3>1, MarkStays DEF vars
  <2> QED
    BY <2>2, <2>3, <2>4, <2>5 DEF Next
<1> QED
  BY <1>1, <1>2

(* A delete with --with-deletion sends its DELETE for a resource that      *)
(* carries the flags, or for one that was created since it looked          *)
(* (delete.go:72-81), whatever else is written, unless by hand.            *)
THEOREM MarkedCorrect == Spec => []MarkedBeforeDelete
<1>1. MarkInv => MarkedBeforeDelete
  BY DEF MarkInv, MarkedBeforeDelete, MarkOK
<1> QED
  BY <1>1, MarkInductive, Inductive, PTL DEF Spec

-----------------------------------------------------------------------------
(* A delete that is the only one: nobody takes away what it has marked.    *)

(* The resource j is not removed, nor replaced, nor marked as going. *)
Stands(j) ==
  /\ store'[j] # Absent /\ store'[j].terminating =>
       store[j] # Absent /\ store[j].terminating /\ store'[j].uid = store[j].uid
  /\ store[j] # Absent /\ ~store[j].terminating =>
       store'[j] # Absent /\ store'[j].uid = store[j].uid

LEMMA WriteStands ==
  ASSUME ApiOK, NEW k \in Key, NEW obj, Write(k, obj), NEW j \in Key,
         \/ store[k] = Absent /\ ~obj.terminating
         \/ /\ store[k] # Absent /\ obj # Absent
            /\ obj.uid = store[k].uid /\ obj.terminating = store[k].terminating
  PROVE  Stands(j)
<1>1. store'[j] = IF j = k THEN obj ELSE store[j]
  BY DEF Write, ApiOK
<1> QED
  BY <1>1 DEF Stands

LEMMA ReplaceStands ==
  ASSUME ApiOK, NEW k \in Key, NEW spec \in MilvusSpec, store[k] # Absent,
         Replace(k, spec), NEW j \in Key
  PROVE  Stands(j)
<1> DEFINE o == store[k]
           n == rev + 1
           w == [o EXCEPT !.spec = spec, !.rv = n]
<1>1. o \in Object /\ n \in Nat
  BY DEF ApiOK
<1>2. w \in Object /\ w.uid = o.uid /\ w.terminating = o.terminating
  <2> HIDE DEF o, n
  <2> QED
    BY <1>1 DEF Object
<1>3. CASE UNCHANGED apiVars
  BY <1>3 DEF Stands
<1>4. CASE Write(k, w)
  BY <1>2, <1>4, WriteStands, MarkersAreNoObjects
<1> QED
  BY <1>3, <1>4 DEF Replace

LEMMA ControllerStands ==
  ASSUME ApiOK, NEW k \in Key, Reconcile(k), NEW j \in Key
  PROVE  Stands(j)
<1> DEFINE o == store[k]
           n == rev + 1
           w == [o EXCEPT !.finalizer = TRUE, !.rv = n]
<1>1. o # Absent /\ o \in Object /\ n \in Nat /\ Write(k, w)
  BY DEF ApiOK, Reconcile
<1>2. w \in Object /\ w.uid = o.uid /\ w.terminating = o.terminating
  <2> HIDE DEF o, n
  <2> QED
    BY <1>1 DEF Object
<1> QED
  BY <1>1, <1>2, WriteStands, MarkersAreNoObjects

(* Every call but a DELETE. *)
LEMMA CallStands ==
  ASSUME IInv, NEW r \in Run, RunCalls(r), NEW j \in Key,
         cmd[r].verb # "delete" \/ ~ApiDelete(target[r])
  PROVE  Stands(j)
<1> DEFINE k == target[r]
           c == cmd[r]
<1>1. /\ ApiOK /\ k \in Key /\ c \in Command /\ RunOK(r)
      /\ seen[r] \in Object \cup {Nameless}
      /\ c.set \in Setting /\ c.file \in Setting \cup {NoFile}
  BY Facts, CommandType
<1>2. CASE UNCHANGED apiVars
  BY <1>2 DEF Stands
<1>3. CASE ApiCreate(k, NewSpec(c))
  BY <1>1, <1>3, WriteStands DEF ApiCreate
<1>4. CASE ApiUpdate(k, seen[r], Overlay(seen[r].spec, c.set))
  <2>1. Overlay(seen[r].spec, c.set) \in MilvusSpec
    BY <1>1, <1>4, OverlayType DEF ApiUpdate, Object
  <2> QED
    BY <1>1, <1>4, <2>1, ReplaceStands DEF ApiUpdate
<1>5. CASE ApiUpdate(k, seen[r], Overlay(seen[r].spec, PvcMark(k)))
  <2>1. Overlay(seen[r].spec, PvcMark(k)) \in MilvusSpec
    BY <1>1, <1>5, OverlayType, PvcMarkType DEF ApiUpdate, Object
  <2> QED
    BY <1>1, <1>5, <2>1, ReplaceStands DEF ApiUpdate
<1>6. CASE pc[r] = "patch" /\ ApiPatch(k, PatchOf(seen[r], c.file))
  <2>1. store[k] # Absent /\ store[k] \in Object /\ c.file \in Setting
    BY <1>1, <1>6 DEF ApiPatch, ApiOK, RunOK
  <2>2. Overlay(store[k].spec, PatchOf(seen[r], c.file)) \in MilvusSpec
    BY <2>1, OverlayType, PatchType DEF Object
  <2> QED
    BY <1>1, <1>6, <2>1, <2>2, ReplaceStands DEF ApiPatch
<1> QED
  BY <1>2, <1>3, <1>4, <1>5, <1>6 DEF RunCalls

(* The delete r is through with the resource k. *)
Passed(r, k) == pc[r] = "done" \/ (k = TheMilvus /\ target[r] = TheCluster)

Marked(k) == \A f \in PvcField[k] : store[k].spec[f] = True

LoneOK(r) ==
  /\ \A k \in Targets :
       store[k] # Absent /\ store[k].terminating => Marked(k) /\ Passed(r, k)
  /\ pc[r] \in {"update", "delete"} =>
       /\ seen[r] # Nameless /\ store[target[r]] # Absent
       /\ store[target[r]].uid = seen[r].uid

LoneInv == PvcLeftToDelete => \A r \in Run : LoneDelete(r) => LoneOK(r)

(* While the resources stand, what is going stays marked. *)
LEMMA GoingStaysMarked ==
  ASSUME ApiOK, NEW j \in Key, Stands(j), KeepsMarks(j),
         store'[j] # Absent, store'[j].terminating,
         store[j] # Absent /\ store[j].terminating => Marked(j)
  PROVE  Marked(j)'
<1>1. /\ store[j] # Absent /\ store[j].terminating
      /\ store'[j].uid = store[j].uid /\ Marked(j)
  BY DEF Stands
<1>2. store[j] \in Object /\ store[j].uid <= store[j].rv /\ store[j].rv <= rev /\ rev \in Nat
  BY <1>1 DEF ApiOK
<1>3. ~(store'[j].uid > rev)
  BY <1>1, <1>2 DEF Object
<1> QED
  BY <1>1, <1>3 DEF KeepsMarks, Marked

(* The run r stands still, and the resources stand or are finalized.       *)
LEMMA LoneStays ==
  ASSUME IInv, PvcLeftToDelete, NEW r \in Run, LoneDelete(r), LoneOK(r),
         \A j \in Targets : KeepsMarks(j),
         \A j \in Targets : Stands(j) \/ /\ store'[j] = Absent
                                         /\ store[j] # Absent /\ store[j].terminating,
         pc'[r] = pc[r], target'[r] = target[r], seen'[r] = seen[r]
  PROVE  LoneOK(r)'
<1>1. ApiOK /\ RunOK(r) /\ Targets \subseteq Key /\ target[r] \in Targets
  BY Facts, ConstantsFit DEF RunOK, LoneDelete
<1>2. ASSUME NEW j \in Targets, store'[j] # Absent, store'[j].terminating
      PROVE  Marked(j)' /\ Passed(r, j)'
  <2>1. Stands(j) /\ store[j] # Absent /\ store[j].terminating
    BY <1>2 DEF Stands
  <2> QED
    BY <1>1, <1>2, <2>1, GoingStaysMarked DEF LoneOK, Passed
<1>3. ASSUME pc[r] \in {"update", "delete"}
      PROVE  store'[target[r]] # Absent /\ store'[target[r]].uid = seen[r].uid
  <2>1. ~Passed(r, target[r])
    BY <1>3, ConstantsFit DEF Passed
  <2>2. store[target[r]] # Absent /\ ~store[target[r]].terminating
    BY <1>1, <1>3, <2>1 DEF LoneOK
  <2> QED
    BY <1>1, <1>3, <2>2 DEF LoneOK, Stands
<1> QED
  BY <1>2, <1>3 DEF LoneOK

(* The steps of r by which it goes on to the next call, or ends. *)
LEMMA LoneGoes ==
  ASSUME IInv, PvcLeftToDelete, NEW r \in Run, LoneDelete(r), LoneOK(r), MarkOK(r),
         RunNext(r), ~Delete(r)
  PROVE  LoneOK(r)'
<1>1. /\ ApiOK /\ RunTyped /\ RunOK(r) /\ Targets \subseteq Key /\ target[r] \in Targets
      /\ TheMilvus # TheCluster /\ Targets = {TheMilvus, TheCluster}
      /\ cmd[r].verb = "delete" /\ cmd[r].withDeletion
  BY Facts, ConstantsFit DEF RunOK, Targets, LoneDelete
<1>2. RunCalls(r)
  BY RunMakesOneCall
<1>3. Start(r) \/ Kill(r) \/ DeleteGet(r) \/ DeleteMark(r)
  BY <1>1 DEF RunNext, CreateGet, Create, UpdateGet, Update, ApplyGet, ApplyWrite, Working
<1>4. \A j \in Targets : KeepsMarks(j)
  BY <1>2, RunKeepsMarks
<1>5. CASE DeleteMark(r)
  <2>1. \A j \in Key : Stands(j)
    <3>1. CASE UNCHANGED apiVars
      BY <3>1 DEF Stands
    <3>2. CASE ApiUpdate(target[r], seen[r], Overlay(seen[r].spec, PvcMark(target[r])))
      <4>1. seen[r] \in Object /\ store[target[r]] # Absent
        BY <1>1, <3>2 DEF ApiUpdate, RunTyped
      <4>2. Overlay(seen[r].spec, PvcMark(target[r])) \in MilvusSpec
        BY <4>1, OverlayType, PvcMarkType DEF Object
      <4> QED
        BY <1>1, <3>2, <4>1, <4>2, ReplaceStands DEF ApiUpdate
    <3> QED
      BY <1>5, <3>1, <3>2 DEF DeleteMark
  <2>2. ASSUME NEW j \in Targets, store'[j] # Absent, store'[j].terminating
        PROVE  Marked(j)' /\ j = TheMilvus /\ target'[r] = TheCluster
    <3>1. store[j] # Absent /\ store[j].terminating
      BY <1>1, <2>1, <2>2 DEF Stands
    <3>2. pc[r] # "done" /\ target' = target
      BY <1>5 DEF DeleteMark, Working, Goto, Finish
    <3> QED
      BY <1>1, <1>4, <2>1, <2>2, <3>1, <3>2, GoingStaysMarked DEF LoneOK, Passed
  <2>3. CASE pc'[r] # "delete"
    <3>1. pc'[r] = "done"
      BY <1>1, <1>5, <2>3 DEF DeleteMark, Goto, Finish, RunTyped
    <3> QED
      BY <2>2, <3>1 DEF LoneOK, Passed
  <2>4. CASE pc'[r] = "delete"
    <3>1. pc[r] = "update" /\ target' = target /\ seen'[r] = seen[r]
      BY <1>1, <1>5, <2>4 DEF DeleteMark, Goto, Finish, RunTyped, Working
    <3>2. seen[r] # Nameless /\ store[target[r]] # Absent /\ store[target[r]].uid = seen[r].uid
          /\ ~store[target[r]].terminating
      BY <1>1, <3>1 DEF LoneOK, Passed
    <3> QED
      BY <1>1, <2>1, <2>2, <3>1, <3>2 DEF LoneOK, Passed, Stands
  <2> QED
    BY <2>3, <2>4
<1>6. CASE Start(r) \/ Kill(r) \/ DeleteGet(r)
  <2>1. store' = store
    BY <1>6 DEF Start, Kill, DeleteGet
  <2>2. pc[r] # "done"
    BY <1>6 DEF Start, Kill, DeleteGet, Working
  <2>3. \/ pc'[r] = "done"
        \/ pc'[r] = "get" /\ target'[r] = TheMilvus /\ pc[r] = "idle"
        \/ pc'[r] = "get" /\ target'[r] = TheCluster
        \/ /\ pc'[r] = "update"
           /\ target'[r] = target[r] /\ pc[r] = "get"
           /\ store[target[r]] # Absent /\ seen'[r] = store[target[r]]
    BY <1>1, <1>6 DEF Start, Kill, DeleteGet, NextTarget, Goto, Finish, RunTyped, Working
  <2> QED
    BY <1>1, <2>1, <2>2, <2>3, MarkersAreNoObjects DEF LoneOK, Passed, Marked, ApiOK, RunOK
<1> QED
  BY <1>3, <1>5, <1>6

(* Its DELETE: the resource is what it has marked.                         *)
LEMMA LoneDeletes ==
  ASSUME IInv, PvcLeftToDelete, NEW r \in Run, LoneDelete(r), LoneOK(r), MarkOK(r), Delete(r)
  PROVE  LoneOK(r)'
<1>0. PICK k \in Key : k = target[r]
  BY Facts
<1>1. /\ ApiOK /\ RunTyped /\ RunOK(r) /\ Targets \subseteq Key /\ k \in Targets
      /\ TheMilvus # TheCluster /\ Targets = {TheMilvus, TheCluster}
      /\ cmd[r].verb = "delete" /\ cmd[r].withDeletion
  BY <1>0, Facts, ConstantsFit DEF RunOK, Targets, LoneDelete
<1>2. pc[r] = "delete" /\ (UNCHANGED apiVars \/ ApiDelete(k))
  BY <1>0 DEF Delete, Working
<1>3. store[k] # Absent /\ Marked(k)
  BY <1>0, <1>1, <1>2 DEF LoneOK, MarkOK, Marked
<1>4. \A j \in Targets : KeepsMarks(j)
  BY <1>1, <1>2, DeleteKeepsMarks, UnwrittenKeepsMarks
<1>5. /\ \A j \in Targets \ {k} : store'[j] = store[j]
      /\ store'[k] # Absent => store'[k].uid = store[k].uid
  <2>1. CASE UNCHANGED apiVars
    BY <2>1
  <2>2. CASE ApiDelete(k)
    <3> DEFINE o == store[k]
               n == rev + 1
               w == [o EXCEPT !.terminating = TRUE, !.rv = n]
    <3>1. o \in Object /\ n \in Nat
      BY <1>1, <1>3 DEF ApiOK
    <3>2. w.uid = o.uid
      BY <3>1, TerminatingWritten
    <3>3. \/ store' = [store EXCEPT ![k] = Absent]
          \/ store' = store
          \/ store' = [store EXCEPT ![k] = w]
      BY <2>2 DEF ApiDelete, Write
    <3> HIDE DEF w
    <3> QED
      BY <1>1, <3>2, <3>3 DEF ApiOK
  <2> QED
    BY <1>2, <2>1, <2>2
<1>6. store'[k] # Absent => Marked(k)'
  <2>1. store[k].uid <= store[k].rv /\ store[k].rv <= rev /\ rev \in Nat /\ store[k] \in Object
    BY <1>1, <1>3 DEF ApiOK
  <2>2. store'[k] # Absent => ~(store'[k].uid > rev)
    BY <1>5, <2>1 DEF Object
  <2> QED
    BY <1>1, <1>3, <1>4, <2>2 DEF KeepsMarks, Marked
<1>7. \/ pc'[r] = "done"
      \/ pc'[r] = "get" /\ k = TheMilvus /\ target'[r] = TheCluster
  BY <1>0, <1>1, <1>2 DEF Delete, NextTarget, Finish, RunTyped
<1>8. ASSUME NEW j \in Targets, store'[j] # Absent, store'[j].terminating
      PROVE  Marked(j)' /\ Passed(r, j)'
  <2>1. CASE j = k
    BY <1>6, <1>7, <1>8, <2>1 DEF Passed
  <2>2. CASE j # k
    <3>1. store'[j] = store[j] /\ Marked(j) /\ Passed(r, j)
      BY <1>5, <1>8, <2>2 DEF LoneOK
    <3>2. j = TheMilvus /\ k = TheCluster
      BY <1>0, <1>2, <3>1 DEF Passed
    <3> QED
      BY <1>1, <1>7, <3>1, <3>2 DEF Passed, Marked
  <2> QED
    BY <2>1, <2>2
<1> QED
  BY <1>7, <1>8 DEF LoneOK

(* The volume claims go with the instance: what the only delete of all     *)
(* command lines removes carries the PVC deletion flags, from before its   *)
(* DELETE until the controller is through with it (delete.go:72-81),       *)
(* whatever is created, updated and reconciled meanwhile.                  *)
THEOREM LoneCorrect == Spec => []LoneDeleteMarks
<1>1. Init => LoneInv
  <2> SUFFICES ASSUME Init, NEW r \in Run PROVE LoneOK(r)
    BY DEF LoneInv
  <2>1. pc[r] = "idle"
    BY DEF Init
  <2>2. \A k \in Key : store[k] # Absent => ~store[k].terminating
    BY DEF Init
  <2> QED
    BY <2>1, <2>2, ConstantsFit DEF LoneOK
<1>2. IInv /\ MarkInv /\ LoneInv /\ [Next]_vars => LoneInv'
  <2> SUFFICES ASSUME IInv, MarkInv, LoneInv, [Next]_vars, PvcLeftToDelete,
                      NEW r \in Run, LoneDelete(r)'
               PROVE  LoneOK(r)'
    BY DEF LoneInv
  <2>1. RunTyped /\ MarkOK(r) /\ ApiOK /\ Targets \subseteq Key
    BY Facts, ConstantsFit DEF MarkInv
  <2>2. cmd' = cmd
    BY DEF Next, vars, RunNext, Start, Kill, CreateGet, Create, UpdateGet, Update, ApplyGet,
       ApplyWrite, DeleteGet, DeleteMark, Delete, NextTarget, Finish, Goto, Reconcile, Finalize
  <2>3. LoneDelete(r) /\ LoneOK(r)
    BY <2>2 DEF LoneInv, LoneDelete
  <2>4. CASE RunNext(r)
    BY <2>1, <2>3, <2>4, LoneGoes, LoneDeletes
  <2>5. ASSUME NEW q \in Run, q # r, RunNext(q)
        PROVE  LoneOK(r)'
    <3>1. RunCalls(q) /\ cmd[q].verb # "delete"
      BY <2>3, <2>5, RunMakesOneCall DEF LoneDelete
    <3>2. \A j \in Targets : KeepsMarks(j) /\ Stands(j)
      BY <2>1, <3>1, RunKeepsMarks, CallStands
    <3>3. pc'[r] = pc[r] /\ target'[r] = target[r] /\ seen'[r] = seen[r]
      BY <2>1, <2>5 DEF RunNext, RunTyped, Start, Kill, CreateGet, Create, UpdateGet, Update,
         ApplyGet, ApplyWrite, DeleteGet, DeleteMark, Delete, NextTarget, Finish, Goto
    <3> QED
      BY <2>3, <3>2, <3>3, LoneStays
  <2>6. ASSUME NEW k \in Key, Reconcile(k)
        PROVE  LoneOK(r)'
    <3>1. \A j \in Targets : KeepsMarks(j) /\ Stands(j)
      BY <2>1, <2>6, ControllerKeepsMarks, ControllerStands
    <3> QED
      BY <2>3, <2>6, <3>1, LoneStays DEF Reconcile
  <2>7. ASSUME NEW k \in Key, Finalize(k)
        PROVE  LoneOK(r)'
    <3>1. \A j \in Targets : KeepsMarks(j)
      BY <2>1, <2>7, ControllerKeepsMarks
    <3>2. \A j \in Targets : Stands(j) \/ /\ store'[j] = Absent
                                          /\ store[j] # Absent /\ store[j].terminating
      BY <2>1, <2>7 DEF Finalize, Stands, ApiOK
    <3> QED
      BY <2>3, <2>7, <3>1, <3>2, LoneStays DEF Finalize
  <2>8. CASE UNCHANGED vars
    <3>1. \A j \in Targets : KeepsMarks(j) /\ Stands(j)
      BY <2>8, UnwrittenKeepsMarks DEF vars, Stands
    <3> QED
      BY <2>3, <2>8, <3>1, LoneStays DEF vars
  <2> QED
    BY <2>4, <2>5, <2>6, <2>7, <2>8 DEF Next
<1>3. MarkInv /\ LoneInv /\ IInv => LoneDeleteMarks
  <2> SUFFICES ASSUME MarkInv, LoneInv, IInv, PvcLeftToDelete, NEW r \in Run, LoneDelete(r),
                      NEW k \in Targets, store[k] # Absent,
                      store[k].terminating \/ (pc[r] = "delete" /\ target[r] = k)
               PROVE  Marked(k)
    BY DEF LoneDeleteMarks, Marked
  <2>1. LoneOK(r) /\ MarkOK(r)
    BY DEF LoneInv, MarkInv
  <2> QED
    BY <2>1 DEF LoneOK, MarkOK, LoneDelete, Marked
<1> QED
  BY <1>1, <1>2, <1>3, MarkInductive, Inductive, PTL DEF Spec

=============================================================================
