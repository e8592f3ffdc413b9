---------------------------- MODULE MilvusRequests ----------------------------
(***************************************************************************)
(* What milvusctl promises to the user who types a command, whoever else   *)
(* works on the resources of the namespace: the command changes what it    *)
(* was asked to change and nothing else, at one moment, while it runs, and *)
(* its answer tells whether it did.  A delete deals with its resources one *)
(* after the other; what it has removed may take a while to go.            *)
(***************************************************************************)
EXTENDS MilvusSpecs

CONSTANTS
  Run,      \* invocations of milvusctl
  Key,      \* names of custom resources
  Absent,   \* no resource of that name
  Request,  \* what a user may ask for
  Orders,   \* per request and key: the specs it may be created with
  Changes,  \* per request and key: the settings that may be applied
  Removals  \* per request: the keys to be removed, in a delete

VARIABLES
  instances,   \* the spec registered under each name, or Absent
  doomed,      \* the names whose instance is going
  request,     \* per run: what it is asked
  answer,      \* per run: "new", "open", or what it has reported
  dealt        \* per run: what it has removed, or found gone

requestVars == <<instances, doomed, request, answer, dealt>>

Init ==
  /\ instances \in [Key -> MilvusSpec \cup {Absent}] /\ doomed \in SUBSET Key
  /\ request \in [Run -> Request]
  /\ answer = [r \in Run |-> "new"]
  /\ dealt = [r \in Run |-> {}]

Answer(r, answers) ==
  answer'[r] \in answers /\ answer' = [answer EXCEPT ![r] = answer'[r]]

Register(k, spec) == instances' = [instances EXCEPT ![k] = spec]

Begin(r) ==
  /\ answer[r] = "new" /\ Answer(r, {"open", "refused"})
  /\ UNCHANGED <<instances, doomed, request, dealt>>

(* What is open is carried out.  The answer may be lost: to have failed    *)
(* says nothing.                                                           *)
Create(r, k) ==
  /\ instances[k] = Absent /\ Answer(r, {"ok", "failed"})
  /\ \E spec \in Orders[request[r]][k] : Register(k, spec)
  /\ UNCHANGED <<doomed, request, dealt>>

Apply(r, k) ==
  /\ instances[k] # Absent /\ Removals[request[r]] = {} /\ Answer(r, {"ok", "failed"})
  /\ \E set \in Changes[request[r]][k] : Register(k, Overlay(instances[k], set))
  /\ UNCHANGED <<doomed, request, dealt>>

(* A delete may mark an instance before it removes it.                     *)
Mark(r, k) ==
  /\ instances[k] # Absent /\ k \in Removals[request[r]] \ dealt[r]
  /\ Answer(r, {"open", "failed"})
  /\ \E set \in Changes[request[r]][k] : Register(k, Overlay(instances[k], set))
  /\ UNCHANGED <<doomed, request, dealt>>

Deal(r, k) ==
  /\ Answer(r, {IF Removals[request[r]] \subseteq dealt[r] \cup {k} THEN "ok" ELSE "open"})
  /\ dealt' = [dealt EXCEPT ![r] = @ \cup {k}]

Remove(r, k) ==
  /\ instances[k] # Absent /\ k \in Removals[request[r]] \ dealt[r]
  /\ Deal(r, k) \/ (Answer(r, {"failed"}) /\ UNCHANGED dealt)
  /\ \/ Register(k, Absent) /\ doomed' = doomed \ {k}
     \/ doomed' = doomed \cup {k} /\ UNCHANGED instances
  /\ UNCHANGED request

FindGone(r, k) ==
  /\ instances[k] = Absent /\ k \in Removals[request[r]] \ dealt[r]
  /\ Deal(r, k)
  /\ UNCHANGED <<instances, doomed, request>>

GiveUp(r) ==
  /\ \/ Answer(r, {"exists", "refused", "failed"})
     \/ (\E k \in Key : Changes[request[r]][k] # {} /\ instances[k] = Absent) /\ Answer(r, {"missing"})
  /\ UNCHANGED <<instances, doomed, request, dealt>>

Vanish(k) ==
  /\ k \in doomed
  /\ Register(k, Absent) /\ doomed' = doomed \ {k}
  /\ UNCHANGED <<request, answer, dealt>>

Work(r) ==
  \/ GiveUp(r)
  \/ \E k \in Key : Create(r, k) \/ Apply(r, k) \/ Mark(r, k) \/ Remove(r, k) \/ FindGone(r, k)

Next ==
  \/ \E r \in Run : Begin(r) \/ (answer[r] = "open" /\ Work(r))
  \/ \E k \in Key : Vanish(k)

Spec == Init /\ [][Next]_requestVars

=============================================================================
