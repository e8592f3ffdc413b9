---------------------------- MODULE MilvusRegistry ----------------------------
(***************************************************************************)
(* What milvusctl promises of the custom resources of a namespace, whoever *)
(* else is working on them: an instance is created only where there is     *)
(* none and as it was ordered, a change of settings is applied to the      *)
(* instance as it is at that moment and to nothing else in it, and an      *)
(* instance goes away as a whole.                                          *)
(***************************************************************************)
EXTENDS MilvusSpecs

CONSTANTS
  Key,       \* names of custom resources
  Absent,    \* no resource of that name
  Ordered,   \* for every key, the specs somebody may ask to be created
  Change     \* for every key, the settings somebody may ask to be applied

VARIABLE instances   \* the spec registered under each name, or Absent

(* Any set of resources may exist when the first command runs. *)
Init == instances \in [Key -> MilvusSpec \cup {Absent}]

Create(k) ==
  /\ instances[k] = Absent
  /\ \E spec \in Ordered[k] : instances' = [instances EXCEPT ![k] = spec]

Apply(k) ==
  /\ instances[k] # Absent
  /\ \E set \in Change[k] :
       instances' = [instances EXCEPT ![k] = Overlay(instances[k], set)]

Remove(k) ==
  /\ instances[k] # Absent
  /\ instances' = [instances EXCEPT ![k] = Absent]

Next == \E k \in Key : Create(k) \/ Apply(k) \/ Remove(k)

Spec == Init /\ [][Next]_instances

=============================================================================
