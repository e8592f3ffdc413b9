----------------------------- MODULE MilvusSpecs -----------------------------
(***************************************************************************)
(* What the spec of a Milvus custom resource is for the modules that do    *)
(* not look inside it: a value for every field a setting can reach.  The   *)
(* nested structure the settings really walk is the subject of module      *)
(* SpecOverlay.                                                            *)
(***************************************************************************)

CONSTANTS
  Field,   \* the settable fields
  Value,   \* what a field can hold
  Keep     \* in a setting: this field is not mentioned

ASSUME KeepIsNoValue == Keep \notin Value

(* v1beta1.MilvusSpec, and the --set options parsed to a table. *)
MilvusSpec == [Field -> Value]
Setting    == [Field -> Value \cup {Keep}]

(* parsingNestedStructure: mentioned fields are overwritten, others stay. *)
Overlay(spec, set) ==
  [f \in Field |-> IF set[f] = Keep THEN spec[f] ELSE set[f]]

=============================================================================
