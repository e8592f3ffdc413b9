------------------------------ MODULE SpecOverlay ------------------------------
(***************************************************************************)
(* parsingNestedStructure, setValue and mapOverwirte, as create and update *)
(* share them word for word: how the table parsed from --set is written    *)
(* into the spec of a Milvus resource.  Spec and table are trees, given by *)
(* the node at every path.  The recursion walks the table depth-first and, *)
(* Go maps being what they are, the keys of every level in any order: the  *)
(* stack holds, for each active call, the keys it has not come to.         *)
(*                                                                         *)
(* An embedded (inline) struct is searched when a struct has no field of   *)
(* the key itself; its fields count as fields of the outer struct here.    *)
(***************************************************************************)
EXTENDS Naturals, Sequences, SequencesExt

CONSTANTS
  Key,       \* the names of fields, and the keys of maps
  Kind,      \* for every path of the Go types: what setValue finds there
  Specs,     \* the specs that are read from a profile or from the server
  Tables,    \* the tables --set is parsed to, never empty below the root
  Table,     \* the node of a struct, of a map, of a table
  Nil,       \* the node of a nil pointer, of an unset field
  NilMap,    \* the node of a v1beta1.Values whose Data is nil
  Text,      \* a string
  Number,    \* an integer
  Rune       \* the string whose only character has that integer as its code

Kinds  == {"struct", "pointer", "values", "string", "int", "labels"}
Scalar == {Text, Number, Rune}

(* What a field of each kind can hold. *)
Holds(kind) ==
  CASE kind = "struct"  -> {Table}
    [] kind = "pointer" -> {Table, Nil}
    [] kind = "values"  -> {Table, NilMap}
    [] kind = "string"  -> {Text, Rune, Nil}
    [] kind = "int"     -> {Number, Nil}
    [] kind = "labels"  -> {Nil}

Parents(p) == {q \in Prefixes(p) : q # p /\ q # <<>>}

(* The values of a Values field and everything below them are maps. *)
InMap(p) == \E q \in Parents(p) : q \in DOMAIN Kind /\ Kind[q] = "values"

(* The struct that field p belongs to is there. *)
Owned(s, p) == \A q \in Parents(p) : q \in DOMAIN s /\ s[q] = Table

WellTyped(s) ==
  /\ \A p \in DOMAIN s :
       /\ Owned(s, p)
       /\ IF InMap(p) THEN s[p] \in Scalar \cup {Table}
                      ELSE p \in DOMAIN Kind /\ s[p] \in Holds(Kind[p])
  /\ \A p \in DOMAIN Kind : Owned(s, p) => p \in DOMAIN s

Path == Seq(Key) \ {<<>>}

ASSUME NodesDiffer ==
  /\ Table \notin Scalar \cup {Nil, NilMap} /\ Nil \notin Scalar \cup {NilMap}
  /\ NilMap \notin Scalar /\ Rune \notin {Text, Number} /\ Text # Number

(* Types are closed: a field belongs to a struct, at once or by a pointer. *)
ASSUME KindFits ==
  /\ Kind \in [DOMAIN Kind -> Kinds] /\ DOMAIN Kind \subseteq Path
  /\ \A p \in DOMAIN Kind : \A q \in Parents(p) : q \in DOMAIN Kind /\ Kind[q] \in {"struct", "pointer"}

ASSUME SpecsFit ==
  \A s \in Specs : /\ s \in [DOMAIN s -> Scalar \cup {Table, Nil, NilMap}]
                   /\ DOMAIN s \subseteq Path /\ WellTyped(s)

(* A table is what the options make of it: no part of it is without one.   *)
ASSUME TablesFit ==
  \A t \in Tables :
    /\ t \in [DOMAIN t -> {Text, Number, Table}] /\ DOMAIN t \subseteq Path
    /\ \A p \in DOMAIN t : /\ \A q \in Parents(p) : q \in DOMAIN t /\ t[q] = Table
                           /\ \E q \in DOMAIN t : IsPrefix(p, q) /\ t[q] # Table

VARIABLES
  start,    \* the spec before this command
  spec,     \* the spec as it is being changed
  values,   \* o.ResouceSetting, the parsed --set options
  stack,    \* the active calls, the innermost last: path and keys to come
  err,      \* the outermost call has found an unknown key
  state,    \* "run", "done" or "panic"
  again     \* the same command is being run for the second time

vars == <<start, spec, values, stack, err, state, again>>

Keys(t, p) == {Last(q) : q \in {q \in DOMAIN t : Len(q) = Len(p) + 1 /\ IsPrefix(p, q)}}
Call(t, p) == [path |-> p, left |-> Keys(t, p)]

Init ==
  /\ start \in Specs /\ spec = start
  /\ values \in Tables
  /\ stack = <<Call(values, <<>>)>>
  /\ err = FALSE /\ state = "run" /\ again = FALSE

-----------------------------------------------------------------------------
Innermost == Last(stack)

(* The loop of the innermost call is done with a key, or calls for it. *)
Past(key)     == [stack EXCEPT ![Len(stack)].left = @ \ {key}]
Pass(key)     == stack' = Past(key)
Enter(key, p) == stack' = Append(Past(key), Call(values, p))

EnterTable(key, p) == IF values[p] = Table THEN Enter(key, p) ELSE Pass(key)

(* The tree s with the nodes of t, or the one node v, put into it. *)
Put(s, t) == [p \in DOMAIN s \cup DOMAIN t |-> IF p \in DOMAIN t THEN t[p] ELSE s[p]]
PutNode(s, p, v) == [q \in DOMAIN s \cup {p} |-> IF q = p THEN v ELSE s[q]]

(* The part of a tree at p and below. *)
Part(t, p) == [q \in {q \in DOMAIN t : IsPrefix(p, q)} |-> t[q]]

(* What a field holds in a struct that is new. *)
Zero(kind) ==
  CASE kind = "struct" -> Table
    [] kind = "values" -> NilMap
    [] OTHER -> Nil

(* reflect.New: the struct behind p, structs in it included, all zero. *)
NewStruct(p) ==
  LET fields == {q \in DOMAIN Kind :
        /\ p \in Parents(q)
        /\ \A m \in Parents(q) : p \in Parents(m) => Kind[m] = "struct"}
  IN [q \in {p} \cup fields |-> IF q = p THEN Table ELSE Zero(Kind[q])]

(* reflect's Convert: an integer becomes the string of that character; *)
(* what it cannot convert it panics on.                                *)
Convertible(kind, n) ==
  \/ kind = "string" /\ n \in {Text, Number}
  \/ kind = "int" /\ n = Number
Converted(kind, n) == IF kind = "string" /\ n = Number THEN Rune ELSE n

Panic == state' = "panic" /\ UNCHANGED <<spec, stack, err>>

(* Mutant: the error is returned at once. *)
UnknownEnds(key, p) ==
  /\ p \notin DOMAIN Kind
  /\ stack' = [stack EXCEPT ![Len(stack)].left = {}]
  /\ err' = (err \/ Len(stack) = 1)
  /\ UNCHANGED <<spec, state>>

(* One key of parsingNestedStructure.  An unknown one is an error, but *)
(* setValue drops the errors of the calls it makes.                    *)
Unknown(key, p) ==
  /\ p \notin DOMAIN Kind
  /\ Pass(key)
  /\ err' = (err \/ Len(stack) = 1)
  /\ UNCHANGED <<spec, state>>

SetStruct(key, p) ==
  /\ p \in DOMAIN Kind /\ Kind[p] = "struct"
  /\ EnterTable(key, p)
  /\ UNCHANGED <<spec, err, state>>

(* Mutant: the struct is allocated, and the table not written to it. *)
SetPointerOnly(key, p) ==
  /\ p \in DOMAIN Kind /\ Kind[p] = "pointer"
  /\ IF spec[p] = Nil THEN spec' = Put(spec, NewStruct(p)) /\ Pass(key)
                      ELSE UNCHANGED spec /\ EnterTable(key, p)
  /\ UNCHANGED <<err, state>>

(* A nil pointer is given a struct, be the value a table or not. *)
SetPointer(key, p) ==
  /\ p \in DOMAIN Kind /\ Kind[p] = "pointer"
  /\ spec' = IF spec[p] = Nil THEN Put(spec, NewStruct(p)) ELSE spec
  /\ EnterTable(key, p)
  /\ UNCHANGED <<err, state>>

(* Mutant: the value is stored as it was parsed. *)
SetScalarRaw(key, p) ==
  /\ p \in DOMAIN Kind /\ Kind[p] \in {"string", "int", "labels"}
  /\ spec' = PutNode(spec, p, values[p])
  /\ Pass(key) /\ UNCHANGED <<err, state>>

SetScalar(key, p) ==
  /\ p \in DOMAIN Kind /\ Kind[p] \in {"string", "int", "labels"}
  /\ IF Convertible(Kind[p], values[p])
     THEN /\ spec' = PutNode(spec, p, Converted(Kind[p], values[p]))
          /\ Pass(key) /\ UNCHANGED <<err, state>>
     ELSE Panic

(* A Values field: a nil map cannot be written to. *)
SetValues(key, p) ==
  /\ p \in DOMAIN Kind /\ Kind[p] = "values"
  /\ IF values[p] = Table /\ spec[p] = NilMap
     THEN Panic
     ELSE EnterTable(key, p) /\ UNCHANGED <<spec, err, state>>

(* Mutant: a key that is there is replaced with all that is below it. *)
OverwriteWhole(key, p) ==
  /\ spec' = Put([q \in {q \in DOMAIN spec : ~IsPrefix(p, q)} |-> spec[q]], Part(values, p))
  /\ Pass(key)
  /\ UNCHANGED <<err, state>>

(* One key of mapOverwirte: tables are merged, scalars replaced, what is   *)
(* new is taken over whole; a table does not replace a scalar or v.v.      *)
Overwrite(key, p) ==
  /\ \/ p \notin DOMAIN spec /\ spec' = Put(spec, Part(values, p)) /\ Pass(key)
     \/ /\ p \in DOMAIN spec /\ values[p] = Table /\ spec[p] = Table
        /\ Enter(key, p) /\ UNCHANGED spec
     \/ /\ p \in DOMAIN spec /\ values[p] # Table /\ spec[p] # Table
        /\ spec' = PutNode(spec, p, values[p]) /\ Pass(key)
     \/ /\ p \in DOMAIN spec /\ (values[p] = Table) # (spec[p] = Table)
        /\ Pass(key) /\ UNCHANGED spec
  /\ UNCHANGED <<err, state>>

NextKey ==
  /\ state = "run"
  /\ \E key \in Innermost.left :
       LET p == Append(Innermost.path, key)
       IN \/ InMap(p) /\ Overwrite(key, p)
          \/ /\ ~InMap(p)
             /\ \/ Unknown(key, p) \/ SetStruct(key, p) \/ SetPointer(key, p)
                \/ SetScalar(key, p) \/ SetValues(key, p)
  /\ UNCHANGED <<start, values, again>>

Return ==
  /\ state = "run" /\ Innermost.left = {}
  /\ stack' = Front(stack)
  /\ state' = IF Len(stack) = 1 THEN "done" ELSE state
  /\ UNCHANGED <<start, spec, values, err, again>>

(* The command is typed once more, on what it has written. *)
Again ==
  /\ state = "done" /\ ~err /\ ~again
  /\ again' = TRUE /\ start' = spec
  /\ stack' = <<Call(values, <<>>)>> /\ state' = "run"
  /\ UNCHANGED <<spec, values, err>>

Next == NextKey \/ Return \/ Again

Spec == Init /\ [][Next]_vars

-----------------------------------------------------------------------------
(* At every moment the spec is a value of its Go type: a field is there    *)
(* exactly when its struct is, and holds what its type admits.             *)
TypeOK ==
  /\ WellTyped(spec) /\ WellTyped(start)
  /\ \A i \in DOMAIN stack : \A key \in stack[i].left : Append(stack[i].path, key) \in DOMAIN values
  /\ err \in BOOLEAN /\ state \in {"run", "done", "panic"} /\ again \in BOOLEAN

(* The settings of the table: its scalars. *)
Settings == {p \in DOMAIN values : values[p] # Table}

(* update.go 154, create.go 199: at every moment, a field that no setting  *)
(* is for, and none of whose parts a setting is for, is as it was: nothing *)
(* beside or below what is written is lost.                                *)
OthersStay ==
  \A p \in DOMAIN start :
    (\A q \in Settings : ~IsPrefix(p, q)) => p \in DOMAIN spec /\ spec[p] = start[p]

(* Where the walk comes to a setting, and can write it. *)
Accepted(p) ==
  /\ \A q \in Parents(p) :
       \/ q \in DOMAIN Kind /\ Kind[q] \in {"struct", "pointer", "values"}
       \/ InMap(q) /\ (q \in DOMAIN start => start[q] = Table)
  /\ \/ p \in DOMAIN Kind /\ Kind[p] \in {"string", "int"}
     \/ InMap(p) /\ (p \in DOMAIN start => start[p] # Table)

(* setValue, mapOverwirte: when the walk is over every setting it accepts  *)
(* is in the spec, although it is written in any order, through pointers   *)
(* that are allocated on the way and maps that are taken over whole.       *)
AcceptedAreWritten ==
  state = "done" =>
    \A p \in Settings : Accepted(p) =>
      /\ p \in DOMAIN spec
      /\ spec[p] = IF InMap(p) THEN values[p] ELSE Converted(Kind[p], values[p])

(* update.go 141-158 is retried by users: the same --set on its own result *)
(* finds everything there already, and writes the same object again.       *)
OnceIsEnough == again /\ state = "done" => spec = start

(* What the walk makes of a spec s and a table t, node by node and without *)
(* an order: which nodes are there, and what each of them is.              *)
Allocated(s, t, p) == p \in DOMAIN t \/ Kind[p] = "struct" \/ (p \in DOMAIN s /\ s[p] = Table)
Fields(s, t) == {p \in DOMAIN Kind : \A q \in Parents(p) : Allocated(s, t, q)}
FieldOf(s, t, p) ==
  IF p \in DOMAIN t /\ Kind[p] = "pointer" THEN Table
  ELSE IF p \in DOMAIN t /\ Kind[p] \in {"string", "int", "labels"} THEN Converted(Kind[p], t[p])
  ELSE IF p \in DOMAIN s THEN s[p] ELSE Zero(Kind[p])

Entries(s, t) ==
  {p \in DOMAIN s \cup DOMAIN t : InMap(p) /\ \A q \in Parents(p) : q \in DOMAIN s => s[q] = Table}
EntryOf(s, t, p) ==
  IF p \in DOMAIN s /\ (p \in DOMAIN t => Table \in {s[p], t[p]}) THEN s[p] ELSE t[p]

Merged(s, t) ==
  [p \in Fields(s, t) \cup Entries(s, t) |-> IF InMap(p) THEN EntryOf(s, t, p) ELSE FieldOf(s, t, p)]

(* What it panics on. *)
Rejected(s, t) ==
  {p \in DOMAIN t \cap DOMAIN Kind :
     \/ Kind[p] \in {"string", "int", "labels"} /\ ~Convertible(Kind[p], t[p])
     \/ Kind[p] = "values" /\ t[p] = Table /\ (p \in DOMAIN s => s[p] = NilMap)}

(* create.go 243, update.go 186: the keys come in the order of a Go map,   *)
(* another one each time, and the outcome is the same: whether the command *)
(* panics, whether it reports an error, and every node of the spec.        *)
OrderDoesNotMatter ==
  /\ state = "panic" => Rejected(start, values) # {}
  /\ state = "done" =>
       /\ Rejected(start, values) = {}
       /\ spec = Merged(start, values)
       /\ err <=> \E p \in DOMAIN values : Len(p) = 1 /\ p \notin DOMAIN Kind

(* create.go 287, update.go 228: "Overwrite the Milvus Spev with the       *)
(* setting values": without an error every setting is in the spec, as      *)
(* given.                                                                  *)
SettingsOverwrite ==
  state = "done" /\ ~err =>
    \A p \in Settings : p \in DOMAIN spec /\ spec[p] = values[p]

=============================================================================
