------------------------ MODULE SpecOverlay_merge_proofs ------------------------
(***************************************************************************)
(* The outcome of the walk, for any types, specs and tables: it is what    *)
(* Merged and Rejected say, which know of no order.  The argument is that  *)
(* they do not change while the walk goes on: whatever key comes next, the *)
(* spec with it written is merged with the table to the same spec as       *)
(* before; and that the spec is merged to itself when all keys are done.   *)
(***************************************************************************)
EXTENDS SpecOverlay_proofs, WellFoundedInduction

-----------------------------------------------------------------------------
(* Of paths, one is shortest. *)
LEMMA Shortest ==
  ASSUME NEW P \in SUBSET Seq(Key), P # {}
  PROVE  \E p \in P : \A q \in P : Len(p) <= Len(q)
<1> DEFINE lengths == {Len(p) : p \in P}
<1>1. lengths \subseteq Nat /\ lengths # {}
  <2>1. \A p \in P : Len(p) \in Nat
    OBVIOUS
  <2> QED
    BY <2>1
<1>2. PICK n \in lengths : \A k \in lengths : ~(<<k, n>> \in OpToRel(<, Nat))
  BY <1>1, NatLessThanWellFounded, WFMin, Zenon
<1>3. ASSUME NEW k \in lengths PROVE n <= k
  <2>1. k \in Nat /\ n \in Nat
    BY <1>1
  <2>2. ~(k < n)
    BY <1>2, <2>1 DEF OpToRel
  <2> QED
    BY <2>1, <2>2
<1> QED
  BY <1>3

(* A path is owned if its parents are tables as long as they are owned: by *)
(* induction over its length, as a shortest parent that is none is owned.  *)
LEMMA OwnedByInduction ==
  ASSUME NEW s, NEW p \in Seq(Key),
         \A q \in Parents(p) : Owned(s, q) => q \in DOMAIN s /\ s[q] = Table
  PROVE  Owned(s, p)
<1> DEFINE bad == {q \in Parents(p) : ~(q \in DOMAIN s /\ s[q] = Table)}
<1> SUFFICES ASSUME bad # {} PROVE FALSE
  BY DEF Owned
<1>1. bad \in SUBSET Seq(Key)
  BY ParentsArePaths DEF Path
<1>2. PICK q \in bad : \A m \in bad : Len(q) <= Len(m)
  BY <1>1, Shortest
<1>3. ~Owned(s, q)
  BY <1>2
<1>4. PICK m \in Parents(q) : ~(m \in DOMAIN s /\ s[m] = Table)
  BY <1>3 DEF Owned
<1>5. m \in bad
  BY <1>2, <1>4, ParentsOfParents
<1>6. Len(m) < Len(q) /\ Len(m) \in Nat /\ Len(q) \in Nat
  BY <1>1, <1>4, <1>5, ParentsArePaths
<1> QED
  BY <1>2, <1>5, <1>6

(* Above an entry of a map there are fields, and entries of the map.       *)
LEMMA AboveAnEntry ==
  ASSUME NEW p \in Seq(Key), InMap(p), NEW q \in Parents(p)
  PROVE  q \in DOMAIN Kind \/ InMap(q)
<1>1. PICK c \in Parents(p) : c \in DOMAIN Kind /\ Kind[c] = "values"
  BY DEF InMap
<1>2. q = c \/ q \in Parents(c) \/ c \in Parents(q)
  BY <1>1, ParentsInLine
<1> QED
  BY <1>1, <1>2, KindFits DEF InMap

-----------------------------------------------------------------------------
(* What does not change the merged spec.                                   *)

SameOutcome(s, u, t) == Merged(u, t) = Merged(s, t) /\ Rejected(u, t) = Rejected(s, t)

(* A node that is no table, and is in the table, is written.               *)
LEMMA PutNodeOutcome ==
  ASSUME NEW s, NEW t, Tree(s), NEW p \in DOMAIN s \cap DOMAIN t, s[p] # Table, NEW v, v # Table,
         IF InMap(p) THEN v = t[p] ELSE p \in DOMAIN Kind /\ Kind[p] \in {"string", "int", "labels"}
  PROVE  SameOutcome(s, PutNode(s, p, v), t)
<1> DEFINE u == PutNode(s, p, v)
<1>1. DOMAIN u = DOMAIN s /\ u[p] = v /\ \A x \in DOMAIN s : x # p => u[x] = s[x]
  BY DEF PutNode
<1> HIDE DEF u
<1>2. \A x \in DOMAIN s : u[x] = Table <=> s[x] = Table
  BY <1>1
<1>3. Fields(u, t) = Fields(s, t) /\ Entries(u, t) = Entries(s, t)
  BY <1>1, <1>2 DEF Fields, Entries, Allocated
<1>4. ASSUME NEW x \in Fields(s, t) PROVE FieldOf(u, t, x) = FieldOf(s, t, x)
  BY <1>1, KindOfPath DEF Fields, FieldOf
<1>5. ASSUME NEW x, InMap(x) PROVE EntryOf(u, t, x) = EntryOf(s, t, x)
  BY <1>1, <1>2, <1>5 DEF EntryOf
<1>6. Merged(u, t) = Merged(s, t)
  BY <1>3, <1>4, <1>5 DEF Merged, Entries
<1>7. \A x \in DOMAIN Kind : Kind[x] = "values" => x # p
  BY KindOfPath
<1>8. Rejected(u, t) = Rejected(s, t)
  BY <1>1, <1>7 DEF Rejected
<1> QED
  BY <1>6, <1>8 DEF SameOutcome, u

(* A nil pointer the table is for is given a struct.                       *)
LEMMA NewStructOutcome ==
  ASSUME NEW s, NEW t \in Tables, Tree(s), NEW p \in DOMAIN Kind \cap DOMAIN t, Kind[p] = "pointer",
         p \in DOMAIN s, s[p] = Nil
  PROVE  SameOutcome(s, Put(s, NewStruct(p)), t)
<1> DEFINE u == Put(s, NewStruct(p))
<1>1. /\ Tree(u) /\ u[p] = Table
      /\ \A x \in DOMAIN s : x \in DOMAIN u /\ (x # p => u[x] = s[x])
      /\ \A x \in DOMAIN u : x \in DOMAIN s \/ (x \in DOMAIN Kind /\ p \in Parents(x))
  BY NewStructTree
<1>2. p \in Seq(Key) /\ ~InMap(p) /\ s[p] # Table /\ Table \notin {Nil, NilMap}
  BY KindOfPath, NodesDiffer
<1>3. \A x \in DOMAIN s : p \notin Parents(x)
  BY <1>2, NothingBelow
<1>4. \A x \in DOMAIN u : x \notin DOMAIN s => u[x] = Zero(Kind[x])
  BY DEF Put, NewStruct
<1> HIDE DEF u
<1>5. \A q \in DOMAIN Kind : Allocated(u, t, q) <=> Allocated(s, t, q)
  BY <1>1, <1>2, <1>4 DEF Allocated, Zero
<1>6. Fields(u, t) = Fields(s, t)
  BY <1>5, KindFits DEF Fields
<1>7. ASSUME NEW x \in Fields(s, t) PROVE FieldOf(u, t, x) = FieldOf(s, t, x)
  BY <1>1, <1>4 DEF Fields, FieldOf
<1>8. ASSUME NEW x \in Entries(s, t) PROVE x \in Entries(u, t) /\ EntryOf(u, t, x) = EntryOf(s, t, x)
  <2>1. InMap(x) /\ x \in Seq(Key) /\ x # p /\ p \notin Parents(x)
    BY <1>2, TablePath DEF Entries, Tree, Path
  <2>2. ASSUME NEW q \in Parents(x), q \in DOMAIN u PROVE u[q] = Table
    <3>1. q # p /\ p \notin Parents(q)
      BY <2>1, ParentsOfParents
    <3>2. q \in DOMAIN s
      BY <1>1, <2>2, <3>1
    <3> QED
      BY <1>1, <3>1, <3>2 DEF Entries
  <2>3. x \in DOMAIN u <=> x \in DOMAIN s
    BY <1>1, <2>1
  <2> QED
    BY <1>1, <2>1, <2>2, <2>3 DEF Entries, EntryOf
<1>9. ASSUME NEW x \in Entries(u, t) PROVE x \in Entries(s, t)
  <2>1. /\ InMap(x) /\ x \in Seq(Key) /\ x \in DOMAIN s \cup DOMAIN t
        /\ \A q \in Parents(x) : q \in DOMAIN u => u[q] = Table
    BY <1>1, KindOfPath, TablePath DEF Entries, Tree, Path
  \* The values field above would be new, and its map nil.
  <2>2. p \notin Parents(x)
    <3> SUFFICES ASSUME p \in Parents(x) PROVE FALSE
      OBVIOUS
    <3>1. PICK c \in Parents(x) : c \in DOMAIN Kind /\ Kind[c] = "values"
      BY <2>1 DEF InMap
    <3>2. c \in Seq(Key) /\ p \in Parents(c)
      BY <2>1, <3>1, ParentsInLine, KindFits, KindOfPath
    <3>3. \A q \in Parents(c) : q \in Parents(x) /\ q \in DOMAIN Kind
      BY <2>1, <3>1, ParentsOfParents, KindFits
    <3>4. Owned(u, c)
      BY <1>1, <2>1, <3>2, <3>3, OwnedByInduction DEF Tree, WellTyped
    <3>5. c \in DOMAIN u /\ c \notin DOMAIN s
      BY <1>1, <1>3, <3>1, <3>2, <3>4 DEF Tree, WellTyped
    <3>6. u[c] = NilMap
      BY <1>4, <3>1, <3>5 DEF Zero
    <3> QED
      BY <1>2, <2>1, <3>1, <3>5, <3>6
  <2>3. ASSUME NEW q \in Parents(x), q \in DOMAIN s PROVE s[q] = Table
    BY <1>1, <2>1, <2>2, <2>3
  <2> QED
    BY <2>1, <2>3 DEF Entries
<1>10. Merged(u, t) = Merged(s, t)
  <2>1. Entries(u, t) = Entries(s, t)
    BY <1>8, <1>9
  <2>2. \A x \in Entries(s, t) : InMap(x)
    BY DEF Entries
  <2>3. \A x \in Fields(s, t) : ~InMap(x)
    BY KindOfPath DEF Fields
  <2> QED
    BY <1>6, <1>7, <1>8, <2>1, <2>2, <2>3 DEF Merged
<1>11. Rejected(u, t) = Rejected(s, t)
  <2>1. \A x \in DOMAIN Kind : Kind[x] = "values" =>
          ((x \in DOMAIN u => u[x] = NilMap) <=> (x \in DOMAIN s => s[x] = NilMap))
    BY <1>1, <1>4 DEF Zero
  <2> QED
    BY <2>1 DEF Rejected
<1> QED
  BY <1>10, <1>11 DEF SameOutcome, u

(* What is new in a map is taken over whole.                               *)
LEMMA PutPartOutcome ==
  ASSUME NEW s, NEW t \in Tables, Tree(s), NEW p \in DOMAIN t, InMap(p), p \notin DOMAIN s, Owned(s, p)
  PROVE  SameOutcome(s, Put(s, Part(t, p)), t)
<1> DEFINE u == Put(s, Part(t, p))
<1>1. /\ \A x \in DOMAIN u : x \in DOMAIN s \/ (x \in DOMAIN t /\ (x = p \/ p \in Parents(x)))
      /\ \A x \in DOMAIN s : x \in DOMAIN u /\ u[x] = s[x]
      /\ \A x \in DOMAIN t : x = p \/ p \in Parents(x) => x \in DOMAIN u /\ u[x] = t[x]
  BY PutPartTree
<1> HIDE DEF u
<1>2. \A x \in DOMAIN u : x \notin DOMAIN s => x \in DOMAIN t /\ u[x] = t[x] /\ InMap(x)
  BY <1>1, TablePath, InMapBelow
<1>3. \A x \in DOMAIN Kind : x \in DOMAIN u <=> x \in DOMAIN s
  BY <1>1, <1>2, KindOfPath
<1>4. Fields(u, t) = Fields(s, t)
  BY <1>1, <1>3, KindFits DEF Fields, Allocated
<1>5. ASSUME NEW x \in Fields(s, t) PROVE FieldOf(u, t, x) = FieldOf(s, t, x)
  BY <1>1, <1>3 DEF Fields, FieldOf
<1>6. Entries(u, t) = Entries(s, t)
  <2>1. ASSUME NEW x, InMap(x), x \in DOMAIN s \cup DOMAIN t, NEW q \in Parents(x)
        PROVE  (q \in DOMAIN u => u[q] = Table) <=> (q \in DOMAIN s => s[q] = Table)
    <3>1. CASE q \in DOMAIN s
      BY <1>1, <3>1
    <3>2. CASE q \notin DOMAIN s
      <4>1. x \in DOMAIN t
        BY <2>1, <3>2 DEF Tree, WellTyped, Owned
      <4>2. t[q] = Table
        BY <2>1, <4>1, TablePath
      <4> QED
        BY <1>2, <3>2, <4>2
    <3> QED
      BY <3>1, <3>2
  <2>2. DOMAIN u \cup DOMAIN t = DOMAIN s \cup DOMAIN t
    BY <1>1, <1>2
  <2> QED
    BY <2>1, <2>2 DEF Entries
<1>7. ASSUME NEW x, x \in DOMAIN s \cup DOMAIN t PROVE EntryOf(u, t, x) = EntryOf(s, t, x)
  BY <1>1, <1>2, <1>7 DEF EntryOf
<1>8. Merged(u, t) = Merged(s, t)
  <2>1. \A x \in Entries(s, t) : InMap(x) /\ x \in DOMAIN s \cup DOMAIN t
    BY DEF Entries
  <2>2. \A x \in Fields(s, t) : ~InMap(x)
    BY KindOfPath DEF Fields
  <2> QED
    BY <1>4, <1>5, <1>6, <1>7, <2>1, <2>2 DEF Merged
<1>9. Rejected(u, t) = Rejected(s, t)
  BY <1>1, <1>3 DEF Rejected
<1> QED
  BY <1>8, <1>9 DEF SameOutcome, u

LEMMA OverwriteOutcome ==
  ASSUME TypeInv, NEW key, NEW p, KeyAt(key, p), InMap(p), Overwrite(key, p)
  PROVE  SameOutcome(spec, spec', values)
<1>1. /\ p \in DOMAIN values /\ Owned(spec, p) /\ values \in Tables /\ Tree(spec)
  BY KeyAhead DEF KeyAt, TypeInv
<1>2. CASE p \notin DOMAIN spec /\ spec' = Put(spec, Part(values, p))
  BY <1>1, <1>2, PutPartOutcome
<1>3. CASE UNCHANGED spec
  BY <1>3 DEF SameOutcome
<1>4. CASE p \in DOMAIN spec /\ values[p] # Table /\ spec[p] # Table /\ spec' = PutNode(spec, p, values[p])
  BY <1>1, <1>4, PutNodeOutcome
<1> QED
  BY <1>2, <1>3, <1>4 DEF Overwrite

LEMMA FieldOutcome ==
  ASSUME TypeInv, NEW key, NEW p, KeyAt(key, p), ~InMap(p),
         Unknown(key, p) \/ SetStruct(key, p) \/ SetPointer(key, p) \/ SetScalar(key, p) \/ SetValues(key, p)
  PROVE  SameOutcome(spec, spec', values)
<1>1. /\ p \in DOMAIN values /\ values \in Tables /\ Tree(spec)
  BY KeyAhead DEF KeyAt, TypeInv
<1>2. CASE UNCHANGED spec
  BY <1>2 DEF SameOutcome
<1>3. CASE SetPointer(key, p) /\ spec[p] = Nil
  BY <1>1, <1>3, KindAhead, NewStructOutcome DEF SetPointer
<1>4. CASE SetScalar(key, p) /\ Convertible(Kind[p], values[p])
  <2>1. p \in DOMAIN Kind /\ Kind[p] \in {"string", "int", "labels"} /\ Kind[p] \in Kinds
    BY <1>4, KindOfPath DEF SetScalar
  <2>2. p \in DOMAIN spec /\ spec[p] # Table
    BY <2>1, KindAhead, NodesDiffer DEF Holds, Scalar
  <2>3. Converted(Kind[p], values[p]) # Table
    BY <1>1, <1>4, <2>1, ConvertedFits, TablePath, NodesDiffer
  <2> QED
    BY <1>1, <1>4, <2>1, <2>2, <2>3, PutNodeOutcome DEF SetScalar
<1> QED
  BY <1>2, <1>3, <1>4 DEF Unknown, SetStruct, SetPointer, SetScalar, SetValues, Panic

-----------------------------------------------------------------------------
(* When everything is settled, merging changes nothing.                    *)

LEMMA SettledIsMerged ==
  ASSUME NEW s, Tree(s), values \in Tables,
         \A x \in DOMAIN values : Owned(s, x) => Settled(s, x)
  PROVE  Merged(s, values) = s
<1> DEFINE m == Merged(s, values)
<1>1. \A x \in DOMAIN Kind : Owned(s, x) => x \in DOMAIN s /\ s[x] \in Holds(Kind[x]) /\ ~InMap(x)
  BY KindOfPath DEF Tree, WellTyped
<1>2. ASSUME NEW x \in Fields(s, values) PROVE x \in DOMAIN s
  <2>1. x \in DOMAIN Kind /\ x \in Seq(Key)
    BY KindOfPath DEF Fields
  <2>2. ASSUME NEW q \in Parents(x), Owned(s, q) PROVE q \in DOMAIN s /\ s[q] = Table
    <3>1. q \in DOMAIN Kind /\ Kind[q] \in {"struct", "pointer"} /\ Allocated(s, values, q)
      BY <2>1, KindFits DEF Fields
    <3>2. q \in DOMAIN s /\ s[q] \in Holds(Kind[q]) /\ ~InMap(q)
      BY <1>1, <2>2, <3>1
    <3>3. CASE Kind[q] = "struct"
      BY <3>2, <3>3 DEF Holds
    <3>4. CASE Kind[q] = "pointer" /\ q \in DOMAIN values
      BY <2>2, <3>1, <3>2, <3>4 DEF Settled
    <3> QED
      BY <3>1, <3>2, <3>3, <3>4 DEF Allocated
  <2> QED
    BY <1>1, <2>1, <2>2, OwnedByInduction
<1>3. ASSUME NEW x \in Entries(s, values) PROVE x \in DOMAIN s
  <2> SUFFICES ASSUME x \notin DOMAIN s PROVE FALSE
    OBVIOUS
  <2>1. x \in DOMAIN values /\ x \in Seq(Key) /\ InMap(x)
    BY TablePath DEF Entries
  <2>2. ASSUME NEW q \in Parents(x), Owned(s, q) PROVE q \in DOMAIN s /\ s[q] = Table
    <3>1. q \in DOMAIN values
      BY <2>1, TablePath
    <3>2. q \in DOMAIN s
      BY <1>1, <2>1, <2>2, <3>1, AboveAnEntry DEF Settled
    <3> QED
      BY <3>2 DEF Entries
  <2>3. Owned(s, x)
    BY <2>1, <2>2, OwnedByInduction
  <2> QED
    BY <2>1, <2>3 DEF Settled
<1>4. ASSUME NEW x \in DOMAIN s PROVE x \in Fields(s, values) \cup Entries(s, values)
  <2>1. Owned(s, x)
    BY DEF Tree, WellTyped
  <2>2. CASE InMap(x)
    BY <2>1, <2>2 DEF Owned, Entries
  <2>3. CASE ~InMap(x)
    BY <2>1, <2>3 DEF Tree, WellTyped, Owned, Fields, Allocated
  <2> QED
    BY <2>2, <2>3
<1>5. ASSUME NEW x \in DOMAIN s PROVE s[x] = IF InMap(x) THEN EntryOf(s, values, x) ELSE FieldOf(s, values, x)
  <2>1. Owned(s, x) /\ (~InMap(x) => x \in DOMAIN Kind)
    BY DEF Tree, WellTyped
  <2>2. CASE InMap(x)
    BY <2>1, <2>2 DEF EntryOf, Settled
  <2>3. CASE ~InMap(x)
    BY <2>1, <2>3 DEF FieldOf, Settled
  <2> QED
    BY <2>2, <2>3
<1>6. Fields(s, values) \cup Entries(s, values) = DOMAIN s
  BY <1>2, <1>3, <1>4
<1>7. m = [x \in DOMAIN s |-> s[x]]
  BY <1>5, <1>6 DEF Merged
<1> QED
  BY <1>7 DEF Tree

-----------------------------------------------------------------------------
(* The outcome stays the same, and nothing the walk panics on is missed.   *)
OutcomeInv ==
  /\ SameOutcome(start, spec, values)
  /\ state = "panic" => Rejected(start, values) # {}
  /\ state # "panic" => \A x \in Rejected(start, values) : Waiting(stack, x)

(* What a key does for a node that is rejected, at or below it. *)
LEMMA RejectedReached ==
  ASSUME TypeInv, NEW key, NEW p, KeyAt(key, p), ~InMap(p),
         Unknown(key, p) \/ SetStruct(key, p) \/ SetPointer(key, p) \/ SetScalar(key, p) \/ SetValues(key, p),
         NEW x \in Rejected(spec, values), AtOrBelow(x, p)
  PROVE  Panicked \/ (p \in Parents(x) /\ Entered(key, p))
<1>1. x \in DOMAIN values /\ x \in DOMAIN Kind /\ (x = p \/ (p \in Parents(x) /\ values[p] = Table))
  BY NodeBelow DEF Rejected
<1>2. CASE x = p /\ Kind[p] \in {"string", "int", "labels"}
  <2>1. SetScalar(key, p)
    BY <1>1, <1>2 DEF Unknown, SetStruct, SetPointer, SetValues
  <2>2. ~Convertible(Kind[p], values[p])
    BY <1>2 DEF Rejected
  <2> QED
    BY <2>1, <2>2 DEF SetScalar, Panic, Panicked
<1>3. CASE x = p /\ Kind[p] = "values"
  <2>1. SetValues(key, p)
    BY <1>1, <1>3 DEF Unknown, SetStruct, SetPointer, SetScalar
  <2>2. values[p] = Table /\ spec[p] = NilMap
    BY <1>1, <1>3, KindAhead DEF Rejected
  <2> QED
    BY <2>1, <2>2 DEF SetValues, Panic, Panicked
<1>4. CASE p \in Parents(x) /\ values[p] = Table
  <2>1. p \in DOMAIN Kind /\ Kind[p] \in {"struct", "pointer"}
    BY <1>1, <1>4, KindFits
  <2>2. SetStruct(key, p) \/ SetPointer(key, p)
    BY <2>1 DEF Unknown, SetScalar, SetValues
  <2> QED
    BY <1>4, <2>2, SetStructEffect, SetPointerEffect
<1> QED
  BY <1>1, <1>2, <1>3, <1>4 DEF Rejected

(* The walk panics at a node that is rejected. *)
LEMMA PanicIsRejection ==
  ASSUME TypeInv, NEW key, NEW p, KeyAt(key, p), ~InMap(p), SetScalar(key, p) \/ SetValues(key, p),
         state' = "panic"
  PROVE  p \in Rejected(spec, values)
<1>1. p \in DOMAIN values /\ state = "run"
  BY KeyAhead DEF KeyAt
<1>2. SetScalar(key, p) => ~Convertible(Kind[p], values[p])
  BY <1>1 DEF SetScalar
<1>3. SetValues(key, p) => values[p] = Table /\ spec[p] = NilMap
  BY <1>1 DEF SetValues
<1> QED
  BY <1>1, <1>2, <1>3 DEF Rejected, SetScalar, SetValues

LEMMA NextKeyOutcome ==
  ASSUME TypeInv, NextKey
  PROVE  \E key, p :
           /\ KeyAt(key, p) /\ Effect(key, p) /\ SameOutcome(spec, spec', values)
           /\ state' = "panic" => Rejected(spec, values) # {}
           /\ \A x \in Rejected(spec, values) :
                AtOrBelow(x, p) => Panicked \/ (p \in Parents(x) /\ Entered(key, p))
<1>1. PICK key \in Innermost.left :
        LET p == Append(Innermost.path, key)
        IN \/ InMap(p) /\ Overwrite(key, p)
           \/ /\ ~InMap(p)
              /\ \/ Unknown(key, p) \/ SetStruct(key, p) \/ SetPointer(key, p)
                 \/ SetScalar(key, p) \/ SetValues(key, p)
  BY DEF NextKey
<1> DEFINE p == Append(Innermost.path, key)
<1>2. KeyAt(key, p)
  BY DEF KeyAt, NextKey
<1> HIDE DEF p
<1>3. Effect(key, p)
  BY <1>1, <1>2, UnknownEffect, SetStructEffect, SetPointerEffect, SetScalarEffect,
     SetValuesEffect, OverwriteEffect DEF p
<1>4. SameOutcome(spec, spec', values)
  BY <1>1, <1>2, OverwriteOutcome, FieldOutcome DEF p
<1>5. ASSUME state' = "panic" PROVE p \in Rejected(spec, values)
  <2>1. ~InMap(p) /\ (SetScalar(key, p) \/ SetValues(key, p))
    BY <1>1, <1>2, <1>5 DEF p, KeyAt, Overwrite, Unknown, SetStruct, SetPointer
  <2> QED
    BY <1>2, <1>5, <2>1, PanicIsRejection
<1>6. ASSUME NEW x \in Rejected(spec, values), AtOrBelow(x, p)
      PROVE  Panicked \/ (p \in Parents(x) /\ Entered(key, p))
  <2>1. ~InMap(p)
    <3>1. x \in DOMAIN Kind
      BY DEF Rejected
    <3> QED
      BY <1>6, <3>1, KindOfPath, InMapBelow DEF AtOrBelow
  <2> QED
    BY <1>1, <1>2, <1>6, <2>1, RejectedReached DEF p
<1> QED
  BY <1>2, <1>3, <1>4, <1>5, <1>6

LEMMA KeyOutcomeStep ==
  ASSUME TypeInv, OutcomeInv, NextKey
  PROVE  OutcomeInv'
<1>1. PICK key, p :
        /\ KeyAt(key, p) /\ Effect(key, p) /\ SameOutcome(spec, spec', values)
        /\ state' = "panic" => Rejected(spec, values) # {}
        /\ \A x \in Rejected(spec, values) :
             AtOrBelow(x, p) => Panicked \/ (p \in Parents(x) /\ Entered(key, p))
  BY NextKeyOutcome
<1>2. UNCHANGED <<start, values>> /\ state = "run"
  BY <1>1 DEF KeyAt
<1>3. SameOutcome(start, spec', values) /\ Rejected(start, values) = Rejected(spec, values)
  BY <1>1 DEF OutcomeInv, SameOutcome
<1>4. ASSUME state' # "panic", NEW x \in Rejected(start, values) PROVE Waiting(stack', x)
  <2>1. x \in DOMAIN values /\ x \in Rejected(spec, values) /\ Waiting(stack, x)
    BY <1>2, <1>3 DEF OutcomeInv, Rejected
  <2>2. (Passed(key) \/ Entered(key, p)) /\ ~Panicked
    BY <1>1, <1>4 DEF Effect, Panicked
  <2>3. CASE AtOrBelow(x, p)
    BY <1>1, <2>1, <2>2, <2>3, EnterWaiting DEF Entered
  <2>4. CASE ~AtOrBelow(x, p)
    <3>1. Waiting(Past(key), x)
      BY <1>1, <2>1, <2>4, PassWaiting
    <3> QED
      BY <1>1, <2>1, <2>2, <3>1, EnterWaiting DEF Passed, Pass, Entered
  <2> QED
    BY <2>3, <2>4
<1> QED
  BY <1>1, <1>2, <1>3, <1>4 DEF OutcomeInv

LEMMA OutcomeInit == Init => OutcomeInv
<1> SUFFICES ASSUME Init PROVE OutcomeInv
  OBVIOUS
<1>1. values \in Tables /\ stack = <<Call(values, <<>>)>> /\ state = "run" /\ spec = start
  BY DEF Init
<1>2. \A x \in Rejected(start, values) : Waiting(stack, x)
  BY <1>1, RootWaiting DEF Rejected
<1> QED
  BY <1>1, <1>2 DEF OutcomeInv, SameOutcome

LEMMA OutcomeStep == TypeInv /\ OutcomeInv /\ [Next]_vars => OutcomeInv'
<1> SUFFICES ASSUME TypeInv, OutcomeInv, [Next]_vars PROVE OutcomeInv'
  OBVIOUS
<1>1. CASE NextKey
  BY <1>1, KeyOutcomeStep
<1>2. CASE Return
  <2>1. UNCHANGED <<start, spec, values>> /\ state = "run" /\ state' # "panic"
    BY <1>2 DEF Return
  <2>2. \A x : Waiting(stack, x) => Waiting(stack', x)
    BY <1>2, ReturnWaiting
  <2> QED
    BY <2>1, <2>2 DEF OutcomeInv
<1>3. CASE Again
  <2>1. /\ start' = spec /\ UNCHANGED <<spec, values>> /\ stack' = <<Call(values, <<>>)>>
        /\ state' = "run"
    BY <1>3 DEF Again
  <2>2. \A x \in DOMAIN values : Waiting(stack', x)
    BY <2>1, RootWaiting DEF TypeInv
  <2> QED
    BY <2>1, <2>2 DEF OutcomeInv, SameOutcome, Rejected
<1>4. CASE UNCHANGED vars
  BY <1>4 DEF vars, OutcomeInv
<1> QED
  BY <1>1, <1>2, <1>3, <1>4 DEF Next

-----------------------------------------------------------------------------
(* The error.                                                              *)

Stray(p) == Len(p) = 1 /\ p \notin DOMAIN Kind

(* Only the outermost call has no path, and what it reports it has met. *)
ErrInv ==
  /\ \A i \in DOMAIN stack : stack[i].path = <<>> <=> i = 1
  /\ err => \E p \in DOMAIN values : Stray(p)
  /\ state # "panic" => \A p \in DOMAIN values : Stray(p) => err \/ Waiting(stack, p)

(* A key is stray when it is the outermost call's and no field. *)
LEMMA StrayKey ==
  ASSUME TypeInv, ErrInv, NEW key, NEW p, KeyAt(key, p)
  PROVE  /\ p \in DOMAIN values
         /\ Len(stack) \in Nat \ {0} /\ (Len(p) = 1 <=> Len(stack) = 1)
<1>1. /\ p \in DOMAIN values /\ Innermost.path \in Seq(Key) /\ p = Append(Innermost.path, key)
      /\ stack \in StackType /\ stack # <<>>
  BY KeyAhead DEF KeyAt, TypeInv
<1>2. Len(stack) \in Nat \ {0} /\ Len(stack) \in DOMAIN stack /\ Innermost = stack[Len(stack)]
  BY <1>1 DEF Innermost, Last, StackType
<1>3. Len(p) = Len(Innermost.path) + 1 /\ Len(Innermost.path) \in Nat
  BY <1>1
<1>4. Len(Innermost.path) = 0 <=> Innermost.path = <<>>
  BY <1>1
<1>5. Innermost.path = <<>> <=> Len(stack) = 1
  BY <1>2 DEF ErrInv
<1>6. Len(p) = 1 <=> Len(Innermost.path) = 0
  BY <1>3
<1> QED
  BY <1>1, <1>2, <1>4, <1>5, <1>6

LEMMA KeyErr ==
  ASSUME TypeInv, ErrInv, NextKey
  PROVE  \E key, p :
           /\ KeyAt(key, p) /\ Effect(key, p)
           /\ state' # "panic" => err' = (err \/ Stray(p))
           /\ state' = "panic" => err' = err
<1>1. PICK key \in Innermost.left :
        LET p == Append(Innermost.path, key)
        IN \/ InMap(p) /\ Overwrite(key, p)
           \/ /\ ~InMap(p)
              /\ \/ Unknown(key, p) \/ SetStruct(key, p) \/ SetPointer(key, p)
                 \/ SetScalar(key, p) \/ SetValues(key, p)
  BY DEF NextKey
<1> DEFINE p == Append(Innermost.path, key)
<1>2. KeyAt(key, p)
  BY DEF KeyAt, NextKey
<1> HIDE DEF p
<1>3. Effect(key, p)
  BY <1>1, <1>2, UnknownEffect, SetStructEffect, SetPointerEffect, SetScalarEffect,
     SetValuesEffect, OverwriteEffect DEF p
<1>4. p \in Seq(Key) /\ (Len(p) = 1 <=> Len(stack) = 1) /\ err \in BOOLEAN /\ state = "run"
  BY <1>2, StrayKey, TablePath DEF TypeInv, KeyAt
<1>5. CASE InMap(p) /\ Overwrite(key, p)
  <2>1. Len(p) # 1
    BY <1>4, <1>5, ParentsArePaths DEF InMap, Path
  <2> QED
    BY <1>2, <1>3, <1>4, <1>5, <2>1 DEF Overwrite, Stray
<1>6. CASE Unknown(key, p)
  BY <1>2, <1>3, <1>4, <1>6 DEF Unknown, Stray
<1>7. CASE SetStruct(key, p) \/ SetPointer(key, p) \/ SetScalar(key, p) \/ SetValues(key, p)
  <2>1. UNCHANGED err /\ ~Stray(p)
    BY <1>7 DEF SetStruct, SetPointer, SetScalar, SetValues, Panic, Stray
  <2> QED
    BY <1>2, <1>3, <1>4, <2>1
<1> QED
  BY <1>1, <1>5, <1>6, <1>7 DEF p

(* The calls that are added have a path. *)
LEMMA KeyPaths ==
  ASSUME TypeInv, \A i \in DOMAIN stack : stack[i].path = <<>> <=> i = 1,
         NEW key, NEW p, KeyAt(key, p), Effect(key, p)
  PROVE  \A i \in DOMAIN stack' : stack'[i].path = <<>> <=> i = 1
<1>1. /\ stack \in StackType /\ stack # <<>> /\ p # <<>> /\ p \in Seq(Key) /\ values \in Tables
  BY KeyAhead DEF KeyAt, TypeInv, Path
<1>2. /\ Past(key) \in StackType /\ DOMAIN Past(key) = DOMAIN stack /\ Len(Past(key)) = Len(stack)
      /\ Len(stack) \in Nat \ {0}
      /\ \A i \in DOMAIN stack : Past(key)[i].path = stack[i].path
  <2>1. Len(stack) \in Nat \ {0}
    BY <1>1 DEF StackType
  <2> QED
    BY <1>1, <2>1, PastIs
<1>3. CASE UNCHANGED stack
  BY <1>3
<1>4. CASE Pass(key)
  BY <1>2, <1>4 DEF Pass
<1>5. CASE Enter(key, p)
  <2>1. stack' = Append(Past(key), Call(values, p)) /\ Call(values, p).path = p
    BY <1>5 DEF Enter, Call
  <2>2. /\ DOMAIN stack' = 1..(Len(stack) + 1) /\ DOMAIN stack = 1..Len(stack)
        /\ \A i \in 1..Len(stack) : stack'[i] = Past(key)[i]
        /\ stack'[Len(stack) + 1].path = p
    BY <1>1, <1>2, <2>1, CallAhead DEF StackType
  <2>3. ASSUME NEW i \in DOMAIN stack' PROVE stack'[i].path = <<>> <=> i = 1
    <3>1. CASE i \in 1..Len(stack)
      BY <1>2, <2>2, <3>1
    <3>2. CASE i = Len(stack) + 1
      BY <1>1, <1>2, <2>2, <3>2
    <3> QED
      BY <1>2, <2>2, <3>1, <3>2
  <2> QED
    BY <2>3
<1> QED
  BY <1>3, <1>4, <1>5 DEF Effect, Passed, Entered, Panicked

LEMMA KeyErrStep ==
  ASSUME TypeInv, ErrInv, NextKey
  PROVE  ErrInv'
<1>1. PICK key, p :
        /\ KeyAt(key, p) /\ Effect(key, p)
        /\ state' # "panic" => err' = (err \/ Stray(p))
        /\ state' = "panic" => err' = err
  BY KeyErr
<1>2. UNCHANGED values /\ state = "run" /\ p \in DOMAIN values
  BY <1>1, StrayKey DEF KeyAt
<1>3. \A i \in DOMAIN stack' : stack'[i].path = <<>> <=> i = 1
  BY <1>1, KeyPaths DEF ErrInv
<1>4. err' => \E x \in DOMAIN values : Stray(x)
  BY <1>1, <1>2 DEF ErrInv
<1>5. ASSUME state' # "panic", NEW x \in DOMAIN values, Stray(x) PROVE err' \/ Waiting(stack', x)
  <2>1. CASE x = p
    BY <1>1, <1>5, <2>1
  <2>2. CASE x # p /\ ~err
    <3>1. x \in Seq(Key) /\ Waiting(stack, x) /\ Len(x) = 1
      BY <1>2, <1>5, <2>2, TablePath DEF ErrInv, TypeInv, Stray
    <3>2. ~AtOrBelow(x, p)
      BY <2>2, <3>1, ParentsArePaths DEF AtOrBelow, Path
    <3>3. Waiting(Past(key), x)
      BY <1>1, <3>1, <3>2, PassWaiting
    <3> QED
      BY <1>1, <1>5, <3>3, EnterWaiting DEF Effect, Passed, Pass, Entered, Panicked
  <2>3. CASE err
    BY <1>1, <1>5, <2>3
  <2> QED
    BY <2>1, <2>2, <2>3 DEF ErrInv
<1> QED
  BY <1>2, <1>3, <1>4, <1>5 DEF ErrInv, Stray

(* The outermost call, alone. *)
LEMMA RootErr ==
  ASSUME values \in Tables
  PROVE  LET root == <<Call(values, <<>>)>> IN
         /\ \A i \in DOMAIN root : root[i].path = <<>> <=> i = 1
         /\ \A x \in DOMAIN values : Waiting(root, x)
  BY RootWaiting DEF Call

LEMMA ErrInit == Init => ErrInv
  BY RootErr DEF Init, ErrInv

LEMMA ErrInvStep == TypeInv /\ ErrInv /\ [Next]_vars => ErrInv'
<1> SUFFICES ASSUME TypeInv, ErrInv, [Next]_vars PROVE ErrInv'
  OBVIOUS
<1>1. CASE NextKey
  BY <1>1, KeyErrStep
<1>2. CASE Return
  <2>1. UNCHANGED <<values, err>> /\ state = "run"
    BY <1>2 DEF Return
  <2>2. \A x : Waiting(stack, x) => Waiting(stack', x)
    BY <1>2, ReturnWaiting
  <2>3. \A i \in DOMAIN stack' : i \in DOMAIN stack /\ stack'[i] = stack[i]
    BY <1>2, ReturnIs
  <2> QED
    BY <2>1, <2>2, <2>3 DEF ErrInv, Stray
<1>3. CASE Again
  <2>1. /\ UNCHANGED <<values, err>> /\ ~err /\ stack' = <<Call(values, <<>>)>> /\ values \in Tables
    BY <1>3 DEF Again, TypeInv
  <2> QED
    BY <2>1, RootErr DEF ErrInv, Stray
<1>4. CASE UNCHANGED vars
  BY <1>4 DEF vars, ErrInv, Stray
<1> QED
  BY <1>1, <1>2, <1>3, <1>4 DEF Next

-----------------------------------------------------------------------------
(* The keys of every level come in any order, the outcome is the same: the *)
(* merged spec, without an order, or a panic if and only if the table      *)
(* holds something that is rejected, and an error if and only if a key of  *)
(* its first level is no field.                                            *)
THEOREM OrderCorrect == Spec => []OrderDoesNotMatter
<1>1. TypeInv /\ OnceInv /\ OutcomeInv /\ ErrInv => OrderDoesNotMatter
  <2> SUFFICES ASSUME TypeInv, OnceInv, OutcomeInv, ErrInv PROVE OrderDoesNotMatter
    OBVIOUS
  <2>1. ASSUME state = "done"
        PROVE  /\ Rejected(start, values) = {} /\ spec = Merged(start, values)
               /\ err <=> \E p \in DOMAIN values : Stray(p)
    <3>1. stack = <<>> /\ Tree(spec) /\ values \in Tables
      BY <2>1 DEF TypeInv
    <3>2. \A x : ~Waiting(stack, x)
      BY <3>1 DEF Waiting
    <3>3. Merged(spec, values) = spec
      BY <2>1, <3>1, <3>2, SettledIsMerged DEF OnceInv
    <3> QED
      BY <2>1, <3>2, <3>3 DEF OutcomeInv, SameOutcome, ErrInv
  <2> QED
    BY <2>1 DEF OrderDoesNotMatter, OutcomeInv, Stray
<1> QED
  BY <1>1, OnceInit, OnceStep, OutcomeInit, OutcomeStep, ErrInit, ErrInvStep, TypeInvIsInv, PTL DEF Spec

=============================================================================
