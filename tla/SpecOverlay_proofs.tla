--------------------------- MODULE SpecOverlay_proofs ---------------------------
(***************************************************************************)
(* Proofs about SpecOverlay, for any Go types, specs and tables, however   *)
(* deep, and any order of the keys.  The first part is about paths, the    *)
(* second about trees and what the writes of the walk do to them.          *)
(***************************************************************************)
EXTENDS SpecOverlay, SequenceTheorems, TLAPS

-----------------------------------------------------------------------------
(* Paths.                                                                  *)

LEMMA ParentsAre ==
  ASSUME NEW p \in Seq(Key)
  PROVE  Parents(p) = {SubSeq(p, 1, n) : n \in 1..(Len(p) - 1)}
<1>1. ASSUME NEW n \in 0..Len(p)
      PROVE  /\ SubSeq(p, 1, n) \in Seq(Key) /\ Len(SubSeq(p, 1, n)) = n
             /\ SubSeq(p, 1, n) = p <=> n = Len(p)
             /\ SubSeq(p, 1, n) = <<>> <=> n = 0
  OBVIOUS
<1> QED
  BY <1>1 DEF Parents, Prefixes

LEMMA ParentsArePaths ==
  ASSUME NEW p \in Seq(Key), NEW q \in Parents(p)
  PROVE  q \in Path /\ Len(q) < Len(p)
<1>1. PICK n \in 1..(Len(p) - 1) : q = SubSeq(p, 1, n)
  BY ParentsAre
<1>2. q \in Seq(Key) /\ Len(q) = n
  BY <1>1
<1> QED
  BY <1>1, <1>2 DEF Path

LEMMA ParentsOfParents ==
  ASSUME NEW p \in Seq(Key), NEW q \in Parents(p), NEW m \in Parents(q)
  PROVE  m \in Parents(p)
<1>1. PICK i \in 1..(Len(p) - 1) : q = SubSeq(p, 1, i)
  BY ParentsAre
<1>2. q \in Seq(Key) /\ Len(q) = i
  BY <1>1
<1>3. PICK j \in 1..(i - 1) : m = SubSeq(q, 1, j)
  BY <1>2, ParentsAre
<1>4. m = SubSeq(p, 1, j) /\ j \in 1..(Len(p) - 1)
  BY <1>1, <1>3
<1> QED
  BY <1>4, ParentsAre

(* Of two parents of a path one is the parent of the other. *)
LEMMA ParentsInLine ==
  ASSUME NEW p \in Seq(Key), NEW q \in Parents(p), NEW m \in Parents(p)
  PROVE  q = m \/ q \in Parents(m) \/ m \in Parents(q)
<1>1. PICK i \in 1..(Len(p) - 1) : q = SubSeq(p, 1, i)
  BY ParentsAre
<1>2. PICK j \in 1..(Len(p) - 1) : m = SubSeq(p, 1, j)
  BY ParentsAre
<1>3. q \in Seq(Key) /\ Len(q) = i /\ m \in Seq(Key) /\ Len(m) = j
  BY <1>1, <1>2
<1>4. CASE i < j
  <2>1. q = SubSeq(m, 1, i) /\ i \in 1..(j - 1)
    BY <1>1, <1>2, <1>4
  <2> QED
    BY <1>3, <2>1, ParentsAre
<1>5. CASE j < i
  <2>1. m = SubSeq(q, 1, j) /\ j \in 1..(i - 1)
    BY <1>1, <1>2, <1>5
  <2> QED
    BY <1>3, <2>1, ParentsAre
<1> QED
  BY <1>1, <1>2, <1>4, <1>5

LEMMA ParentsOfAppend ==
  ASSUME NEW p \in Seq(Key), NEW key \in Key
  PROVE  /\ Append(p, key) \in Path
         /\ Parents(Append(p, key)) = Parents(p) \cup ({p} \ {<<>>})
<1> DEFINE a == Append(p, key)
<1>1. a \in Seq(Key) /\ Len(a) = Len(p) + 1 /\ a # <<>>
  <2>1. a \in Seq(Key) /\ Len(a) = Len(p) + 1
    OBVIOUS
  <2>2. Len(p) \in Nat
    OBVIOUS
  <2> HIDE DEF a
  <2>3. a # <<>>
    BY <2>1, <2>2
  <2> QED
    BY <2>1, <2>3
<1>2. ASSUME NEW n \in 1..Len(p) PROVE SubSeq(a, 1, n) = SubSeq(p, 1, n)
  <2>1. \A i \in 1..n : a[i] = p[i]
    OBVIOUS
  <2> HIDE DEF a
  <2>2. /\ SubSeq(a, 1, n) \in Seq(Key) /\ Len(SubSeq(a, 1, n)) = n
        /\ SubSeq(p, 1, n) \in Seq(Key) /\ Len(SubSeq(p, 1, n)) = n
        /\ \A i \in 1..n : SubSeq(a, 1, n)[i] = a[i] /\ SubSeq(p, 1, n)[i] = p[i]
    BY <1>1
  <2> QED
    BY <2>1, <2>2, SeqEqual
<1>3. SubSeq(p, 1, Len(p)) = p
  OBVIOUS
<1>4. Parents(a) = {SubSeq(a, 1, n) : n \in 1..Len(p)}
  <2>1. Len(p) \in Nat
    OBVIOUS
  <2> HIDE DEF a
  <2>2. Parents(a) = {SubSeq(a, 1, n) : n \in 1..(Len(a) - 1)}
    BY <1>1, ParentsAre
  <2> QED
    BY <1>1, <2>1, <2>2
<1>5. Parents(a) = {SubSeq(p, 1, n) : n \in 1..Len(p)}
  BY <1>2, <1>4
<1>6. Parents(p) = {SubSeq(p, 1, n) : n \in 1..(Len(p) - 1)}
  BY ParentsAre
<1>7. p = <<>> <=> Len(p) = 0
  OBVIOUS
<1>8. CASE Len(p) = 0
  BY <1>1, <1>5, <1>6, <1>7, <1>8 DEF Path
<1>9. CASE Len(p) # 0
  <2>1. 1..Len(p) = 1..(Len(p) - 1) \cup {Len(p)}
    BY <1>9
  <2> QED
    BY <1>1, <1>3, <1>5, <1>6, <1>7, <1>9, <2>1 DEF Path
<1> QED
  BY <1>8, <1>9

(* What is at a path or below. *)
LEMMA PrefixIsParent ==
  ASSUME NEW p \in Path, NEW q \in Seq(Key)
  PROVE  IsPrefix(p, q) <=> q = p \/ p \in Parents(q)
<1>1. p \in Seq(Key) /\ p # <<>> /\ Len(p) \in Nat \ {0}
  BY DEF Path
<1>2. SubSeq(p, 1, Len(p)) = p /\ SubSeq(q, 1, Len(q)) = q
  BY <1>1
<1>3. ASSUME IsPrefix(p, q) PROVE q = p \/ p \in Parents(q)
  <2>1. Len(p) <= Len(q) /\ p = SubSeq(q, 1, Len(p))
    BY <1>2, <1>3 DEF IsPrefix
  <2> QED
    BY <1>1, <1>2, <2>1, ParentsAre
<1>4. ASSUME p \in Parents(q) PROVE IsPrefix(p, q)
  <2>1. PICK n \in 1..(Len(q) - 1) : p = SubSeq(q, 1, n)
    BY <1>4, ParentsAre
  <2>2. Len(p) = n
    BY <2>1
  <2> QED
    BY <1>2, <2>1, <2>2 DEF IsPrefix
<1>5. IsPrefix(p, p)
  BY <1>1 DEF IsPrefix
<1> QED
  BY <1>3, <1>4, <1>5

-----------------------------------------------------------------------------
(* Trees.                                                                  *)

Tree(s) == s = [p \in DOMAIN s |-> s[p]] /\ DOMAIN s \subseteq Path /\ WellTyped(s)

LEMMA KindOfPath ==
  ASSUME NEW p \in DOMAIN Kind
  PROVE  p \in Path /\ p \in Seq(Key) /\ ~InMap(p) /\ Kind[p] \in Kinds
<1>1. p \in Path /\ p \in Seq(Key)
  BY KindFits DEF Path
<1> QED
  BY <1>1, KindFits DEF InMap

LEMMA OwnedParents ==
  ASSUME NEW s, NEW p \in Seq(Key), Owned(s, p), NEW q \in Parents(p)
  PROVE  Owned(s, q) /\ q \in DOMAIN s /\ s[q] = Table
  BY ParentsOfParents DEF Owned

LEMMA InMapBelow ==
  ASSUME NEW p \in Seq(Key), NEW q \in Parents(p), InMap(q)
  PROVE  InMap(p)
  BY ParentsOfParents DEF InMap

(* A node that is no table is given another value that is none.            *)
LEMMA PutNodeTree ==
  ASSUME NEW s, Tree(s), NEW p \in DOMAIN s, s[p] # Table, NEW v, v # Table,
         IF InMap(p) THEN v \in Scalar ELSE v \in Holds(Kind[p])
  PROVE  Tree(PutNode(s, p, v))
<1> DEFINE t == PutNode(s, p, v)
<1>1. /\ DOMAIN t = DOMAIN s /\ t[p] = v /\ t = [x \in DOMAIN t |-> t[x]]
      /\ \A x \in DOMAIN s \ {p} : t[x] = s[x]
  BY DEF PutNode
<1>2. \A x : Owned(t, x) <=> Owned(s, x)
  BY <1>1 DEF Owned
<1> HIDE DEF t
<1>3. \A x \in DOMAIN t :
        /\ Owned(t, x)
        /\ IF InMap(x) THEN t[x] \in Scalar \cup {Table}
                       ELSE x \in DOMAIN Kind /\ t[x] \in Holds(Kind[x])
  BY <1>1, <1>2 DEF Tree, WellTyped
<1>4. \A x \in DOMAIN Kind : Owned(t, x) => x \in DOMAIN t
  BY <1>1, <1>2 DEF Tree, WellTyped
<1>5. Tree(t)
  BY <1>1, <1>3, <1>4 DEF Tree, WellTyped
<1> QED
  BY <1>5 DEF t

(* Nothing is below a node that is no table, or is not there.              *)
LEMMA NothingBelow ==
  ASSUME NEW s, Tree(s), NEW p, p \in DOMAIN s => s[p] # Table
  PROVE  \A x \in DOMAIN s : p \notin Parents(x)
  BY DEF Tree, WellTyped, Owned

(* A nil pointer is given a struct.                                        *)
LEMMA NewStructTree ==
  ASSUME NEW s, Tree(s), NEW p \in DOMAIN Kind, Kind[p] = "pointer", p \in DOMAIN s, s[p] = Nil
  PROVE  LET t == Put(s, NewStruct(p)) IN
         /\ Tree(t) /\ t[p] = Table
         /\ \A x \in DOMAIN s : x \in DOMAIN t /\ (x # p => t[x] = s[x])
         /\ \A x \in DOMAIN t : x \in DOMAIN s \/ (x \in DOMAIN Kind /\ p \in Parents(x))
<1> DEFINE n == NewStruct(p)
           t == Put(s, n)
           fields == {q \in DOMAIN Kind :
             /\ p \in Parents(q)
             /\ \A m \in Parents(q) : p \in Parents(m) => Kind[m] = "struct"}
<1>0. p \in Seq(Key) /\ s[p] # Table /\ Table # Nil /\ Table # NilMap
  BY KindOfPath, NodesDiffer
<1>1. /\ DOMAIN n = {p} \cup fields /\ n[p] = Table
      /\ \A q \in fields : n[q] = IF q = p \/ Kind[q] = "struct" THEN Table
                                  ELSE IF Kind[q] = "values" THEN NilMap ELSE Nil
  BY DEF NewStruct, Zero
<1>2. /\ DOMAIN t = DOMAIN s \cup {p} \cup fields /\ t = [x \in DOMAIN t |-> t[x]]
      /\ \A x \in DOMAIN t : t[x] = IF x \in {p} \cup fields THEN n[x] ELSE s[x]
  BY <1>1 DEF Put
<1>3. \A x \in fields : x \notin DOMAIN s /\ x # p /\ p \in Parents(x)
  <2>1. p \notin Parents(p)
    BY <1>0, ParentsArePaths
  <2> QED
    BY <1>0, <2>1, NothingBelow
<1> HIDE DEF n, t
\* What the struct that is new owns is in it.
<1>4. \A x \in fields : Owned(t, x)
  <2> SUFFICES ASSUME NEW x \in fields, NEW m \in Parents(x)
               PROVE  m \in DOMAIN t /\ t[m] = Table
    BY DEF Owned
  <2>0. x \in DOMAIN Kind /\ x \in Seq(Key) /\ m \in DOMAIN Kind
    BY KindOfPath, KindFits
  <2>1. m = p \/ m \in Parents(p) \/ p \in Parents(m)
    BY <1>3, <2>0, ParentsInLine
  <2>2. CASE m = p
    BY <1>1, <1>2, <2>2
  <2>3. CASE m \in Parents(p)
    <3>1. m \in DOMAIN s /\ s[m] = Table /\ m # p
      BY <1>0, <2>3 DEF Tree, WellTyped, Owned
    <3>2. m \notin fields
      BY <1>3, <3>1
    <3> QED
      BY <1>2, <3>1, <3>2
  <2>4. CASE p \in Parents(m)
    <3>1. Kind[m] = "struct"
      BY <2>4
    <3>2. m \in fields
      BY <2>0, <2>4, <3>1, ParentsOfParents
    <3> QED
      BY <1>1, <1>2, <3>1, <3>2
  <2> QED
    BY <2>1, <2>2, <2>3, <2>4
\* What there was is owned as before.
<1>5. \A x \in DOMAIN s : Owned(t, x)
  <2> SUFFICES ASSUME NEW x \in DOMAIN s, NEW m \in Parents(x)
               PROVE  m \in DOMAIN t /\ t[m] = Table
    BY DEF Owned
  <2>1. m \in DOMAIN s /\ s[m] = Table
    BY DEF Tree, WellTyped, Owned
  <2>2. m # p /\ m \notin fields
    BY <1>0, <1>3, <2>1
  <2> QED
    BY <1>2, <2>1, <2>2
<1>6. \A x \in DOMAIN t : IF InMap(x) THEN t[x] \in Scalar \cup {Table}
                          ELSE x \in DOMAIN Kind /\ t[x] \in Holds(Kind[x])
  <2>1. ~InMap(p) /\ t[p] \in Holds(Kind[p])
    BY <1>1, <1>2, KindOfPath DEF Holds
  <2>2. ASSUME NEW x \in fields PROVE ~InMap(x) /\ x \in DOMAIN Kind /\ t[x] \in Holds(Kind[x])
    <3>1. t[x] = IF Kind[x] = "struct" THEN Table ELSE IF Kind[x] = "values" THEN NilMap ELSE Nil
      BY <1>1, <1>2, <1>3
    <3>2. Kind[x] \in Kinds /\ ~InMap(x)
      BY KindOfPath
    <3> QED
      BY <3>1, <3>2 DEF Holds, Kinds
  <2>3. ASSUME NEW x \in DOMAIN s, x # p PROVE t[x] = s[x]
    BY <1>2, <1>3, <2>3
  <2> QED
    BY <1>2, <2>1, <2>2, <2>3 DEF Tree, WellTyped
\* No field of the struct is missing.
<1>7. \A x \in DOMAIN Kind : Owned(t, x) => x \in DOMAIN t
  <2> SUFFICES ASSUME NEW x \in DOMAIN Kind, Owned(t, x) PROVE x \in DOMAIN t
    OBVIOUS
  <2>0. x \in Seq(Key)
    BY KindOfPath
  <2>1. CASE p \in Parents(x)
    <3>1. ASSUME NEW m \in Parents(x), p \in Parents(m) PROVE Kind[m] = "struct"
      <4>1. m \in DOMAIN t /\ t[m] = Table /\ m \notin DOMAIN s /\ m # p
        <5>1. m \notin DOMAIN s
          BY <1>0, <3>1, NothingBelow
        <5> QED
          BY <3>1, <5>1 DEF Owned
      <4>2. m \in fields
        BY <1>2, <4>1
      <4> QED
        BY <1>0, <1>1, <1>2, <4>1, <4>2
    <3>2. x \in fields
      BY <2>1, <3>1
    <3> QED
      BY <1>2, <3>2
  <2>2. CASE p \notin Parents(x)
    <3>1. ASSUME NEW m \in Parents(x) PROVE m \in DOMAIN s /\ s[m] = Table
      <4>1. m \in DOMAIN t /\ t[m] = Table
        BY <3>1 DEF Owned
      <4>2. m # p /\ m \notin fields
        BY <1>3, <2>0, <2>2, <3>1, ParentsOfParents
      <4> QED
        BY <1>2, <4>1, <4>2
    <3>2. x \in DOMAIN s
      BY <3>1 DEF Tree, WellTyped, Owned
    <3> QED
      BY <1>2, <3>2
  <2> QED
    BY <2>1, <2>2
<1>8. DOMAIN t \subseteq Path
  BY <1>2, KindFits DEF Tree
<1>9. Tree(t)
  BY <1>2, <1>4, <1>5, <1>6, <1>7, <1>8 DEF Tree, WellTyped
<1>10. /\ t[p] = Table /\ \A x \in DOMAIN s : x \in DOMAIN t /\ (x # p => t[x] = s[x])
       /\ \A x \in DOMAIN t : x \in DOMAIN s \/ (x \in DOMAIN Kind /\ p \in Parents(x))
  BY <1>1, <1>2, <1>3
<1> QED
  BY <1>9, <1>10 DEF t, n

LEMMA TablePath ==
  ASSUME NEW v \in Tables, NEW p \in DOMAIN v
  PROVE  /\ p \in Path /\ p \in Seq(Key) /\ v[p] \in {Text, Number, Table}
         /\ \A q \in Parents(p) : q \in DOMAIN v /\ v[q] = Table
  BY TablesFit DEF Path

(* What is new in a map is taken over whole.                               *)
LEMMA PutPartTree ==
  ASSUME NEW s, Tree(s), NEW v \in Tables, NEW p \in DOMAIN v,
         InMap(p), p \notin DOMAIN s, Owned(s, p)
  PROVE  LET t == Put(s, Part(v, p)) IN
         /\ Tree(t)
         /\ \A x \in DOMAIN t : x \in DOMAIN s \/ (x \in DOMAIN v /\ (x = p \/ p \in Parents(x)))
         /\ \A x \in DOMAIN s : x \in DOMAIN t /\ t[x] = s[x]
         /\ \A x \in DOMAIN v : x = p \/ p \in Parents(x) => x \in DOMAIN t /\ t[x] = v[x]
<1> DEFINE t    == Put(s, Part(v, p))
           part == {q \in DOMAIN v : IsPrefix(p, q)}
<1>0. p \in Path /\ p \in Seq(Key)
  BY TablePath
<1>1. \A x \in part : x \in DOMAIN v /\ x \in Seq(Key) /\ (x = p \/ p \in Parents(x))
  BY <1>0, TablePath, PrefixIsParent
<1>2. \A x \in DOMAIN v : x = p \/ p \in Parents(x) => x \in part
  BY <1>0, TablePath, PrefixIsParent
<1>3. \A x \in DOMAIN s : x \notin part
  BY <1>1, NothingBelow
<1>4. /\ DOMAIN t = DOMAIN s \cup part /\ t = [x \in DOMAIN t |-> t[x]]
      /\ \A x \in part : t[x] = v[x]
      /\ \A x \in DOMAIN s : t[x] = s[x]
  BY <1>3 DEF Put, Part
<1> HIDE DEF t, part
<1>5. \A x \in part : Owned(t, x)
  <2> SUFFICES ASSUME NEW x \in part, NEW m \in Parents(x)
               PROVE  m \in DOMAIN t /\ t[m] = Table
    BY DEF Owned
  <2>0. x \in DOMAIN v /\ x \in Seq(Key)
    BY <1>1 DEF part
  <2>1. CASE x = p
    BY <1>4, <2>1 DEF Owned
  <2>2. CASE p \in Parents(x)
    <3>1. m = p \/ m \in Parents(p) \/ p \in Parents(m)
      BY <2>0, <2>2, ParentsInLine
    <3>2. m \in DOMAIN v /\ v[m] = Table
      BY <2>0, TablePath
    <3>3. CASE m \in Parents(p)
      BY <1>4, <3>3 DEF Owned
    <3>4. CASE m = p \/ p \in Parents(m)
      BY <1>2, <1>4, <3>2, <3>4
    <3> QED
      BY <3>1, <3>3, <3>4
  <2> QED
    BY <1>1, <2>1, <2>2
<1>6. \A x \in DOMAIN s : Owned(t, x)
  BY <1>4 DEF Tree, WellTyped, Owned
<1>7. \A x \in DOMAIN t : IF InMap(x) THEN t[x] \in Scalar \cup {Table}
                          ELSE x \in DOMAIN Kind /\ t[x] \in Holds(Kind[x])
  <2>1. ASSUME NEW x \in part PROVE InMap(x) /\ t[x] \in Scalar \cup {Table}
    <3>1. InMap(x)
      BY <1>1, InMapBelow
    <3>2. v[x] \in {Text, Number, Table}
      BY TablePath DEF part
    <3> QED
      BY <1>4, <3>1, <3>2 DEF Scalar
  <2>2. ASSUME NEW x \in DOMAIN s PROVE t[x] = s[x]
    BY <1>4
  <2> QED
    BY <1>4, <2>1, <2>2 DEF Tree, WellTyped
<1>8. \A x \in DOMAIN Kind : Owned(t, x) => x \in DOMAIN t
  <2> SUFFICES ASSUME NEW x \in DOMAIN Kind, Owned(t, x) PROVE x \in DOMAIN t
    OBVIOUS
  <2>1. x \in Seq(Key) /\ ~InMap(x)
    BY KindOfPath
  <2>2. ASSUME NEW m \in Parents(x) PROVE m \in DOMAIN s /\ s[m] = Table
    <3>1. m \notin part
      <4>1. ASSUME m \in part PROVE FALSE
        <5>1. m \in Seq(Key) /\ InMap(m)
          BY <1>1, <4>1, InMapBelow
        <5> QED
          BY <2>1, <5>1, InMapBelow
      <4> QED
        BY <4>1
    <3> QED
      BY <1>4, <3>1 DEF Owned
  <2>3. x \in DOMAIN s
    BY <2>2 DEF Tree, WellTyped, Owned
  <2> QED
    BY <1>4, <2>3
<1>9. DOMAIN t \subseteq Path
  BY <1>4, TablesFit DEF Tree, part
<1>10. Tree(t)
  BY <1>4, <1>5, <1>6, <1>7, <1>8, <1>9 DEF Tree, WellTyped
<1> QED
  BY <1>1, <1>2, <1>4, <1>10 DEF t

-----------------------------------------------------------------------------
(* The walk.                                                               *)

(* A call has yet to come to nodes of the table, whose parents are in the  *)
(* spec.                                                                   *)
Ahead(c, v, s) ==
  /\ c.path \in Seq(Key) /\ c.left \subseteq Key
  /\ \A key \in c.left : Append(c.path, key) \in DOMAIN v /\ Owned(s, Append(c.path, key))

StackType == Seq([path : Seq(Key), left : SUBSET Key])

TypeInv ==
  /\ values \in Tables /\ Tree(spec) /\ Tree(start)
  /\ stack \in StackType /\ \A i \in DOMAIN stack : Ahead(stack[i], values, spec)
  /\ state = "run" => stack # <<>>
  /\ state = "done" => stack = <<>>
  /\ err \in BOOLEAN /\ state \in {"run", "done", "panic"} /\ again \in BOOLEAN

(* A call for a table is for the nodes right below its path.               *)
LEMMA CallAhead ==
  ASSUME NEW p \in Seq(Key), values \in Tables
  PROVE  /\ Call(values, p) \in [path : Seq(Key), left : SUBSET Key]
         /\ Call(values, p).path = p
         /\ \A key \in Call(values, p).left : key \in Key /\ Append(p, key) \in DOMAIN values
         /\ \A q \in DOMAIN values : IsPrefix(p, q) /\ Len(q) = Len(p) + 1 =>
              Last(q) \in Call(values, p).left /\ q = Append(p, Last(q))
<1>1. ASSUME NEW q \in DOMAIN values, Len(q) = Len(p) + 1, IsPrefix(p, q)
      PROVE  Last(q) \in Key /\ q = Append(p, Last(q))
  <2>1. q \in Seq(Key) /\ q # <<>>
    BY TablePath DEF Path
  <2>2. Last(q) = q[Len(p) + 1] /\ Last(q) \in Key
    BY <1>1, <2>1 DEF Last
  <2>3. Append(p, Last(q)) \in Seq(Key) /\ Len(Append(p, Last(q))) = Len(p) + 1
    BY <2>2
  <2>4. \A i \in 1..Len(p) : p[i] = q[i]
    <3>1. SubSeq(p, 1, Len(p)) = SubSeq(q, 1, Len(p)) /\ SubSeq(p, 1, Len(p)) = p
      BY <1>1 DEF IsPrefix
    <3> QED
      BY <1>1, <2>1, <3>1
  <2>5. \A i \in 1..Len(q) : q[i] = Append(p, Last(q))[i]
    BY <1>1, <2>2, <2>4
  <2>6. q = Append(p, Last(q))
    BY <1>1, <2>1, <2>3, <2>5, SeqEqual
  <2> QED
    BY <2>2, <2>6
<1>2. Call(values, p) = [path |-> p, left |-> Keys(values, p)]
  BY DEF Call
<1>3. Keys(values, p) = {Last(q) : q \in {q \in DOMAIN values : Len(q) = Len(p) + 1 /\ IsPrefix(p, q)}}
  BY DEF Keys
<1>4. \A key \in Keys(values, p) : \E q \in DOMAIN values :
        Len(q) = Len(p) + 1 /\ IsPrefix(p, q) /\ key = Last(q)
  BY <1>3
<1>5. \A key \in Keys(values, p) : key \in Key /\ Append(p, key) \in DOMAIN values
  BY <1>1, <1>4
<1>6. \A q \in DOMAIN values : IsPrefix(p, q) /\ Len(q) = Len(p) + 1 =>
        Last(q) \in Keys(values, p) /\ q = Append(p, Last(q))
  BY <1>1, <1>3
<1>7. Keys(values, p) \subseteq Key
  BY <1>5
<1> QED
  BY <1>2, <1>5, <1>6, <1>7

(* The innermost call comes to a node of the table, in a struct or a map   *)
(* that is there.                                                          *)
LEMMA KeyAhead ==
  ASSUME TypeInv, state = "run", NEW key \in Innermost.left
  PROVE  LET p == Append(Innermost.path, key) IN
         /\ key \in Key /\ Innermost.path \in Seq(Key)
         /\ p \in DOMAIN values /\ p \in Path /\ p \in Seq(Key) /\ Owned(spec, p)
<1>1. Len(stack) \in DOMAIN stack /\ Innermost = stack[Len(stack)]
  BY DEF TypeInv, StackType, Innermost, Last
<1>2. Ahead(Innermost, values, spec)
  BY <1>1 DEF TypeInv
<1> QED
  BY <1>2, TablePath DEF Ahead, TypeInv

(* What a key does to the spec: nothing goes, at most the node of the key  *)
(* changes, when it is no table, and what is new is at or below it.        *)
Grows(p) ==
  /\ \A x \in DOMAIN spec : x \in DOMAIN spec' /\ (spec'[x] = spec[x] \/ (x = p /\ spec[x] # Table))
  /\ \A x \in DOMAIN spec' : x \in DOMAIN spec \/ x = p \/ p \in Parents(x)

LEMMA OwnedStays ==
  ASSUME NEW p, Grows(p), NEW x, Owned(spec, x)
  PROVE  Owned(spec', x)
  BY DEF Grows, Owned

LEMMA PastIs ==
  ASSUME stack \in StackType, stack # <<>>, NEW key
  PROVE  /\ Past(key) \in StackType /\ DOMAIN Past(key) = DOMAIN stack
         /\ Len(Past(key)) = Len(stack) /\ Past(key) # <<>>
         /\ \A i \in DOMAIN stack :
              /\ Past(key)[i].path = stack[i].path
              /\ Past(key)[i].left = IF i = Len(stack) THEN stack[i].left \ {key} ELSE stack[i].left
<1> DEFINE n == Len(stack)
           c == [stack[n] EXCEPT !.left = @ \ {key}]
<1>1. n \in Nat /\ n # 0 /\ n \in DOMAIN stack /\ DOMAIN stack = 1..n
  BY DEF StackType
<1>2. stack[n] \in [path : Seq(Key), left : SUBSET Key]
  BY <1>1, ElementOfSeq DEF StackType
<1>3. c \in [path : Seq(Key), left : SUBSET Key] /\ c.path = stack[n].path /\ c.left = stack[n].left \ {key}
  BY <1>2
<1>4. Past(key) = [stack EXCEPT ![n] = c]
  BY DEF Past
<1> HIDE DEF c
<1>5. /\ Past(key) \in StackType /\ Len(Past(key)) = n /\ DOMAIN Past(key) = DOMAIN stack
      /\ \A i \in DOMAIN stack : Past(key)[i] = IF i = n THEN c ELSE stack[i]
  BY <1>1, <1>3, <1>4 DEF StackType
<1>6. Past(key) # <<>>
  BY <1>1, <1>5
<1> QED
  BY <1>3, <1>5, <1>6

LEMMA PassAhead ==
  ASSUME TypeInv, state = "run", NEW p, Grows(p), UNCHANGED values, NEW key, Pass(key)
  PROVE  /\ stack' \in StackType /\ stack' # <<>> /\ DOMAIN stack' = DOMAIN stack
         /\ \A i \in DOMAIN stack' : Ahead(stack'[i], values', spec')
<1>1. /\ stack' \in StackType /\ stack' # <<>> /\ DOMAIN stack' = DOMAIN stack
      /\ \A i \in DOMAIN stack : stack'[i].path = stack[i].path /\ stack'[i].left \subseteq stack[i].left
  BY PastIs DEF TypeInv, Pass
<1>2. ASSUME NEW i \in DOMAIN stack PROVE Ahead(stack'[i], values', spec')
  <2>1. Ahead(stack[i], values, spec)
    BY DEF TypeInv
  <2> QED
    BY <1>1, <2>1, OwnedStays DEF Ahead
<1> QED
  BY <1>1, <1>2

LEMMA EnterAhead ==
  ASSUME TypeInv, state = "run", NEW p \in Seq(Key), Grows(p), UNCHANGED values,
         NEW key, Enter(key, p), Owned(spec, p), p \in DOMAIN spec', spec'[p] = Table
  PROVE  /\ stack' \in StackType /\ stack' # <<>>
         /\ \A i \in DOMAIN stack' : Ahead(stack'[i], values', spec')
<1> DEFINE c == Call(values, p)
           past == Past(key)
<1>1. /\ past \in StackType /\ DOMAIN past = DOMAIN stack
      /\ \A i \in DOMAIN stack : past[i].path = stack[i].path /\ past[i].left \subseteq stack[i].left
  BY PastIs DEF TypeInv
<1>2. /\ c \in [path : Seq(Key), left : SUBSET Key] /\ c.path = p
      /\ \A k \in c.left : k \in Key /\ Append(p, k) \in DOMAIN values
  BY CallAhead DEF TypeInv
<1>3. stack' = Append(past, c)
  BY DEF Enter
<1> HIDE DEF past, c
<1>4. /\ stack' \in StackType /\ stack' # <<>>
      /\ \A i \in DOMAIN stack' : stack'[i] = c \/ (i \in DOMAIN stack /\ stack'[i] = past[i])
  BY <1>1, <1>2, <1>3 DEF StackType
<1>5. Ahead(c, values', spec')
  <2>1. ASSUME NEW k \in c.left PROVE Owned(spec', Append(p, k))
    <3>1. Parents(Append(p, k)) = Parents(p) \cup ({p} \ {<<>>})
      BY <1>2, ParentsOfAppend
    <3>2. Owned(spec', p)
      BY OwnedStays
    <3> QED
      BY <3>1, <3>2 DEF Owned
  <2> QED
    BY <1>2, <2>1 DEF Ahead
<1>6. ASSUME NEW i \in DOMAIN stack PROVE Ahead(past[i], values', spec')
  <2>1. Ahead(stack[i], values, spec)
    BY DEF TypeInv
  <2> QED
    BY <1>1, <2>1, OwnedStays DEF Ahead
<1> QED
  BY <1>4, <1>5, <1>6

(* A key is passed over, is gone into, or is the end of the command.       *)
Passed(key)     == Pass(key) /\ UNCHANGED state
Entered(key, p) == /\ Enter(key, p) /\ UNCHANGED state
                   /\ values[p] = Table /\ p \in DOMAIN spec' /\ spec'[p] = Table
Panicked        == state' = "panic" /\ UNCHANGED <<spec, stack>>

(* What every key does to spec and stack. *)
Effect(key, p) ==
  /\ Tree(spec') /\ Grows(p)
  /\ Passed(key) \/ Entered(key, p) \/ Panicked

KeyAt(key, p) ==
  /\ state = "run" /\ key \in Innermost.left /\ p = Append(Innermost.path, key)
  /\ UNCHANGED <<start, values, again>>

LEMMA GrowsIfUnchanged ==
  ASSUME NEW p, UNCHANGED spec
  PROVE  Grows(p)
  BY DEF Grows

LEMMA UnknownEffect ==
  ASSUME TypeInv, NEW key, NEW p, KeyAt(key, p), ~InMap(p), Unknown(key, p)
  PROVE  Effect(key, p)
  BY GrowsIfUnchanged DEF TypeInv, Unknown, Effect, Passed

(* What Kind says of a node that the walk comes to. *)
LEMMA KindAhead ==
  ASSUME TypeInv, NEW key, NEW p, KeyAt(key, p), ~InMap(p), p \in DOMAIN Kind
  PROVE  p \in DOMAIN spec /\ spec[p] \in Holds(Kind[p])
  BY KeyAhead DEF KeyAt, TypeInv, Tree, WellTyped

LEMMA SetStructEffect ==
  ASSUME TypeInv, NEW key, NEW p, KeyAt(key, p), ~InMap(p), SetStruct(key, p)
  PROVE  Effect(key, p) /\ (values[p] = Table => Entered(key, p))
<1>1. p \in DOMAIN spec /\ spec[p] = Table /\ UNCHANGED <<spec, state>>
  BY KindAhead DEF SetStruct, Holds
<1>2. Tree(spec') /\ Grows(p)
  BY <1>1, GrowsIfUnchanged DEF TypeInv
<1>3. (Passed(key) \/ Entered(key, p)) /\ (values[p] = Table => Entered(key, p))
  BY <1>1 DEF SetStruct, EnterTable, Passed, Entered
<1> QED
  BY <1>2, <1>3 DEF Effect

LEMMA SetPointerEffect ==
  ASSUME TypeInv, NEW key, NEW p, KeyAt(key, p), ~InMap(p), SetPointer(key, p)
  PROVE  /\ Effect(key, p) /\ (values[p] = Table => Entered(key, p))
         /\ p \in DOMAIN spec' /\ spec'[p] = Table
<1>1. /\ p \in DOMAIN Kind /\ Kind[p] = "pointer" /\ UNCHANGED state
      /\ p \in DOMAIN spec /\ spec[p] \in {Table, Nil} /\ Table # Nil
  BY KindAhead, NodesDiffer DEF SetPointer, Holds
<1>2. CASE spec[p] = Nil
  <2>1. spec' = Put(spec, NewStruct(p))
    BY <1>2 DEF SetPointer
  <2>2. Tree(spec') /\ spec'[p] = Table /\ p \in DOMAIN spec'
    BY <1>1, <1>2, <2>1, NewStructTree DEF TypeInv
  <2>3. /\ \A x \in DOMAIN spec : x \in DOMAIN spec' /\ (x # p => spec'[x] = spec[x])
        /\ \A x \in DOMAIN spec' : x \in DOMAIN spec \/ p \in Parents(x)
    BY <1>1, <1>2, <2>1, NewStructTree DEF TypeInv
  <2>4. Grows(p)
    BY <1>1, <1>2, <2>3 DEF Grows
  <2>5. (Passed(key) \/ Entered(key, p)) /\ (values[p] = Table => Entered(key, p))
    BY <1>1, <2>2 DEF SetPointer, EnterTable, Passed, Entered
  <2> QED
    BY <2>2, <2>4, <2>5 DEF Effect
<1>3. CASE spec[p] = Table
  <2>1. spec' = spec
    BY <1>1, <1>3 DEF SetPointer
  <2>2. (Passed(key) \/ Entered(key, p)) /\ (values[p] = Table => Entered(key, p))
    BY <1>1, <1>3, <2>1 DEF SetPointer, EnterTable, Passed, Entered
  <2> QED
    BY <1>1, <1>3, <2>1, <2>2, GrowsIfUnchanged DEF Effect, TypeInv
<1> QED
  BY <1>1, <1>2, <1>3

(* What a scalar field is given is what it can hold. *)
LEMMA ConvertedFits ==
  ASSUME NEW kind \in Kinds, NEW n \in {Text, Number, Table}, Convertible(kind, n)
  PROVE  Converted(kind, n) \in Holds(kind) /\ Converted(kind, n) # Table /\ n # Table
  BY NodesDiffer DEF Kinds, Convertible, Converted, Holds, Scalar

LEMMA PutNodeGrows ==
  ASSUME NEW p \in DOMAIN spec, spec[p] # Table, NEW v, spec' = PutNode(spec, p, v)
  PROVE  Grows(p)
  BY DEF Grows, PutNode

LEMMA SetScalarEffect ==
  ASSUME TypeInv, NEW key, NEW p, KeyAt(key, p), ~InMap(p), SetScalar(key, p)
  PROVE  Effect(key, p)
<1>1. /\ p \in DOMAIN Kind /\ Kind[p] \in {"string", "int", "labels"} /\ Kind[p] \in Kinds
      /\ p \in DOMAIN spec /\ spec[p] \in Holds(Kind[p])
  BY KindAhead DEF SetScalar, Kinds
<1>2. spec[p] # Table
  BY <1>1, NodesDiffer DEF Holds, Scalar
<1>3. values[p] \in {Text, Number, Table}
  BY KeyAhead, TablePath DEF KeyAt, TypeInv
<1>4. CASE Convertible(Kind[p], values[p])
  <2>1. spec' = PutNode(spec, p, Converted(Kind[p], values[p])) /\ Passed(key)
    BY <1>4 DEF SetScalar, Passed
  <2>2. Tree(spec')
    BY <1>1, <1>2, <1>3, <1>4, <2>1, ConvertedFits, PutNodeTree DEF TypeInv
  <2> QED
    BY <1>1, <1>2, <2>1, <2>2, PutNodeGrows DEF Effect
<1>5. CASE ~Convertible(Kind[p], values[p])
  <2>1. Panicked
    BY <1>5 DEF SetScalar, Panic, Panicked
  <2> QED
    BY <2>1, GrowsIfUnchanged DEF Effect, TypeInv, Panicked
<1> QED
  BY <1>4, <1>5

LEMMA SetValuesEffect ==
  ASSUME TypeInv, NEW key, NEW p, KeyAt(key, p), ~InMap(p), SetValues(key, p)
  PROVE  Effect(key, p) /\ (values[p] = Table => Entered(key, p) \/ Panicked)
<1>1. p \in DOMAIN spec /\ spec[p] \in {Table, NilMap} /\ UNCHANGED spec
  BY KindAhead DEF SetValues, Holds, Panic
<1>2. /\ Passed(key) \/ Entered(key, p) \/ Panicked
      /\ values[p] = Table => Entered(key, p) \/ Panicked
  BY <1>1 DEF SetValues, EnterTable, Panic, Passed, Entered, Panicked
<1> QED
  BY <1>1, <1>2, GrowsIfUnchanged DEF Effect, TypeInv

LEMMA OverwriteEffect ==
  ASSUME TypeInv, NEW key, NEW p, KeyAt(key, p), InMap(p), Overwrite(key, p)
  PROVE  Effect(key, p)
<1>1. p \in DOMAIN values /\ Owned(spec, p) /\ values \in Tables /\ Tree(spec) /\ UNCHANGED state
  BY KeyAhead DEF KeyAt, TypeInv, Overwrite
<1>2. values[p] \in {Text, Number, Table}
  BY <1>1, TablePath
<1>3. CASE p \notin DOMAIN spec /\ spec' = Put(spec, Part(values, p)) /\ Pass(key)
  <2> DEFINE t == Put(spec, Part(values, p))
  <2>0. /\ Tree(t) /\ \A x \in DOMAIN spec : x \in DOMAIN t /\ t[x] = spec[x]
        /\ \A x \in DOMAIN t : x \in DOMAIN spec \/ x = p \/ p \in Parents(x)
    BY <1>1, <1>3, PutPartTree
  <2>1. /\ Tree(spec') /\ \A x \in DOMAIN spec : x \in DOMAIN spec' /\ spec'[x] = spec[x]
        /\ \A x \in DOMAIN spec' : x \in DOMAIN spec \/ x = p \/ p \in Parents(x)
    BY <1>3, <2>0
  <2> QED
    BY <1>1, <1>3, <2>1 DEF Effect, Grows, Passed
<1>4. CASE /\ p \in DOMAIN spec /\ values[p] = Table /\ spec[p] = Table
           /\ Enter(key, p) /\ UNCHANGED spec
  BY <1>1, <1>4, GrowsIfUnchanged DEF Effect, Entered
<1>5. CASE /\ p \in DOMAIN spec /\ values[p] # Table /\ spec[p] # Table
           /\ spec' = PutNode(spec, p, values[p]) /\ Pass(key)
  <2>1. Tree(spec')
    BY <1>1, <1>2, <1>5, PutNodeTree DEF Scalar
  <2> QED
    BY <1>1, <1>5, <2>1, PutNodeGrows DEF Effect, Passed
<1>6. CASE Pass(key) /\ UNCHANGED spec
  BY <1>1, <1>6, GrowsIfUnchanged DEF Effect, Passed
<1> QED
  BY <1>3, <1>4, <1>5, <1>6 DEF Overwrite

(* The six things a key can be are all. *)
LEMMA NextKeyEffect ==
  ASSUME TypeInv, NextKey
  PROVE  \E key \in Innermost.left : \E p : KeyAt(key, p) /\ Effect(key, p)
<1>1. PICK key \in Innermost.left :
        LET p == Append(Innermost.path, key)
        IN \/ InMap(p) /\ Overwrite(key, p)
           \/ /\ ~InMap(p)
              /\ \/ Unknown(key, p) \/ SetStruct(key, p) \/ SetPointer(key, p)
                 \/ SetScalar(key, p) \/ SetValues(key, p)
  BY DEF NextKey
<1> DEFINE p == Append(Innermost.path, key)
<1>2. KeyAt(key, p)
  BY DEF KeyAt, NextKey
<1> HIDE DEF p
<1>3. Effect(key, p)
  BY <1>1, <1>2, UnknownEffect, SetStructEffect, SetPointerEffect, SetScalarEffect,
     SetValuesEffect, OverwriteEffect DEF p
<1> QED
  BY <1>2, <1>3

(* The outermost call. *)
LEMMA RootAhead ==
  ASSUME values \in Tables, NEW s
  PROVE  <<Call(values, <<>>)>> \in StackType /\ Ahead(Call(values, <<>>), values, s)
<1> DEFINE root == <<>>
           c == Call(values, root)
<1>1. root \in Seq(Key) /\ Len(root) = 0
  OBVIOUS
<1>2. Parents(root) = {}
  <2>1. Parents(root) = {SubSeq(root, 1, n) : n \in 1..(Len(root) - 1)}
    BY <1>1, ParentsAre
  <2>2. 1..(Len(root) - 1) = {}
    BY <1>1
  <2> QED
    BY <2>1, <2>2
<1> HIDE DEF root
<1>3. /\ c \in [path : Seq(Key), left : SUBSET Key] /\ c.path = root
      /\ \A k \in c.left : k \in Key /\ Append(root, k) \in DOMAIN values
  BY <1>1, CallAhead
<1>4. ASSUME NEW k \in c.left PROVE Owned(s, Append(root, k))
  BY <1>1, <1>2, <1>3, ParentsOfAppend DEF Owned, root
<1> HIDE DEF c
<1>5. <<c>> \in StackType
  BY <1>3 DEF StackType
<1>6. Ahead(c, values, s)
  BY <1>3, <1>4 DEF Ahead
<1> QED
  BY <1>5, <1>6 DEF c, root

LEMMA TypeInit == Init => TypeInv
<1> SUFFICES ASSUME Init PROVE TypeInv
  OBVIOUS
<1>1. values \in Tables /\ Tree(start) /\ spec = start
  BY SpecsFit DEF Init, Tree
<1> DEFINE c == Call(values, <<>>)
<1>2. <<c>> \in StackType /\ Ahead(c, values, spec)
  BY <1>1, RootAhead
<1>3. stack = <<c>>
  BY DEF Init
<1> HIDE DEF c
<1>4. stack # <<>> /\ \A i \in DOMAIN stack : stack[i] = c
  BY <1>3
<1> QED
  BY <1>1, <1>2, <1>3, <1>4 DEF Init, TypeInv

LEMMA KeyTypeStep ==
  ASSUME TypeInv, NEW key, NEW p, KeyAt(key, p), Effect(key, p), err' \in BOOLEAN
  PROVE  TypeInv'
<1>1. /\ values' \in Tables /\ Tree(spec') /\ Tree(start') /\ again' \in BOOLEAN
      /\ state = "run" /\ values' = values
  BY DEF TypeInv, KeyAt, Effect
<1>2. p \in Seq(Key) /\ Owned(spec, p) /\ Grows(p)
  BY KeyAhead DEF KeyAt, Effect
<1>3. CASE Passed(key)
  <2>1. /\ stack' \in StackType /\ stack' # <<>> /\ state' = "run"
        /\ \A i \in DOMAIN stack' : Ahead(stack'[i], values', spec')
    BY <1>1, <1>2, <1>3, PassAhead DEF Passed
  <2> QED
    BY <1>1, <2>1 DEF TypeInv
<1>4. CASE Entered(key, p)
  <2>1. /\ stack' \in StackType /\ stack' # <<>> /\ state' = "run"
        /\ \A i \in DOMAIN stack' : Ahead(stack'[i], values', spec')
    BY <1>1, <1>2, <1>4, EnterAhead DEF Entered
  <2> QED
    BY <1>1, <2>1 DEF TypeInv
<1>5. CASE Panicked
  BY <1>1, <1>5 DEF TypeInv, Panicked
<1> QED
  BY <1>3, <1>4, <1>5 DEF Effect

(* A key sets err to a truth value, or leaves it. *)
LEMMA ErrStep ==
  ASSUME err \in BOOLEAN, NextKey
  PROVE  err' \in BOOLEAN
<1>1. PICK key : \E p : \/ Unknown(key, p) \/ SetStruct(key, p) \/ SetPointer(key, p)
                       \/ SetScalar(key, p) \/ SetValues(key, p) \/ Overwrite(key, p)
  BY DEF NextKey
<1>2. err' = err \/ err' = (err \/ Len(stack) = 1)
  BY <1>1 DEF Unknown, SetStruct, SetPointer, SetScalar, SetValues, Overwrite, Panic
<1> QED
  BY <1>2

LEMMA ReturnIs ==
  ASSUME TypeInv, Return
  PROVE  /\ stack' \in StackType /\ (Len(stack) = 1 <=> stack' = <<>>)
         /\ \A i \in DOMAIN stack' : i \in DOMAIN stack /\ i # Len(stack) /\ stack'[i] = stack[i]
         /\ \A i \in DOMAIN stack : i = Len(stack) \/ i \in DOMAIN stack'
<1>1. stack \in StackType /\ stack # <<>> /\ stack' = Front(stack)
  BY DEF TypeInv, Return
<1> DEFINE n == Len(stack)
           f == SubSeq(stack, 1, n - 1)
<1>2. n \in Nat /\ n # 0 /\ DOMAIN stack = 1..n
  BY <1>1 DEF StackType
<1>3. f \in StackType /\ Len(f) = n - 1 /\ \A i \in 1..(n - 1) : f[i] = stack[i]
  <2> DEFINE Frame == [path : Seq(Key), left : SUBSET Key]
  <2>1. ASSUME NEW i \in 1..(n - 1) PROVE stack[i] \in Frame
    <3>1. i \in 1..Len(stack) /\ stack \in Seq(Frame)
      BY <1>1, <1>2 DEF StackType
    <3> HIDE DEF Frame, n
    <3> QED
      BY <3>1, ElementOfSeq
  <2>2. 1 \in Int /\ n - 1 \in Int /\ (IF 1 <= n - 1 THEN n - 1 - 1 + 1 ELSE 0) = n - 1
        /\ n - 1 - 1 + 1 = n - 1
    BY <1>2
  <2> HIDE DEF Frame, n
  <2>3. /\ f \in Seq(Frame) /\ Len(f) = IF 1 <= n - 1 THEN n - 1 - 1 + 1 ELSE 0
        /\ \A i \in 1..(n - 1 - 1 + 1) : f[i] = stack[1 + i - 1]
    BY <2>1, <2>2, SubSeqProperties
  <2> QED
    BY <2>2, <2>3 DEF StackType, Frame
<1>4. stack' = f
  BY <1>1 DEF Front
<1> HIDE DEF f
<1>5. DOMAIN f = 1..(n - 1) /\ (n - 1 = 0 <=> f = <<>>)
  BY <1>2, <1>3 DEF StackType
<1> QED
  BY <1>2, <1>3, <1>4, <1>5

LEMMA TypeStep == TypeInv /\ [Next]_vars => TypeInv'
<1> SUFFICES ASSUME TypeInv, [Next]_vars PROVE TypeInv'
  OBVIOUS
<1>1. CASE NextKey
  <2>1. err' \in BOOLEAN
    BY <1>1, ErrStep DEF TypeInv
  <2> QED
    BY <1>1, <2>1, NextKeyEffect, KeyTypeStep
<1>2. CASE Return
  <2>1. UNCHANGED <<start, spec, values, err, again>> /\ state = "run"
    BY <1>2 DEF Return
  <2>2. /\ stack' \in StackType
        /\ \A i \in DOMAIN stack' : Ahead(stack'[i], values', spec')
    BY <1>2, <2>1, ReturnIs DEF TypeInv
  <2>3. IF stack' = <<>> THEN state' = "done" ELSE state' = "run"
    BY <1>2, <2>1, ReturnIs DEF Return
  <2> QED
    BY <2>1, <2>2, <2>3 DEF TypeInv
<1>3. CASE Again
  <2> DEFINE c == Call(values, <<>>)
  <2>1. /\ UNCHANGED <<spec, values, err>> /\ start' = spec /\ again' = TRUE /\ state' = "run"
        /\ stack' = <<c>>
    BY <1>3 DEF Again
  <2>2. <<c>> \in StackType /\ Ahead(c, values, spec)
    BY RootAhead DEF TypeInv
  <2> HIDE DEF c
  <2>3. stack' # <<>> /\ \A i \in DOMAIN stack' : stack'[i] = c
    BY <2>1
  <2> QED
    BY <2>1, <2>2, <2>3 DEF TypeInv
<1>4. CASE UNCHANGED vars
  BY <1>4 DEF vars, TypeInv
<1> QED
  BY <1>1, <1>2, <1>3, <1>4 DEF Next

LEMMA TypeInvIsInv == Spec => []TypeInv
<1> QED
  BY TypeInit, TypeStep, PTL DEF Spec

(* At every moment the spec is a value of its Go type, whatever the table  *)
(* and in whatever order it is walked; no call looks for what is not in    *)
(* the table.                                                              *)
THEOREM TypeCorrect == Spec => []TypeOK
<1>1. TypeInv => TypeOK
  BY DEF TypeInv, TypeOK, Tree, Ahead
<1> QED
  BY <1>1, TypeInvIsInv, PTL

LEMMA OthersStep == TypeInv /\ OthersStay /\ [Next]_vars => OthersStay'
<1> SUFFICES ASSUME TypeInv, OthersStay, [Next]_vars PROVE OthersStay'
  OBVIOUS
<1>1. CASE NextKey
  <2>1. PICK key \in Innermost.left : \E p : KeyAt(key, p) /\ Effect(key, p)
    BY <1>1, NextKeyEffect
  <2>2. PICK p : KeyAt(key, p) /\ Effect(key, p)
    BY <2>1
  <2>3. UNCHANGED <<start, values>> /\ p \in DOMAIN values /\ Grows(p)
    BY <2>2, KeyAhead DEF KeyAt, Effect
  <2>4. \E q \in Settings : IsPrefix(p, q)
    BY <2>3, TablesFit DEF TypeInv, Settings
  <2>5. Settings' = Settings
    BY <2>3 DEF Settings
  <2> QED
    BY <2>3, <2>4, <2>5 DEF OthersStay, Grows
<1>2. CASE Return
  BY <1>2 DEF Return, OthersStay, Settings
<1>3. CASE Again
  BY <1>3 DEF Again, OthersStay, Settings
<1>4. CASE UNCHANGED vars
  BY <1>4 DEF vars, OthersStay, Settings
<1> QED
  BY <1>1, <1>2, <1>3, <1>4 DEF Next

(* At every moment, what no setting is for is as it was: the walk comes    *)
(* only to nodes of the table, and there is a setting at or below each.    *)
THEOREM OthersCorrect == Spec => []OthersStay
<1>1. Init => OthersStay
  BY DEF Init, OthersStay
<1> QED
  BY <1>1, OthersStep, TypeInvIsInv, PTL DEF Spec

-----------------------------------------------------------------------------
(* What the walk has yet to come to: some call has a node to come to that  *)
(* is x or above it.                                                       *)
AtOrBelow(x, p) == x = p \/ p \in Parents(x)

Waiting(calls, x) ==
  \E i \in DOMAIN calls : \E key \in calls[i].left : AtOrBelow(x, Append(calls[i].path, key))

(* A call for a table has every node below it to come to. *)
LEMMA CallWaiting ==
  ASSUME values \in Tables, NEW x \in DOMAIN values, NEW p, p = <<>> \/ p \in Parents(x)
  PROVE  \E key \in Call(values, p).left : AtOrBelow(x, Append(p, key))
<1>1. x \in Seq(Key) /\ x # <<>> /\ Len(x) \in Nat \ {0}
  BY TablePath DEF Path
<1>2. PICK n \in 0..(Len(x) - 1) : p = SubSeq(x, 1, n)
  <2>1. CASE p = <<>>
    <3>1. SubSeq(x, 1, 0) = <<>>
      BY SubSeqEmpty
    <3> QED
      BY <1>1, <2>1, <3>1
  <2>2. CASE p \in Parents(x)
    <3>1. PICK n \in 1..(Len(x) - 1) : p = SubSeq(x, 1, n)
      BY <1>1, <2>2, ParentsAre
    <3> QED
      BY <1>1, <3>1
  <2> QED
    BY <2>1, <2>2
<1> DEFINE q == SubSeq(x, 1, n + 1)
<1>3. p \in Seq(Key) /\ Len(p) = n /\ q \in Seq(Key) /\ Len(q) = n + 1
  BY <1>1, <1>2
<1>4. q = x \/ q \in Parents(x)
  <2>1. CASE n + 1 = Len(x)
    BY <1>1, <2>1
  <2>2. CASE n + 1 # Len(x)
    <3>1. Parents(x) = {SubSeq(x, 1, i) : i \in 1..(Len(x) - 1)}
      BY <1>1, ParentsAre
    <3>2. n + 1 \in 1..(Len(x) - 1)
      BY <1>1, <1>2, <2>2
    <3> QED
      BY <3>1, <3>2
  <2> QED
    BY <2>1, <2>2
<1>5. q \in DOMAIN values
  BY <1>4, TablePath
<1>6. IsPrefix(p, q)
  <2>1. SubSeq(p, 1, Len(p)) = p /\ SubSeq(q, 1, n) = SubSeq(x, 1, n)
    BY <1>1, <1>2, <1>3
  <2> HIDE DEF q
  <2> QED
    BY <1>2, <1>3, <2>1 DEF IsPrefix
<1> HIDE DEF q
<1>7. Last(q) \in Call(values, p).left /\ q = Append(p, Last(q))
  BY <1>3, <1>5, <1>6, CallAhead
<1> QED
  BY <1>4, <1>7 DEF AtOrBelow

LEMMA RootWaiting ==
  ASSUME values \in Tables, NEW x \in DOMAIN values
  PROVE  Waiting(<<Call(values, <<>>)>>, x)
<1> DEFINE c == Call(values, <<>>)
<1>1. c.path = <<>>
  BY DEF Call
<1>2. \E key \in c.left : AtOrBelow(x, Append(c.path, key))
  BY <1>1, CallWaiting
<1> HIDE DEF c
<1>3. 1 \in DOMAIN <<c>> /\ <<c>>[1] = c
  OBVIOUS
<1>4. Waiting(<<c>>, x)
  BY <1>2, <1>3 DEF Waiting
<1> QED
  BY <1>4 DEF c

(* A key that is passed over is the only one no longer waited for. *)
LEMMA PassWaiting ==
  ASSUME TypeInv, NEW key, NEW p, KeyAt(key, p), NEW x, Waiting(stack, x)
  PROVE  Waiting(Past(key), x) \/ AtOrBelow(x, p)
<1>1. PICK i \in DOMAIN stack : \E k \in stack[i].left : AtOrBelow(x, Append(stack[i].path, k))
  BY DEF Waiting
<1>2. PICK k \in stack[i].left : AtOrBelow(x, Append(stack[i].path, k))
  BY <1>1
<1>3. CASE i = Len(stack) /\ k = key
  BY <1>2, <1>3 DEF KeyAt, Innermost, Last
<1>4. CASE ~(i = Len(stack) /\ k = key)
  <2>1. k \in Past(key)[i].left /\ Past(key)[i].path = stack[i].path /\ i \in DOMAIN Past(key)
    BY <1>4, PastIs DEF TypeInv, KeyAt
  <2> QED
    BY <1>2, <2>1 DEF Waiting
<1> QED
  BY <1>3, <1>4

(* A key that is gone into leaves what is below it waited for. *)
LEMMA EnterWaiting ==
  ASSUME TypeInv, NEW key, NEW p, KeyAt(key, p), Enter(key, p),
         NEW x \in DOMAIN values, Waiting(Past(key), x) \/ p \in Parents(x)
  PROVE  Waiting(stack', x)
<1> DEFINE past == Past(key)
           c == Call(values, p)
<1>1. past \in StackType /\ DOMAIN past = 1..Len(past) /\ Len(past) \in Nat
  BY PastIs DEF TypeInv, KeyAt, StackType
<1>2. c.path = p /\ stack' = Append(past, c)
  BY DEF Call, Enter
<1>3. p \in Parents(x) => \E k \in c.left : AtOrBelow(x, Append(c.path, k))
  BY <1>2, CallWaiting DEF TypeInv
<1> HIDE DEF c, past
<1>4. /\ DOMAIN stack' = 1..(Len(past) + 1) /\ stack'[Len(past) + 1] = c
      /\ \A i \in DOMAIN past : i \in DOMAIN stack' /\ stack'[i] = past[i]
  BY <1>1, <1>2 DEF StackType
<1>5. CASE Waiting(past, x)
  BY <1>4, <1>5 DEF Waiting
<1>6. CASE p \in Parents(x)
  <2>1. Len(past) + 1 \in DOMAIN stack'
    BY <1>1, <1>4
  <2> QED
    BY <1>3, <1>4, <1>6, <2>1 DEF Waiting
<1> QED
  BY <1>5, <1>6 DEF past

(* A call that returns waits for nothing. *)
LEMMA ReturnWaiting ==
  ASSUME TypeInv, Return, NEW x, Waiting(stack, x)
  PROVE  Waiting(stack', x)
<1>1. PICK i \in DOMAIN stack : \E k \in stack[i].left : AtOrBelow(x, Append(stack[i].path, k))
  BY DEF Waiting
<1>2. i # Len(stack)
  BY <1>1 DEF Return, Innermost, Last
<1>3. i \in DOMAIN stack' /\ stack'[i] = stack[i]
  BY <1>2, ReturnIs
<1> QED
  BY <1>1, <1>3 DEF Waiting

-----------------------------------------------------------------------------
(* Every setting that is accepted is written.                              *)

(* In a map, a node that was there stays a table or stays none, and a node *)
(* that is new is as the table has it.                                     *)
MapNodes ==
  /\ DOMAIN start \subseteq DOMAIN spec
  /\ \A x \in DOMAIN spec : InMap(x) =>
       IF x \in DOMAIN start THEN start[x] = Table <=> spec[x] = Table
                            ELSE x \in DOMAIN values /\ spec[x] = values[x]

Written(s, x) ==
  x \in DOMAIN s /\ s[x] = IF InMap(x) THEN values[x] ELSE Converted(Kind[x], values[x])

AcceptedInv ==
  \A x \in Settings : Accepted(x) => Waiting(stack, x) \/ Written(spec, x)

LEMMA MapNodesKept ==
  ASSUME TypeInv, MapNodes, UNCHANGED <<start, values>>, NEW p, Grows(p),
         \A x \in DOMAIN spec' : InMap(x) => x \in DOMAIN spec /\ spec'[x] = spec[x]
  PROVE  MapNodes'
  BY DEF MapNodes, Grows

LEMMA OverwriteMapNodes ==
  ASSUME TypeInv, MapNodes, NEW key, NEW p, KeyAt(key, p), InMap(p), Overwrite(key, p)
  PROVE  MapNodes'
<1>1. /\ p \in DOMAIN values /\ Owned(spec, p) /\ values \in Tables /\ Tree(spec)
      /\ UNCHANGED <<start, values>>
  BY KeyAhead DEF KeyAt, TypeInv
<1>2. CASE p \notin DOMAIN spec /\ spec' = Put(spec, Part(values, p))
  <2> DEFINE t == Put(spec, Part(values, p))
  <2>1. /\ \A x \in DOMAIN spec : x \in DOMAIN t /\ t[x] = spec[x]
        /\ \A x \in DOMAIN t : x \in DOMAIN spec \/ (x \in DOMAIN values /\ t[x] = values[x])
    BY <1>1, <1>2, PutPartTree
  <2> HIDE DEF t
  <2>2. spec' = t
    BY <1>2 DEF t
  <2> QED
    BY <1>1, <2>1, <2>2 DEF MapNodes
<1>3. CASE /\ p \in DOMAIN spec /\ values[p] # Table /\ spec[p] # Table
           /\ spec' = PutNode(spec, p, values[p])
  <2>1. /\ DOMAIN spec' = DOMAIN spec /\ spec'[p] = values[p]
        /\ \A x \in DOMAIN spec \ {p} : spec'[x] = spec[x]
    BY <1>3 DEF PutNode
  <2> QED
    BY <1>1, <1>3, <2>1 DEF MapNodes
<1>4. CASE UNCHANGED spec
  BY <1>1, <1>4 DEF MapNodes
<1> QED
  BY <1>2, <1>3, <1>4 DEF Overwrite

LEMMA NextKeyMapNodes ==
  ASSUME TypeInv, MapNodes, NextKey
  PROVE  MapNodes'
<1>1. PICK key \in Innermost.left :
        LET p == Append(Innermost.path, key)
        IN \/ InMap(p) /\ Overwrite(key, p)
           \/ /\ ~InMap(p)
              /\ \/ Unknown(key, p) \/ SetStruct(key, p) \/ SetPointer(key, p)
                 \/ SetScalar(key, p) \/ SetValues(key, p)
  BY DEF NextKey
<1> DEFINE p == Append(Innermost.path, key)
<1>2. KeyAt(key, p) /\ UNCHANGED <<start, values>>
  BY DEF KeyAt, NextKey
<1> HIDE DEF p
<1>3. CASE InMap(p) /\ Overwrite(key, p)
  BY <1>2, <1>3, OverwriteMapNodes
<1>4. CASE UNCHANGED spec
  BY <1>2, <1>4 DEF MapNodes
<1>5. CASE ~InMap(p) /\ SetPointer(key, p)
  <2>1. p \in DOMAIN Kind /\ Kind[p] = "pointer" /\ p \in DOMAIN spec /\ Grows(p)
    BY <1>2, <1>5, KindAhead, SetPointerEffect DEF SetPointer, Effect
  <2>2. CASE spec[p] = Nil
    <3>1. spec' = Put(spec, NewStruct(p))
      BY <1>5, <2>2 DEF SetPointer
    <3>2. /\ \A x \in DOMAIN spec : x # p => spec'[x] = spec[x]
          /\ \A x \in DOMAIN spec' : x \in DOMAIN spec \/ x \in DOMAIN Kind
      BY <2>1, <2>2, <3>1, NewStructTree DEF TypeInv
    <3>3. \A x \in DOMAIN spec' : InMap(x) => x \in DOMAIN spec /\ spec'[x] = spec[x]
      BY <1>5, <3>2, KindOfPath
    <3> QED
      BY <1>2, <2>1, <3>3, MapNodesKept
  <2>3. CASE spec[p] # Nil
    BY <1>4, <1>5, <2>3 DEF SetPointer
  <2> QED
    BY <2>2, <2>3
<1>6. CASE ~InMap(p) /\ SetScalar(key, p)
  <2>1. p \in DOMAIN spec /\ Grows(p)
    BY <1>2, <1>6, KindAhead, SetScalarEffect DEF SetScalar, Effect
  <2>2. CASE UNCHANGED spec
    BY <1>4, <2>2
  <2>3. CASE spec' = PutNode(spec, p, Converted(Kind[p], values[p]))
    <3>1. DOMAIN spec' = DOMAIN spec /\ \A x \in DOMAIN spec : x # p => spec'[x] = spec[x]
      BY <2>1, <2>3 DEF PutNode
    <3>2. \A x \in DOMAIN spec' : InMap(x) => x \in DOMAIN spec /\ spec'[x] = spec[x]
      BY <1>6, <3>1
    <3> QED
      BY <1>2, <2>1, <3>2, MapNodesKept
  <2> QED
    BY <1>6, <2>2, <2>3 DEF SetScalar, Panic
<1>7. CASE Unknown(key, p) \/ SetStruct(key, p) \/ SetValues(key, p)
  BY <1>4, <1>7 DEF Unknown, SetStruct, SetValues, Panic
<1> QED
  BY <1>1, <1>3, <1>5, <1>6, <1>7 DEF p

(* What a key does for a setting at or below it. *)
Handled(key, p, x) ==
  Written(spec', x) \/ (p \in Parents(x) /\ Entered(key, p)) \/ Panicked

(* What is accepted above a setting can be gone into. *)
LEMMA SettingBelow ==
  ASSUME TypeInv, NEW x \in Settings, NEW p, AtOrBelow(x, p)
  PROVE  /\ x \in DOMAIN values /\ x \in Seq(Key) /\ values[x] \in {Text, Number}
         /\ p \in DOMAIN values
         /\ x = p \/ (p \in Parents(x) /\ values[p] = Table)
  BY TablePath DEF TypeInv, Settings, AtOrBelow

LEMMA FieldHandled ==
  ASSUME TypeInv, NEW key, NEW p, KeyAt(key, p), ~InMap(p),
         Unknown(key, p) \/ SetStruct(key, p) \/ SetPointer(key, p) \/ SetScalar(key, p) \/ SetValues(key, p),
         NEW x \in Settings, Accepted(x), AtOrBelow(x, p)
  PROVE  Handled(key, p, x)
<1>0. /\ x \in DOMAIN values /\ values[x] \in {Text, Number}
      /\ x = p \/ (p \in Parents(x) /\ values[p] = Table)
  BY SettingBelow
<1>1. p \in DOMAIN Kind
  BY <1>0 DEF Accepted
<1>2. CASE x = p
  <2>1. Kind[p] \in {"string", "int"}
    BY <1>2 DEF Accepted
  <2>2. SetScalar(key, p)
    BY <1>1, <2>1 DEF Unknown, SetStruct, SetPointer, SetValues
  <2>3. CASE Convertible(Kind[p], values[p])
    <3>1. spec' = PutNode(spec, p, Converted(Kind[p], values[p]))
      BY <2>2, <2>3 DEF SetScalar
    <3> QED
      BY <1>2, <3>1 DEF Handled, Written, PutNode
  <2>4. CASE ~Convertible(Kind[p], values[p])
    BY <2>2, <2>4 DEF SetScalar, Panic, Panicked, Handled
  <2> QED
    BY <2>3, <2>4
<1>3. CASE p \in Parents(x) /\ values[p] = Table
  <2>1. Kind[p] \in {"struct", "pointer", "values"}
    BY <1>3 DEF Accepted
  <2>2. SetStruct(key, p) \/ SetPointer(key, p) \/ SetValues(key, p)
    BY <1>1, <2>1 DEF Unknown, SetScalar
  <2>3. Entered(key, p) \/ Panicked
    BY <1>3, <2>2, SetStructEffect, SetPointerEffect, SetValuesEffect
  <2> QED
    BY <1>3, <2>3 DEF Handled
<1> QED
  BY <1>0, <1>2, <1>3

LEMMA MapHandled ==
  ASSUME TypeInv, MapNodes, NEW key, NEW p, KeyAt(key, p), InMap(p), Overwrite(key, p),
         NEW x \in Settings, Accepted(x), AtOrBelow(x, p)
  PROVE  Handled(key, p, x)
<1>0. /\ x \in DOMAIN values /\ x \in Seq(Key) /\ values[x] \in {Text, Number}
      /\ x = p \/ (p \in Parents(x) /\ values[p] = Table)
  BY SettingBelow
<1>1. /\ p \in DOMAIN values /\ Owned(spec, p) /\ values \in Tables /\ Tree(spec)
  BY KeyAhead DEF KeyAt, TypeInv
<1>2. InMap(x) /\ values[x] # Table
  <2>1. values[x] # Table
    BY DEF Settings
  <2> QED
    BY <1>0, <2>1, InMapBelow
\* A node that is there is a table if and only if the table's is.
<1>3. ASSUME p \in DOMAIN spec PROVE spec[p] = Table <=> values[p] = Table
  <2>1. p \in DOMAIN start => (start[p] = Table <=> values[p] = Table)
    <3>1. p \notin DOMAIN Kind
      BY KindOfPath
    <3>2. CASE x = p
      BY <1>2, <3>1, <3>2 DEF Accepted
    <3>3. CASE p \in Parents(x) /\ values[p] = Table
      BY <3>1, <3>3 DEF Accepted
    <3> QED
      BY <1>0, <3>2, <3>3
  <2> QED
    BY <1>3, <2>1 DEF MapNodes
<1>4. CASE p \notin DOMAIN spec /\ spec' = Put(spec, Part(values, p))
  <2> DEFINE t == Put(spec, Part(values, p))
  <2>1. \A y \in DOMAIN values : y = p \/ p \in Parents(y) => y \in DOMAIN t /\ t[y] = values[y]
    BY <1>1, <1>4, PutPartTree
  <2> HIDE DEF t
  <2>2. spec' = t
    BY <1>4 DEF t
  <2> QED
    BY <1>0, <1>2, <2>1, <2>2 DEF Handled, Written
<1>5. CASE /\ p \in DOMAIN spec /\ values[p] = Table /\ spec[p] = Table
           /\ Enter(key, p) /\ UNCHANGED <<spec, state>>
  BY <1>0, <1>2, <1>5 DEF Handled, Entered
<1>6. CASE /\ p \in DOMAIN spec /\ values[p] # Table
           /\ spec' = PutNode(spec, p, values[p])
  <2>1. x = p
    BY <1>0, <1>6
  <2> QED
    BY <1>2, <1>6, <2>1 DEF Handled, Written, PutNode
<1> QED
  BY <1>3, <1>4, <1>5, <1>6 DEF Overwrite

LEMMA NextKeyHandled ==
  ASSUME TypeInv, MapNodes, NextKey
  PROVE  \E key, p :
           /\ KeyAt(key, p) /\ Effect(key, p)
           /\ \A x \in Settings : Accepted(x) /\ AtOrBelow(x, p) => Handled(key, p, x)
<1>1. PICK key \in Innermost.left :
        LET p == Append(Innermost.path, key)
        IN \/ InMap(p) /\ Overwrite(key, p)
           \/ /\ ~InMap(p)
              /\ \/ Unknown(key, p) \/ SetStruct(key, p) \/ SetPointer(key, p)
                 \/ SetScalar(key, p) \/ SetValues(key, p)
  BY DEF NextKey
<1> DEFINE p == Append(Innermost.path, key)
<1>2. KeyAt(key, p)
  BY DEF KeyAt, NextKey
<1> HIDE DEF p
<1>3. Effect(key, p)
  BY <1>1, <1>2, UnknownEffect, SetStructEffect, SetPointerEffect, SetScalarEffect,
     SetValuesEffect, OverwriteEffect DEF p
<1>4. ASSUME NEW x \in Settings, Accepted(x), AtOrBelow(x, p) PROVE Handled(key, p, x)
  BY <1>1, <1>2, <1>4, FieldHandled, MapHandled DEF p
<1> QED
  BY <1>2, <1>3, <1>4

LEMMA KeyAcceptedStep ==
  ASSUME TypeInv, MapNodes, AcceptedInv, NextKey
  PROVE  AcceptedInv'
<1>1. PICK key, p :
        /\ KeyAt(key, p) /\ Effect(key, p)
        /\ \A x \in Settings : Accepted(x) /\ AtOrBelow(x, p) => Handled(key, p, x)
  BY NextKeyHandled
<1>2. UNCHANGED <<start, values>>
  BY <1>1 DEF KeyAt
<1>3. Settings' = Settings /\ \A x : Accepted(x)' <=> Accepted(x)
  BY <1>2 DEF Settings, Accepted
<1>4. ASSUME NEW x \in Settings, Accepted(x) PROVE Waiting(stack', x) \/ Written(spec', x)
  <2>0. x \in DOMAIN values /\ (Waiting(stack, x) \/ Written(spec, x))
    BY <1>4 DEF AcceptedInv, Settings
  <2>1. CASE Panicked
    BY <2>0, <2>1 DEF Panicked, Written
  <2>2. CASE ~Panicked /\ AtOrBelow(x, p)
    <3>1. Written(spec', x) \/ (p \in Parents(x) /\ Entered(key, p))
      BY <1>1, <1>4, <2>2 DEF Handled
    <3> QED
      BY <1>1, <2>0, <3>1, EnterWaiting DEF Entered
  <2>3. CASE ~Panicked /\ ~AtOrBelow(x, p)
    <3>1. CASE Written(spec, x)
      BY <1>1, <2>3, <3>1 DEF Effect, Grows, Written, AtOrBelow
    <3>2. CASE Waiting(stack, x)
      <4>1. Waiting(Past(key), x)
        BY <1>1, <2>3, <3>2, PassWaiting
      <4> QED
        BY <1>1, <2>0, <2>3, <4>1, EnterWaiting DEF Effect, Passed, Pass, Entered
    <3> QED
      BY <2>0, <3>1, <3>2
  <2> QED
    BY <2>1, <2>2, <2>3
<1> QED
  BY <1>2, <1>3, <1>4 DEF AcceptedInv, Written

LEMMA AcceptedInit == Init => MapNodes /\ AcceptedInv
<1> SUFFICES ASSUME Init PROVE MapNodes /\ AcceptedInv
  OBVIOUS
<1>1. MapNodes
  BY DEF Init, MapNodes
<1>2. values \in Tables /\ stack = <<Call(values, <<>>)>>
  BY DEF Init
<1>3. AcceptedInv
  BY <1>2, RootWaiting DEF AcceptedInv, Settings
<1> QED
  BY <1>1, <1>3

LEMMA AcceptedStep ==
  TypeInv /\ MapNodes /\ AcceptedInv /\ [Next]_vars => MapNodes' /\ AcceptedInv'
<1> SUFFICES ASSUME TypeInv, MapNodes, AcceptedInv, [Next]_vars PROVE MapNodes' /\ AcceptedInv'
  OBVIOUS
<1>1. CASE NextKey
  BY <1>1, NextKeyMapNodes, KeyAcceptedStep
<1>2. CASE Return
  <2>1. UNCHANGED <<start, spec, values>>
    BY <1>2 DEF Return
  <2>2. \A x : Waiting(stack, x) => Waiting(stack', x)
    BY <1>2, ReturnWaiting
  <2> QED
    BY <2>1, <2>2 DEF MapNodes, AcceptedInv, Settings, Accepted, Written
<1>3. CASE Again
  <2>1. start' = spec /\ UNCHANGED <<spec, values>> /\ stack' = <<Call(values, <<>>)>>
    BY <1>3 DEF Again
  <2>2. \A x \in DOMAIN values : Waiting(stack', x)
    BY <2>1, RootWaiting DEF TypeInv
  <2> QED
    BY <2>1, <2>2 DEF MapNodes, AcceptedInv, Settings
<1>4. CASE UNCHANGED vars
  BY <1>4 DEF vars, MapNodes, AcceptedInv, Settings, Accepted, Written
<1> QED
  BY <1>1, <1>2, <1>3, <1>4 DEF Next

(* When the walk is over every setting it accepts is in the spec, for any  *)
(* types, spec and table, and any order of the keys: no call forgets one.  *)
THEOREM SettingsCorrect == Spec => []AcceptedAreWritten
<1>1. TypeInv /\ AcceptedInv => AcceptedAreWritten
  <2> SUFFICES ASSUME TypeInv, AcceptedInv, state = "done", NEW x \in Settings, Accepted(x)
               PROVE  Written(spec, x)
    BY DEF AcceptedAreWritten, Written
  <2>1. stack = <<>>
    BY DEF TypeInv
  <2>2. ~Waiting(stack, x)
    BY <2>1 DEF Waiting
  <2> QED
    BY <2>2 DEF AcceptedInv
<1> QED
  BY <1>1, AcceptedInit, AcceptedStep, TypeInvIsInv, PTL DEF Spec

-----------------------------------------------------------------------------
(* The same command once more writes nothing.                              *)

(* What the walk leaves of a node when it has passed it. *)
Settled(s, x) ==
  /\ ~InMap(x) /\ x \in DOMAIN Kind =>
       /\ (Kind[x] = "pointer" => s[x] = Table)
       /\ Kind[x] \in {"string", "int", "labels"} =>
            Convertible(Kind[x], values[x]) /\ s[x] = Converted(Kind[x], values[x])
  /\ InMap(x) => x \in DOMAIN s /\ (values[x] # Table /\ s[x] # Table => s[x] = values[x])

(* Every node that the walk can reach is settled or waited for; the second *)
(* time all of them are settled from the start.                            *)
OnceInv ==
  /\ state # "panic" =>
       \A x \in DOMAIN values : Owned(spec, x) => Waiting(stack, x) \/ Settled(spec, x)
  /\ again => /\ spec = start
              /\ \A x \in DOMAIN values : Owned(spec, x) => Settled(spec, x)

(* What a key does for a node at or below it. *)
Reached(key, p, x) ==
  \/ Owned(spec', x) => Settled(spec', x)
  \/ p \in Parents(x) /\ Entered(key, p)
  \/ Panicked

LEMMA NodeBelow ==
  ASSUME TypeInv, NEW x \in DOMAIN values, NEW p, AtOrBelow(x, p)
  PROVE  /\ x \in Seq(Key) /\ values[x] \in {Text, Number, Table}
         /\ x = p \/ (p \in Parents(x) /\ values[p] = Table)
  BY TablePath DEF TypeInv, AtOrBelow

LEMMA FieldReached ==
  ASSUME TypeInv, NEW key, NEW p, KeyAt(key, p), ~InMap(p),
         Unknown(key, p) \/ SetStruct(key, p) \/ SetPointer(key, p) \/ SetScalar(key, p) \/ SetValues(key, p),
         NEW x \in DOMAIN values, AtOrBelow(x, p)
  PROVE  Reached(key, p, x)
<1>0. /\ values[x] \in {Text, Number, Table}
      /\ x = p \/ (p \in Parents(x) /\ values[p] = Table)
  BY NodeBelow
<1>1. CASE SetStruct(key, p) \/ SetPointer(key, p) \/ SetValues(key, p)
  <2>1. CASE x = p
    BY <1>1, <2>1, SetPointerEffect DEF SetStruct, SetPointer, SetValues, Reached, Settled
  <2>2. CASE p \in Parents(x) /\ values[p] = Table
    BY <1>1, <2>2, SetStructEffect, SetPointerEffect, SetValuesEffect DEF Reached
  <2> QED
    BY <1>0, <2>1, <2>2
<1>2. CASE Unknown(key, p)
  <2>1. p \notin DOMAIN Kind /\ UNCHANGED spec
    BY <1>2 DEF Unknown
  <2>2. p \notin DOMAIN spec
    BY <2>1 DEF TypeInv, Tree, WellTyped
  <2> QED
    BY <1>0, <2>1, <2>2 DEF Reached, Settled, Owned
<1>3. CASE SetScalar(key, p)
  <2>1. p \in DOMAIN Kind /\ Kind[p] \in {"string", "int", "labels"} /\ Kind[p] \in Kinds
    BY <1>3 DEF SetScalar, Kinds
  <2>2. CASE ~Convertible(Kind[p], values[p])
    BY <1>3, <2>2 DEF SetScalar, Panic, Panicked, Reached
  <2>3. CASE Convertible(Kind[p], values[p])
    <3>1. spec' = PutNode(spec, p, Converted(Kind[p], values[p]))
      BY <1>3, <2>3 DEF SetScalar
    <3>2. values[p] \in {Text, Number, Table}
      BY KeyAhead, TablePath DEF KeyAt, TypeInv
    <3>3. p \in DOMAIN spec' /\ spec'[p] = Converted(Kind[p], values[p]) /\ spec'[p] # Table
      BY <2>1, <2>3, <3>1, <3>2, ConvertedFits DEF PutNode
    <3> QED
      BY <1>0, <2>1, <2>3, <3>3 DEF Reached, Settled, Owned
  <2> QED
    BY <2>2, <2>3
<1> QED
  BY <1>1, <1>2, <1>3

LEMMA MapReached ==
  ASSUME TypeInv, NEW key, NEW p, KeyAt(key, p), InMap(p), Overwrite(key, p),
         NEW x \in DOMAIN values, AtOrBelow(x, p)
  PROVE  Reached(key, p, x)
<1>0. /\ x \in Seq(Key) /\ values[x] \in {Text, Number, Table}
      /\ x = p \/ (p \in Parents(x) /\ values[p] = Table)
  BY NodeBelow
<1>1. p \in DOMAIN values /\ Owned(spec, p) /\ values \in Tables /\ Tree(spec)
  BY KeyAhead DEF KeyAt, TypeInv
<1>2. InMap(x)
  BY <1>0, InMapBelow
<1>3. CASE p \notin DOMAIN spec /\ spec' = Put(spec, Part(values, p))
  <2> DEFINE t == Put(spec, Part(values, p))
  <2>1. \A y \in DOMAIN values : y = p \/ p \in Parents(y) => y \in DOMAIN t /\ t[y] = values[y]
    BY <1>1, <1>3, PutPartTree
  <2> HIDE DEF t
  <2>2. spec' = t
    BY <1>3 DEF t
  <2> QED
    BY <1>0, <1>2, <2>1, <2>2 DEF Reached, Settled
<1>4. CASE /\ p \in DOMAIN spec /\ values[p] = Table /\ spec[p] = Table
           /\ Enter(key, p) /\ UNCHANGED <<spec, state>>
  BY <1>0, <1>2, <1>4 DEF Reached, Entered, Settled
<1>5. CASE /\ p \in DOMAIN spec /\ values[p] # Table /\ spec' = PutNode(spec, p, values[p])
  BY <1>0, <1>2, <1>5 DEF Reached, Settled, PutNode
<1>6. CASE p \in DOMAIN spec /\ (values[p] = Table) # (spec[p] = Table) /\ UNCHANGED spec
  BY <1>0, <1>2, <1>6 DEF Reached, Settled, Owned
<1> QED
  BY <1>3, <1>4, <1>5, <1>6 DEF Overwrite

(* A key that is settled writes nothing. *)
LEMMA SettledKey ==
  ASSUME TypeInv, NEW key, NEW p, KeyAt(key, p), Settled(spec, p),
         \/ InMap(p) /\ Overwrite(key, p)
         \/ /\ ~InMap(p)
            /\ \/ Unknown(key, p) \/ SetStruct(key, p) \/ SetPointer(key, p)
               \/ SetScalar(key, p) \/ SetValues(key, p)
  PROVE  UNCHANGED spec
<1>0. /\ Table # Nil /\ spec = [x \in DOMAIN spec |-> spec[x]]
      /\ p \in DOMAIN spec => PutNode(spec, p, spec[p]) = spec
  <2>1. Table # Nil /\ spec = [x \in DOMAIN spec |-> spec[x]]
    BY NodesDiffer DEF TypeInv, Tree
  <2>2. ASSUME p \in DOMAIN spec PROVE PutNode(spec, p, spec[p]) = spec
    <3>1. DOMAIN spec \cup {p} = DOMAIN spec
      BY <2>2
    <3>2. PutNode(spec, p, spec[p]) = [x \in DOMAIN spec |-> spec[x]]
      BY <3>1 DEF PutNode
    <3> QED
      BY <2>1, <3>2
  <2> QED
    BY <2>1, <2>2
<1>1. CASE InMap(p) /\ Overwrite(key, p)
  BY <1>0, <1>1 DEF Overwrite, Settled
<1>2. CASE ~InMap(p) /\ SetPointer(key, p)
  BY <1>0, <1>2 DEF SetPointer, Settled
<1>3. CASE ~InMap(p) /\ SetScalar(key, p)
  <2>1. p \in DOMAIN spec
    BY <1>3, KindAhead DEF SetScalar
  <2> QED
    BY <1>0, <1>3, <2>1 DEF SetScalar, Settled
<1>4. CASE ~InMap(p) /\ (Unknown(key, p) \/ SetStruct(key, p) \/ SetValues(key, p))
  <2>1. CASE SetValues(key, p)
    BY <2>1 DEF SetValues, Panic
  <2> QED
    BY <1>4, <2>1 DEF Unknown, SetStruct
<1> QED
  BY <1>1, <1>2, <1>3, <1>4

LEMMA NextKeyReached ==
  ASSUME TypeInv, NextKey
  PROVE  \E key, p :
           /\ KeyAt(key, p) /\ Effect(key, p)
           /\ \A x \in DOMAIN values : AtOrBelow(x, p) => Reached(key, p, x)
           /\ Settled(spec, p) => UNCHANGED spec
<1>1. PICK key \in Innermost.left :
        LET p == Append(Innermost.path, key)
        IN \/ InMap(p) /\ Overwrite(key, p)
           \/ /\ ~InMap(p)
              /\ \/ Unknown(key, p) \/ SetStruct(key, p) \/ SetPointer(key, p)
                 \/ SetScalar(key, p) \/ SetValues(key, p)
  BY DEF NextKey
<1> DEFINE p == Append(Innermost.path, key)
<1>2. KeyAt(key, p)
  BY DEF KeyAt, NextKey
<1> HIDE DEF p
<1>3. Effect(key, p)
  BY <1>1, <1>2, UnknownEffect, SetStructEffect, SetPointerEffect, SetScalarEffect,
     SetValuesEffect, OverwriteEffect DEF p
<1>4. ASSUME NEW x \in DOMAIN values, AtOrBelow(x, p) PROVE Reached(key, p, x)
  BY <1>1, <1>2, <1>4, FieldReached, MapReached DEF p
<1>5. Settled(spec, p) => UNCHANGED spec
  BY <1>1, <1>2, SettledKey DEF p
<1> QED
  BY <1>2, <1>3, <1>4, <1>5

(* What a key gives an owner is at or below it. *)
LEMMA NewlyOwned ==
  ASSUME NEW p, Grows(p), NEW x \in Seq(Key), Owned(spec', x), ~Owned(spec, x)
  PROVE  p \in Parents(x)
<1>1. PICK m \in Parents(x) : ~(m \in DOMAIN spec /\ spec[m] = Table)
  BY DEF Owned
<1>2. m = p \/ p \in Parents(m)
  BY <1>1 DEF Owned, Grows
<1> QED
  BY <1>1, <1>2, ParentsOfParents

LEMMA KeyOnceStep ==
  ASSUME TypeInv, OnceInv, NextKey
  PROVE  OnceInv'
<1>1. PICK key, p :
        /\ KeyAt(key, p) /\ Effect(key, p)
        /\ \A x \in DOMAIN values : AtOrBelow(x, p) => Reached(key, p, x)
        /\ Settled(spec, p) => UNCHANGED spec
  BY NextKeyReached
<1>2. UNCHANGED <<start, values, again>> /\ state = "run" /\ p \in DOMAIN values /\ Owned(spec, p)
  BY <1>1, KeyAhead DEF KeyAt
<1>3. ASSUME state' # "panic", NEW x \in DOMAIN values, Owned(spec', x)
      PROVE  Waiting(stack', x) \/ Settled(spec', x)
  <2>1. Grows(p) /\ x \in Seq(Key) /\ (Passed(key) \/ Entered(key, p)) /\ ~Panicked
    BY <1>1, <1>3, TablePath DEF Effect, Panicked, TypeInv
  <2>2. CASE AtOrBelow(x, p)
    <3>1. Settled(spec', x) \/ (p \in Parents(x) /\ Entered(key, p))
      BY <1>1, <1>3, <2>1, <2>2 DEF Reached
    <3> QED
      BY <1>1, <3>1, EnterWaiting DEF Entered
  <2>3. CASE ~AtOrBelow(x, p)
    <3>1. Owned(spec, x)
      BY <1>3, <2>1, <2>3, NewlyOwned DEF AtOrBelow
    <3>2. CASE Waiting(stack, x)
      <4>1. Waiting(Past(key), x)
        BY <1>1, <2>3, <3>2, PassWaiting
      <4> QED
        BY <1>1, <2>1, <4>1, EnterWaiting DEF Passed, Pass, Entered
    <3>3. CASE Settled(spec, x)
      <4>1. x \in DOMAIN Kind \/ InMap(x) => x \in DOMAIN spec
        BY <3>1, <3>3 DEF TypeInv, Tree, WellTyped, Settled
      <4>2. x \in DOMAIN spec => x \in DOMAIN spec' /\ spec'[x] = spec[x]
        BY <2>1, <2>3 DEF Grows, AtOrBelow
      <4> QED
        BY <3>3, <4>1, <4>2 DEF Settled
    <3> QED
      BY <1>2, <3>1, <3>2, <3>3 DEF OnceInv
  <2> QED
    BY <2>2, <2>3
<1>4. ASSUME again PROVE UNCHANGED spec
  BY <1>1, <1>2, <1>4 DEF OnceInv
<1> QED
  BY <1>2, <1>3, <1>4 DEF OnceInv, Settled

LEMMA OnceInit == Init => OnceInv
  BY RootWaiting DEF Init, OnceInv

LEMMA OnceStep == TypeInv /\ OnceInv /\ [Next]_vars => OnceInv'
<1> SUFFICES ASSUME TypeInv, OnceInv, [Next]_vars PROVE OnceInv'
  OBVIOUS
<1>1. CASE NextKey
  BY <1>1, KeyOnceStep
<1>2. CASE Return
  <2>1. UNCHANGED <<start, spec, values, again>> /\ state = "run"
    BY <1>2 DEF Return
  <2>2. \A x : Waiting(stack, x) => Waiting(stack', x)
    BY <1>2, ReturnWaiting
  <2> QED
    BY <2>1, <2>2 DEF OnceInv, Settled
<1>3. CASE Again
  <2>1. /\ start' = spec /\ UNCHANGED <<spec, values>> /\ stack' = <<Call(values, <<>>)>>
        /\ state = "done"
    BY <1>3 DEF Again
  <2>2. \A x \in DOMAIN values : Waiting(stack', x)
    BY <2>1, RootWaiting DEF TypeInv
  <2>3. \A x : ~Waiting(stack, x)
    BY <2>1 DEF TypeInv, Waiting
  <2>4. \A x \in DOMAIN values : Owned(spec, x) => Settled(spec, x)
    BY <2>1, <2>3 DEF OnceInv
  <2> QED
    BY <2>1, <2>2, <2>4 DEF OnceInv, Settled
<1>4. CASE UNCHANGED vars
  BY <1>4 DEF vars, OnceInv, Settled
<1> QED
  BY <1>1, <1>2, <1>3, <1>4 DEF Next

(* The same --set, run on what it has written, writes the same spec again. *)
THEOREM OnceCorrect == Spec => []OnceIsEnough
<1>1. OnceInv => OnceIsEnough
  BY DEF OnceInv, OnceIsEnough
<1> QED
  BY <1>1, OnceInit, OnceStep, TypeInvIsInv, PTL DEF Spec

=============================================================================
