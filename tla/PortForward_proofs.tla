-------------------------- MODULE PortForward_proofs --------------------------
(***************************************************************************)
(* Proofs about PortForward, for any services, pods, command lines and     *)
(* numbers of pods.  The first part is about the look-ups, without any     *)
(* state; the second shows that the ports which are forwarded are those    *)
(* that were looked up, and checked, in the pod that was read.             *)
(***************************************************************************)
EXTENDS PortForward, WellFoundedInduction, TLAPS

-----------------------------------------------------------------------------
(* Look-ups.                                                               *)

LEMMA MinIsMember ==
  ASSUME NEW I \in SUBSET Nat, I # {}
  PROVE  Min(I) \in I
<1>1. PICK x \in I : \A y \in I : ~ (<<y, x>> \in OpToRel(<, Nat))
  BY NatLessThanWellFounded, WFMin, Zenon
<1>2. \A y \in I : x <= y
  <2> SUFFICES ASSUME NEW y \in I PROVE ~ (y < x)
    OBVIOUS
  <2>1. ~ (<<y, x>> \in OpToRel(<, Nat))
    BY <1>1
  <2>2. y \in Nat /\ x \in Nat
    OBVIOUS
  <2> QED
    BY <2>1, <2>2 DEF OpToRel
<1> QED
  BY <1>2 DEF Min

(* The number of a name is that of a port with this name.                  *)
LEMMA NumberOfFinds ==
  ASSUME NEW S, NEW ps \in Seq(S), NEW name
  PROVE  \/ \E p \in Range(ps) : p.name = name /\ NumberOf(ps, name) = p.port
         \/ NumberOf(ps, name) = NoPort /\ \A p \in Range(ps) : p.name # name
<1> DEFINE I == {i \in 1..Len(ps) : ps[i].name = name}
<1>1. NumberOf(ps, name) =
        LET i == IF I # {} THEN Min(I) ELSE 0 IN IF i = 0 THEN NoPort ELSE ps[i].port
  BY DEF NumberOf, SelectInSeq
<1>2. Range(ps) = {ps[i] : i \in 1..Len(ps)}
  BY DEF Range
<1>3. CASE I = {}
  BY <1>1, <1>2, <1>3
<1>4. CASE I # {}
  <2>1. Min(I) \in I
    BY <1>4, MinIsMember
  <2> DEFINE i == Min(I)
  <2>2. i \in 1..Len(ps) /\ ps[i].name = name
    BY <2>1
  <2>3. NumberOf(ps, name) = ps[i].port
    BY <1>1, <1>4, <2>2
  <2> HIDE DEF i
  <2> QED
    BY <1>2, <2>2, <2>3
<1> QED
  BY <1>3, <1>4

(* The target of a number is that of a port of the service with it.        *)
LEMMA TargetOfFinds ==
  ASSUME NEW svc, svc.ports \in Seq(ServicePort), svc.headless \in BOOLEAN,
         NEW thePod, NEW number \in Nat
  PROVE  \/ \E q \in Range(svc.ports) :
              /\ q.port = number % Int32
              /\ TargetOf(svc, thePod, number) =
                   IF svc.headless THEN q.port
                   ELSE IF q.target \in Names THEN NumberOf(thePod.ports, q.target) ELSE q.target
         \/ /\ TargetOf(svc, thePod, number) = NoPort
            /\ \A q \in Range(svc.ports) : q.port # number % Int32
<1> DEFINE ps == svc.ports
           n  == number % Int32
           I  == {i \in 1..Len(ps) : ps[i].port = n}
<1>1. TargetOf(svc, thePod, number) =
        LET i == IF I # {} THEN Min(I) ELSE 0 IN
        CASE i = 0 -> NoPort
          [] i # 0 /\ svc.headless -> n
          [] i # 0 /\ ~svc.headless ->
               LET t == ps[i].target IN IF t \in Names THEN NumberOf(thePod.ports, t) ELSE t
  BY DEF TargetOf, SelectInSeq
<1>2. Range(ps) = {ps[i] : i \in 1..Len(ps)}
  BY DEF Range
<1>3. CASE I = {}
  <2>1. TargetOf(svc, thePod, number) = NoPort
    BY <1>1, <1>3
  <2> QED
    BY <1>2, <1>3, <2>1
<1>4. CASE I # {}
  <2>1. Min(I) \in I
    <3>1. I \in SUBSET Nat
      OBVIOUS
    <3> HIDE DEF I
    <3> QED
      BY <1>4, <3>1, MinIsMember
  <2> DEFINE i == Min(I)
  <2>2. i \in 1..Len(ps) /\ ps[i].port = n /\ i # 0
    BY <2>1
  <2>3. TargetOf(svc, thePod, number) =
          CASE svc.headless -> n
            [] ~svc.headless ->
                 LET t == ps[i].target IN IF t \in Names THEN NumberOf(thePod.ports, t) ELSE t
    BY <1>1, <1>4, <2>2
  <2> HIDE DEF i
  <2>4. ps[i] \in Range(ps)
    BY <1>2, <2>2
  <2>5. CASE svc.headless
    <3>1. TargetOf(svc, thePod, number) = ps[i].port
      BY <2>2, <2>3, <2>5
    <3> QED
      BY <2>2, <2>4, <2>5, <3>1
  <2>6. CASE ~svc.headless
    <3>1. TargetOf(svc, thePod, number) =
            IF ps[i].target \in Names THEN NumberOf(thePod.ports, ps[i].target) ELSE ps[i].target
      BY <2>3, <2>6
    <3> QED
      BY <2>2, <2>4, <2>6, <3>1
  <2> QED
    BY <2>5, <2>6
<1> QED
  BY <1>3, <1>4

(* What the constants are, where it is used.                               *)
LEMMA ObjectType ==
  ASSUME object \in Objects
  PROVE  /\ object.kind \in {"service", "pod"} /\ object.headless \in BOOLEAN
         /\ object.ports \in Seq(ServicePort)
  BY ConstantsFit

LEMMA ServicePortType ==
  ASSUME NEW ps \in Seq(ServicePort), NEW p \in Range(ps)
  PROVE  /\ p.name \in Names /\ p.port \in 1..MaxPort
         /\ p.protocol \in Protocol /\ p.target \in Token
<1>1. p \in ServicePort
  BY DEF Range
<1> QED
  BY <1>1 DEF ServicePort

LEMMA ContainerPortType ==
  ASSUME NEW ps \in Seq(ContainerPort), NEW p \in Range(ps)
  PROVE  p.name \in Names /\ p.port \in 1..MaxPort /\ p.protocol \in Protocol
<1>1. p \in ContainerPort
  BY DEF Range
<1> QED
  BY <1>1 DEF ContainerPort

(* The two sides of an argument.                                           *)
LEMMA SplitType ==
  ASSUME args \in CommandLines, NEW i \in DOMAIN args
  PROVE  /\ args[i] \in Seq(Token) /\ Len(args[i]) \in Nat \ {0}
         /\ splitPort(args[i]).local \in Token /\ splitPort(args[i]).remote \in Token
<1>1. args[i] \in Seq(Token) \ {<<>>}
  <2>1. args \in Seq(Seq(Token) \ {<<>>})
    BY ConstantsFit
  <2> QED
    BY <2>1
<1>2. args[i] \in Seq(Token) /\ Len(args[i]) \in Nat \ {0}
  BY <1>1
<1>3. args[i][1] \in Token /\ (Len(args[i]) = 2 => args[i][2] \in Token)
  BY <1>2
<1> QED
  BY <1>2, <1>3 DEF splitPort

Known(ps) == ps \in Seq(ServicePort) \/ ps \in Seq(ContainerPort)

LEMMA KnownPort ==
  ASSUME NEW ps, Known(ps), NEW p \in Range(ps)
  PROVE  p.name \in Names /\ p.port \in 1..MaxPort /\ p.protocol \in Protocol
  BY ServicePortType, ContainerPortType DEF Known

(* The number of what is typed is the number, or that of a port with this  *)
(* name, or there is none.                                                 *)
LEMMA NumberFinds ==
  ASSUME NEW ps, Known(ps), NEW arg, splitPort(arg).remote \in Token
  PROVE  LET t == splitPort(arg).remote
             n == Number(ps, arg)
         IN \/ t \notin Names /\ t \in Nat /\ n = t
            \/ t \in Names /\ \E p \in Range(ps) : p.name = t /\ n = p.port
            \/ t \in Names /\ n = NoPort /\ \A p \in Range(ps) : p.name # t
<1> DEFINE t == splitPort(arg).remote
<1>1. CASE t \notin Names
  BY <1>1 DEF Number, Token
<1>2. CASE t \in Names
  <2>1. Number(ps, arg) = NumberOf(ps, t)
    BY <1>2 DEF Number
  <2>2. \/ \E p \in Range(ps) : p.name = t /\ NumberOf(ps, t) = p.port
        \/ NumberOf(ps, t) = NoPort /\ \A p \in Range(ps) : p.name # t
    BY NumberOfFinds DEF Known
  <2> QED
    BY <1>2, <2>1, <2>2
<1> QED
  BY <1>1, <1>2

LEMMA NumberType ==
  ASSUME NEW ps, Known(ps), NEW arg, splitPort(arg).remote \in Token
  PROVE  Number(ps, arg) \in Nat \cup {NoPort}
  BY NumberFinds, KnownPort, ConstantsFit DEF NoPort

(* A number that is in range is not changed by narrowing it.               *)
LEMMA NarrowKeeps ==
  ASSUME NEW n \in 0..MaxPort
  PROVE  n % Int32 = n
  BY ConstantsFit

(* What a port that is resolved comes from.                                *)
LEMMA ResolvedParts ==
  ASSUME NEW thePod, NEW arg
  PROVE  LET s == splitPort(arg)
             n == Number(Declared(thePod), arg)
             r == Resolved(thePod, arg)
         IN /\ r.local = IF s.local = s.remote THEN n ELSE s.local
            /\ object.kind = "service" /\ n # NoPort => r.remote = TargetOf(object, thePod, n)
            /\ object.kind = "service" /\ n = NoPort => r.remote = NoPort
            /\ object.kind # "service" => r.remote = n
  BY DEF Resolved, Translated, Converted, Declared

LEMMA DeclaredKnown ==
  ASSUME object \in Objects, NEW thePod, thePod.ports \in PodPorts
  PROVE  Known(Declared(thePod)) /\ thePod.ports \in Seq(ContainerPort)
  BY ObjectType, ConstantsFit DEF Known, Declared

LEMMA TargetType ==
  ASSUME object \in Objects, NEW thePod, thePod.ports \in PodPorts, NEW n \in Nat,
         TargetOf(object, thePod, n) # NoPort
  PROVE  TargetOf(object, thePod, n) \in Nat
<1>1. PICK q \in Range(object.ports) :
        TargetOf(object, thePod, n) =
          IF object.headless THEN q.port
          ELSE IF q.target \in Names THEN NumberOf(thePod.ports, q.target) ELSE q.target
  BY ObjectType, TargetOfFinds
<1>2. q.port \in Nat /\ q.target \in Token
  BY ObjectType, ServicePortType, ConstantsFit
<1>3. \/ NumberOf(thePod.ports, q.target) = NoPort
      \/ NumberOf(thePod.ports, q.target) \in Nat
  <2>1. thePod.ports \in Seq(ContainerPort)
    BY DeclaredKnown
  <2>2. \A c \in Range(thePod.ports) : c.port \in Nat
    BY <2>1, ContainerPortType, ConstantsFit
  <2> QED
    BY <2>1, <2>2, NumberOfFinds
<1> QED
  BY <1>1, <1>2, <1>3 DEF Token

LEMMA ResolvedType ==
  ASSUME object \in Objects, args \in CommandLines, NEW i \in DOMAIN args,
         NEW thePod, thePod.ports \in PodPorts,
         Resolved(thePod, args[i]).remote # NoPort
  PROVE  Resolved(thePod, args[i]).local \in Token /\ Resolved(thePod, args[i]).remote \in Nat
<1> DEFINE arg == args[i]
           n   == Number(Declared(thePod), arg)
<1>1. splitPort(arg).local \in Token /\ splitPort(arg).remote \in Token
  BY SplitType
<1>2. n \in Nat \cup {NoPort}
  BY <1>1, DeclaredKnown, NumberType
<1>3. n \in Nat
  BY <1>2, ObjectType, ResolvedParts DEF NoPort
<1>4. Resolved(thePod, arg).local \in Token
  BY <1>1, <1>3, ResolvedParts DEF Token
<1>5. Resolved(thePod, arg).remote \in Nat
  BY <1>3, TargetType, ResolvedParts DEF NoPort
<1> QED
  BY <1>4, <1>5

-----------------------------------------------------------------------------
(* Types.                                                                  *)

(* Which incarnations of the pod are read and connected to, and in what    *)
(* order; nothing is listened on before.                                   *)
InOrder ==
  /\ pc \notin {"forward", "done"} => up = {}
  /\ read.id <= pod.id
  /\ pc \in {"listen", "forward"} => read.id <= conn.id /\ conn.id <= pod.id

TypeInv == TypeOK /\ InOrder

LEMMA TypeInit == Init => TypeInv
<1> SUFFICES ASSUME Init PROVE TypeInv
  OBVIOUS
<1>1. pod \in Pods
  BY ConstantsFit DEF Init, Pods
<1>2. pod.id \in Nat
  BY DEF Init
<1> QED
  BY <1>1, <1>2 DEF Init, TypeInv, TypeOK, InOrder, Range

LEMMA TypeStep == TypeInv /\ [Next]_vars => TypeInv'
<1> SUFFICES ASSUME TypeInv, [Next]_vars PROVE TypeInv'
  OBVIOUS
<1> USE DEF TypeInv, TypeOK, InOrder
<1>0. pod.id \in Nat /\ read.id \in Nat /\ conn.id \in Nat /\ pod.ports \in PodPorts
  BY DEF Pods
<1>1. CASE Complete
  <2> DEFINE resolved == [i \in DOMAIN args |-> Resolved(pod, args[i])]
  <2>0. pc = "complete" /\ up = {}
    BY <1>1 DEF Complete
  <2>1. CASE UNCHANGED ports /\ read' \in {read, pod} /\ \E how \in {"failed", "refused"} : Ends(how)
    BY <1>0, <2>0, <2>1 DEF Ends
  <2>2. CASE /\ read' = pod /\ Ends("run") /\ ports' = resolved
             /\ \A i \in DOMAIN args : resolved[i].remote # NoPort
    <3>1. \A p \in Range(resolved) : p.local \in Token /\ p.remote \in Nat
      BY <1>0, <2>2, ResolvedType DEF Range
    <3> HIDE DEF resolved
    <3> QED
      BY <1>0, <2>0, <2>2, <3>1 DEF Ends
  <2> QED
    BY <1>1, <2>1, <2>2 DEF Complete
<1>2. CASE Run
  BY <1>0, <1>2 DEF Run, Ends
<1>3. CASE Handle
  BY <1>0, <1>3 DEF Handle
<1>4. CASE Dial
  BY <1>0, <1>4 DEF Dial, Ends
<1>5. CASE Listen
  <2>1. CASE Ends("failed") /\ UNCHANGED <<read, ports>>
    BY <1>0, <1>5, <2>1 DEF Listen, Ends
  <2>2. CASE pc' = "forward" /\ UNCHANGED <<object, args, pod, conn, signals, handler, closes, read, ports>>
    <3>1. up' \subseteq DOMAIN ports /\ up' # {} /\ read.id <= conn.id /\ conn.id <= pod.id
      BY <1>5, <2>2 DEF Listen, Ends
    <3> QED
      BY <1>0, <2>2, <3>1
  <2> QED
    BY <1>5, <2>1, <2>2 DEF Listen
<1>6. CASE Stop \/ Lose
  BY <1>0, <1>6 DEF Stop, Lose, Ends
<1>7. CASE Interrupt
  BY <1>0, <1>7 DEF Interrupt
<1>8. CASE PodChanges
  <2>1. pod' \in Pods /\ pod'.id \in {pod.id, pod.id + 1}
    <3>1. CASE \E ph \in {"Running", "Pending", "gone"} : pod' = [pod EXCEPT !.phase = ph]
      BY <1>0, <3>1 DEF Pods
    <3>2. CASE /\ pod.id < MaxPods
               /\ pod' \in [id : {pod.id + 1}, phase : {"Pending", "Running"}, ports : PodPorts]
      <4>1. pod.id + 1 \in 1..MaxPods
        BY <1>0, <3>2, ConstantsFit
      <4> QED
        BY <3>2, <4>1 DEF Pods
    <3> QED
      BY <1>8, <3>1, <3>2 DEF PodChanges
  <2> QED
    BY <1>0, <1>8, <2>1 DEF PodChanges
<1>9. CASE UNCHANGED vars
  BY <1>0, <1>9 DEF vars
<1> QED
  BY <1>1, <1>2, <1>3, <1>4, <1>5, <1>6, <1>7, <1>8, <1>9 DEF Next

(* Every variable keeps its type; what is forwarded has at least one local *)
(* port, and the pod is connected to no earlier than it was read.          *)
THEOREM TypeCorrect == Spec => []TypeOK
<1>1. TypeInv => TypeOK
  BY DEF TypeInv
<1> QED
  BY <1>1, TypeInit, TypeStep, PTL DEF Spec

-----------------------------------------------------------------------------
(* The channel.  Its closing is the last thing the handler does, and it    *)
(* starts once.                                                            *)
StopInv ==
  /\ closes = IF handler = "over" THEN 1 ELSE 0
  /\ pc \in {"complete", "run"} => handler = "off"

(* The stop channel is closed once, however many interrupts arrive, before *)
(* or after the ports are forwarded (portforward.go:384-389).              *)
THEOREM StopCorrect == Spec => []StopIsClosedOnce
<1>1. Init => StopInv
  BY DEF Init, StopInv
<1>2. StopInv /\ [Next]_vars => StopInv'
  <2> SUFFICES ASSUME StopInv, [Next]_vars PROVE StopInv'
    OBVIOUS
  <2> USE DEF StopInv
  <2>1. CASE Complete
    BY <2>1 DEF Complete, Ends
  <2>2. CASE Run
    BY <2>2 DEF Run, Ends
  <2>3. CASE Handle
    BY <2>3 DEF Handle
  <2>4. CASE Dial \/ Listen
    BY <2>4 DEF Dial, Listen, Ends
  <2>5. CASE Stop \/ Lose
    BY <2>5 DEF Stop, Lose, Ends
  <2>6. CASE Interrupt \/ PodChanges
    BY <2>6 DEF Interrupt, PodChanges
  <2>7. CASE UNCHANGED vars
    BY <2>7 DEF vars
  <2> QED
    BY <2>1, <2>2, <2>3, <2>4, <2>5, <2>6, <2>7 DEF Next
<1>3. StopInv => StopIsClosedOnce
  BY DEF StopInv, StopIsClosedOnce
<1> QED
  BY <1>1, <1>2, <1>3, PTL DEF Spec

-----------------------------------------------------------------------------
(* What was resolved and checked.                                          *)

Rejected(arg) == Refused(read, arg) \/ Resolved(read, arg).remote = NoPort

(* Once Complete has returned, the ports are those of the pod it has read, *)
(* and none was rejected.                                                  *)
ResolvedInv ==
  /\ pc \in {"run", "dial", "listen", "forward"} =>
       /\ ports = [i \in DOMAIN args |-> Resolved(read, args[i])]
       /\ \A i \in DOMAIN args : ~Rejected(args[i])
  /\ pc = "refused" /\ args # <<>> => \E i \in DOMAIN args : Rejected(args[i])

LEMMA ResolvedInit == Init => ResolvedInv
  BY DEF Init, ResolvedInv

LEMMA ResolvedStep == ResolvedInv /\ [Next]_vars => ResolvedInv'
<1> SUFFICES ASSUME ResolvedInv, [Next]_vars PROVE ResolvedInv'
  OBVIOUS
<1> USE DEF ResolvedInv, Rejected, Refused, Resolved, Declared
<1>1. CASE Complete
  <2>0. UNCHANGED <<object, args>>
    BY <1>1 DEF Complete, Ends
  <2>1. CASE Ends("failed") /\ UNCHANGED <<read, ports>>
    BY <2>1 DEF Ends
  <2>2. CASE /\ read' = pod /\ Ends("refused")
             /\ args = <<>> \/ \E i \in DOMAIN args : \/ Refused(pod, args[i])
                                                      \/ Resolved(pod, args[i]).remote = NoPort
    BY <2>0, <2>2 DEF Ends
  <2>3. CASE /\ read' = pod /\ Ends("run")
             /\ ports' = [i \in DOMAIN args |-> Resolved(pod, args[i])]
             /\ \A i \in DOMAIN args : ~Refused(pod, args[i]) /\ Resolved(pod, args[i]).remote # NoPort
    BY <2>0, <2>3 DEF Ends
  <2> QED
    BY <1>1, <2>1, <2>2, <2>3 DEF Complete
<1>2. CASE Run
  BY <1>2 DEF Run, Ends
<1>3. CASE Handle
  BY <1>3 DEF Handle
<1>4. CASE Dial
  BY <1>4 DEF Dial, Ends
<1>5. CASE Listen
  BY <1>5 DEF Listen, Ends
<1>6. CASE Stop \/ Lose
  BY <1>6 DEF Stop, Lose, Ends
<1>7. CASE Interrupt
  BY <1>7 DEF Interrupt
<1>8. CASE PodChanges
  BY <1>8 DEF PodChanges
<1>9. CASE UNCHANGED vars
  BY <1>9 DEF vars
<1> QED
  BY <1>1, <1>2, <1>3, <1>4, <1>5, <1>6, <1>7, <1>8, <1>9 DEF Next

(* An invariant that follows from the two.                                 *)
LEMMA ResolvedHolds == Spec => [](TypeInv /\ ResolvedInv)
  BY TypeInit, TypeStep, ResolvedInit, ResolvedStep, PTL DEF Spec

-----------------------------------------------------------------------------
(* What is forwarded.                                                      *)

(* The number a port that is not rejected denotes, with the port of the    *)
(* service or pod it comes from.                                           *)
LEMMA AcceptedNumber ==
  ASSUME TypeOK, NEW i \in DOMAIN args, ~Rejected(args[i])
  PROVE  LET t == splitPort(args[i]).remote
             n == Number(Declared(read), args[i])
         IN /\ n \in Nat /\ n \notin UDPOnly(Declared(read))
            /\ \/ t \notin Names /\ n = t
               \/ t \in Names /\ \E p \in Range(Declared(read)) : p.name = t /\ p.port = n
<1>1. read.ports \in PodPorts /\ object \in Objects /\ args \in CommandLines
  BY DEF TypeOK, Pods
<1>2. Known(Declared(read)) /\ splitPort(args[i]).remote \in Token
  BY <1>1, DeclaredKnown, SplitType
<1>3. Number(Declared(read), args[i]) \in Nat \cup {NoPort}
  BY <1>2, NumberType
<1> QED
  BY <1>2, <1>3, NumberFinds DEF Rejected, Refused

(* A number with a port of the service, in what else the service has.      *)
LEMMA AcceptedTarget ==
  ASSUME TypeOK, object.kind = "service", NEW i \in DOMAIN args, ~Rejected(args[i])
  PROVE  LET n == Number(object.ports, args[i])
             r == Resolved(read, args[i]).remote
         IN \E q \in Range(object.ports) :
              q.port = n % Int32 /\ r \in TargetsOf(object, q, read)
<1> DEFINE n == Number(object.ports, args[i])
           r == Resolved(read, args[i]).remote
<1>1. read.ports \in PodPorts /\ object \in Objects
  BY DEF TypeOK, Pods
<1>2. Declared(read) = object.ports /\ n \in Nat
  BY AcceptedNumber DEF Declared
<1>3. r # NoPort /\ r = TargetOf(object, read, n)
  BY <1>2, ResolvedParts DEF Rejected, NoPort
<1>4. PICK q \in Range(object.ports) :
        /\ q.port = n % Int32
        /\ r = IF object.headless THEN q.port
               ELSE IF q.target \in Names THEN NumberOf(read.ports, q.target) ELSE q.target
  BY <1>1, <1>2, <1>3, ObjectType, TargetOfFinds
<1>5. CASE object.headless
  BY <1>4, <1>5 DEF TargetsOf
<1>6. CASE ~object.headless /\ q.target \in Names
  <2>1. r = NumberOf(read.ports, q.target)
    BY <1>4, <1>6
  <2>2. \E c \in Range(read.ports) : c.name = q.target /\ r = c.port
    BY <1>1, <1>3, <2>1, DeclaredKnown, NumberOfFinds
  <2>3. TargetsOf(object, q, read) = {c.port : c \in {d \in Range(read.ports) : d.name = q.target}}
    BY <1>6 DEF TargetsOf
  <2> QED
    BY <1>4, <2>2, <2>3
<1>7. CASE ~object.headless /\ q.target \notin Names
  BY <1>4, <1>7 DEF TargetsOf
<1> QED
  BY <1>1, <1>5, <1>6, <1>7, ObjectType

LEMMA OnUDPOnlyIsUDPOnly ==
  ASSUME NEW ps, NEW n
  PROVE  OnUDPOnly(ps, n) <=> n \in UDPOnly(ps)
BY DEF OnUDPOnly, UDPOnly, NumbersOf

(* No port is forwarded to what the pod that was read, or the service,     *)
(* declares for UDP and not for TCP, under the number or under a name      *)
(* (portforward.go:206-271); of a pod that has taken the name since, and   *)
(* of a number of more than 32 bits, nothing is said.                      *)
THEOREM UDPCorrect == Spec => []NeverToUDP
<1>1. TypeInv /\ ResolvedInv => NeverToUDP
  <2> SUFFICES ASSUME TypeInv, ResolvedInv, pc = "forward", NEW i \in up
               PROVE  LET t == splitPort(args[i]).remote IN
                      IF object.kind = "pod" THEN ports[i].remote \notin UDPOnly(read.ports)
                      ELSE t \in Names \cup (0..MaxPort) =>
                             \E q \in Range(object.ports) :
                               t \in {q.port, q.name} /\ q.port \notin UDPOnly(object.ports)
    BY OnUDPOnlyIsUDPOnly DEF NeverToUDP
  <2> DEFINE t == splitPort(args[i]).remote
             n == Number(Declared(read), args[i])
  <2>1. /\ TypeOK /\ i \in DOMAIN args /\ ~Rejected(args[i])
        /\ ports[i] = Resolved(read, args[i])
    BY DEF TypeInv, TypeOK, ResolvedInv
  <2>2. /\ n \in Nat /\ n \notin UDPOnly(Declared(read))
        /\ \/ t \notin Names /\ n = t
           \/ t \in Names /\ \E p \in Range(Declared(read)) : p.name = t /\ p.port = n
    BY <2>1, AcceptedNumber
  <2>3. CASE object.kind = "pod"
    BY <2>1, <2>2, <2>3, ResolvedParts DEF Declared
  <2>4. CASE object.kind # "pod" /\ t \in Names \cup (0..MaxPort)
    <3>1. object.kind = "service" /\ object.ports \in Seq(ServicePort) /\ Declared(read) = object.ports
      BY <2>1, <2>4, ObjectType DEF TypeOK, Declared
    <3>2. \E q \in Range(object.ports) : q.port = n /\ t \in {q.port, q.name}
      <4>1. CASE t \in Names
        BY <2>2, <3>1, <4>1
      <4>2. CASE t \notin Names
        <5>1. n \in 0..MaxPort /\ n % Int32 = n /\ n = t
          BY <2>2, <2>4, <4>2, NarrowKeeps
        <5> QED
          BY <2>1, <3>1, <5>1, AcceptedTarget
      <4> QED
        BY <4>1, <4>2
    <3> QED
      BY <2>2, <2>4, <3>1, <3>2
  <2> QED
    BY <2>3, <2>4
<1> QED
  BY <1>1, ResolvedHolds, PTL

(* A command line is refused only if it has no port, an unknown one, one   *)
(* of UDP and not TCP, or one whose target the pod does not have           *)
(* (portforward.go:274-331).                                               *)
THEOREM RefusalCorrect == Spec => []RefusedForAReason
<1>1. TypeInv /\ ResolvedInv => RefusedForAReason
  <2> SUFFICES ASSUME TypeInv, ResolvedInv, pc = "refused", args # <<>>
               PROVE  RefusedForAReason
    BY DEF RefusedForAReason
  <2>1. PICK i \in DOMAIN args : Rejected(args[i])
    BY DEF ResolvedInv
  <2> DEFINE arg  == args[i]
             t    == splitPort(arg).remote
             ps   == Declared(read)
             n    == Number(ps, arg)
             mine == {p \in Range(ps) : t \in {p.port, p.name}}
  <2> SUFFICES
        \/ mine = {} /\ (object.kind = "service" \/ t \in Names)
        \/ \E p \in mine : OnUDPOnly(ps, p.port)
        \/ object.kind = "service" /\ \E p \in mine : \E q \in Range(object.ports) :
             q.port = p.port /\ TargetsOf(object, q, read) = {}
    BY DEF RefusedForAReason
  <2>2. read.ports \in PodPorts /\ object \in Objects /\ args \in CommandLines
    BY DEF TypeInv, TypeOK, Pods
  <2>3. Known(ps) /\ t \in Token /\ read.ports \in Seq(ContainerPort)
    BY <2>2, DeclaredKnown, SplitType
  <2>4. \A p \in Range(ps) : p.name \in Names /\ p.port \in 1..MaxPort /\ p.protocol \in Protocol
    BY <2>3, KnownPort
  <2>5. \/ t \notin Names /\ t \in Nat /\ n = t
        \/ t \in Names /\ \E p \in Range(ps) : p.name = t /\ n = p.port
        \/ t \in Names /\ n = NoPort /\ \A p \in Range(ps) : p.name # t
    BY <2>3, NumberFinds
  <2>6. CASE n = NoPort
    <3>1. t \in Names /\ \A p \in Range(ps) : p.name # t
      BY <2>4, <2>5, <2>6, ConstantsFit DEF NoPort
    <3>2. \A p \in Range(ps) : p.port # t
      BY <2>4, <3>1, ConstantsFit
    <3> QED
      BY <3>1, <3>2
  <2>7. CASE n # NoPort /\ n \in UDPOnly(ps)
    <3>1. OnUDPOnly(ps, n)
      BY <2>7, OnUDPOnlyIsUDPOnly
    <3>2. \E p \in mine : p.port = n
      BY <2>5, <2>7 DEF UDPOnly, NumbersOf
    <3> QED
      BY <3>1, <3>2
  <2>8. CASE n # NoPort /\ n \notin UDPOnly(ps)
    <3>1. Resolved(read, arg).remote = NoPort
      BY <2>1, <2>8 DEF Rejected, Refused
    <3>2. object.kind = "service" /\ TargetOf(object, read, n) = NoPort
      BY <2>8, <3>1, ResolvedParts
    <3>3. ps = object.ports /\ object.ports \in Seq(ServicePort) /\ object.headless \in BOOLEAN
      BY <2>2, <3>2, ObjectType DEF Declared
    <3>4. n \in Nat
      BY <2>4, <2>5, <2>8, ConstantsFit
    <3>5. CASE mine = {}
      BY <3>2, <3>5
    <3>6. CASE mine # {}
      <4>1. PICK p \in mine : p.port = n
        BY <2>4, <2>5, <2>8, <3>6
      <4>2. n % Int32 = n
        BY <2>4, <4>1, NarrowKeeps, ConstantsFit
      <4>3. PICK q \in Range(object.ports) :
              /\ q.port = n
              /\ TargetOf(object, read, n) =
                   IF object.headless THEN q.port
                   ELSE IF q.target \in Names THEN NumberOf(read.ports, q.target) ELSE q.target
        BY <3>3, <3>4, <4>1, <4>2, TargetOfFinds
      <4>4. ~object.headless /\ q.target \in Names /\ NumberOf(read.ports, q.target) = NoPort
        <5>1. q.port \in Nat /\ q.target \in Token
          BY <3>3, ServicePortType, ConstantsFit
        <5> QED
          BY <3>2, <4>3, <5>1 DEF NoPort, Token
      <4>5. \A c \in Range(read.ports) : c.name # q.target
        <5>1. \A c \in Range(read.ports) : c.port # NoPort
          BY <2>3, ContainerPortType DEF NoPort
        <5> QED
          BY <2>3, <4>4, <5>1, NumberOfFinds
      <4>6. TargetsOf(object, q, read) = {}
        BY <4>4, <4>5 DEF TargetsOf
      <4> QED
        BY <3>2, <4>1, <4>3, <4>6
    <3> QED
      BY <3>5, <3>6
  <2> QED
    BY <2>6, <2>7, <2>8
<1> QED
  BY <1>1, ResolvedHolds, PTL

(* The local port of what is well-formed is the one that was typed, or the *)
(* number of what was asked for.                                           *)
LEMMA LocalAsTyped ==
  ASSUME TypeOK, NEW i \in DOMAIN args, WellFormed(args[i]), ~Rejected(args[i])
  PROVE  LET t == splitPort(args[i]).remote
             n == Number(Declared(read), args[i])
         IN /\ t = Last(args[i])
            /\ Resolved(read, args[i]).local = Local(args[i], n)
<1> DEFINE arg == args[i]
           s   == splitPort(arg)
           n   == Number(Declared(read), arg)
<1> USE DEF Last
<1>1. Len(arg) \in {1, 2}
  <2>1. Len(arg) \in Nat \ {0} /\ args \in CommandLines
    BY SplitType DEF TypeOK
  <2>2. Len(arg) <= 2
    BY DEF WellFormed
  <2>3. \A m \in Nat \ {0} : m <= 2 => m \in {1, 2}
    OBVIOUS
  <2> QED
    BY <2>1, <2>2, <2>3
<1>2. arg[1] \in Token /\ arg[Len(arg)] \in Token
  <2>1. arg \in Seq(Token)
    BY SplitType DEF TypeOK
  <2> QED
    BY <1>1, <2>1
<1>3. Resolved(read, arg).local = IF s.local = s.remote THEN n ELSE s.local
  BY ResolvedParts
<1>4. CASE Len(arg) = 1
  <2>1. s = [local |-> arg[1], remote |-> arg[1]] /\ s.remote = arg[1]
    BY <1>4 DEF splitPort
  <2>2. arg[1] \in Names \/ n = arg[1]
    BY <2>1, AcceptedNumber
  <2> QED
    BY <1>3, <1>4, <2>1, <2>2 DEF Local
<1>5. CASE Len(arg) = 2
  <2>1. s = [local |-> arg[1], remote |-> arg[2]]
    BY <1>5 DEF splitPort
  <2>2. Local(arg, n) = arg[1]
    BY <1>5 DEF Local
  <2>3. arg[1] = arg[2] => n = arg[1]
    <3>1. arg[1] \notin Names \ {Empty} /\ arg[2] # Empty
      BY <1>5 DEF WellFormed
    <3> QED
      BY <2>1, <3>1, AcceptedNumber
  <2> QED
    BY <1>2, <1>3, <1>5, <2>1, <2>2, <2>3
<1> QED
  BY <1>1, <1>4, <1>5

(* Ports are forwarded by their number (portforward.go:143-204): one of a  *)
(* service, typed by number or name, to the target in the pod that was     *)
(* read of a port with this number, and one of a pod to itself or to the   *)
(* port of that name.                                                      *)
THEOREM ForwardCorrect == Spec => []ForwardsByNumber
<1>1. TypeInv /\ ResolvedInv => ForwardsByNumber
  <2> SUFFICES ASSUME TypeInv, ResolvedInv, pc = "forward",
                      NEW i \in up, WellFormed(args[i])
               PROVE  IF object.kind = "service"
                      THEN \E p, q \in Range(object.ports) :
                             /\ Asks(args[i], p) /\ q.port = p.port
                             /\ ports[i].local = Local(args[i], p.port)
                             /\ ports[i].remote \in TargetsOf(object, q, read)
                      ELSE /\ \/ ports[i].remote = Last(args[i])
                              \/ \E c \in Range(read.ports) :
                                   c.name = Last(args[i]) /\ ports[i].remote = c.port
                           /\ ports[i].local = Local(args[i], ports[i].remote)
    BY DEF ForwardsByNumber
  <2> DEFINE arg == args[i]
             t   == splitPort(arg).remote
             n   == Number(Declared(read), arg)
  <2>1. /\ TypeOK /\ i \in DOMAIN args /\ ~Rejected(arg)
        /\ ports[i] = Resolved(read, arg)
    BY DEF TypeInv, TypeOK, ResolvedInv
  <2>2. t = Last(arg) /\ ports[i].local = Local(arg, n)
    BY <2>1, LocalAsTyped
  <2>3. \/ t \notin Names /\ n = t
        \/ t \in Names /\ \E p \in Range(Declared(read)) : p.name = t /\ p.port = n
    BY <2>1, AcceptedNumber
  <2>4. CASE object.kind # "service"
    <3>1. Declared(read) = read.ports /\ ports[i].remote = n
      BY <2>1, <2>4, ResolvedParts DEF Declared
    <3> QED
      BY <2>2, <2>3, <2>4, <3>1
  <2>5. CASE object.kind = "service"
    <3>1. Declared(read) = object.ports /\ object.ports \in Seq(ServicePort)
      BY <2>1, <2>5, ObjectType DEF Declared, TypeOK
    <3>2. PICK q \in Range(object.ports) :
            q.port = n % Int32 /\ ports[i].remote \in TargetsOf(object, q, read)
      BY <2>1, <2>5, <3>1, AcceptedTarget
    <3>3. PICK p \in Range(object.ports) :
            /\ Asks(arg, p) /\ p.port = q.port
            /\ Local(arg, n) = Local(arg, p.port)
      <4>1. CASE t \in Names
        <5>1. PICK p \in Range(object.ports) : p.name = t /\ p.port = n
          BY <2>3, <3>1, <4>1
        <5>2. n % Int32 = n
          BY <3>1, <5>1, ServicePortType, NarrowKeeps, ConstantsFit
        <5> QED
          BY <2>2, <3>2, <5>1, <5>2 DEF Asks
      <4>2. CASE t \notin Names
        <5>1. Len(arg) = 1 => arg[1] \notin Names
          BY <2>2, <4>2 DEF Last
        <5> QED
          BY <2>2, <2>3, <3>2, <4>2, <5>1 DEF Asks, Local
      <4> QED
        BY <4>1, <4>2
    <3> QED
      BY <2>2, <2>5, <3>2, <3>3
  <2> QED
    BY <2>4, <2>5
<1> QED
  BY <1>1, ResolvedHolds, PTL

=============================================================================
