------------------------------ MODULE PortForward ------------------------------
(***************************************************************************)
(* milvusctl port-forward TYPE/NAME [LOCAL:]REMOTE ...: the ports typed    *)
(* are resolved against a service or a pod, the pod is read again, and its *)
(* ports are forwarded until an interrupt or a lost connection.  Between   *)
(* the two reads and the connection the pod may go and come back, under    *)
(* the same name, with other ports.  One invocation; the process is its    *)
(* main goroutine and the one that waits for the interrupt.                *)
(*                                                                         *)
(* A port is typed as a number or as a name; the names have the empty      *)
(* string among them, which is what stands before or after a lone colon.   *)
(***************************************************************************)
EXTENDS Integers, Sequences, SequencesExt

CONSTANTS
  Names,         \* port names, the empty string included
  Empty,         \* the empty string
  MaxPort,       \* 65535
  Int32,         \* 2^32: numbers are narrowed to 32 bits on a look-up
  Objects,       \* what TYPE/NAME may denote
  PodPorts,      \* the container ports the pod may have
  CommandLines,  \* the ports that are typed, each split at its colons
  MaxPods        \* bound: incarnations of the pod

Protocol == {"TCP", "UDP", "SCTP"}
Token    == Names \cup Nat
NoPort   == -1

ServicePort   == [name : Names, port : 1..MaxPort, protocol : Protocol, target : Token]
ContainerPort == [name : Names, port : 1..MaxPort, protocol : Protocol]

ASSUME ConstantsFit ==
  /\ MaxPort \in Nat /\ Int32 \in Nat /\ MaxPort < Int32 /\ MaxPods \in Nat \ {0}
  /\ Empty \in Names /\ \A n \in 0..MaxPort : n \notin Names
  /\ Objects \subseteq
       [kind : {"service", "pod"}, ports : Seq(ServicePort), headless : BOOLEAN]
  /\ PodPorts \subseteq Seq(ContainerPort)
  /\ CommandLines \subseteq Seq(Seq(Token) \ {<<>>})

VARIABLES
  object,   \* what TYPE/NAME denotes
  args,     \* the ports that were typed
  pod,      \* the pod under the name that was found
  pc,       \* what the main goroutine does next
  read,     \* the pod as Complete has read it
  ports,    \* o.Ports
  up,       \* the indices of ports that are listened on
  conn,     \* the pod that is connected to
  signals,  \* the buffered channel of interrupts, of capacity 1
  handler,  \* the goroutine that waits for one
  closes    \* how often o.StopChannel was closed

vars == <<object, args, pod, pc, read, ports, up, conn, signals, handler, closes>>

Pods == [id : 1..MaxPods, phase : {"Running", "Pending", "gone"}, ports : PodPorts]

TypeOK ==
  /\ object \in Objects /\ args \in CommandLines /\ {pod, read, conn} \subseteq Pods
  /\ pc \in {"complete", "run", "dial", "listen", "forward", "done", "failed", "refused", "killed"}
  /\ \A p \in Range(ports) : p.local \in Token /\ p.remote \in Nat
  /\ up \subseteq DOMAIN ports
  /\ signals \in 0..1 /\ closes \in Nat /\ handler \in {"off", "waiting", "over"}
  /\ pc = "forward" => up # {} /\ read.id <= conn.id /\ conn.id <= pod.id

Init ==
  /\ object \in Objects /\ args \in CommandLines
  /\ pod \in [id : {1}, phase : {"Running"}, ports : PodPorts]
  /\ read = pod /\ conn = pod
  /\ pc = "complete" /\ ports = <<>> /\ up = {}
  /\ signals = 0 /\ handler = "off" /\ closes = 0

-----------------------------------------------------------------------------
(* Look-ups of kubectl: the first port that matches, or NoPort.            *)
NumberOf(ps, name) ==
  LET i == SelectInSeq(ps, LAMBDA p : p.name = name) IN IF i = 0 THEN NoPort ELSE ps[i].port

TargetOf(svc, thePod, number) ==
  LET n == number % Int32
      i == SelectInSeq(svc.ports, LAMBDA p : p.port = n)
  IN CASE i = 0 -> NoPort
       [] i # 0 /\ svc.headless -> n
       [] i # 0 /\ ~svc.headless ->
            LET t == svc.ports[i].target IN IF t \in Names THEN NumberOf(thePod.ports, t) ELSE t

(* [LOCAL:]REMOTE; of anything with more colons only the first part is     *)
(* looked at, twice.                                                       *)
splitPort(arg) ==
  IF Len(arg) = 2 THEN [local |-> arg[1], remote |-> arg[2]]
                  ELSE [local |-> arg[1], remote |-> arg[1]]

Number(ps, arg) ==
  LET remote == splitPort(arg).remote IN IF remote \in Names THEN NumberOf(ps, remote) ELSE remote

(* Mutant: the port of the service is taken for that of the container. *)
TranslatedNot(svc, thePod, arg) ==
  LET s == splitPort(arg)
      n == Number(svc.ports, arg)
  IN [local |-> IF s.local = s.remote THEN n ELSE s.local, remote |-> n]

(* translateServicePortToTargetPort, of one port.  A name alone becomes    *)
(* the service's number on this side and the target on the other.          *)
Translated(svc, thePod, arg) ==
  LET s == splitPort(arg)
      n == Number(svc.ports, arg)
  IN [local  |-> IF s.local = s.remote THEN n ELSE s.local,
      remote |-> IF n = NoPort THEN NoPort ELSE TargetOf(svc, thePod, n)]

(* convertPodNamedPortToNumber, of one port. *)
Converted(thePod, arg) ==
  LET s == splitPort(arg)
      n == Number(thePod.ports, arg)
  IN [local |-> IF s.local = s.remote THEN n ELSE s.local, remote |-> n]

Resolved(thePod, arg) ==
  IF object.kind = "service" THEN Translated(object, thePod, arg) ELSE Converted(thePod, arg)

NumbersOf(ps, protocol) == {p.port : p \in {q \in Range(ps) : q.protocol = protocol}}

(* Mutant: numbers that TCP has as well are refused, too. *)
UDPOnlyNot(ps) == NumbersOf(ps, "UDP")

UDPOnly(ps) == NumbersOf(ps, "UDP") \ NumbersOf(ps, "TCP")

Declared(thePod) == IF object.kind = "service" THEN object.ports ELSE thePod.ports

(* Mutant: the check does not look names up. *)
RefusedNumbersOnly(thePod, arg) ==
  splitPort(arg).remote \in UDPOnly(Declared(thePod))

(* checkUDPPorts, of one port. *)
Refused(thePod, arg) ==
  LET n == Number(Declared(thePod), arg) IN n = NoPort \/ n \in UDPOnly(Declared(thePod))

-----------------------------------------------------------------------------
Ends(how) ==
  /\ pc' = how
  /\ UNCHANGED <<object, args, pod, conn, up, signals, handler, closes>>

(* Complete, and Validate, which finds nothing to object to after it.  The *)
(* object or its pod may not be had, whatever the reason.                  *)
Complete ==
  /\ pc = "complete"
  /\ \/ Ends("failed") /\ UNCHANGED <<read, ports>>
     \/ /\ pod.phase # "gone" \/ args = <<>>
        /\ read' = pod
        /\ LET resolved == [i \in DOMAIN args |-> Resolved(pod, args[i])] IN
           IF \/ args = <<>>
              \/ \E i \in DOMAIN args : Refused(pod, args[i]) \/ resolved[i].remote = NoPort
           THEN Ends("refused") /\ UNCHANGED ports
           ELSE Ends("run") /\ ports' = resolved

(* RunPortForward: the pod of that name is read again and has to run; from *)
(* here on interrupts are caught.                                          *)
Run ==
  /\ pc = "run"
  /\ \/ Ends("failed")
     \/ /\ pod.phase = "Running"
        /\ pc' = "dial" /\ handler' = "waiting"
        /\ UNCHANGED <<object, args, pod, up, conn, signals, closes>>
  /\ UNCHANGED <<read, ports>>

(* Mutant: every interrupt closes the channel. *)
HandleAll ==
  /\ handler = "waiting" /\ signals = 1
  /\ signals' = 0 /\ closes' = closes + 1
  /\ UNCHANGED <<object, args, pod, pc, read, ports, up, conn, handler>>

(* Mutant: an interrupt before the ports are ready is swallowed. *)
HandleWhenReady ==
  /\ handler = "waiting" /\ signals = 1
  /\ signals' = 0
  /\ IF pc = "forward" THEN handler' = "over" /\ closes' = closes + 1
                       ELSE UNCHANGED <<handler, closes>>
  /\ UNCHANGED <<object, args, pod, pc, read, ports, up, conn>>

(* The goroutine takes one interrupt, closes the channel and is over.      *)
Handle ==
  /\ handler = "waiting" /\ signals = 1
  /\ signals' = 0 /\ handler' = "over" /\ closes' = closes + 1
  /\ UNCHANGED <<object, args, pod, pc, read, ports, up, conn>>

(* client-go: a local port is a number up to 65535, or empty for any that  *)
(* is free; a remote one may not be 0.                                     *)
Parses(p) == p.local \in (0..MaxPort) \cup {Empty} /\ p.remote \in 1..MaxPort

Free(ps, indices) ==
  \A i, j \in indices : ps[i].local = ps[j].local => i = j \/ ps[i].local \in {0, Empty}

(* ForwardPorts: the ports are parsed and the pod of that name, whichever  *)
(* it is by now, is connected to.  The stop channel is not looked at.      *)
Dial ==
  /\ pc = "dial"
  /\ \/ Ends("failed")
     \/ /\ pod.phase = "Running" /\ \A p \in Range(ports) : Parses(p)
        /\ pc' = "listen" /\ conn' = pod
        /\ UNCHANGED <<object, args, pod, up, signals, handler, closes>>
  /\ UNCHANGED <<read, ports>>

(* Mutant: a port that cannot be listened on is no error, if it is the last. *)
ListenNone ==
  /\ pc = "listen"
  /\ \E some \in SUBSET DOMAIN ports :
       /\ Free(ports, some)
       /\ pc' = "forward" /\ up' = some
       /\ UNCHANGED <<object, args, pod, conn, signals, handler, closes, read, ports>>

(* One local port that can be listened on is enough. *)
Listen ==
  /\ pc = "listen"
  /\ \/ Ends("failed")
     \/ \E some \in (SUBSET DOMAIN ports) \ {{}} :
          /\ Free(ports, some)
          /\ pc' = "forward" /\ up' = some
          /\ UNCHANGED <<object, args, pod, conn, signals, handler, closes>>
  /\ UNCHANGED <<read, ports>>

(* The select of client-go: stopped, or the connection is lost.  Neither   *)
(* is an error.                                                            *)
Stop == pc = "forward" /\ closes > 0 /\ Ends("done") /\ UNCHANGED <<read, ports>>
Lose == pc = "forward" /\ Ends("done") /\ UNCHANGED <<read, ports>>

(* The user interrupts: before Notify that is the end of the process, then *)
(* one interrupt is kept and those that follow it are dropped.             *)
Interrupt ==
  /\ \/ /\ pc \in {"complete", "run"}
        /\ pc' = "killed" /\ UNCHANGED signals
     \/ /\ pc \in {"dial", "listen", "forward"}
        /\ signals' = 1 /\ UNCHANGED pc
  /\ UNCHANGED <<object, args, pod, read, ports, up, conn, handler, closes>>

(* The pod fails or goes, and another one takes its name; of no interest   *)
(* once the command has ended.                                             *)
PodChanges ==
  /\ pc \in {"complete", "run", "dial", "listen", "forward"}
  /\ \/ pod.phase # "gone" /\ \E ph \in {"Running", "Pending", "gone"} : pod' = [pod EXCEPT !.phase = ph]
     \/ /\ pod.phase = "gone" /\ pod.id < MaxPods
        /\ pod' \in [id : {pod.id + 1}, phase : {"Pending", "Running"}, ports : PodPorts]
  /\ UNCHANGED <<object, args, pc, read, ports, up, conn, signals, handler, closes>>

Next ==
  \/ Complete \/ Run \/ Handle \/ Dial \/ Listen \/ Stop \/ Lose
  \/ Interrupt \/ PodChanges

Spec == Init /\ [][Next]_vars

(* Both goroutines are scheduled; dialling and listening end in an answer  *)
(* or an error.  A connection need not be lost.                            *)
FairSpec == Spec /\ WF_vars(Handle) /\ WF_vars(Dial) /\ WF_vars(Listen) /\ WF_vars(Stop)

-----------------------------------------------------------------------------
(* What a port that is typed means, without the order of look-ups: of      *)
(* those that the help text knows, [LOCAL]:REMOTE and REMOTE.              *)
WellFormed(arg) ==
  /\ Len(arg) <= 2 /\ Last(arg) # Empty
  /\ Len(arg) = 2 => arg[1] \notin Names \ {Empty}

Local(arg, number) == IF Len(arg) = 1 /\ arg[1] \in Names THEN number ELSE arg[1]

Asks(arg, p) ==
  LET t == Last(arg) IN t = p.name \/ (t \notin Names /\ t % Int32 = p.port)

TargetsOf(svc, p, thePod) ==
  CASE svc.headless -> {p.port}
    [] ~svc.headless /\ p.target \in Names ->
         {c.port : c \in {d \in Range(thePod.ports) : d.name = p.target}}
    [] ~svc.headless /\ p.target \notin Names -> {p.target}

(* Ports of a service are found by their number (portforward.go:143-204):  *)
(* one that is typed, by number or by name, is forwarded to the target, in *)
(* the pod that was read, of a port with the same number, be it this one   *)
(* or another (see ForwardsByName).  A number counts modulo 2^32.  Of a    *)
(* pod, a number stays what it is and a name means a port of that name.    *)
(* Where no local port is given it is the number typed, or the one found.  *)
ForwardsByNumber ==
  pc = "forward" =>
    \A i \in up : WellFormed(args[i]) =>
      IF object.kind = "service"
      THEN \E p, q \in Range(object.ports) :
             /\ Asks(args[i], p) /\ q.port = p.port
             /\ ports[i].local = Local(args[i], p.port)
             /\ ports[i].remote \in TargetsOf(object, q, read)
      ELSE /\ \/ ports[i].remote = Last(args[i])
              \/ \E c \in Range(read.ports) :
                   c.name = Last(args[i]) /\ ports[i].remote = c.port
           /\ ports[i].local = Local(args[i], ports[i].remote)

(* What the help text says: "forwarding to the targetPort of the service's *)
(* port named https in a pod selected by the service"                      *)
(* (portforward.go:60).  Here of TCP ports, and in the pod that was read.  *)
ForwardsByName ==
  pc = "forward" /\ object.kind = "service" =>
    \A i \in up : \A p \in Range(object.ports) :
      WellFormed(args[i]) /\ Last(args[i]) = p.name /\ p.protocol = "TCP"
      => ports[i].remote \in TargetsOf(object, p, read)

(* The same sentence, of the pod: what is forwarded to is the target of    *)
(* some port of the service in the pod that is connected to.               *)
TargetIsOfThePod ==
  pc = "forward" /\ object.kind = "service" =>
    \A i \in up : \E p \in Range(object.ports) :
      ports[i].remote \in TargetsOf(object, p, conn)

(* The number n is declared for UDP, and not for TCP. *)
OnUDPOnly(ps, n) ==
  LET same == {q \in Range(ps) : q.port = n}
  IN (\E q \in same : q.protocol = "UDP") /\ (\A q \in same : q.protocol # "TCP")

(* Nothing is forwarded that the pod which was read, or the service,       *)
(* declares for UDP but not for TCP: not to such a number of this pod, nor *)
(* through such a number of the service, however it was typed              *)
(* (portforward.go:206-271).  Not covered are another pod that has taken   *)
(* the name by the time it is connected to, which nobody checks, and a     *)
(* number of more than 32 bits, which the check does not narrow.           *)
NeverToUDP ==
  pc = "forward" =>
    \A i \in up :
      LET t == splitPort(args[i]).remote IN
      IF object.kind = "pod" THEN ~OnUDPOnly(read.ports, ports[i].remote)
      ELSE t \in Names \cup (0..MaxPort) =>
             \E q \in Range(object.ports) :
               t \in {q.port, q.name} /\ ~OnUDPOnly(object.ports, q.port)

(* A command line is refused for a reason: no port, one that is unknown,   *)
(* one that UDP has and TCP has not, or one whose target the pod does not  *)
(* have (portforward.go:274-331).                                          *)
RefusedForAReason ==
  pc = "refused" /\ args # <<>> =>
    \E i \in DOMAIN args :
      LET t    == splitPort(args[i]).remote
          mine == {p \in Range(Declared(read)) : t \in {p.port, p.name}}
      IN \/ mine = {} /\ (object.kind = "service" \/ t \in Names)
         \/ \E p \in mine : OnUDPOnly(Declared(read), p.port)
         \/ object.kind = "service" /\ \E p \in mine : \E q \in Range(object.ports) :
              q.port = p.port /\ TargetsOf(object, q, read) = {}

(* The channel is closed once, however many interrupts there are: closing  *)
(* it again would panic (portforward.go:384-389).                          *)
StopIsClosedOnce == closes <= 1

(* An interrupt ends the command, although it may come while the pod is    *)
(* being dialled, when nobody looks at the channel (portforward.go:380-397).*)
InterruptEnds == (handler = "waiting" /\ signals = 1) ~> (pc \in {"done", "failed"})

=============================================================================
