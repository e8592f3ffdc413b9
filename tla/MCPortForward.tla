----------------------------- MODULE MCPortForward -----------------------------
(* Small instances of PortForward for TLC. *)
EXTENDS PortForward

CONSTANTS http, dns, web

MCNames == {http, dns, web, Empty}

SvcPort(name, port, protocol, target) ==
  [name |-> name, port |-> port, protocol |-> protocol, target |-> target]

(* A port may have no name when it is the only one; number and protocol    *)
(* tell two ports apart.                                                   *)
One == { <<SvcPort(n, 1, pr, t)>> : n \in {http, Empty}, pr \in Protocol, t \in {3, web} }
Both == {"TCP", "UDP"} \X {"TCP", "UDP"} \cup {<<"UDP", "SCTP">>}
Two == { <<SvcPort(http, 1, b[1], t), SvcPort(dns, m, b[2], 4)>> :
           m \in {1, 2}, b \in Both, t \in {3, web} }
Distinct(ps) == \A i, j \in DOMAIN ps :
  ps[i].port = ps[j].port /\ ps[i].protocol = ps[j].protocol => i = j

Service(ps, headless) == [kind |-> "service", ports |-> ps, headless |-> headless]

MCObjects ==
  {Service(ps, FALSE) : ps \in One \cup {q \in Two : Distinct(q)}}
  \cup {Service(<<SvcPort(http, 1, "TCP", web)>>, TRUE), [kind |-> "pod", ports |-> <<>>, headless |-> FALSE]}

PodPort(name, port, protocol) == [name |-> name, port |-> port, protocol |-> protocol]

MCPodPorts ==
  { <<>>, <<PodPort(web, 3, "TCP")>>, <<PodPort(dns, 3, "UDP"), PodPort(web, 4, "TCP")>>,
    <<PodPort(dns, 3, "UDP"), PodPort(web, 3, "TCP")>> }

(* 9 is 1 + Int32, and above MaxPort. *)
Single == {<<1>>, <<3>>, <<9>>, <<http>>, <<dns>>, <<web>>, <<Empty>>}
Pair   == {<<l, r>> : l \in {5, Empty}, r \in {1, 3, 9, dns, http, Empty}} \cup {<<http, 1>>, <<http, http>>}
MCCommandLines ==
  {<<>>, << <<1, 2, 3>> >>, << <<1>>, <<http>> >>, << <<5, 1>>, <<5, dns>> >>, << <<dns>>, <<Empty, web>> >>}
  \cup {<<a>> : a \in Single \cup Pair}

=============================================================================
