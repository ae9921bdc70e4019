------------------------- MODULE MCCaptureConsumers -------------------------
(***************************************************************************)
(* Three addresses.                                                        *)
(*   dependencies: a TCP connection between 1 and 2 to a well-known port, a *)
(*     UDP five-tuple between 1 and 3 whose middle packet joins two        *)
(*     sessions when it comes late, an ICMP packet that shows node 3       *)
(*     earlier than its flows do, a packet of node 3 with itself, and time *)
(*     stamps that tie;                                                    *)
(*   anomalies: the same connection and datagrams over windows of two, a   *)
(*     reset flow to a new port, a baseline with and one without spread,   *)
(*     an insufficient one, and a history window first;                    *)
(*   collectors: three, with exact clocks or one within the tolerance of   *)
(*     the others; a repeated datagram that a wrong match could merge, and *)
(*     a node that others see by another link;                             *)
(*   archive: the connection and a datagram that comes again as another    *)
(*     session, two addresses that appear later and sort first or last,    *)
(*     one of them by ICMP alone, and time stamps that tie;                *)
(*   export: a datagram flow both ways that both timeouts cut, a           *)
(*     connection, an ICMP packet, an IPv6 datagram, time stamps that tie, *)
(*     and files of two packets out of order;                              *)
(*   browser: a capture of three snapshots and two dependencies, another   *)
(*     with one of each.                                                   *)
(***************************************************************************)
EXTENDS CaptureConsumers

Packet(no, ts, src, dst, proto, flag) ==
    [no |-> no, ts |-> ts, src |-> src, dst |-> dst, proto |-> proto, flag |-> flag]

MCWellKnown == {<<"TCP", 80>>}

Client == <<1, 9>>
Server == <<2, 80>>

Connection ==
    {Packet(1, 1, Client, Server, "TCP", "SYN"),
     Packet(2, 2, Server, Client, "TCP", "ACK"),
     Packet(3, 3, Client, Server, "TCP", "FIN")}

Datagrams ==
    {Packet(4, 0, <<1, 5>>, <<3, 6>>, "UDP", ""),
     Packet(5, 2, <<3, 6>>, <<1, 5>>, "UDP", ""),
     Packet(6, 4, <<1, 5>>, <<3, 6>>, "UDP", "")}

Ping == {Packet(7, 0, <<3, 0>>, <<2, 0>>, "ICMP", "")}

Loopback == {Packet(8, 1, <<3, 7>>, <<3, 8>>, "UDP", "")}

Stray == {Packet(9, 4, <<3, 7>>, <<2, 22>>, "TCP", "SYN")}

Repeats ==
    {Packet(10, 0, <<1, 5>>, <<3, 6>>, "UDP", ""),
     Packet(11, 1, <<1, 5>>, <<3, 6>>, "UDP", ""),
     Packet(12, 4, <<1, 5>>, <<3, 6>>, "UDP", "")}

OtherLinks ==
    {Packet(13, 2, <<2, 7>>, <<1, 5>>, "UDP", ""),
     Packet(14, 3, <<2, 7>>, <<3, 6>>, "UDP", "")}

MCWire ==
    [dependencies |-> Connection \cup Datagrams \cup Ping \cup Loopback,
     anomalies |-> Connection \cup Datagrams \cup Stray,
     collectors |-> Repeats \cup OtherLinks]

MCMaxChunk == [dependencies |-> 3, anomalies |-> 2, collectors |-> 1]
MCMaxArrived == [dependencies |-> 4, anomalies |-> 5, collectors |-> 4]

Baseline(sufficient, ports, protocols, destinations, timing, behavior, volume) ==
    [sufficient |-> sufficient, ports |-> ports, protocols |-> protocols,
     destinations |-> destinations, timing |-> timing, behavior |-> behavior,
     traffic_volume |-> volume]

Usual(median, mad) == [median |-> median, mad |-> mad]

MCBaselines ==
    <<Baseline(TRUE, {}, {"TCP"}, Usual(1, 0), Usual(1, 1), Usual(30, 15), Usual(1, 1)),
      Baseline(TRUE, {80}, {"TCP"}, Usual(0, 0), Usual(1, 0), Usual(30, 0), Usual(2, 1)),
      Baseline(FALSE, {}, {}, Usual(0, 0), Usual(0, 0), Usual(0, 0), Usual(0, 0))>>

MCRecording ==
    <<Packet(1, 0, <<2, 9>>, <<3, 80>>, "TCP", "SYN"),
      Packet(2, 1, <<2, 5>>, <<3, 6>>, "UDP", ""),
      Packet(3, 1, <<3, 80>>, <<2, 9>>, "TCP", "ACK"),
      Packet(4, 2, <<3, 6>>, <<1, 5>>, "UDP", ""),
      Packet(5, 2, <<1, 0>>, <<4, 0>>, "ICMP", ""),
      Packet(6, 3, <<2, 9>>, <<3, 80>>, "TCP", "FIN"),
      Packet(7, 5, <<2, 5>>, <<3, 6>>, "UDP", "")>>

MCV6 == {4, 5}

Exchanged ==
    {Packet(1, 0, <<1, 5>>, <<3, 6>>, "UDP", ""),
     Packet(2, 2, <<1, 5>>, <<3, 6>>, "UDP", ""),
     Packet(3, 2, <<3, 6>>, <<1, 5>>, "UDP", ""),
     Packet(4, 3, <<1, 5>>, <<3, 6>>, "UDP", ""),
     Packet(5, 7, <<1, 5>>, <<3, 6>>, "UDP", ""),
     Packet(6, 1, Client, Server, "TCP", "SYN"),
     Packet(7, 2, Server, Client, "TCP", "ACK"),
     Packet(8, 2, <<3, 0>>, <<2, 0>>, "ICMP", ""),
     Packet(9, 3, <<4, 5>>, <<5, 6>>, "UDP", "")}

MCExported ==
    {capture \in UNION {[1..n -> Exchanged] : n \in 1..4} :
        IsInjective(capture) /\ (TimeOrdered(capture) \/ Len(capture) <= 2)}

MCForeign ==
    [src |-> <<2, 5>>, dst |-> <<1, 6>>, proto |-> "UDP",
     packets |-> 2, start |-> 1, end |-> 2]

MCSnapshotsOf == "this" :> 3 @@ "other" :> 1
MCDependenciesOf == "this" :> 2 @@ "other" :> 1

MCFlows == <<1, 2, 3>>

CONSTANTS a, b, c, h, k

MCCollectors == {a, b, c}
MCClocks == {[x \in MCCollectors |-> 0], [x \in MCCollectors |-> IF x = b THEN 1 ELSE 0]}

\* The two collectors whose clocks always agree, and the threads of the server.
MCSymmetry == Permutations({a, c}) \cup Permutations({h, k})
=============================================================================
