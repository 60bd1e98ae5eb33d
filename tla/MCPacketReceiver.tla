-------------------------- MODULE MCPacketReceiver -------------------------
(* TLC instance of PacketReceiver: two ports and two senders. *)
EXTENDS PacketReceiver

CONSTANTS p1, p2, i1, i2

LOCAL Provider(port, ips) == [port |-> port, ips |-> ips]

\* Every kind of rule on one port; ports deduced from the providers; a provider that cannot
\* bind; gRPC sources alone, without a port.
MCConfigs ==
    {[providers |-> <<Provider(p1, {i1}), Provider(p1, {}), Provider(NoPort, {i1})>>,
      listen_ports |-> {p1, p2}, grpc |-> FALSE],
     [providers |-> <<Provider(p1, {}), Provider(NoPort, {i2})>>, listen_ports |-> {}, grpc |-> FALSE],
     [providers |-> <<Provider(p2, {})>>, listen_ports |-> {p1}, grpc |-> TRUE],
     [providers |-> <<>>, listen_ports |-> {}, grpc |-> TRUE]}

LOCAL Arrival(port, ip, kind, drops) == [port |-> port, ip |-> ip, kind |-> kind, drops |-> drops]

MCArrivals ==
    {Arrival(p1, i1, "whole", 1), Arrival(p1, i2, "whole", 2), Arrival(p2, i1, "whole", 2),
     Arrival(p2, i2, "unstamped", 0), Arrival(p1, i1, "truncated", 2), Arrival(p1, i2, "empty", 0)}
=============================================================================
