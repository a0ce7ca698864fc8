----------------------------- MODULE MCTraffic -----------------------------
(***************************************************************************)
(* Small instances for TLC of what carries a client's data: the proxy and  *)
(* the I2P tunnel it comes from, its destination's lease sets, the         *)
(* fragments of a tunnel message, the build of a tunnel and the batches of *)
(* tunnel messages in a router.  They share no variable: a behaviour picks *)
(* one of them, the focus, and the others rest in an initial state.        *)
(***************************************************************************)
EXTENDS TunnelData, TunnelBuild, TunnelDispatch, Destination, Proxy, I2PTunnel

VARIABLE focus

\* TunnelBuild: every order of the records of a three hop tunnel in both
\* directions, two tunnels over the same hops, a tunnel of four hops, and
\* build messages that arrive twice.
Path(name, hops, inbound, shuffle) ==
  [name |-> name, hops |-> hops, inbound |-> inbound, shuffle |-> shuffle,
   replyTo |-> "r9", replyID |-> <<"in", 1>>]
Builds(tunnels, copies, timeouts) ==
  [tunnels |-> tunnels, copies |-> copies, timeouts |-> timeouts, data |-> TRUE]
Shuffles == {s \in [1 .. 3 -> 1 .. 3] : \A i, j \in 1 .. 3 : s[i] = s[j] => i = j}
BuildCases ==
  {Builds({Path("t", <<"r1", "r2", "r3">>, in, s)}, 1, TRUE) : in \in BOOLEAN, s \in Shuffles} \cup
  {Builds({Path("t", <<"r1", "r2">>, TRUE, <<3, 1, 2>>),
           Path("u", <<"r2", "r1">>, FALSE, <<2, 1, 3>>)}, 1, TRUE),
   Builds({Path("t", <<"r1", "r2", "r3", "r4">>, TRUE, <<4, 1, 2, 3>>)}, 1, FALSE),
   Builds({Path("t", <<"r1", "r2", "r1">>, FALSE, <<3, 2, 1>>)}, 1, FALSE),
   Builds({Path("t", <<"r1", "me", "r1">>, TRUE, <<1, 2, 3>>)}, 1, FALSE),
   Builds({Path("t", <<"r1">>, FALSE, <<2, 1, 3>>), Path("u", <<"r1">>, TRUE, <<1, 2, 3>>)}, 2, FALSE)}

\* TunnelDispatch: two sessions whose packets hold runs of tunnel data with a
\* build, a gateway, a database or a garlic message between them.
Inside(from, seq, kind, t) ==
  [from |-> from, seq |-> seq, kind |-> kind, tunnel |-> t, database |-> seq = 2]
OfS(k, u, k2) ==
  <<<<Inside("s", 1, "Data", "t"), Inside("s", 2, "Data", "t")>>,
    <<Inside("s", 3, k, u)>>,
    <<Inside("s", 4, "Data", "t"), Inside("s", 5, k2, "t")>>>>
OfQ(k, u) ==
  <<<<Inside("q", 1, k, u), Inside("q", 2, "Gateway", u)>>, <<Inside("q", 3, k, "t")>>>>
DispatchCases ==
  {[packets |-> "s" :> OfS(k, u, k2) @@ "q" :> OfQ(k3, u2), tunnels |-> ts, expiring |-> {"u"}] :
     k \in {"Data", "Build", "Gateway"}, u \in TDTunnels,
     k2 \in {"Data", "Database", "Garlic", "Gateway"},
     k3 \in {"Data", "Build"}, u2 \in TDTunnels, ts \in {{"t"}, TDTunnels}}

\* Destination: publications alone, three callers over three floodfills, two
\* callers while tunnels come and go, and no floodfill at all.
Client(floodfills, updates, publications, wanted, suggested, change, stops) ==
  [floodfills |-> floodfills, updates |-> updates, publications |-> publications,
   wanted |-> wanted, suggested |-> suggested, honest |-> FALSE,
   tunnelsChange |-> change, stops |-> stops]
NoCaller == [c \in {} |-> 0]
Clients ==
  {Client({1, 2}, 3, 4, NoCaller, {}, TRUE, FALSE),
   Client({1, 2, 3}, 1, 1, "s" :> "x" @@ "t" :> "x" @@ "u" :> "y", {{}, {2, 4}, {1, 3}}, FALSE, TRUE),
   Client({1, 2}, 1, 2, "s" :> "x" @@ "t" :> "x", {{2}}, TRUE, FALSE),
   Client({}, 1, 1, "s" :> "x" @@ "t" :> "y", {}, FALSE, TRUE)}

\* Proxy: requests of SOCKS 4a, SOCKS 5 and HTTP clients.
Socks5 ==
  [kind |-> "socks5", methods |-> <<0>>, cmd |-> 1, addrtype |-> 3, addr |-> <<>>,
   host |-> <<97, DotI2P>>, port |-> <<1, 2>>, method |-> <<>>, urlport |-> <<>>,
   path |-> <<>>, helper |-> <<>>, version |-> <<>>, newline |-> LF, tail |-> <<7, 8>>, waits |-> TRUE,
   faults |-> {}]
Socks4 == [Socks5 EXCEPT !.kind = "socks4", !.methods = <<>>, !.addr = <<0, 0, 0, 5>>]
Http ==
  [Socks5 EXCEPT !.kind = "http", !.method = <<71>>, !.path = <<Slash, 98>>, !.version = <<11>>]
AllFaults == {"read", "write", "stream", "gone", "stop"}
Requests ==
  {[Socks5 EXCEPT !.methods = m, !.waits = w, !.faults = AllFaults] :
     m \in {<<0>>, <<0, 2>>}, w \in BOOLEAN} \cup
  {[Socks5 EXCEPT !.methods = <<2>>, !.faults = {"write"}],
   [Socks5 EXCEPT !.methods = <<2, 0>>],
   [Socks5 EXCEPT !.cmd = 3],
   [Socks5 EXCEPT !.cmd = 7, !.waits = FALSE],
   [Socks5 EXCEPT !.host = <<97>>],
   [Socks5 EXCEPT !.addrtype = 1, !.addr = <<1, 2, 3, 4>>, !.host = <<>>],
   [Socks5 EXCEPT !.addrtype = 4, !.addr = [i \in 1 .. 16 |-> i], !.host = <<>>],
   [Socks5 EXCEPT !.addrtype = 9, !.host = <<>>, !.addr = <<>>],
   [Socks4 EXCEPT !.faults = AllFaults],
   [Socks4 EXCEPT !.addrtype = 1, !.addr = <<1, 0, 0, 5>>, !.host = <<>>],
   [Socks4 EXCEPT !.host = [i \in 1 .. 17 |-> IF i = 3 THEN DotI2P ELSE 97]],
   [Socks4 EXCEPT !.cmd = 3],
   [Http EXCEPT !.faults = AllFaults],
   [Http EXCEPT !.urlport = <<PortFits>>, !.helper = <<Helper, 98>>],
   [Http EXCEPT !.urlport = <<PortTooLarge>>, !.faults = AllFaults],
   [Http EXCEPT !.version = <<9>>],
   [Http EXCEPT !.newline = 0]}

\* I2PTunnel: both sides, without faults, with short writes, and with every fault.
Side(s) ==
  [side |-> s, app |-> <<1, 2, 3>>, net |-> <<4, 5, 6>>, known |-> TRUE, allowed |-> TRUE,
   faults |-> {}]
TunnelFaults ==
  {"accept", "stream", "gone", "resolve", "connect", "read", "write", "idle", "stop", "short"}
Sides ==
  {[Side(s) EXCEPT !.faults = f] : s \in {"client", "server"}, f \in {{}, {"short"}, TunnelFaults}} \cup
  {[Side("client") EXCEPT !.faults = {"gone", "stream"}]} \cup
  {[Side("client") EXCEPT !.known = FALSE], [Side("server") EXCEPT !.allowed = FALSE]}

TrafficInit ==
  /\ focus \in {"TunnelData", "TunnelBuild", "TunnelDispatch",
               "Destination", "Proxy", "I2PTunnel"}
  /\ Init /\ (focus = "TunnelData" \/ m_Endpoint = NewEndpoint(TRUE))
  /\ \E k \in TBCases :
       TunnelBuildInitWith(k) /\ (focus = "TunnelBuild" \/ k = CHOOSE x \in TBCases : TRUE)
  /\ \E k \in TDCases :
       TunnelDispatchInitWith(k) /\ (focus = "TunnelDispatch" \/ k = CHOOSE x \in TDCases : TRUE)
  /\ \E k \in DCases :
       DestinationInitWith(k) /\ (focus = "Destination" \/ k = CHOOSE x \in DCases : TRUE)
  /\ \E k \in ProxyCases :
       ProxyInitWith(k) /\ (focus = "Proxy" \/ k = CHOOSE x \in ProxyCases : TRUE)
  /\ \E k \in I2PTunnelCases :
       I2PTunnelInitWith(k) /\ (focus = "I2PTunnel" \/ k = CHOOSE x \in I2PTunnelCases : TRUE)

TrafficNext ==
  /\ UNCHANGED focus
  /\ \/ focus = "TunnelData" /\ Next
        /\ UNCHANGED <<buildVars, dispatchVars, destVars, proxyVars, i2pTunnelVars>>
     \/ focus = "TunnelBuild" /\ TunnelBuildNext
        /\ UNCHANGED <<vars, dispatchVars, destVars, proxyVars, i2pTunnelVars>>
     \/ focus = "TunnelDispatch" /\ TunnelDispatchNext
        /\ UNCHANGED <<vars, buildVars, destVars, proxyVars, i2pTunnelVars>>
     \/ focus = "Destination" /\ DestinationNext
        /\ UNCHANGED <<vars, buildVars, dispatchVars, proxyVars, i2pTunnelVars>>
     \/ focus = "Proxy" /\ ProxyNext
        /\ UNCHANGED <<vars, buildVars, dispatchVars, destVars, i2pTunnelVars>>
     \/ focus = "I2PTunnel" /\ I2PTunnelNext
        /\ UNCHANGED <<vars, buildVars, dispatchVars, destVars, proxyVars>>

trafficVars == <<focus, vars, buildVars, dispatchVars, destVars, proxyVars, i2pTunnelVars>>
TrafficSpec == TrafficInit /\ [][TrafficNext]_trafficVars
=============================================================================
