---------------------------- MODULE MCTransport ----------------------------
(***************************************************************************)
(* Small instances of the transport layer for TLC.  Its parts share no     *)
(* variable, so a behaviour picks one of them, the focus, and the others   *)
(* rest in an initial state: the states of the run are the sum of the      *)
(* parts' and not their product.                                           *)
(***************************************************************************)
EXTENDS SSUData, SSUSession, NTCPSession, Transports, SSUPeerTest, TLC

VARIABLE focus

\* SSUData: what is sent, in how many fragments, and the ends that are established.
Loaded(i, from, n, type) == [id |-> i, from |-> from, n |-> n, type |-> type]
ConfirmedBy == Loaded(0, "b", 1, "DeliveryStatus")
Store(n) == Loaded(n, "b", n, "DatabaseStore")
Small(i) == Loaded(i, "a", 1, "Other")
Loads == {[messages |-> {Store(3)}, established |-> {"b"}],
          [messages |-> {ConfirmedBy, Store(1)}, established |-> {"b"}],
          [messages |-> {ConfirmedBy, Small(1)}, established |-> {"b"}],
          [messages |-> {Small(1), Small(2)}, established |-> {"a", "b"}]}
LoadedMessages == UNION {l.messages : l \in Loads}

\* SSUSession: one handshake with every fault, two crossing ones, an
\* introduced one of two unreachable routers, and two clients of one server.
May(wanted, n, g, faults) ==
  [wanted |-> wanted, maxSessions |-> n, maxGarbage |-> g, faults |-> faults]
Idle == May({}, 0, 0, {})
Trio(fa, fb, fc) == "a" :> fa @@ "b" :> fb @@ "c" :> fc
Faults == {"timeout", "done", "stop"}
SessionScenarios ==
  {Trio(May({"b"}, 1, 1, Faults), May({}, 1, 1, Faults), Idle),
   Trio(May({"b"}, 2, 0, {"timeout"}), May({}, 2, 0, {"timeout"}), Idle),
   Trio(May({"c"}, 2, 1, {"timeout"}), May({}, 2, 0, {}), May({"b"}, 2, 0, {})),
   Trio(May({"c"}, 2, 0, {}), May({}, 2, 0, {"timeout"}), May({"b"}, 2, 0, {})),
   Trio(May({"b"}, 1, 0, {}), May({}, 2, 1, {"timeout"}), May({"b"}, 1, 0, {}))}
IntroducedBy2 == "a" :> "b" @@ "c" :> "b"

\* NTCPSession: batches of messages, each fault alone, and a second connection
\* of one router.
Post(c, s, i, n) == [conn |-> c, side |-> s, id |-> i, len |-> n]
Link(conns, wrong, long, posts, faults) ==
  [conns |-> conns, wrongIdent |-> wrong, longIdentity |-> long, posts |-> posts, faults |-> faults]
Links ==
  {Link({1}, {}, {}, {Post(1, "client", "m1", 11), Post(1, "client", "m2", 27)}, {}),
   Link({1}, {1}, {}, {}, {"timer"}),
   Link({1}, {}, {1}, {}, {"timer"}),
   Link({1}, {}, {}, {Post(1, "server", "m3", 40)}, {"done"}),
   Link({1}, {}, {}, {Post(1, "client", "m1", 11)}, {"cut"}),
   Link({1}, {}, {}, {}, {"timer"}),
   Link({1}, {}, {}, {}, {"check", "cut"}),
   Link({1, 2}, {}, {}, {}, {})}

\* Transports: a router to look up, one with a host name, one without NTCP.
Peer(known, address, reachable, ssu) ==
  [known |-> known, ntcp |-> address, reachable |-> reachable, ssu |-> ssu]
Traffic(routers, posts, incoming, cleanups) ==
  [routers |-> routers, posts |-> posts, incoming |-> incoming, cleanups |-> cleanups]
Traffics ==
  {Traffic("p" :> Peer(FALSE, "address", TRUE, TRUE), <<"p", "p", "p">>, {<<"p", "NTCP">>}, 0),
   Traffic("p" :> Peer(TRUE, "name", TRUE, TRUE), <<"p", "p">>, {<<"p", "SSU">>}, 0),
   Traffic("p" :> Peer(TRUE, "name", TRUE, TRUE), <<"p", "p">>, {}, 1),
   Traffic("p" :> Peer(TRUE, "name", TRUE, TRUE), <<"p">>, {<<"p", "SSU">>}, 1),
   Traffic("p" :> Peer(TRUE, "none", FALSE, TRUE), <<"p", "self", "p">>, {}, 1)}

\* SSUPeerTest: who tests through whom, which routers are firewalled, and how
\* many packets are lost or delivered twice.
Test(starts, sessions, firewalled, faults) ==
  [starts |-> starts, sessions |-> sessions, firewalled |-> firewalled, faults |-> faults]
Line == {{"a", "b"}, {"b", "c"}}
Tests ==
  {Test({<<"a", "b", 1>>}, Line, {}, 2),
   Test({<<"a", "b", 1>>}, Line, {"a"}, 2),
   Test({<<"a", "b", 1>>, <<"a", "b", 2>>}, Line, {"a"}, 1),
   Test({<<"a", "b", 1>>, <<"c", "b", 2>>}, Line, {"c"}, 1),
   Test({<<"a", "b", 1>>, <<"a", "c", 2>>}, Line \cup {{"a", "c"}}, {}, 1)}

TransportInit ==
  /\ focus \in {"SSUData", "SSUSession", "NTCPSession", "Transports", "SSUPeerTest"}
  /\ \E k \in SSULoads : DataInitWith(k) /\ (focus = "SSUData" \/ k = CHOOSE x \in SSULoads : TRUE)
  /\ \E k \in Scenarios : SessionInitWith(k) /\ (focus = "SSUSession" \/ k = CHOOSE x \in Scenarios : TRUE)
  /\ \E k \in NTCPCases : NTCPInitWith(k) /\ (focus = "NTCPSession" \/ k = CHOOSE x \in NTCPCases : TRUE)
  /\ \E k \in TransportCases : TransportsInitWith(k) /\ (focus = "Transports" \/ k = CHOOSE x \in TransportCases : TRUE)
  /\ \E k \in PTCases : PeerTestInitWith(k) /\ (focus = "SSUPeerTest" \/ k = CHOOSE x \in PTCases : TRUE)

TransportNext ==
  /\ UNCHANGED focus
  /\ \/ focus = "SSUData" /\ DataNext
        /\ UNCHANGED <<sessionVars, ntcpVars, transportVars, peerTestVars>>
     \/ focus = "SSUSession" /\ SessionNext
        /\ UNCHANGED <<dataVars, ntcpVars, transportVars, peerTestVars>>
     \/ focus = "NTCPSession" /\ NTCPNext
        /\ UNCHANGED <<dataVars, sessionVars, transportVars, peerTestVars>>
     \/ focus = "Transports" /\ TransportsNext
        /\ UNCHANGED <<dataVars, sessionVars, ntcpVars, peerTestVars>>
     \/ focus = "SSUPeerTest" /\ PeerTestNext
        /\ UNCHANGED <<dataVars, sessionVars, ntcpVars, transportVars>>

transportLayerVars ==
  <<focus, dataVars, sessionVars, ntcpVars, transportVars, peerTestVars>>
TransportSpec == TransportInit /\ [][TransportNext]_transportLayerVars
=============================================================================
