---------------------------- MODULE SSUPeerTest ----------------------------
(***************************************************************************)
(* The peer test (SSUSession::ProcessPeerTest and SendPeerTest, the table  *)
(* of SSUServer): Alice asks Bob, Bob asks Charlie, Charlie answers Bob    *)
(* and calls Alice at her address.  A router's part in a test is found by  *)
(* the nonce alone.                                                        *)
(*                                                                         *)
(* Packets may be lost, repeated and reordered.  A router behind a         *)
(* firewall gets packets only from routers it has sent to.                 *)
(***************************************************************************)
EXTENDS Integers, FiniteSets

CONSTANTS
  PTRouters,
  PTCases     \* records: starts, the tests begun, as triples of Alice, Bob and nonce;
              \* sessions, pairs with an established session; firewalled routers;
              \* faults, how many packets may be lost or repeated, parts forgotten or
              \* sessions closed

ASSUME PeerTestAssumption ==
  \A k \in PTCases :
    /\ \A t \in k.starts : t[1] \in PTRouters /\ t[2] \in PTRouters
    /\ k.sessions \subseteq {s \in SUBSET PTRouters : Cardinality(s) = 2}
    /\ \A s, t \in k.starts : s[3] = t[3] => s = t   \* nonces are random
    /\ k.firewalled \subseteq PTRouters /\ k.faults \in Nat
    /\ PTRouters \cap {"nobody", "session"} = {}

VARIABLE tests   \* see PeerTestInitWith

peerTestVars == <<tests>>

PTNobody == "nobody"
PTNonces(k) == {t[3] : t \in k.starts}
NoPart == [role |-> "Unknown", session |-> PTNobody]

\* m_PeerTests: per router and nonce its part, and the session with Alice if it is
\* Bob; established: per router its peers; contacted: whom it has sent to.  misread
\* is kept for the properties: tests with a packet that was given to another session.
PeerTestInitWith(k) ==
  tests = [m_PeerTests |-> [r \in PTRouters |-> [n \in PTNonces(k) |-> NoPart]],
           m_Status |-> [r \in PTRouters |-> "Testing"],
           established |-> [r \in PTRouters |-> {q \in PTRouters : {r, q} \in k.sessions /\ q # r}],
           contacted |-> [r \in PTRouters |-> {q \in PTRouters : {r, q} \in k.sessions /\ q # r}],
           net |-> {}, misread |-> {}, unstarted |-> k.starts, faults |-> k.faults, case |-> k]
PeerTestInit == \E k \in PTCases : PeerTestInitWith(k)
-----------------------------------------------------------------------------
SetPart(t, r, n, role, session) ==
  [t EXCEPT !.m_PeerTests[r][n] = [role |-> role, session |-> session]]
RemovePeerTest(t, r, n) == SetPart(t, r, n, "Unknown", PTNobody)

\* key: "session", or the router whose intro key it is.  about: the address in the
\* packet; introKey: the router whose key is in it.
SendTo(t, from, to, n, key, about, port, introKey) ==
  [t EXCEPT !.net = @ \cup {[from |-> from, to |-> to, nonce |-> n, key |-> key,
                             about |-> about, port |-> port, introKey |-> introKey]},
            !.contacted[from] = @ \cup {to}]

\* SendPeerTest to an address: under the key that came with it, with our own key.
SendPeerTestToAddress(t, r, to, n, introKey, about) ==
  SendTo(t, r, to, n, introKey, about, TRUE, r)

\* Mutant: Bob's report counts even after Charlie's call.
Alice1ReportCounts(t, r, p, up) ==
  IF up THEN [t EXCEPT !.m_Status[r] = "Firewalled"] ELSE [t EXCEPT !.m_Status[r] = "OK"]

\* A report from Bob, or Charlie's call.
Alice1(t, r, p, up) ==
  IF up THEN [t EXCEPT !.m_Status[r] = IF @ = "Testing" THEN "Firewalled" ELSE @]
  ELSE SendPeerTestToAddress(
         SetPart([t EXCEPT !.m_Status[r] = "OK"], r, p.nonce, "Alice2", PTNobody),
         r, p.from, p.nonce, p.introKey, PTNobody)

\* ProcessPeerTest at router r; up: the session that the packet is given to is
\* established.  Charlie takes a packet with a port but no address for
\* unsupported: what Alice sends to Charlie is always dropped.
ProcessPeerTest(t, r, p, up) ==
  LET n    == p.nonce
      part == t.m_PeerTests[r][n]
  IN IF p.port /\ p.about = PTNobody THEN {t}
     ELSE CASE part.role = "Alice1" -> {Alice1(t, r, p, up)}
       [] part.role = "Alice2" ->
            {IF up THEN t ELSE RemovePeerTest([t EXCEPT !.m_Status[r] = "OK"], r, n)}
       [] part.role = "Bob" ->
            {RemovePeerTest(IF part.session \in t.established[r]
                            THEN SendTo(t, r, part.session, n, "session", p.about, p.port, p.introKey)
                            ELSE t, r, n)}
       [] part.role = "Charlie" ->
            {RemovePeerTest(SendPeerTestToAddress(t, r, p.from, n, p.introKey, p.from), r, n)}
       [] part.role = "Unknown" /\ ~up -> {t}
       [] part.role = "Unknown" /\ up /\ p.port ->
            {SendPeerTestToAddress(
               SendTo(SetPart(t, r, n, "Charlie", PTNobody), r, p.from, n, "session",
                      p.about, TRUE, p.introKey),
               r, p.about, n, p.introKey, p.about)}
       [] part.role = "Unknown" /\ up /\ ~p.port ->
            IF t.established[r] = {p.from} THEN {t}
            ELSE {SendTo(SetPart(t, r, n, "Bob", p.from), r, c, n, "session", p.from, TRUE, p.introKey) :
                    c \in t.established[r] \ {p.from}}
-----------------------------------------------------------------------------
\* SendPeerTest when a session for a test is established.
StartPeerTest(s) ==
  /\ s \in tests.unstarted /\ s[2] \in tests.established[s[1]]
  /\ tests' = SendTo(SetPart([tests EXCEPT !.unstarted = @ \ {s}], s[1], s[3], "Alice1", PTNobody),
                     s[1], s[2], s[3], "session", PTNobody, FALSE, s[1])

\* What passes the firewall: with a session its key must be right, without one the
\* router's own intro key.
Passes(p) ==
  /\ p.to \in tests.case.firewalled => p.from \in tests.contacted[p.to]
  /\ p.key = IF p.from \in tests.established[p.to] THEN "session" ELSE p.to

\* HandleReceivedPackets: the packet's endpoint has no established session, and the
\* packet before it in the batch, perhaps one of no test, was on a session that is
\* or was established.  That session is kept; its key does not fit, and what is read
\* in a packet that is not decrypted names no test: nonces are random.
GivenToAnother(p) ==
  /\ Passes(p) /\ p.from \notin tests.established[p.to]
  /\ \E before \in PTRouters \ {p.to} : {p.to, before} \in tests.case.sessions

\* Otherwise the packet comes to the session of its endpoint; if there is none, to a
\* new one or to one of the batch that has no key yet, which makes no difference.
ReceivePeerTest(p) ==
  LET t == [tests EXCEPT !.net = @ \ {p}] IN
  \/ tests' \in IF Passes(p) THEN ProcessPeerTest(t, p.to, p, p.from \in t.established[p.to]) ELSE {t}
  \/ GivenToAnother(p) /\ tests' = [t EXCEPT !.misread = @ \cup {p.nonce}]

\* What goes wrong; each is one fault.
Fault(t) == tests.faults > 0 /\ tests' = [t EXCEPT !.faults = @ - 1]
LosePacket(p) == Fault([tests EXCEPT !.net = @ \ {p}])
RepeatPacket(p) ==
  /\ Passes(p) /\ tests.faults > 0
  /\ \E t \in ProcessPeerTest(tests, p.to, p, p.from \in tests.established[p.to]) :
       tests' = [t EXCEPT !.faults = @ - 1]
CloseSSU(r, q) == q \in tests.established[r] /\ Fault([tests EXCEPT !.established[r] = @ \ {q}])
HandlePeerTestsCleanupTimer(r, n) ==
  tests.m_PeerTests[r][n] # NoPart /\ Fault(RemovePeerTest(tests, r, n))

PeerTestNext ==
  \/ \E s \in tests.unstarted : StartPeerTest(s)
  \/ \E p \in tests.net : ReceivePeerTest(p) \/ LosePacket(p) \/ RepeatPacket(p)
  \/ \E r, q \in PTRouters : CloseSSU(r, q)
  \/ \E r \in PTRouters, n \in PTNonces(tests.case) : HandlePeerTestsCleanupTimer(r, n)

PeerTestSpec == PeerTestInit /\ [][PeerTestNext]_peerTestVars
-----------------------------------------------------------------------------
PeerTestTypeOK ==
  /\ \A r \in PTRouters :
       /\ tests.m_Status[r] \in {"Testing", "OK", "Firewalled"}
       /\ \A n \in PTNonces(tests.case) :
            tests.m_PeerTests[r][n].role \in {"Unknown", "Alice1", "Alice2", "Bob", "Charlie"}
  /\ tests.faults \in 0 .. tests.case.faults /\ tests.misread \subseteq PTNonces(tests.case)

\* A router that answers others' tests as Charlie opens its firewall for them.
OnlyAlice(r) == \A s \in tests.case.starts : s[1] = r

Started(k) == k.starts \ tests.unstarted

\* A test that nothing disturbs ends with the truth about Alice, in whatever order
\* Bob's report and Charlie's call come in, with several tests at a time.  Charlie's
\* call is not understood if Alice has a session with Charlie, nor behind a packet
\* of another session in one batch: a router that can be reached may then come to
\* believe it cannot.
SettledIsTrue ==
  LET k == tests.case IN
  tests.net = {} /\ tests.faults = k.faults =>
    \A s \in Started(k) :
      \/ tests.established[s[2]] = {s[1]}
      \/ tests.established[s[1]] # {s[2]} \/ s[3] \in tests.misread
      \/ s[1] \in k.firewalled /\ ~OnlyAlice(s[1])
      \/ tests.m_Status[s[1]] = IF s[1] \in k.firewalled THEN "Firewalled" ELSE "OK"

\* A router behind a firewall that is the only one to begin tests never comes to
\* believe that it can be reached, though packets are repeated and so taken for
\* another's, or are late, as long as its own sessions are not closed: then Bob's
\* endpoint looks like Charlie's.
FirewalledIsNeverOK ==
  LET k == tests.case IN
  \A r \in k.firewalled :
    tests.m_Status[r] = "OK" =>
      \/ ~OnlyAlice(r)
      \/ \E q \in PTRouters : {r, q} \in k.sessions /\ q \notin tests.established[r]

\* The tables of peer tests are well formed, and what a router comes to believe of
\* itself is true.
PeerTestSafe ==
  /\ PeerTestTypeOK
  /\ SettledIsTrue
  /\ FirewalledIsNeverOK
=============================================================================
