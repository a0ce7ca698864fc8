----------------------------- MODULE Transports -----------------------------
(***************************************************************************)
(* The peers of a router and the messages that wait for them               *)
(* (core/transport/Transports.cpp): connection attempts over NTCP, then    *)
(* SSU, requests for an unknown router, resolving a name, what sessions    *)
(* report, the cleanup timer.  All of it runs on the thread of m_Service,  *)
(* job after job; sessions, resolver, netdb and callers post the jobs.     *)
(***************************************************************************)
EXTENDS Integers, Sequences, Functions

CONSTANTS
  TransportSelf,    \* our own ident
  MaxJobs,          \* bound on the jobs queued when another one is posted
  MaxPeerTests,     \* routers picked for a peer test (5)
  TransportCases    \* records of what may happen:
                    \*   routers   function from ident to [known, ntcp, reachable, ssu]:
                    \*             known to netdb, kind of NTCP address ("none",
                    \*             "address", "name"), whether it has a usable SSU address
                    \*   posts     idents that a message is posted to, in this order
                    \*   incoming  pairs of an ident that connects to us and how
                    \*   cleanups  runs of the cleanup timer

ASSUME TransportsAssumption ==
  /\ MaxJobs \in Nat /\ MaxPeerTests \in Nat
  /\ \A k \in TransportCases :
       /\ k.posts \in Seq(Range(k.posts)) /\ k.cleanups \in Nat /\ k.incoming \subseteq (DOMAIN k.routers) \X {"NTCP", "SSU"}
       /\ \A i \in DOMAIN k.routers :
            /\ k.routers[i].ntcp \in {"none", "address", "name"}
            /\ k.routers[i].known \in BOOLEAN
       /\ \A n \in DOMAIN k.posts : k.posts[n] \in DOMAIN k.routers \cup {TransportSelf}

VARIABLE transports   \* see TransportsInitWith

transportVars == <<transports>>

\* sessions: the session objects; m_Service: jobs; requests, resolves: what netdb
\* and the resolver work on; handed: history of the messages given to a session
\* of each ident; m_Status: what the router knows of its external address.
TransportsInitWith(k) ==
  transports =
    [m_Peers |-> <<>>, sessions |-> <<>>, m_Service |-> <<>>, requests |-> {},
     resolves |-> {}, posted |-> 0, incoming |-> k.incoming, cleanups |-> k.cleanups,
     m_Status |-> "Testing", case |-> k,
     handed |-> [i \in DOMAIN k.routers \cup {TransportSelf} |-> <<>>]]
TransportsInit == \E k \in TransportCases : TransportsInitWith(k)
-----------------------------------------------------------------------------
(***************************************************************************)
(* The jobs, as functions of the state t.                                  *)
(***************************************************************************)
HasPeer(t, i) == i \in DOMAIN t.m_Peers
ErasePeer(t, i) == [t EXCEPT !.m_Peers = Restrict(@, DOMAIN @ \ {i})]
InsertPeer(t, i, p) ==
  [t EXCEPT !.m_Peers = [j \in DOMAIN @ \cup {i} |-> IF j = i THEN p ELSE @[j]]]

NewSessionWith(i, style) == [ident |-> i, style |-> style, state |-> "connecting"]

NewTransportSession(t, i, style) ==
  [t EXCEPT !.sessions = Append(@, NewSessionWith(i, style))]

HasSSUSession(t, i) ==
  \E s \in Range(t.sessions) : s.ident = i /\ s.style = "SSU" /\ s.state # "down"

\* SSUServer::GetSession: the session there is, or a new one.
GetSSUSession(t, i) ==
  IF HasSSUSession(t, i) THEN t ELSE NewTransportSession(t, i, "SSU")

\* The first attempt is NTCP, the second SSU: whoever has no NTCP address to try
\* is given up at the first.
ConnectToPeer(t, i) ==
  LET p == t.m_Peers[i]
      r == t.case.routers[i]
      u == [t EXCEPT !.m_Peers[i].numAttempts = @ + 1]
  IN IF ~p.router THEN [t EXCEPT !.requests = @ \cup {i}]
     ELSE IF p.numAttempts = 0 /\ r.ntcp = "address" /\ r.reachable
     THEN NewTransportSession(u, i, "NTCP")
     ELSE IF p.numAttempts = 0 /\ r.ntcp = "name" THEN [u EXCEPT !.resolves = @ \cup {i}]
     ELSE IF p.numAttempts = 1 /\ r.ssu THEN GetSSUSession(u, i)
     ELSE ErasePeer(t, i)

NewPeer(known) ==
  [numAttempts |-> 0, router |-> known, sessions |-> <<>>, delayedMessages |-> <<>>]

\* The sessions of a peer as a bag: which of them is the first is left open, how
\* often each is listed is not.
IsConnected(p) == DOMAIN p.sessions # {}

AddSession(b, s) ==
  [x \in DOMAIN b \cup {s} |-> IF x \notin DOMAIN b THEN 1 ELSE IF x = s THEN b[x] + 1 ELSE b[x]]

RemoveSession(b, s) == Restrict(b, DOMAIN b \ {s})

PostMessages(t, i, m) ==
  LET u == IF HasPeer(t, i) THEN t
           ELSE ConnectToPeer(InsertPeer(t, i, NewPeer(t.case.routers[i].known)), i)
  IN IF i = TransportSelf THEN [t EXCEPT !.handed[i] = Append(@, m)]
     ELSE IF ~HasPeer(u, i) THEN u
     ELSE IF IsConnected(u.m_Peers[i]) THEN [u EXCEPT !.handed[i] = Append(@, m)]
     ELSE [u EXCEPT !.m_Peers[i].delayedMessages = Append(@, m)]

HandleRequestComplete(t, i, found) ==
  IF ~HasPeer(t, i) THEN t
  ELSE IF found THEN ConnectToPeer([t EXCEPT !.m_Peers[i].router = TRUE], i)
  ELSE ErasePeer(t, i)

HandleNTCPResolve(t, i, found) ==
  IF ~HasPeer(t, i) THEN t
  ELSE IF found /\ t.m_Peers[i].router THEN NewTransportSession(t, i, "NTCP")
  ELSE ErasePeer(t, i)

\* Mutant: the delayed messages are kept after they are sent.
PeerConnectedKeeps(t, s) ==
  LET i == t.sessions[s].ident
      u == IF HasPeer(t, i) THEN t ELSE InsertPeer(t, i, NewPeer(FALSE))
  IN [u EXCEPT !.m_Peers[i].sessions = AddSession(@, s),
               !.handed[i] = @ \o u.m_Peers[i].delayedMessages]

PeerConnected(t, s) ==
  LET i == t.sessions[s].ident
      u == IF HasPeer(t, i) THEN t ELSE InsertPeer(t, i, NewPeer(FALSE))
  IN [u EXCEPT !.m_Peers[i].sessions = AddSession(@, s),
               !.handed[i] = @ \o u.m_Peers[i].delayedMessages,
               !.m_Peers[i].delayedMessages = <<>>]

PeerDisconnected(t, s) ==
  LET i == t.sessions[s].ident
      u == [t EXCEPT !.m_Peers[i].sessions = RemoveSession(@, s)]
  IN IF ~HasPeer(t, i) THEN t
     ELSE IF IsConnected(u.m_Peers[i]) THEN u
     ELSE IF u.m_Peers[i].delayedMessages # <<>> THEN ConnectToPeer(u, i)
     ELSE ErasePeer(u, i)

\* The session ends, whatever the reason, and says so.
Ends(t, s) ==
  [t EXCEPT !.sessions[s].state = "down",
            !.m_Service = Append(@, [kind |-> "disconnected", session |-> s])]

\* SSU only: an NTCP session is left alone.
PostCloseSession(t, i) ==
  LET ssu == {s \in DOMAIN t.sessions : t.sessions[s].ident = i /\ t.sessions[s].style = "SSU"
                                        /\ t.sessions[s].state # "down"}
  IN IF ssu = {} THEN t ELSE Ends(t, CHOOSE s \in ssu : TRUE)

\* SSU sessions, for a peer test, with routers netdb picks: the ones among them
\* that have a SSU address and no session yet, in any order.
FreshForTest(t) ==
  {i \in DOMAIN t.case.routers : t.case.routers[i].ssu /\ ~HasSSUSession(t, i)}

DetectExternalIP(t, fresh) ==
  [t EXCEPT !.m_Status = "Testing",
            !.sessions = @ \o [n \in DOMAIN fresh |-> NewSessionWith(fresh[n], "SSU")]]

\* Peers without a session that are old are dropped.
HandlePeerCleanupTimer(t, old, fresh) ==
  LET u == [t EXCEPT !.m_Peers = Restrict(@, {i \in DOMAIN @ : IsConnected(@[i])} \cup
                                             (DOMAIN @ \ old))]
  IN IF u.m_Status = "Testing" THEN DetectExternalIP(u, fresh) ELSE u
-----------------------------------------------------------------------------
(***************************************************************************)
(* Steps: the next job, and those who post jobs.                           *)
(***************************************************************************)
RunJob ==
  /\ transports.m_Service # <<>>
  /\ LET j == Head(transports.m_Service)
         t == [transports EXCEPT !.m_Service = Tail(@)]
     IN \/ j.kind = "post" /\ transports' = PostMessages(t, j.ident, j.msg)
        \/ j.kind = "requested" /\ transports' = HandleRequestComplete(t, j.ident, j.found)
        \/ j.kind = "resolved" /\ transports' = HandleNTCPResolve(t, j.ident, j.found)
        \/ j.kind = "connected" /\ transports' = PeerConnected(t, j.session)
        \/ j.kind = "disconnected" /\ transports' = PeerDisconnected(t, j.session)
        \/ j.kind = "close" /\ transports' = PostCloseSession(t, j.ident)
        \/ /\ j.kind = "cleanup"
           /\ \E old \in SUBSET DOMAIN t.m_Peers, len \in 0 .. MaxPeerTests :
              \E fresh \in Injection(1 .. len, FreshForTest(t)) :
                transports' = HandlePeerCleanupTimer(t, old, fresh)

PostJob(t, j) ==
  /\ Len(t.m_Service) < MaxJobs
  /\ transports' = [t EXCEPT !.m_Service = Append(@, j)]

SendMessageTo ==
  /\ transports.posted < Len(transports.case.posts)
  /\ LET n == transports.posted + 1
     IN PostJob([transports EXCEPT !.posted = n],
                [kind |-> "post", ident |-> transports.case.posts[n], msg |-> n])

\* netdb calls back with the router or without; so does the resolver.
RequestComplete(i, found) ==
  /\ i \in transports.requests
  /\ PostJob([transports EXCEPT !.requests = @ \ {i}],
             [kind |-> "requested", ident |-> i, found |-> found])

Resolved(i, found) ==
  /\ i \in transports.resolves
  /\ PostJob([transports EXCEPT !.resolves = @ \ {i}],
             [kind |-> "resolved", ident |-> i, found |-> found])

Incoming(i, style) ==
  /\ <<i, style>> \in transports.incoming
  /\ transports' = NewTransportSession([transports EXCEPT !.incoming = @ \ {<<i, style>>}],
                                       i, style)

SessionUp(s) ==
  /\ transports.sessions[s].state = "connecting"
  /\ PostJob([transports EXCEPT !.sessions[s].state = "up"], [kind |-> "connected", session |-> s])

SessionDown(s) ==
  /\ transports.sessions[s].state # "down" /\ Len(transports.m_Service) < MaxJobs
  /\ transports' = Ends(transports, s)

CloseSession(i) ==
  /\ \E s \in Range(transports.sessions) : s.ident = i /\ s.style = "SSU" /\ s.state = "up"
  /\ \A j \in Range(transports.m_Service) : j.kind # "close"
  /\ PostJob(transports, [kind |-> "close", ident |-> i])

PeerCleanupTimerExpires ==
  /\ transports.cleanups > 0
  /\ PostJob([transports EXCEPT !.cleanups = @ - 1], [kind |-> "cleanup"])

\* A peer test ends well, before the timer that would repeat it.
TestDone ==
  /\ transports.m_Status = "Testing" /\ transports.cleanups > 0
  /\ transports' = [transports EXCEPT !.m_Status = "OK"]

TransportsNext ==
  \/ RunJob \/ SendMessageTo \/ PeerCleanupTimerExpires \/ TestDone
  \/ \E i \in DOMAIN transports.case.routers :
       \/ \E found \in BOOLEAN : RequestComplete(i, found) \/ Resolved(i, found)
       \/ \E style \in {"NTCP", "SSU"} : Incoming(i, style)
       \/ CloseSession(i)
  \/ \E s \in DOMAIN transports.sessions : SessionUp(s) \/ SessionDown(s)

TransportsSpec == TransportsInit /\ [][TransportsNext]_transportVars
-----------------------------------------------------------------------------
TransportsTypeOK ==
  /\ transports.posted \in 0 .. Len(transports.case.posts)
  /\ transports.requests \cup transports.resolves \cup DOMAIN transports.m_Peers
       \subseteq DOMAIN transports.case.routers
  /\ \A i \in DOMAIN transports.m_Peers :
       /\ transports.m_Peers[i].numAttempts \in 0 .. 2
       /\ DOMAIN transports.m_Peers[i].sessions \subseteq DOMAIN transports.sessions

\* Messages to a peer are given to its sessions in the order they were posted and
\* none of them twice, through attempts that fail, sessions that come and go,
\* incoming ones, and peers that are dropped and made again.
HandedInOrder ==
  \A i \in DOMAIN transports.handed :
    LET h == transports.handed[i] IN
    \A a, b \in DOMAIN h : a < b => h[a] < h[b]

\* No message waits for a connection to a peer that has one.
DelayedHasNoSession ==
  \A i \in DOMAIN transports.m_Peers :
    LET p == transports.m_Peers[i] IN IsConnected(p) => p.delayedMessages = <<>>

\* A session that messages may be given to is one of that peer which has come up
\* and is still up, or whose end is already queued; no session is listed twice.
ListedSessionIsUp ==
  \A i \in DOMAIN transports.m_Peers :
    LET b == transports.m_Peers[i].sessions IN
    \A s \in DOMAIN b :
         /\ b[s] = 1 /\ transports.sessions[s].ident = i
         /\ \/ transports.sessions[s].state = "up"
            \/ [kind |-> "disconnected", session |-> s] \in Range(transports.m_Service)

\* Messages reach a peer in order through sessions that are up, and wait only as
\* long as there is none.
TransportsSafe ==
  /\ TransportsTypeOK
  /\ HandedInOrder
  /\ DelayedHasNoSession
  /\ ListedSessionIsUp
=============================================================================
