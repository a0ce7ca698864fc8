-------------------------- MODULE TransportsProofs --------------------------
(***************************************************************************)
(* Proofs about modules Transports and NTCPSession.  Transports, for any   *)
(* routers, messages, incoming connections and bounds: messages are handed *)
(* over in order, none waits while its peer is connected, and a listed     *)
(* session is up or its end is already queued.                             *)
(*                                                                         *)
(* The argument.  Messages are numbered as they are posted and the jobs of *)
(* m_Service run in order.  Hence there is a number, low, between what was *)
(* handed over or waits at a peer and what is still in the queue (Ordered).*)
(* Each session is announced by one job and withdrawn by a later one       *)
(* (Announced, Withdrawn): between the two it is listed, at its own peer   *)
(* and once (PeerListed).  NTCPSession is the second part.                 *)
(***************************************************************************)
EXTENDS Transports, NTCPSession, SequenceTheorems, WellFoundedInduction, TLAPS

PartialFunctions(S, T) == UNION {[D -> T] : D \in SUBSET S}

Routers(k) == DOMAIN k.routers
Idents(k)  == Routers(k) \cup {TransportSelf}

PeerRecord ==
  [numAttempts : 0 .. 2, router : BOOLEAN, sessions : PartialFunctions(Nat, Nat),
   delayedMessages : Seq(Nat)]

SessionRecord(k) ==
  [ident : Routers(k), style : {"NTCP", "SSU"}, state : {"connecting", "up", "down"}]

Job(k) ==
  [kind : {"post"}, ident : Idents(k), msg : Nat]
    \cup [kind : {"requested", "resolved"}, ident : Routers(k), found : BOOLEAN]
    \cup [kind : {"connected", "disconnected"}, session : Nat]
    \cup [kind : {"close"}, ident : Routers(k)]
    \cup [kind : {"cleanup"}]

TransportRecord(k) ==
  [m_Peers : PartialFunctions(Routers(k), PeerRecord), sessions : Seq(SessionRecord(k)),
   m_Service : Seq(Job(k)), requests : SUBSET Routers(k), resolves : SUBSET Routers(k),
   posted : Nat, incoming : SUBSET (Routers(k) \X {"NTCP", "SSU"}), cleanups : Nat,
   m_Status : {"Testing", "OK"}, case : {k}, handed : [Idents(k) -> Seq(Nat)]]

Typed(t) ==
  /\ t.case \in TransportCases
  /\ t \in TransportRecord(t.case)
  /\ t.posted <= Len(t.case.posts)

-----------------------------------------------------------------------------
(***************************************************************************)
(* The order of messages.                                                  *)
(***************************************************************************)
Increasing(q) == \A a, b \in DOMAIN q : a < b => q[a] < q[b]
UpTo(q, n)    == \A a \in DOMAIN q : q[a] <= n
Apart(q, r)   == \A a \in DOMAIN q, b \in DOMAIN r : q[a] < r[b]

PeerOrdered(t, i, low) ==
  LET d == t.m_Peers[i].delayedMessages IN
  /\ Increasing(d) /\ UpTo(d, low) /\ Apart(t.handed[i], d)
  /\ IsConnected(t.m_Peers[i]) \/ i = TransportSelf => d = <<>>

\* Messages in the queue are in order and beyond low.
QueueOrdered(q, low, high) ==
  /\ \A a \in DOMAIN q : q[a].kind = "post" => low < q[a].msg /\ q[a].msg <= high
  /\ \A a, b \in DOMAIN q :
       a < b /\ q[a].kind = "post" /\ q[b].kind = "post" => q[a].msg < q[b].msg

Ordered(t, low) ==
  /\ low <= t.posted
  /\ \A i \in DOMAIN t.handed : Increasing(t.handed[i]) /\ UpTo(t.handed[i], low)
  /\ \A i \in DOMAIN t.m_Peers : PeerOrdered(t, i, low)
  /\ QueueOrdered(t.m_Service, low, t.posted)
-----------------------------------------------------------------------------
(***************************************************************************)
(* Sessions.                                                               *)
(***************************************************************************)
SaysUp(q, a, s)   == q[a].kind = "connected" /\ q[a].session = s
SaysDown(q, a, s) == q[a].kind = "disconnected" /\ q[a].session = s

PeerListed(t, i) ==
  LET b == t.m_Peers[i].sessions IN
  \A s \in DOMAIN b :
    /\ b[s] = 1
    /\ s \in DOMAIN t.sessions /\ t.sessions[s].ident = i
    /\ \/ t.sessions[s].state = "up"
       \/ /\ t.sessions[s].state = "down"
          /\ \E a \in DOMAIN t.m_Service : SaysDown(t.m_Service, a, s)

NotListed(t, s) == \A i \in DOMAIN t.m_Peers : s \notin DOMAIN t.m_Peers[i].sessions

\* The job at a announces a session that is up, or whose end is queued behind it.
Announced(t, a) ==
  LET s == t.m_Service[a].session IN
  t.m_Service[a].kind = "connected" =>
    /\ s \in DOMAIN t.sessions /\ NotListed(t, s)
    /\ \/ t.sessions[s].state = "up"
       \/ /\ t.sessions[s].state = "down"
          /\ \E b \in DOMAIN t.m_Service : a < b /\ SaysDown(t.m_Service, b, s)
    /\ \A b \in DOMAIN t.m_Service : SaysUp(t.m_Service, b, s) => a = b

Withdrawn(t, a) ==
  t.m_Service[a].kind = "disconnected" => t.m_Service[a].session \in DOMAIN t.sessions

SessionsOK(t) ==
  /\ \A i \in DOMAIN t.m_Peers : PeerListed(t, i)
  /\ \A a \in DOMAIN t.m_Service : Announced(t, a) /\ Withdrawn(t, a)

Sound(t, low) == low \in Nat /\ Typed(t) /\ Ordered(t, low) /\ SessionsOK(t)

\* The inductive invariant.
IInv == \E low \in Nat : Sound(transports, low)
-----------------------------------------------------------------------------
(***************************************************************************)
(* Sequences of numbers.                                                   *)
(***************************************************************************)
LEMMA AppendOne ==
  ASSUME NEW S, NEW q \in Seq(S), NEW x \in S
  PROVE  /\ Append(q, x) \in Seq(S) /\ Len(Append(q, x)) = Len(q) + 1
         /\ DOMAIN Append(q, x) = DOMAIN q \cup {Len(q) + 1}
         /\ \A a \in DOMAIN q : Append(q, x)[a] = q[a]
         /\ Append(q, x)[Len(q) + 1] = x
OBVIOUS

LEMMA RestOf ==
  ASSUME NEW S, NEW q \in Seq(S), q # <<>>
  PROVE  /\ Head(q) \in S /\ Head(q) = q[1] /\ 1 \in DOMAIN q
         /\ Tail(q) \in Seq(S)
         /\ \A a \in DOMAIN Tail(q) : a + 1 \in DOMAIN q /\ a >= 1 /\ Tail(q)[a] = q[a + 1]
         /\ \A a \in DOMAIN q : a # 1 => a - 1 \in DOMAIN Tail(q) /\ Tail(q)[a - 1] = q[a]
OBVIOUS

LEMMA AppendIncreasing ==
  ASSUME NEW q \in Seq(Nat), NEW low \in Nat, NEW m \in Nat,
         Increasing(q), UpTo(q, low), low < m
  PROVE  Append(q, m) \in Seq(Nat) /\ Increasing(Append(q, m)) /\ UpTo(Append(q, m), m)
<1>1. \A a \in DOMAIN q : q[a] \in Nat /\ q[a] < m /\ a \in Nat BY DEF UpTo
<1> QED BY <1>1, AppendOne DEF Increasing, UpTo

LEMMA ConcatIncreasing ==
  ASSUME NEW h \in Seq(Nat), NEW d \in Seq(Nat), NEW low \in Nat,
         Increasing(h), Increasing(d), Apart(h, d), UpTo(h, low), UpTo(d, low)
  PROVE  h \o d \in Seq(Nat) /\ Increasing(h \o d) /\ UpTo(h \o d, low)
<1>1. /\ h \o d \in Seq(Nat) /\ DOMAIN (h \o d) = 1 .. Len(h) + Len(d)
      /\ \A a \in DOMAIN (h \o d) :
           \/ a \in DOMAIN h /\ (h \o d)[a] = h[a]
           \/ a > Len(h) /\ a - Len(h) \in DOMAIN d /\ (h \o d)[a] = d[a - Len(h)]
  OBVIOUS
<1>2. UpTo(h \o d, low) BY <1>1 DEF UpTo
<1>3. Increasing(h \o d)
  <2> SUFFICES ASSUME NEW a \in DOMAIN (h \o d), NEW b \in DOMAIN (h \o d), a < b
               PROVE  (h \o d)[a] < (h \o d)[b]
    BY DEF Increasing
  <2>1. CASE a \in DOMAIN h /\ (h \o d)[a] = h[a] BY <2>1, <1>1 DEF Increasing, Apart
  <2>2. CASE a > Len(h) /\ a - Len(h) \in DOMAIN d /\ (h \o d)[a] = d[a - Len(h)]
    <3>1. b > Len(h) /\ b \notin DOMAIN h BY <2>2, <1>1
    <3>2. b - Len(h) \in DOMAIN d /\ (h \o d)[b] = d[b - Len(h)] /\ a - Len(h) < b - Len(h)
      BY <3>1, <2>2, <1>1
    <3> QED BY <3>2, <2>2 DEF Increasing
  <2> QED BY <2>1, <2>2, <1>1
<1> QED BY <1>1, <1>2, <1>3
-----------------------------------------------------------------------------
(***************************************************************************)
(* What leaves messages, jobs and listed sessions alone: peers that go,    *)
(* new ones without sessions and messages, attempts, new sessions.         *)
(***************************************************************************)
SamePeer(t, u, i) ==
  /\ i \in DOMAIN t.m_Peers
  /\ u.m_Peers[i].sessions = t.m_Peers[i].sessions
  /\ u.m_Peers[i].delayedMessages = t.m_Peers[i].delayedMessages

FreshPeer(u, i) == DOMAIN u.m_Peers[i].sessions = {} /\ u.m_Peers[i].delayedMessages = <<>>

Quiet(t, u) ==
  /\ Typed(u) /\ u.case = t.case
  /\ u.handed = t.handed /\ u.m_Service = t.m_Service /\ u.posted = t.posted
  /\ \A s \in DOMAIN t.sessions : s \in DOMAIN u.sessions /\ u.sessions[s] = t.sessions[s]
  /\ \A i \in DOMAIN u.m_Peers : SamePeer(t, u, i) \/ FreshPeer(u, i)

LEMMA QuietReflexive == ASSUME NEW t, Typed(t) PROVE Quiet(t, t)
BY DEF Quiet, SamePeer

LEMMA QuietTransitive ==
  ASSUME NEW t, NEW u, NEW v, Quiet(t, u), Quiet(u, v)
  PROVE  Quiet(t, v)
BY DEF Quiet, SamePeer, FreshPeer

LEMMA QuietKeepsOrder ==
  ASSUME NEW t, NEW u, NEW low, Quiet(t, u), Ordered(t, low)
  PROVE  Ordered(u, low)
<1>1. ASSUME NEW i \in DOMAIN u.m_Peers PROVE PeerOrdered(u, i, low)
  <2>1. CASE SamePeer(t, u, i)
    BY <2>1 DEF Quiet, SamePeer, Ordered, PeerOrdered, IsConnected
  <2>2. CASE FreshPeer(u, i)
    BY <2>2 DEF FreshPeer, PeerOrdered, Increasing, UpTo, Apart
  <2> QED BY <2>1, <2>2 DEF Quiet
<1> QED BY <1>1 DEF Quiet, Ordered

LEMMA QuietKeepsSessions ==
  ASSUME NEW t, NEW u, Quiet(t, u), SessionsOK(t)
  PROVE  SessionsOK(u)
<1>1. ASSUME NEW i \in DOMAIN u.m_Peers PROVE PeerListed(u, i)
  BY DEF Quiet, SamePeer, FreshPeer, SessionsOK, PeerListed
<1>2. ASSUME NEW a \in DOMAIN u.m_Service PROVE Announced(u, a)
  <2> SUFFICES ASSUME u.m_Service[a].kind = "connected" PROVE Announced(u, a) BY DEF Announced
  <2>1. Announced(t, a) BY DEF Quiet, SessionsOK
  <2>2. NotListed(u, u.m_Service[a].session)
    BY <2>1 DEF Quiet, Announced, NotListed, SamePeer, FreshPeer
  <2> QED BY <2>1, <2>2 DEF Quiet, Announced
<1>3. ASSUME NEW a \in DOMAIN u.m_Service PROVE Withdrawn(u, a)
  BY DEF Quiet, SessionsOK, Withdrawn
<1> QED BY <1>1, <1>2, <1>3 DEF SessionsOK
-----------------------------------------------------------------------------
(***************************************************************************)
(* Types.                                                                  *)
(***************************************************************************)
LEMMA Fields ==
  ASSUME NEW t, Typed(t)
  PROVE  /\ t.case \in TransportCases
         /\ t.m_Peers \in PartialFunctions(Routers(t.case), PeerRecord)
         /\ DOMAIN t.m_Peers \subseteq Routers(t.case)
         /\ \A i \in DOMAIN t.m_Peers : t.m_Peers[i] \in PeerRecord
         /\ t.sessions \in Seq(SessionRecord(t.case))
         /\ \A s \in DOMAIN t.sessions : t.sessions[s] \in SessionRecord(t.case) /\ s \in Nat
         /\ t.m_Service \in Seq(Job(t.case))
         /\ t.requests \subseteq Routers(t.case) /\ t.resolves \subseteq Routers(t.case)
         /\ t.posted \in Nat
         /\ t.handed \in [Idents(t.case) -> Seq(Nat)]
         /\ t.m_Status \in {"Testing", "OK"}
         /\ t.cleanups \in Nat /\ t.incoming \subseteq Routers(t.case) \X {"NTCP", "SSU"}
<1>1. t \in TransportRecord(t.case) BY DEF Typed
<1>2. t.m_Peers \in PartialFunctions(Routers(t.case), PeerRecord) BY <1>1 DEF TransportRecord
<1>3. /\ DOMAIN t.m_Peers \subseteq Routers(t.case)
      /\ \A i \in DOMAIN t.m_Peers : t.m_Peers[i] \in PeerRecord
  BY <1>2 DEF PartialFunctions
<1> QED BY <1>1, <1>2, <1>3 DEF TransportRecord, Typed

LEMMA PeersTyped ==
  ASSUME NEW t, Typed(t), NEW f, DOMAIN f \subseteq Routers(t.case),
         f = [i \in DOMAIN f |-> f[i]], \A i \in DOMAIN f : f[i] \in PeerRecord
  PROVE  Typed([t EXCEPT !.m_Peers = f])
<1>1. f \in PartialFunctions(Routers(t.case), PeerRecord) BY DEF PartialFunctions
<1> QED BY <1>1 DEF Typed, TransportRecord

LEMMA PeerFields ==
  ASSUME NEW p \in PeerRecord
  PROVE  /\ p.numAttempts \in 0 .. 2 /\ p.router \in BOOLEAN /\ p.delayedMessages \in Seq(Nat)
         /\ p.sessions \in PartialFunctions(Nat, Nat)
         /\ DOMAIN p.sessions \subseteq Nat
         /\ p.sessions = [s \in DOMAIN p.sessions |-> p.sessions[s]]
         /\ \A s \in DOMAIN p.sessions : p.sessions[s] \in Nat
BY DEF PeerRecord, PartialFunctions

LEMMA NewPeerTyped ==
  ASSUME NEW known \in BOOLEAN
  PROVE  /\ NewPeer(known) \in PeerRecord
         /\ DOMAIN NewPeer(known).sessions = {} /\ NewPeer(known).delayedMessages = <<>>
<1>1. <<>> \in PartialFunctions(Nat, Nat)
  <2>1. <<>> \in [{} -> Nat] OBVIOUS
  <2> QED BY <2>1 DEF PartialFunctions
<1> QED BY <1>1 DEF NewPeer, PeerRecord
-----------------------------------------------------------------------------
(***************************************************************************)
(* The functions that leave messages and listed sessions alone.            *)
(***************************************************************************)
LEMMA NewSessionQuiet ==
  ASSUME NEW t, Typed(t), NEW i \in Routers(t.case), NEW style \in {"NTCP", "SSU"}
  PROVE  Quiet(t, NewTransportSession(t, i, style))
<1> DEFINE n == NewSessionWith(i, style)
           u == NewTransportSession(t, i, style)
<1>1. n \in SessionRecord(t.case) BY DEF NewSessionWith, SessionRecord
<1>2. u = [t EXCEPT !.sessions = Append(t.sessions, n)] BY DEF NewTransportSession
<1>3. /\ Append(t.sessions, n) \in Seq(SessionRecord(t.case))
      /\ \A s \in DOMAIN t.sessions : s \in DOMAIN Append(t.sessions, n)
                                      /\ Append(t.sessions, n)[s] = t.sessions[s]
  <2> HIDE DEF n
  <2> QED BY <1>1, Fields, AppendOne
<1> HIDE DEF n
<1>4. Typed(u) /\ u.case = t.case /\ u.sessions = Append(t.sessions, n)
  BY <1>2, <1>3 DEF Typed, TransportRecord
<1> QED BY <1>2, <1>3, <1>4 DEF Quiet, SamePeer, Typed, TransportRecord

LEMMA GetSSUQuiet ==
  ASSUME NEW t, Typed(t), NEW i \in Routers(t.case)
  PROVE  Quiet(t, GetSSUSession(t, i))
BY NewSessionQuiet, QuietReflexive DEF GetSSUSession

LEMMA EraseQuiet ==
  ASSUME NEW t, Typed(t), NEW D, D \subseteq DOMAIN t.m_Peers
  PROVE  Quiet(t, [t EXCEPT !.m_Peers = Restrict(@, D)])
<1> DEFINE f == Restrict(t.m_Peers, D)
           u == [t EXCEPT !.m_Peers = f]
<1>1. DOMAIN f = D /\ \A i \in D : f[i] = t.m_Peers[i] BY DEF Restrict
<1>2. f = [i \in DOMAIN f |-> f[i]] BY DEF Restrict
<1> HIDE DEF f
<1>3. Typed(u) BY <1>1, <1>2, Fields, PeersTyped
<1>4. /\ u.case = t.case /\ u.handed = t.handed /\ u.m_Service = t.m_Service
      /\ u.posted = t.posted /\ u.sessions = t.sessions /\ u.m_Peers = f
  BY DEF Typed, TransportRecord
<1>5. Quiet(t, u) BY <1>1, <1>3, <1>4 DEF Quiet, SamePeer
<1> QED BY <1>5 DEF f

LEMMA InsertQuiet ==
  ASSUME NEW t, Typed(t), NEW i \in Routers(t.case), NEW known \in BOOLEAN
  PROVE  /\ Quiet(t, InsertPeer(t, i, NewPeer(known)))
         /\ i \in DOMAIN InsertPeer(t, i, NewPeer(known)).m_Peers
         /\ InsertPeer(t, i, NewPeer(known)).m_Peers[i] = NewPeer(known)
<1> DEFINE p == NewPeer(known)
           f == [j \in DOMAIN t.m_Peers \cup {i} |-> IF j = i THEN p ELSE t.m_Peers[j]]
           u == [t EXCEPT !.m_Peers = f]
<1>1. p \in PeerRecord /\ DOMAIN p.sessions = {} /\ p.delayedMessages = <<>> BY NewPeerTyped
<1> HIDE DEF p
<1>2. /\ DOMAIN f = DOMAIN t.m_Peers \cup {i} /\ f[i] = p
      /\ \A j \in DOMAIN f : j # i => f[j] = t.m_Peers[j]
      /\ f = [j \in DOMAIN f |-> f[j]]
  OBVIOUS
<1> HIDE DEF f
<1>3. Typed(u) BY <1>1, <1>2, Fields, PeersTyped
<1>4. /\ u.case = t.case /\ u.handed = t.handed /\ u.m_Service = t.m_Service
      /\ u.posted = t.posted /\ u.sessions = t.sessions /\ u.m_Peers = f
  BY DEF Typed, TransportRecord
<1>5. \A j \in DOMAIN f : SamePeer(t, u, j) \/ FreshPeer(u, j)
  BY <1>1, <1>2, <1>4 DEF SamePeer, FreshPeer
<1>6. Quiet(t, u) BY <1>3, <1>4, <1>5 DEF Quiet
<1>7. InsertPeer(t, i, NewPeer(known)) = u BY DEF InsertPeer, p, f
<1> QED BY <1>2, <1>4, <1>6, <1>7 DEF p

LEMMA PeerEditQuiet ==
  ASSUME NEW t, Typed(t), NEW i \in DOMAIN t.m_Peers, NEW p \in PeerRecord,
         p.sessions = t.m_Peers[i].sessions, p.delayedMessages = t.m_Peers[i].delayedMessages
  PROVE  Quiet(t, [t EXCEPT !.m_Peers[i] = p])
<1> DEFINE f == [t.m_Peers EXCEPT ![i] = p]
           u == [t EXCEPT !.m_Peers = f]
<1>1. t.m_Peers = [j \in DOMAIN t.m_Peers |-> t.m_Peers[j]] BY Fields DEF PartialFunctions
<1>2. /\ DOMAIN f = DOMAIN t.m_Peers /\ f[i] = p
      /\ \A j \in DOMAIN f : j # i => f[j] = t.m_Peers[j]
      /\ f = [j \in DOMAIN f |-> f[j]]
  BY <1>1
<1>3. [t EXCEPT !.m_Peers[i] = p] = u OBVIOUS
<1> HIDE DEF f
<1>4. Typed(u) BY <1>2, Fields, PeersTyped
<1>5. /\ u.case = t.case /\ u.handed = t.handed /\ u.m_Service = t.m_Service
      /\ u.posted = t.posted /\ u.sessions = t.sessions /\ u.m_Peers = f
  BY DEF Typed, TransportRecord
<1>6. \A j \in DOMAIN f : SamePeer(t, u, j) BY <1>2, <1>5 DEF SamePeer
<1>7. Quiet(t, u) BY <1>4, <1>5, <1>6 DEF Quiet
<1> QED BY <1>3, <1>7

LEMMA AskedQuiet ==
  ASSUME NEW t, Typed(t), NEW i \in Routers(t.case)
  PROVE  /\ Quiet(t, [t EXCEPT !.requests = @ \cup {i}])
         /\ Quiet(t, [t EXCEPT !.resolves = @ \cup {i}])
<1>1. t.requests \cup {i} \subseteq Routers(t.case) /\ t.resolves \cup {i} \subseteq Routers(t.case)
  BY Fields
<1>2. Typed([t EXCEPT !.requests = @ \cup {i}]) /\ Typed([t EXCEPT !.resolves = @ \cup {i}])
  BY <1>1 DEF Typed, TransportRecord
<1> QED BY <1>2 DEF Quiet, SamePeer, Typed, TransportRecord

LEMMA ConnectQuiet ==
  ASSUME NEW t, Typed(t), NEW i \in DOMAIN t.m_Peers
  PROVE  Quiet(t, ConnectToPeer(t, i))
<1> DEFINE p == t.m_Peers[i]
           q == [p EXCEPT !.numAttempts = @ + 1]
           u == [t EXCEPT !.m_Peers[i] = q]
<1>1. i \in Routers(t.case) /\ p \in PeerRecord BY Fields
<1>2. [t EXCEPT !.m_Peers[i].numAttempts = @ + 1] = u OBVIOUS
<1>3. p.numAttempts \in {0, 1} => Quiet(t, u)
  <2> SUFFICES ASSUME p.numAttempts \in {0, 1} PROVE Quiet(t, u) OBVIOUS
  <2>1. q \in PeerRecord /\ q.sessions = p.sessions /\ q.delayedMessages = p.delayedMessages
    BY <1>1 DEF PeerRecord
  <2> HIDE DEF q
  <2> QED BY <2>1, PeerEditQuiet
<1>4. CASE ConnectToPeer(t, i) = [t EXCEPT !.requests = @ \cup {i}] BY <1>1, <1>4, AskedQuiet
<1>5. CASE p.numAttempts = 0 /\ ConnectToPeer(t, i) = NewTransportSession(u, i, "NTCP")
  <2>1. Quiet(t, u) BY <1>3, <1>5
  <2>2. Typed(u) /\ u.case = t.case BY <2>1 DEF Quiet
  <2> HIDE DEF u
  <2> QED BY <1>1, <1>5, <2>1, <2>2, NewSessionQuiet, QuietTransitive
<1>6. CASE p.numAttempts = 0 /\ ConnectToPeer(t, i) = [u EXCEPT !.resolves = @ \cup {i}]
  <2>1. Quiet(t, u) BY <1>3, <1>6
  <2>2. Typed(u) /\ u.case = t.case BY <2>1 DEF Quiet
  <2> HIDE DEF u
  <2> QED BY <1>1, <1>6, <2>1, <2>2, AskedQuiet, QuietTransitive
<1>7. CASE p.numAttempts = 1 /\ ConnectToPeer(t, i) = GetSSUSession(u, i)
  <2>1. Quiet(t, u) BY <1>3, <1>7
  <2>2. Typed(u) /\ u.case = t.case BY <2>1 DEF Quiet
  <2> HIDE DEF u
  <2> QED BY <1>1, <1>7, <2>1, <2>2, GetSSUQuiet, QuietTransitive
<1>8. CASE ConnectToPeer(t, i) = ErasePeer(t, i) BY <1>8, EraseQuiet DEF ErasePeer
<1> QED BY <1>2, <1>4, <1>5, <1>6, <1>7, <1>8 DEF ConnectToPeer

\* The peers that stay after a cleanup, and the sessions of a peer test.
LEMMA DetectQuiet ==
  ASSUME NEW t, Typed(t), NEW n \in Nat, NEW fresh \in [1 .. n -> Routers(t.case)]
  PROVE  Quiet(t, DetectExternalIP(t, fresh))
<1> DEFINE more == [k \in DOMAIN fresh |-> NewSessionWith(fresh[k], "SSU")]
           all  == t.sessions \o more
           u    == DetectExternalIP(t, fresh)
<1>1. more \in Seq(SessionRecord(t.case))
  <2>1. \A k \in 1 .. n : NewSessionWith(fresh[k], "SSU") \in SessionRecord(t.case)
    BY DEF NewSessionWith, SessionRecord
  <2>2. more \in [1 .. n -> SessionRecord(t.case)] BY <2>1
  <2> QED BY <2>2
<1>2. u = [[t EXCEPT !.sessions = all] EXCEPT !.m_Status = "Testing"] BY DEF DetectExternalIP
<1> HIDE DEF more
<1>3. /\ all \in Seq(SessionRecord(t.case))
      /\ \A s \in DOMAIN t.sessions : s \in DOMAIN all /\ all[s] = t.sessions[s]
  BY <1>1, Fields
<1> HIDE DEF all
<1>4. Typed(u) /\ u.case = t.case /\ u.sessions = all
  BY <1>2, <1>3 DEF Typed, TransportRecord
<1> QED BY <1>2, <1>3, <1>4 DEF Quiet, SamePeer, Typed, TransportRecord

LEMMA CleanupQuiet ==
  ASSUME NEW t, Typed(t), NEW old, NEW n \in Nat,
         NEW fresh \in Injection(1 .. n, FreshForTest(t))
  PROVE  Quiet(t, HandlePeerCleanupTimer(t, old, fresh))
<1> DEFINE D == {i \in DOMAIN t.m_Peers : IsConnected(t.m_Peers[i])} \cup (DOMAIN t.m_Peers \ old)
           u == [t EXCEPT !.m_Peers = Restrict(@, D)]
<1>1. Quiet(t, u) BY EraseQuiet
<1>2. fresh \in [1 .. n -> Routers(t.case)]
  BY DEF Injection, FreshForTest, Routers
<1>3. Typed(u) /\ u.case = t.case BY <1>1 DEF Quiet
<1>4. HandlePeerCleanupTimer(t, old, fresh)
        = IF u.m_Status = "Testing" THEN DetectExternalIP(u, fresh) ELSE u
  BY DEF HandlePeerCleanupTimer
<1> HIDE DEF u
<1>5. Quiet(u, DetectExternalIP(u, fresh)) BY <1>2, <1>3, DetectQuiet
<1> QED BY <1>1, <1>4, <1>5, QuietTransitive

LEMMA QuietSound ==
  ASSUME NEW t, NEW u, NEW low, Sound(t, low), Quiet(t, u)
  PROVE  Sound(u, low)
BY QuietKeepsOrder, QuietKeepsSessions DEF Sound, Quiet
-----------------------------------------------------------------------------
(***************************************************************************)
(* Messages are posted.                                                    *)
(***************************************************************************)
\* Message m, which is beyond low and before everything in the queue.
Following(t, low, m) ==
  m \in Nat /\ low < m /\ m <= t.posted /\ QueueOrdered(t.m_Service, m, t.posted)

LEMMA RaiseLow ==
  ASSUME NEW t, NEW low, NEW m, Sound(t, low), Following(t, low, m)
  PROVE  Sound(t, m)
<1>1. \A i \in DOMAIN t.handed : t.handed[i] \in Seq(Nat) BY Fields DEF Sound
<1>2. \A i \in DOMAIN t.m_Peers : t.m_Peers[i].delayedMessages \in Seq(Nat)
  BY Fields, PeerFields DEF Sound
<1>3. ASSUME NEW q \in Seq(Nat), UpTo(q, low) PROVE UpTo(q, m)
  <2>1. \A a \in DOMAIN q : q[a] \in Nat OBVIOUS
  <2> QED BY <1>3, <2>1 DEF UpTo, Following, Sound
<1>4. ASSUME NEW i \in DOMAIN t.m_Peers PROVE PeerOrdered(t, i, m)
  BY <1>2, <1>3 DEF Sound, Ordered, PeerOrdered
<1> QED BY <1>1, <1>3, <1>4 DEF Sound, Ordered, Following

LEMMA SessionsFrame ==
  ASSUME NEW t, NEW u, SessionsOK(t), u.m_Service = t.m_Service, u.sessions = t.sessions,
         DOMAIN u.m_Peers = DOMAIN t.m_Peers,
         \A i \in DOMAIN t.m_Peers : u.m_Peers[i].sessions = t.m_Peers[i].sessions
  PROVE  SessionsOK(u)
<1>1. \A i \in DOMAIN u.m_Peers : PeerListed(u, i) BY DEF SessionsOK, PeerListed
<1>2. \A a \in DOMAIN u.m_Service : Announced(u, a)
  BY DEF SessionsOK, Announced, NotListed
<1>3. \A a \in DOMAIN u.m_Service : Withdrawn(u, a) BY DEF SessionsOK, Withdrawn
<1> QED BY <1>1, <1>2, <1>3 DEF SessionsOK

LEMMA HandSound ==
  ASSUME NEW t, NEW low, NEW m, Sound(t, low), Following(t, low, m), NEW i \in Idents(t.case),
         i \in DOMAIN t.m_Peers => t.m_Peers[i].delayedMessages = <<>>
  PROVE  Sound([t EXCEPT !.handed[i] = Append(@, m)], m)
<1> DEFINE u == [t EXCEPT !.handed[i] = Append(@, m)]
           h == Append(t.handed[i], m)
<1>1. Typed(t) /\ t.handed \in [Idents(t.case) -> Seq(Nat)] /\ low \in Nat /\ m \in Nat
  BY Fields DEF Sound, Following
<1>2. h \in Seq(Nat) /\ Increasing(h) /\ UpTo(h, m)
  <2>1. t.handed[i] \in Seq(Nat) /\ Increasing(t.handed[i]) /\ UpTo(t.handed[i], low)
    BY <1>1 DEF Sound, Ordered
  <2> QED BY <1>1, <2>1, AppendIncreasing DEF Following
<1> HIDE DEF h
<1>3. u = [t EXCEPT !.handed = [t.handed EXCEPT ![i] = h]] BY DEF h
<1>4. /\ [t.handed EXCEPT ![i] = h] \in [Idents(t.case) -> Seq(Nat)]
      /\ [t.handed EXCEPT ![i] = h][i] = h
      /\ \A j \in Idents(t.case) : j # i => [t.handed EXCEPT ![i] = h][j] = t.handed[j]
  BY <1>1, <1>2
<1> DEFINE g == [t.handed EXCEPT ![i] = h]
<1> HIDE DEF g
<1>5. /\ Typed(u) /\ u.case = t.case /\ u.handed = g /\ u.m_Peers = t.m_Peers
      /\ u.m_Service = t.m_Service /\ u.posted = t.posted /\ u.sessions = t.sessions
  BY <1>1, <1>3, <1>4 DEF g, Typed, TransportRecord
<1>6. Sound(t, m) BY RaiseLow
<1> HIDE DEF u
<1>7. \A j \in DOMAIN u.handed : Increasing(u.handed[j]) /\ UpTo(u.handed[j], m)
  BY <1>1, <1>2, <1>4, <1>5, <1>6 DEF g, Sound, Ordered
<1>8. ASSUME NEW j \in DOMAIN u.m_Peers PROVE PeerOrdered(u, j, m)
  <2>1. PeerOrdered(t, j, m) BY <1>5, <1>6 DEF Sound, Ordered
  <2>2. j \in Idents(t.case) BY <1>1, <1>5, Fields DEF Idents
  <2>3. CASE j = i BY <2>1, <2>3, <1>5 DEF PeerOrdered, Apart, IsConnected
  <2>4. CASE j # i
    <3>1. u.handed[j] = t.handed[j] BY <2>2, <2>4, <1>4, <1>5 DEF g
    <3> QED BY <2>1, <3>1, <1>5 DEF PeerOrdered
  <2> QED BY <2>3, <2>4
<1>9. Ordered(u, m) BY <1>5, <1>6, <1>7, <1>8 DEF Sound, Ordered
<1>10. SessionsOK(u) BY <1>5, SessionsFrame DEF Sound
<1>11. Sound(u, m) BY <1>1, <1>5, <1>9, <1>10 DEF Sound
<1> QED BY <1>11 DEF u

LEMMA DelaySound ==
  ASSUME NEW t, NEW low, NEW m, Sound(t, low), Following(t, low, m), NEW i \in DOMAIN t.m_Peers,
         i # TransportSelf, ~IsConnected(t.m_Peers[i])
  PROVE  Sound([t EXCEPT !.m_Peers[i].delayedMessages = Append(@, m)], m)
<1> DEFINE p == t.m_Peers[i]
           d == Append(p.delayedMessages, m)
           q == [p EXCEPT !.delayedMessages = d]
           f == [t.m_Peers EXCEPT ![i] = q]
           u == [t EXCEPT !.m_Peers = f]
<1>1. /\ Typed(t) /\ low \in Nat /\ m \in Nat /\ p \in PeerRecord
      /\ p.delayedMessages \in Seq(Nat) /\ PeerOrdered(t, i, low)
      /\ i \in Idents(t.case) /\ t.handed[i] \in Seq(Nat) /\ UpTo(t.handed[i], low)
      /\ t.m_Peers = [j \in DOMAIN t.m_Peers |-> t.m_Peers[j]]
  BY Fields, PeerFields DEF Sound, Following, Ordered, Idents, PartialFunctions
<1>2. d \in Seq(Nat) /\ Increasing(d) /\ UpTo(d, m)
  BY <1>1, AppendIncreasing DEF PeerOrdered, Following
<1>3. Apart(t.handed[i], d)
  <2>1. \A a \in DOMAIN t.handed[i] : t.handed[i][a] \in Nat /\ t.handed[i][a] < m
    BY <1>1 DEF UpTo, Following
  <2>2. Apart(t.handed[i], p.delayedMessages) BY <1>1 DEF PeerOrdered
  <2>3. /\ DOMAIN d = DOMAIN p.delayedMessages \cup {Len(p.delayedMessages) + 1}
        /\ \A a \in DOMAIN p.delayedMessages : d[a] = p.delayedMessages[a]
        /\ d[Len(p.delayedMessages) + 1] = m
    <3> DEFINE o == p.delayedMessages
    <3>1. o \in Seq(Nat) BY <1>1
    <3> HIDE DEF o
    <3>2. /\ DOMAIN Append(o, m) = DOMAIN o \cup {Len(o) + 1}
          /\ \A a \in DOMAIN o : Append(o, m)[a] = o[a]
          /\ Append(o, m)[Len(o) + 1] = m
      BY <1>1, <3>1, AppendOne
    <3> QED BY <3>2 DEF o
  <2> HIDE DEF d
  <2> QED BY <2>1, <2>2, <2>3 DEF Apart
<1>4. [t EXCEPT !.m_Peers[i].delayedMessages = Append(@, m)] = u OBVIOUS
<1> HIDE DEF d
<1>5. q \in PeerRecord /\ q.sessions = p.sessions /\ q.delayedMessages = d
  BY <1>1, <1>2 DEF PeerRecord
<1> HIDE DEF q
<1>6. /\ DOMAIN f = DOMAIN t.m_Peers /\ f[i] = q
      /\ \A j \in DOMAIN f : j # i => f[j] = t.m_Peers[j]
      /\ f = [j \in DOMAIN f |-> f[j]]
  BY <1>1
<1> HIDE DEF f
<1>7. Typed(u)
  <2>1. \A j \in DOMAIN f : f[j] \in PeerRecord BY <1>1, <1>5, <1>6, Fields
  <2>2. DOMAIN f \subseteq Routers(t.case) BY <1>1, <1>6, Fields
  <2> QED BY <1>1, <1>6, <2>1, <2>2, PeersTyped
<1>8. /\ u.case = t.case /\ u.handed = t.handed /\ u.m_Service = t.m_Service
      /\ u.posted = t.posted /\ u.sessions = t.sessions /\ u.m_Peers = f
  BY <1>1 DEF Typed, TransportRecord
<1> HIDE DEF u
<1>9. Sound(t, m) BY RaiseLow
<1>10. ASSUME NEW j \in DOMAIN u.m_Peers PROVE PeerOrdered(u, j, m)
  <2>1. CASE j = i
    BY <2>1, <1>2, <1>3, <1>5, <1>6, <1>8 DEF PeerOrdered, IsConnected
  <2>2. CASE j # i
    <3>1. PeerOrdered(t, j, m) BY <1>6, <1>8, <1>9 DEF Sound, Ordered
    <3> QED BY <3>1, <2>2, <1>6, <1>8 DEF PeerOrdered
  <2> QED BY <2>1, <2>2
<1>11. Ordered(u, m) BY <1>8, <1>9, <1>10 DEF Sound, Ordered
<1>12. SessionsOK(u)
  <2>1. \A j \in DOMAIN t.m_Peers : u.m_Peers[j].sessions = t.m_Peers[j].sessions
    BY <1>5, <1>6, <1>8
  <2> QED BY <2>1, <1>6, <1>8, SessionsFrame DEF Sound
<1>13. Sound(u, m) BY <1>1, <1>7, <1>11, <1>12 DEF Sound
<1> QED BY <1>4, <1>13

LEMMA PostMessagesSound ==
  ASSUME NEW t, NEW low, NEW m, Sound(t, low), Following(t, low, m), NEW i \in Idents(t.case)
  PROVE  Sound(PostMessages(t, i, m), m)
<1> DEFINE u == IF HasPeer(t, i) THEN t
                ELSE ConnectToPeer(InsertPeer(t, i, NewPeer(t.case.routers[i].known)), i)
<1>1. CASE i = TransportSelf
  <2>1. i \in DOMAIN t.m_Peers => t.m_Peers[i].delayedMessages = <<>>
    BY <1>1 DEF Sound, Ordered, PeerOrdered
  <2>2. PostMessages(t, i, m) = [t EXCEPT !.handed[i] = Append(@, m)] BY <1>1 DEF PostMessages
  <2> QED BY <2>1, <2>2, HandSound
<1>2. CASE i # TransportSelf
  <2>1. i \in Routers(t.case) /\ Typed(t) /\ t.case.routers[i].known \in BOOLEAN
    BY <1>2, TransportsAssumption DEF Idents, Routers, Sound, Typed
  <2>2. Quiet(t, u)
    <3>1. CASE HasPeer(t, i) BY <2>1, <3>1, QuietReflexive
    <3>2. CASE ~HasPeer(t, i)
      <4> DEFINE v == InsertPeer(t, i, NewPeer(t.case.routers[i].known))
      <4>1. Quiet(t, v) /\ i \in DOMAIN v.m_Peers BY <2>1, InsertQuiet
      <4>2. Typed(v) BY <4>1 DEF Quiet
      <4> HIDE DEF v
      <4>3. Quiet(v, ConnectToPeer(v, i)) BY <4>1, <4>2, ConnectQuiet
      <4> QED BY <3>2, <4>1, <4>3, QuietTransitive DEF v
    <3> QED BY <3>1, <3>2
  <2>3. PostMessages(t, i, m) =
          IF i \notin DOMAIN u.m_Peers THEN u
          ELSE IF IsConnected(u.m_Peers[i]) THEN [u EXCEPT !.handed[i] = Append(@, m)]
          ELSE [u EXCEPT !.m_Peers[i].delayedMessages = Append(@, m)]
    BY <1>2 DEF PostMessages, HasPeer
  <2> HIDE DEF u
  <2>4. Sound(u, low) /\ Following(u, low, m) /\ u.case = t.case
    BY <2>2, QuietSound DEF Following, Quiet
  <2>5. CASE i \notin DOMAIN u.m_Peers BY <2>3, <2>4, <2>5, RaiseLow
  <2>6. CASE i \in DOMAIN u.m_Peers /\ IsConnected(u.m_Peers[i])
    <3>1. u.m_Peers[i].delayedMessages = <<>> BY <2>4, <2>6 DEF Sound, Ordered, PeerOrdered
    <3>2. i \in Idents(u.case) BY <2>4
    <3>3. Sound([u EXCEPT !.handed[i] = Append(@, m)], m) BY <2>4, <3>1, <3>2, HandSound
    <3> QED BY <2>3, <2>6, <3>3
  <2>7. CASE i \in DOMAIN u.m_Peers /\ ~IsConnected(u.m_Peers[i])
    BY <1>2, <2>3, <2>4, <2>7, DelaySound
  <2> QED BY <2>5, <2>6, <2>7
<1> QED BY <1>1, <1>2
-----------------------------------------------------------------------------
(***************************************************************************)
(* Sessions come and go.                                                   *)
(***************************************************************************)
\* Session s has come up and no other job of the queue will say so.
Arrived(t, s) ==
  /\ s \in DOMAIN t.sessions /\ NotListed(t, s)
  /\ \/ t.sessions[s].state = "up"
     \/ /\ t.sessions[s].state = "down"
        /\ \E b \in DOMAIN t.m_Service : SaysDown(t.m_Service, b, s)
  /\ \A b \in DOMAIN t.m_Service : ~SaysUp(t.m_Service, b, s)

LEMMA QuietArrived ==
  ASSUME NEW t, NEW u, Quiet(t, u), NEW s, Arrived(t, s)
  PROVE  Arrived(u, s)
<1>1. NotListed(u, s) BY DEF Quiet, SamePeer, FreshPeer, Arrived, NotListed
<1> QED BY <1>1 DEF Quiet, Arrived

\* The messages that waited at a peer are handed over when a session is listed.
WithSession(t, i, s) ==
  [t EXCEPT !.m_Peers[i].sessions = AddSession(@, s),
            !.handed[i] = @ \o t.m_Peers[i].delayedMessages,
            !.m_Peers[i].delayedMessages = <<>>]

LEMMA ConnectedSound ==
  ASSUME NEW t, NEW low, NEW s, Sound(t, low), Arrived(t, s), NEW i, i = t.sessions[s].ident,
         i \in DOMAIN t.m_Peers
  PROVE  Sound(WithSession(t, i, s), low)
<1> DEFINE p == t.m_Peers[i]
           b == AddSession(p.sessions, s)
           q == [p EXCEPT !.sessions = b, !.delayedMessages = <<>>]
           f == [t.m_Peers EXCEPT ![i] = q]
           h == t.handed[i] \o p.delayedMessages
           g == [t.handed EXCEPT ![i] = h]
           v == [t EXCEPT !.m_Peers = f]
           u == [v EXCEPT !.handed = g]
<1>1. /\ Typed(t) /\ low \in Nat /\ p \in PeerRecord /\ p.delayedMessages \in Seq(Nat)
      /\ PeerOrdered(t, i, low) /\ i \in Idents(t.case)
      /\ t.handed[i] \in Seq(Nat) /\ UpTo(t.handed[i], low) /\ Increasing(t.handed[i])
      /\ t.m_Peers = [j \in DOMAIN t.m_Peers |-> t.m_Peers[j]]
      /\ t.handed \in [Idents(t.case) -> Seq(Nat)] /\ s \in Nat
  BY Fields, PeerFields DEF Sound, Ordered, Idents, PartialFunctions, Arrived
<1>2. h \in Seq(Nat) /\ Increasing(h) /\ UpTo(h, low)
  BY <1>1, ConcatIncreasing DEF PeerOrdered
<1>3. /\ b \in PartialFunctions(Nat, Nat) /\ DOMAIN b = DOMAIN p.sessions \cup {s} /\ b[s] = 1
      /\ \A x \in DOMAIN p.sessions : b[x] = p.sessions[x]
  <2>1. s \notin DOMAIN p.sessions BY DEF Arrived, NotListed
  <2>2. /\ DOMAIN p.sessions \subseteq Nat
        /\ \A x \in DOMAIN p.sessions : p.sessions[x] \in Nat
    BY <1>1, PeerFields
  <2>3. b = [x \in DOMAIN p.sessions \cup {s} |-> IF x = s THEN 1 ELSE p.sessions[x]]
    BY <2>1 DEF AddSession
  <2> HIDE DEF b
  <2>4. DOMAIN p.sessions \cup {s} \subseteq Nat BY <1>1, <2>2
  <2>5. b \in [DOMAIN p.sessions \cup {s} -> Nat] BY <2>2, <2>3
  <2> QED BY <2>1, <2>3, <2>4, <2>5 DEF PartialFunctions
<1>4. WithSession(t, i, s) = u BY DEF WithSession
<1> HIDE DEF b, h
<1>5. q \in PeerRecord /\ q.sessions = b /\ q.delayedMessages = <<>>
  <2>1. [p EXCEPT !.sessions = b] \in PeerRecord BY <1>1, <1>3 DEF PeerRecord
  <2>2. q = [[p EXCEPT !.sessions = b] EXCEPT !.delayedMessages = <<>>] /\ <<>> \in Seq(Nat)
    OBVIOUS
  <2>3. q \in PeerRecord BY <2>1, <2>2 DEF PeerRecord
  <2> QED BY <1>1, <2>3 DEF PeerRecord
<1> HIDE DEF q
<1>6. /\ DOMAIN f = DOMAIN t.m_Peers /\ f[i] = q
      /\ \A j \in DOMAIN f : j # i => f[j] = t.m_Peers[j]
      /\ f = [j \in DOMAIN f |-> f[j]]
  BY <1>1
<1>7. /\ g \in [Idents(t.case) -> Seq(Nat)] /\ g[i] = h
      /\ \A j \in Idents(t.case) : j # i => g[j] = t.handed[j]
  BY <1>1, <1>2
<1> HIDE DEF f, g
<1>8. Typed(v) /\ v.case = t.case
  <2>1. \A j \in DOMAIN f : f[j] \in PeerRecord BY <1>1, <1>5, <1>6, Fields
  <2>2. DOMAIN f \subseteq Routers(t.case) BY <1>1, <1>6, Fields
  <2> QED BY <1>1, <1>6, <2>1, <2>2, PeersTyped DEF Typed, TransportRecord
<1>9. /\ v.m_Service = t.m_Service /\ v.posted = t.posted /\ v.sessions = t.sessions
      /\ v.m_Peers = f
  BY <1>1 DEF Typed, TransportRecord
<1> HIDE DEF v
<1>10. /\ Typed(u) /\ u.handed = g /\ u.m_Service = t.m_Service
       /\ u.posted = t.posted /\ u.sessions = t.sessions /\ u.m_Peers = f
  BY <1>7, <1>8, <1>9 DEF Typed, TransportRecord
<1> HIDE DEF u
<1>11. ASSUME NEW j \in DOMAIN u.m_Peers PROVE PeerOrdered(u, j, low)
  <2>1. CASE j = i
    BY <2>1, <1>5, <1>6, <1>10 DEF PeerOrdered, Increasing, UpTo, Apart
  <2>2. CASE j # i
    <3>1. PeerOrdered(t, j, low) BY <1>6, <1>10 DEF Sound, Ordered
    <3>2. j \in Idents(t.case) BY <1>1, <1>6, <1>10, Fields DEF Idents
    <3> QED BY <3>1, <3>2, <2>2, <1>6, <1>7, <1>10 DEF PeerOrdered
  <2> QED BY <2>1, <2>2
<1>12. Ordered(u, low)
  <2>1. \A j \in DOMAIN u.handed : Increasing(u.handed[j]) /\ UpTo(u.handed[j], low)
    BY <1>1, <1>2, <1>7, <1>10 DEF Sound, Ordered
  <2> QED BY <1>10, <1>11, <2>1 DEF Sound, Ordered
<1>13. ASSUME NEW j \in DOMAIN u.m_Peers PROVE PeerListed(u, j)
  <2>1. PeerListed(t, j) BY <1>6, <1>10 DEF Sound, SessionsOK
  <2>2. CASE j = i
    BY <2>1, <2>2, <1>3, <1>5, <1>6, <1>10 DEF PeerListed, Arrived
  <2>3. CASE j # i
    BY <2>1, <2>3, <1>6, <1>10 DEF PeerListed
  <2> QED BY <2>2, <2>3
<1>14. ASSUME NEW a \in DOMAIN u.m_Service PROVE Announced(u, a) /\ Withdrawn(u, a)
  <2>1. Announced(t, a) /\ Withdrawn(t, a) BY <1>10 DEF Sound, SessionsOK
  <2>2. SUFFICES ASSUME u.m_Service[a].kind = "connected" PROVE Announced(u, a)
    BY <2>1, <1>10 DEF Announced, Withdrawn
  <2>3. u.m_Service[a].session # s BY <2>2, <1>10 DEF Arrived, SaysUp
  <2>4. NotListed(u, u.m_Service[a].session)
    BY <2>1, <2>2, <2>3, <1>3, <1>5, <1>6, <1>10 DEF Announced, NotListed
  <2> QED BY <2>1, <2>4, <1>10 DEF Announced
<1>15. Sound(u, low) BY <1>1, <1>10, <1>12, <1>13, <1>14 DEF Sound, SessionsOK
<1> QED BY <1>4, <1>15

LEMMA PeerConnectedSound ==
  ASSUME NEW t, NEW low, NEW s, Sound(t, low), Arrived(t, s)
  PROVE  Sound(PeerConnected(t, s), low)
<1> DEFINE i == t.sessions[s].ident
           u == IF HasPeer(t, i) THEN t ELSE InsertPeer(t, i, NewPeer(FALSE))
<1>1. i \in Routers(t.case) /\ Typed(t) BY Fields DEF Sound, Arrived, SessionRecord
<1>2. Quiet(t, u) /\ i \in DOMAIN u.m_Peers
  BY <1>1, InsertQuiet, QuietReflexive DEF HasPeer
<1>3. PeerConnected(t, s) = WithSession(u, i, s) BY DEF PeerConnected, WithSession
<1>4. u.sessions[s].ident = i BY <1>2 DEF Quiet, Arrived
<1> HIDE DEF i, u
<1>5. Sound(u, low) /\ Arrived(u, s) BY <1>2, QuietSound, QuietArrived
<1> QED BY <1>2, <1>3, <1>4, <1>5, ConnectedSound

\* The sessions are right but for s, which is listed at its own peer if at all.
SoundBut(t, s) ==
  /\ \A i \in DOMAIN t.m_Peers : \A x \in DOMAIN t.m_Peers[i].sessions :
       /\ t.m_Peers[i].sessions[x] = 1
       /\ x \in DOMAIN t.sessions /\ t.sessions[x].ident = i
       /\ \/ x = s
          \/ t.sessions[x].state = "up"
          \/ /\ t.sessions[x].state = "down"
             /\ \E a \in DOMAIN t.m_Service : SaysDown(t.m_Service, a, x)
  /\ \A a \in DOMAIN t.m_Service : Announced(t, a) /\ Withdrawn(t, a)

LEMMA RemovedSound ==
  ASSUME NEW t, NEW low, NEW s, low \in Nat, Typed(t), Ordered(t, low), SoundBut(t, s),
         NEW i \in DOMAIN t.m_Peers, i = t.sessions[s].ident
  PROVE  Sound([t EXCEPT !.m_Peers[i].sessions = RemoveSession(@, s)], low)
<1> DEFINE p == t.m_Peers[i]
           b == RemoveSession(p.sessions, s)
           q == [p EXCEPT !.sessions = b]
           f == [t.m_Peers EXCEPT ![i] = q]
           u == [t EXCEPT !.m_Peers = f]
<1>1. /\ p \in PeerRecord /\ PeerOrdered(t, i, low)
      /\ t.m_Peers = [j \in DOMAIN t.m_Peers |-> t.m_Peers[j]]
  BY Fields DEF Ordered, PartialFunctions
<1>2. /\ DOMAIN b = DOMAIN p.sessions \ {s} /\ \A x \in DOMAIN b : b[x] = p.sessions[x]
      /\ b = [x \in DOMAIN b |-> b[x]]
  BY DEF RemoveSession, Restrict
<1>3. [t EXCEPT !.m_Peers[i].sessions = RemoveSession(@, s)] = u OBVIOUS
<1> HIDE DEF b
<1>4. b \in PartialFunctions(Nat, Nat)
  <2>1. \A x \in DOMAIN b : x \in Nat /\ b[x] \in Nat BY <1>1, <1>2, PeerFields
  <2>2. DOMAIN b \subseteq Nat /\ b \in [DOMAIN b -> Nat] BY <1>2, <2>1
  <2> QED BY <2>2 DEF PartialFunctions
<1>5. q \in PeerRecord /\ q.sessions = b /\ q.delayedMessages = p.delayedMessages
  BY <1>1, <1>4 DEF PeerRecord
<1> HIDE DEF q
<1>6. /\ DOMAIN f = DOMAIN t.m_Peers /\ f[i] = q
      /\ \A j \in DOMAIN f : j # i => f[j] = t.m_Peers[j]
      /\ f = [j \in DOMAIN f |-> f[j]]
  BY <1>1
<1> HIDE DEF f
<1>7. Typed(u)
  <2>1. \A j \in DOMAIN f : f[j] \in PeerRecord BY <1>5, <1>6, Fields
  <2>2. DOMAIN f \subseteq Routers(t.case) BY <1>6, Fields
  <2> QED BY <1>6, <2>1, <2>2, PeersTyped
<1>8. /\ u.case = t.case /\ u.handed = t.handed /\ u.m_Service = t.m_Service
      /\ u.posted = t.posted /\ u.sessions = t.sessions /\ u.m_Peers = f
  BY DEF Typed, TransportRecord
<1> HIDE DEF u
<1>9. ASSUME NEW j \in DOMAIN u.m_Peers PROVE PeerOrdered(u, j, low)
  <2>1. PeerOrdered(t, j, low) BY <1>6, <1>8 DEF Ordered
  <2>2. CASE j = i
    <3>1. IsConnected(u.m_Peers[i]) => IsConnected(t.m_Peers[i])
      BY <1>2, <1>5, <1>6, <1>8 DEF IsConnected
    <3>2. u.m_Peers[i].delayedMessages = t.m_Peers[i].delayedMessages
      BY <1>5, <1>6, <1>8
    <3> QED BY <2>1, <2>2, <3>1, <3>2, <1>8 DEF PeerOrdered
  <2>3. CASE j # i BY <2>1, <2>3, <1>6, <1>8 DEF PeerOrdered
  <2> QED BY <2>2, <2>3
<1>10. Ordered(u, low) BY <1>8, <1>9 DEF Ordered
<1>11. ASSUME NEW j \in DOMAIN u.m_Peers PROVE PeerListed(u, j)
  <2>1. CASE j = i
    <3>1. u.m_Peers[j].sessions = b BY <2>1, <1>5, <1>6, <1>8
    <3>2. \A x \in DOMAIN b : x # s /\ x \in DOMAIN t.m_Peers[j].sessions
                              /\ b[x] = t.m_Peers[j].sessions[x]
      BY <2>1, <1>2
    <3>3. j \in DOMAIN t.m_Peers BY <2>1
    <3> QED BY <3>1, <3>2, <3>3, <1>8 DEF PeerListed, SoundBut
  <2>2. CASE j # i BY <2>2, <1>6, <1>8 DEF PeerListed, SoundBut
  <2> QED BY <2>1, <2>2
<1>12. ASSUME NEW a \in DOMAIN u.m_Service PROVE Announced(u, a) /\ Withdrawn(u, a)
  <2>1. Announced(t, a) /\ Withdrawn(t, a) BY <1>8 DEF SoundBut
  <2>2. SUFFICES ASSUME u.m_Service[a].kind = "connected" PROVE Announced(u, a)
    BY <2>1, <1>8 DEF Announced, Withdrawn
  <2>3. NotListed(u, u.m_Service[a].session)
    <3>1. \A j \in DOMAIN t.m_Peers :
            DOMAIN u.m_Peers[j].sessions \subseteq DOMAIN t.m_Peers[j].sessions
      BY <1>2, <1>5, <1>6, <1>8
    <3> QED BY <2>1, <2>2, <3>1, <1>6, <1>8 DEF Announced, NotListed
  <2> QED BY <2>1, <2>3, <1>8 DEF Announced
<1>13. Sound(u, low) BY <1>7, <1>10, <1>11, <1>12 DEF Sound, SessionsOK
<1> QED BY <1>3, <1>13

LEMMA PeerDisconnectedSound ==
  ASSUME NEW t, NEW low, NEW s, low \in Nat, Typed(t), Ordered(t, low), SoundBut(t, s)
  PROVE  Sound(PeerDisconnected(t, s), low)
<1> DEFINE i == t.sessions[s].ident
           u == [t EXCEPT !.m_Peers[i].sessions = RemoveSession(@, s)]
<1>1. CASE ~HasPeer(t, i)
  <2>1. \A j \in DOMAIN t.m_Peers : s \notin DOMAIN t.m_Peers[j].sessions
    BY <1>1 DEF HasPeer, SoundBut
  <2>2. Sound(t, low) BY <2>1 DEF Sound, SessionsOK, PeerListed, SoundBut
  <2> QED BY <1>1, <2>2 DEF PeerDisconnected
<1>2. CASE HasPeer(t, i)
  <2>1. Sound(u, low) /\ i \in DOMAIN u.m_Peers
    <3>1. i \in DOMAIN t.m_Peers BY <1>2 DEF HasPeer
    <3>2. DOMAIN u.m_Peers = DOMAIN t.m_Peers BY DEF Typed, TransportRecord
    <3> QED BY <3>1, <3>2, RemovedSound
  <2>2. PeerDisconnected(t, s) = IF IsConnected(u.m_Peers[i]) THEN u
                                 ELSE IF u.m_Peers[i].delayedMessages # <<>>
                                 THEN ConnectToPeer(u, i) ELSE ErasePeer(u, i)
    BY <1>2 DEF PeerDisconnected
  <2> HIDE DEF u, i
  <2>3. Quiet(u, ConnectToPeer(u, i)) BY <2>1, ConnectQuiet DEF Sound
  <2>4. Quiet(u, ErasePeer(u, i)) BY <2>1, EraseQuiet DEF Sound, ErasePeer
  <2> QED BY <2>1, <2>2, <2>3, <2>4, QuietSound
<1> QED BY <1>1, <1>2
-----------------------------------------------------------------------------
(***************************************************************************)
(* Jobs are posted.                                                        *)
(***************************************************************************)
WithJob(t, j) == [t EXCEPT !.m_Service = Append(@, j)]

LEMMA WithJobFields ==
  ASSUME NEW t, Typed(t), NEW j \in Job(t.case)
  PROVE  LET u == WithJob(t, j) IN
         /\ Typed(u) /\ u.case = t.case /\ u.handed = t.handed /\ u.m_Peers = t.m_Peers
         /\ u.posted = t.posted /\ u.sessions = t.sessions
         /\ DOMAIN u.m_Service = DOMAIN t.m_Service \cup {Len(t.m_Service) + 1}
         /\ u.m_Service[Len(t.m_Service) + 1] = j
         /\ \A a \in DOMAIN t.m_Service : u.m_Service[a] = t.m_Service[a]
                                          /\ a \in Nat /\ a < Len(t.m_Service) + 1
<1> DEFINE u == WithJob(t, j)
           q == Append(t.m_Service, j)
<1>1. /\ t.m_Service \in Seq(Job(t.case)) /\ \A a \in DOMAIN t.m_Service : a \in Nat
      /\ \A a \in DOMAIN t.m_Service : a < Len(t.m_Service) + 1
  BY Fields
<1>2. /\ q \in Seq(Job(t.case)) /\ DOMAIN q = DOMAIN t.m_Service \cup {Len(t.m_Service) + 1}
      /\ \A a \in DOMAIN t.m_Service : q[a] = t.m_Service[a]
      /\ q[Len(t.m_Service) + 1] = j
  BY <1>1, AppendOne
<1>3. u = [t EXCEPT !.m_Service = q] BY DEF WithJob
<1> HIDE DEF q
<1>4. Typed(u) BY <1>2, <1>3 DEF Typed, TransportRecord
<1>5. /\ u.case = t.case /\ u.handed = t.handed /\ u.m_Peers = t.m_Peers
      /\ u.posted = t.posted /\ u.sessions = t.sessions /\ u.m_Service = q
  BY <1>3 DEF Typed, TransportRecord
<1> QED BY <1>1, <1>2, <1>4, <1>5

LEMMA WithJobOrdered ==
  ASSUME NEW t, NEW low, Typed(t), Ordered(t, low), NEW j \in Job(t.case), j.kind # "post"
  PROVE  Ordered(WithJob(t, j), low)
<1> DEFINE u == WithJob(t, j)
<1>1. /\ u.handed = t.handed /\ u.m_Peers = t.m_Peers /\ u.posted = t.posted
      /\ DOMAIN u.m_Service = DOMAIN t.m_Service \cup {Len(t.m_Service) + 1}
      /\ u.m_Service[Len(t.m_Service) + 1] = j
      /\ \A a \in DOMAIN t.m_Service : u.m_Service[a] = t.m_Service[a]
  BY WithJobFields
<1> HIDE DEF u
<1>2. QueueOrdered(u.m_Service, low, u.posted) BY <1>1 DEF Ordered, QueueOrdered
<1>3. \A i \in DOMAIN u.m_Peers : PeerOrdered(u, i, low) BY <1>1 DEF Ordered, PeerOrdered
<1>4. Ordered(u, low) BY <1>1, <1>2, <1>3 DEF Ordered
<1> QED BY <1>4 DEF u

LEMMA EnqueueSound ==
  ASSUME NEW t, NEW low, Sound(t, low), NEW j \in Job(t.case),
         j.kind \notin {"post", "connected", "disconnected"}
  PROVE  Sound(WithJob(t, j), low)
<1> DEFINE u == WithJob(t, j)
           n == Len(t.m_Service) + 1
<1>1. /\ Typed(u) /\ u.m_Peers = t.m_Peers /\ u.sessions = t.sessions
      /\ DOMAIN u.m_Service = DOMAIN t.m_Service \cup {n} /\ u.m_Service[n] = j
      /\ \A a \in DOMAIN t.m_Service : u.m_Service[a] = t.m_Service[a]
  BY WithJobFields DEF Sound
<1>2. Ordered(u, low) BY WithJobOrdered DEF Sound
<1> HIDE DEF u, n
<1>3. \A i \in DOMAIN u.m_Peers : PeerListed(u, i)
  BY <1>1 DEF Sound, SessionsOK, PeerListed, SaysDown
<1>4. ASSUME NEW a \in DOMAIN u.m_Service PROVE Announced(u, a)
  BY <1>1 DEF Sound, SessionsOK, Announced, NotListed, SaysDown, SaysUp
<1>5. ASSUME NEW a \in DOMAIN u.m_Service PROVE Withdrawn(u, a)
  BY <1>1 DEF Sound, SessionsOK, Withdrawn
<1>6. Sound(u, low) BY <1>1, <1>2, <1>3, <1>4, <1>5 DEF Sound, SessionsOK
<1> QED BY <1>6 DEF u

\* A session changes its state and says so.
WithState(t, s, state) == [t EXCEPT !.sessions[s].state = state]

LEMMA WithStateFields ==
  ASSUME NEW t, NEW low, Typed(t), Ordered(t, low), NEW s \in DOMAIN t.sessions,
         NEW state \in {"up", "down"}
  PROVE  LET v == WithState(t, s, state) IN
         /\ Typed(v) /\ Ordered(v, low) /\ v.case = t.case /\ v.m_Peers = t.m_Peers
         /\ v.m_Service = t.m_Service /\ DOMAIN v.sessions = DOMAIN t.sessions
         /\ v.sessions[s].state = state /\ v.sessions[s].ident = t.sessions[s].ident
         /\ \A x \in DOMAIN t.sessions : x # s => v.sessions[x] = t.sessions[x]
<1> DEFINE v == WithState(t, s, state)
           r == [t.sessions[s] EXCEPT !.state = state]
           f == [t.sessions EXCEPT ![s] = r]
<1>1. t.sessions \in Seq(SessionRecord(t.case)) /\ t.sessions[s] \in SessionRecord(t.case)
  BY Fields
<1>2. r \in SessionRecord(t.case) /\ r.state = state /\ r.ident = t.sessions[s].ident
  BY <1>1 DEF SessionRecord
<1>3. v = [t EXCEPT !.sessions = f] BY DEF WithState
<1> HIDE DEF r
<1>4. /\ f \in Seq(SessionRecord(t.case)) /\ DOMAIN f = DOMAIN t.sessions /\ f[s] = r
      /\ \A x \in DOMAIN t.sessions : x # s => f[x] = t.sessions[x]
  BY <1>1, <1>2
<1> HIDE DEF f
<1>5. Typed(v) BY <1>3, <1>4 DEF Typed, TransportRecord
<1>6. /\ v.case = t.case /\ v.handed = t.handed /\ v.m_Peers = t.m_Peers
      /\ v.posted = t.posted /\ v.sessions = f /\ v.m_Service = t.m_Service
  BY <1>3 DEF Typed, TransportRecord
<1> HIDE DEF v
<1>7. Ordered(v, low) BY <1>6 DEF Ordered, PeerOrdered
<1>8. v.sessions[s].state = state /\ v.sessions[s].ident = t.sessions[s].ident
  BY <1>2, <1>4, <1>6
<1>9. /\ DOMAIN v.sessions = DOMAIN t.sessions
      /\ \A x \in DOMAIN t.sessions : x # s => v.sessions[x] = t.sessions[x]
  BY <1>4, <1>6
<1> QED BY <1>5, <1>6, <1>7, <1>8, <1>9 DEF v

LEMMA EndsSound ==
  ASSUME NEW t, NEW low, Sound(t, low), NEW s \in DOMAIN t.sessions,
         t.sessions[s].state # "down"
  PROVE  Sound(Ends(t, s), low)
<1> DEFINE v == WithState(t, s, "down")
           j == [kind |-> "disconnected", session |-> s]
           u == WithJob(v, j)
           n == Len(v.m_Service) + 1
<1>1. Ends(t, s) = u BY DEF Ends, WithState, WithJob
<1>2. /\ Typed(v) /\ Ordered(v, low) /\ v.m_Peers = t.m_Peers /\ v.case = t.case
      /\ v.m_Service = t.m_Service /\ DOMAIN v.sessions = DOMAIN t.sessions
      /\ v.sessions[s].state = "down" /\ v.sessions[s].ident = t.sessions[s].ident
      /\ \A x \in DOMAIN t.sessions : x # s => v.sessions[x] = t.sessions[x]
  BY WithStateFields DEF Sound
<1>3. j \in Job(v.case) /\ j.kind = "disconnected" /\ j.session = s /\ s \in Nat
  <2>1. s \in Nat BY Fields DEF Sound
  <2> QED BY <2>1 DEF Job
<1> HIDE DEF v, j
<1>4. /\ Typed(u) /\ u.m_Peers = v.m_Peers /\ u.sessions = v.sessions
      /\ DOMAIN u.m_Service = DOMAIN v.m_Service \cup {n} /\ u.m_Service[n] = j
      /\ \A a \in DOMAIN v.m_Service : u.m_Service[a] = v.m_Service[a] /\ a < n
  BY <1>2, <1>3, WithJobFields
<1>5. Ordered(u, low) BY <1>2, <1>3, WithJobOrdered
<1> HIDE DEF u, n
<1>6. n \in DOMAIN u.m_Service /\ SaysDown(u.m_Service, n, s) BY <1>3, <1>4 DEF SaysDown
<1>7. \A a \in DOMAIN t.m_Service : \A x :
        SaysDown(t.m_Service, a, x) => a \in DOMAIN u.m_Service /\ SaysDown(u.m_Service, a, x)
  BY <1>2, <1>4 DEF SaysDown
<1>8. ASSUME NEW i \in DOMAIN u.m_Peers PROVE PeerListed(u, i)
  <2>1. PeerListed(t, i) BY <1>2, <1>4 DEF Sound, SessionsOK
  <2> SUFFICES ASSUME NEW x \in DOMAIN u.m_Peers[i].sessions
               PROVE  /\ u.m_Peers[i].sessions[x] = 1
                      /\ x \in DOMAIN u.sessions /\ u.sessions[x].ident = i
                      /\ \/ u.sessions[x].state = "up"
                         \/ /\ u.sessions[x].state = "down"
                            /\ \E a \in DOMAIN u.m_Service : SaysDown(u.m_Service, a, x)
    BY DEF PeerListed
  <2>2. CASE x = s BY <2>1, <2>2, <1>2, <1>4, <1>6 DEF PeerListed
  <2>3. CASE x # s BY <2>1, <2>3, <1>2, <1>4, <1>7 DEF PeerListed
  <2> QED BY <2>2, <2>3
<1>9. ASSUME NEW a \in DOMAIN u.m_Service PROVE Announced(u, a)
  <2> SUFFICES ASSUME u.m_Service[a].kind = "connected" PROVE Announced(u, a) BY DEF Announced
  <2>1. a \in DOMAIN t.m_Service /\ u.m_Service[a] = t.m_Service[a] /\ a < n
    BY <1>2, <1>3, <1>4
  <2>2. Announced(t, a) BY <2>1 DEF Sound, SessionsOK
  <2> DEFINE x == u.m_Service[a].session
  <2>3. x \in DOMAIN u.sessions /\ NotListed(u, x)
    BY <2>1, <2>2, <1>2, <1>4 DEF Announced, NotListed
  <2>4. \A b \in DOMAIN u.m_Service : SaysUp(u.m_Service, b, x) => a = b
    BY <2>1, <2>2, <1>2, <1>3, <1>4 DEF Announced, SaysUp
  <2>5. \/ u.sessions[x].state = "up"
        \/ /\ u.sessions[x].state = "down"
           /\ \E b \in DOMAIN u.m_Service : a < b /\ SaysDown(u.m_Service, b, x)
    <3>1. CASE x = s BY <3>1, <2>1, <1>2, <1>4, <1>6
    <3>2. CASE x # s BY <3>2, <2>1, <2>2, <1>2, <1>4, <1>7 DEF Announced
    <3> QED BY <3>1, <3>2
  <2> QED BY <2>3, <2>4, <2>5 DEF Announced
<1>10. ASSUME NEW a \in DOMAIN u.m_Service PROVE Withdrawn(u, a)
  BY <1>2, <1>3, <1>4 DEF Sound, SessionsOK, Withdrawn
<1>11. Sound(u, low) BY <1>4, <1>5, <1>8, <1>9, <1>10 DEF Sound, SessionsOK
<1> QED BY <1>1, <1>11

LEMMA ComesUpSound ==
  ASSUME NEW t, NEW low, Sound(t, low), NEW s \in DOMAIN t.sessions,
         t.sessions[s].state = "connecting"
  PROVE  Sound(WithJob(WithState(t, s, "up"), [kind |-> "connected", session |-> s]), low)
<1> DEFINE v == WithState(t, s, "up")
           j == [kind |-> "connected", session |-> s]
           u == WithJob(v, j)
           n == Len(v.m_Service) + 1
<1>1. /\ Typed(v) /\ Ordered(v, low) /\ v.m_Peers = t.m_Peers /\ v.case = t.case
      /\ v.m_Service = t.m_Service /\ DOMAIN v.sessions = DOMAIN t.sessions
      /\ v.sessions[s].state = "up" /\ v.sessions[s].ident = t.sessions[s].ident
      /\ \A x \in DOMAIN t.sessions : x # s => v.sessions[x] = t.sessions[x]
  BY WithStateFields DEF Sound
<1>2. j \in Job(v.case) /\ j.kind = "connected" /\ j.session = s
  <2>1. s \in Nat BY Fields DEF Sound
  <2> QED BY <2>1 DEF Job
<1> HIDE DEF v, j
<1>3. /\ Typed(u) /\ u.m_Peers = v.m_Peers /\ u.sessions = v.sessions
      /\ DOMAIN u.m_Service = DOMAIN v.m_Service \cup {n} /\ u.m_Service[n] = j
      /\ \A a \in DOMAIN v.m_Service : u.m_Service[a] = v.m_Service[a] /\ a < n
  BY <1>1, <1>2, WithJobFields
<1>4. Ordered(u, low) BY <1>1, <1>2, WithJobOrdered
<1> HIDE DEF u, n
<1>5. NotListed(t, s) BY DEF Sound, SessionsOK, PeerListed, NotListed
<1>6. \A b \in DOMAIN t.m_Service : ~SaysUp(t.m_Service, b, s)
  BY DEF Sound, SessionsOK, Announced, SaysUp
<1>7. \A a \in DOMAIN t.m_Service : \A x :
        SaysDown(t.m_Service, a, x) => a \in DOMAIN u.m_Service /\ SaysDown(u.m_Service, a, x)
  BY <1>1, <1>3 DEF SaysDown
<1>8. ASSUME NEW i \in DOMAIN u.m_Peers PROVE PeerListed(u, i)
  <2>1. PeerListed(t, i) /\ s \notin DOMAIN t.m_Peers[i].sessions
    BY <1>1, <1>3, <1>5 DEF Sound, SessionsOK, NotListed
  <2> QED BY <2>1, <1>1, <1>3, <1>7 DEF PeerListed
<1>9. ASSUME NEW a \in DOMAIN u.m_Service PROVE Announced(u, a)
  <2> SUFFICES ASSUME u.m_Service[a].kind = "connected" PROVE Announced(u, a) BY DEF Announced
  <2>1. CASE a = n
    <3>1. u.m_Service[a].session = s /\ NotListed(u, s) /\ u.sessions[s].state = "up"
      BY <2>1, <1>1, <1>2, <1>3, <1>5 DEF NotListed
    <3>2. \A b \in DOMAIN u.m_Service : SaysUp(u.m_Service, b, s) => a = b
      BY <2>1, <1>1, <1>3, <1>6 DEF SaysUp
    <3> QED BY <3>1, <3>2, <1>1, <1>3 DEF Announced
  <2>2. CASE a \in DOMAIN t.m_Service
    <3>1. Announced(t, a) /\ u.m_Service[a] = t.m_Service[a] /\ u.m_Service[a].session # s
      BY <2>2, <1>1, <1>3, <1>6 DEF Sound, SessionsOK, SaysUp
    <3> DEFINE x == u.m_Service[a].session
    <3>2. x \in DOMAIN u.sessions /\ NotListed(u, x)
      BY <3>1, <1>1, <1>3 DEF Announced, NotListed
    <3>3. \A b \in DOMAIN u.m_Service : SaysUp(u.m_Service, b, x) => a = b
      BY <3>1, <1>1, <1>2, <1>3 DEF Announced, SaysUp
    <3>4. \/ u.sessions[x].state = "up"
          \/ /\ u.sessions[x].state = "down"
             /\ \E b \in DOMAIN u.m_Service : a < b /\ SaysDown(u.m_Service, b, x)
      BY <3>1, <1>1, <1>3, <1>7 DEF Announced
    <3> QED BY <3>2, <3>3, <3>4 DEF Announced
  <2> QED BY <2>1, <2>2, <1>1, <1>3
<1>10. ASSUME NEW a \in DOMAIN u.m_Service PROVE Withdrawn(u, a)
  BY <1>1, <1>2, <1>3 DEF Sound, SessionsOK, Withdrawn
<1>11. Sound(u, low) BY <1>3, <1>4, <1>8, <1>9, <1>10 DEF Sound, SessionsOK
<1> QED BY <1>11 DEF u, v, j
-----------------------------------------------------------------------------
(***************************************************************************)
(* The next job.                                                           *)
(***************************************************************************)
Popped(t) == [t EXCEPT !.m_Service = Tail(@)]

LEMMA PoppedFields ==
  ASSUME NEW t, Typed(t), t.m_Service # <<>>
  PROVE  LET u == Popped(t)
             q == t.m_Service
             r == u.m_Service
         IN /\ Typed(u) /\ u.case = t.case /\ u.handed = t.handed /\ u.m_Peers = t.m_Peers
            /\ u.posted = t.posted /\ u.sessions = t.sessions
            /\ Head(q) \in Job(t.case) /\ Head(q) = q[1] /\ 1 \in DOMAIN q
            /\ \A a \in DOMAIN r : a + 1 \in DOMAIN q /\ a \in Nat /\ a >= 1 /\ r[a] = q[a + 1]
            /\ \A a \in DOMAIN q : a # 1 => a - 1 \in DOMAIN r /\ a \in Nat /\ r[a - 1] = q[a]
<1> DEFINE u == Popped(t)
           r == Tail(t.m_Service)
<1>1. t.m_Service \in Seq(Job(t.case)) BY Fields
<1>2. /\ Head(t.m_Service) \in Job(t.case) /\ Head(t.m_Service) = t.m_Service[1]
      /\ 1 \in DOMAIN t.m_Service /\ r \in Seq(Job(t.case))
      /\ \A a \in DOMAIN r : a + 1 \in DOMAIN t.m_Service /\ a >= 1 /\ r[a] = t.m_Service[a + 1]
      /\ \A a \in DOMAIN t.m_Service :
           a # 1 => a - 1 \in DOMAIN r /\ r[a - 1] = t.m_Service[a]
  BY <1>1, RestOf
<1>3. u = [t EXCEPT !.m_Service = r] BY DEF Popped
<1> HIDE DEF r
<1>4. (\A a \in DOMAIN r : a \in Nat) /\ (\A a \in DOMAIN t.m_Service : a \in Nat)
  BY <1>1, <1>2
<1>5. Typed(u) BY <1>2, <1>3 DEF Typed, TransportRecord
<1>6. /\ u.case = t.case /\ u.handed = t.handed /\ u.m_Peers = t.m_Peers
      /\ u.posted = t.posted /\ u.sessions = t.sessions /\ u.m_Service = r
  BY <1>3 DEF Typed, TransportRecord
<1> QED BY <1>2, <1>4, <1>5, <1>6

LEMMA PoppedOrdered ==
  ASSUME NEW t, NEW low, Sound(t, low), t.m_Service # <<>>
  PROVE  /\ Ordered(Popped(t), low)
         /\ Head(t.m_Service).kind = "post" => Following(Popped(t), low, Head(t.m_Service).msg)
<1> DEFINE u == Popped(t)
<1>1. Typed(t) /\ Ordered(t, low) BY DEF Sound
<1>2. /\ u.handed = t.handed /\ u.m_Peers = t.m_Peers /\ u.posted = t.posted
      /\ Head(t.m_Service) \in Job(t.case)
      /\ Head(t.m_Service) = t.m_Service[1] /\ 1 \in DOMAIN t.m_Service
      /\ \A a \in DOMAIN u.m_Service : /\ a + 1 \in DOMAIN t.m_Service /\ a \in Nat /\ a >= 1
                                       /\ u.m_Service[a] = t.m_Service[a + 1]
  BY <1>1, PoppedFields
<1> HIDE DEF u
<1>3. \A a, b \in DOMAIN u.m_Service : a < b => a + 1 < b + 1 BY <1>2
<1>4. QueueOrdered(u.m_Service, low, u.posted)
  BY <1>1, <1>2, <1>3 DEF Ordered, QueueOrdered
<1>5. \A i \in DOMAIN u.m_Peers : PeerOrdered(u, i, low)
  BY <1>1, <1>2 DEF Ordered, PeerOrdered
<1>6. Ordered(u, low) BY <1>1, <1>2, <1>4, <1>5 DEF Ordered
<1>7. ASSUME Head(t.m_Service).kind = "post"
      PROVE  Following(u, low, Head(t.m_Service).msg)
  <2> DEFINE m == Head(t.m_Service).msg
  <2>1. m \in Nat BY <1>2, <1>7 DEF Job
  <2>2. low < m /\ m <= u.posted BY <1>1, <1>2, <1>7 DEF Ordered, QueueOrdered
  <2>3. ASSUME NEW a \in DOMAIN u.m_Service, u.m_Service[a].kind = "post"
        PROVE  m < u.m_Service[a].msg /\ u.m_Service[a].msg <= u.posted
    <3>1. 1 < a + 1 /\ a + 1 \in DOMAIN t.m_Service BY <1>2
    <3> QED BY <3>1, <2>3, <1>1, <1>2, <1>7 DEF Ordered, QueueOrdered
  <2>4. QueueOrdered(u.m_Service, m, u.posted) BY <2>3, <1>4 DEF QueueOrdered
  <2> QED BY <2>1, <2>2, <2>4 DEF Following
<1> QED BY <1>6, <1>7 DEF u

LEMMA PoppedSessions ==
  ASSUME NEW t, NEW low, Sound(t, low), t.m_Service # <<>>
  PROVE  LET j == Head(t.m_Service) IN
         /\ j.kind # "disconnected" => SessionsOK(Popped(t))
         /\ j.kind = "connected" => Arrived(Popped(t), j.session)
         /\ j.kind = "disconnected" => SoundBut(Popped(t), j.session)
<1> DEFINE u == Popped(t)
           j == Head(t.m_Service)
           q == t.m_Service
           r == u.m_Service
<1>1. Typed(t) /\ SessionsOK(t) BY DEF Sound
<1>2. /\ u.m_Peers = t.m_Peers /\ u.sessions = t.sessions
      /\ j = q[1] /\ 1 \in DOMAIN q
      /\ \A a \in DOMAIN r : a + 1 \in DOMAIN q /\ a \in Nat /\ a >= 1 /\ r[a] = q[a + 1]
      /\ \A a \in DOMAIN q : a # 1 => a - 1 \in DOMAIN r /\ a \in Nat /\ r[a - 1] = q[a]
  BY <1>1, PoppedFields
<1> HIDE DEF u, j
<1>3. ASSUME NEW a \in DOMAIN r PROVE Announced(u, a) /\ Withdrawn(u, a)
  <2>1. Announced(t, a + 1) /\ Withdrawn(t, a + 1) /\ r[a] = q[a + 1] BY <1>1, <1>2 DEF SessionsOK
  <2>2. Withdrawn(u, a) BY <2>1, <1>2 DEF Withdrawn
  <2> SUFFICES ASSUME r[a].kind = "connected" PROVE Announced(u, a) BY <2>2 DEF Announced
  <2> DEFINE x == r[a].session
  <2>3. x \in DOMAIN u.sessions /\ NotListed(u, x) BY <2>1, <1>2 DEF Announced, NotListed
  <2>4. ASSUME NEW b \in DOMAIN r, SaysUp(r, b, x) PROVE a = b
    <3>1. b + 1 \in DOMAIN q /\ SaysUp(q, b + 1, x) BY <2>4, <1>2 DEF SaysUp
    <3>2. a + 1 = b + 1 BY <3>1, <2>1 DEF Announced
    <3> QED BY <3>2, <1>2
  <2>5. \/ u.sessions[x].state = "up"
        \/ /\ u.sessions[x].state = "down"
           /\ \E b \in DOMAIN r : a < b /\ SaysDown(r, b, x)
    <3>1. CASE t.sessions[x].state = "up" BY <3>1, <1>2
    <3>2. CASE /\ t.sessions[x].state = "down"
               /\ \E b \in DOMAIN q : a + 1 < b /\ SaysDown(q, b, x)
      <4>1. PICK b \in DOMAIN q : a + 1 < b /\ SaysDown(q, b, x) BY <3>2
      <4>2. b # 1 BY <4>1, <1>2
      <4>3. b - 1 \in DOMAIN r /\ a < b - 1 /\ SaysDown(r, b - 1, x)
        BY <4>1, <4>2, <1>2 DEF SaysDown
      <4> QED BY <4>3, <3>2, <1>2
    <3> QED BY <3>1, <3>2, <2>1 DEF Announced
  <2> QED BY <2>3, <2>4, <2>5 DEF Announced
<1>4. ASSUME NEW i \in DOMAIN u.m_Peers, NEW x \in DOMAIN u.m_Peers[i].sessions
      PROVE  /\ u.m_Peers[i].sessions[x] = 1
             /\ x \in DOMAIN u.sessions /\ u.sessions[x].ident = i
             /\ \/ j.kind = "disconnected" /\ x = j.session
                \/ u.sessions[x].state = "up"
                \/ /\ u.sessions[x].state = "down"
                   /\ \E a \in DOMAIN r : SaysDown(r, a, x)
  <2>1. PeerListed(t, i) BY <1>1, <1>2 DEF SessionsOK
  <2>2. ASSUME NEW b \in DOMAIN q, SaysDown(q, b, x)
        PROVE  \/ j.kind = "disconnected" /\ x = j.session
               \/ \E a \in DOMAIN r : SaysDown(r, a, x)
    <3>1. CASE b = 1 BY <3>1, <2>2, <1>2 DEF SaysDown
    <3>2. CASE b # 1
      <4>1. b - 1 \in DOMAIN r /\ SaysDown(r, b - 1, x) BY <3>2, <2>2, <1>2 DEF SaysDown
      <4> QED BY <4>1
    <3> QED BY <3>1, <3>2
  <2> QED BY <2>1, <2>2, <1>2 DEF PeerListed
<1>5. j.kind # "disconnected" => SessionsOK(u)
  BY <1>3, <1>4 DEF SessionsOK, PeerListed
<1>6. j.kind = "disconnected" => SoundBut(u, j.session)
  BY <1>3, <1>4 DEF SoundBut
<1>7. ASSUME j.kind = "connected" PROVE Arrived(u, j.session)
  <2> DEFINE s == j.session
  <2>1. Announced(t, 1) BY <1>1, <1>2 DEF SessionsOK
  <2>2. s \in DOMAIN u.sessions /\ NotListed(u, s)
    BY <2>1, <1>2, <1>7 DEF Announced, NotListed
  <2>3. ASSUME NEW b \in DOMAIN r PROVE ~SaysUp(r, b, s)
    <3>1. b + 1 \in DOMAIN q /\ b + 1 # 1 /\ r[b] = q[b + 1] BY <1>2
    <3> QED BY <3>1, <2>1, <1>2, <1>7 DEF Announced, SaysUp
  <2>4. \/ u.sessions[s].state = "up"
        \/ /\ u.sessions[s].state = "down"
           /\ \E b \in DOMAIN r : SaysDown(r, b, s)
    <3>1. CASE t.sessions[s].state = "up" BY <3>1, <1>2
    <3>2. CASE /\ t.sessions[s].state = "down"
               /\ \E b \in DOMAIN q : 1 < b /\ SaysDown(q, b, s)
      <4>1. PICK b \in DOMAIN q : 1 < b /\ SaysDown(q, b, s) BY <3>2
      <4>2. b # 1 BY <4>1, <1>2
      <4>3. b - 1 \in DOMAIN r /\ SaysDown(r, b - 1, s) BY <4>1, <4>2, <1>2 DEF SaysDown
      <4> QED BY <4>3, <3>2, <1>2
    <3> QED BY <3>1, <3>2, <2>1, <1>2, <1>7 DEF Announced
  <2> QED BY <2>2, <2>3, <2>4 DEF Arrived
<1> QED BY <1>5, <1>6, <1>7 DEF u, j

LEMMA RequestCompleteSound ==
  ASSUME NEW t, NEW low, Sound(t, low), NEW i \in Routers(t.case), NEW found \in BOOLEAN
  PROVE  Sound(HandleRequestComplete(t, i, found), low)
<1> DEFINE p == [t.m_Peers[i] EXCEPT !.router = TRUE]
           u == [t EXCEPT !.m_Peers[i] = p]
<1>1. Typed(t) BY DEF Sound
<1>2. CASE ~HasPeer(t, i) BY <1>2 DEF HandleRequestComplete
<1>3. CASE HasPeer(t, i) /\ ~found
  BY <1>1, <1>3, EraseQuiet, QuietSound DEF HandleRequestComplete, ErasePeer
<1>4. CASE HasPeer(t, i) /\ found
  <2>1. i \in DOMAIN t.m_Peers /\ t.m_Peers[i] \in PeerRecord BY <1>1, <1>4, Fields DEF HasPeer
  <2>2. /\ p \in PeerRecord /\ p.sessions = t.m_Peers[i].sessions
        /\ p.delayedMessages = t.m_Peers[i].delayedMessages
    BY <2>1 DEF PeerRecord
  <2>3. HandleRequestComplete(t, i, found) = ConnectToPeer(u, i)
    BY <1>4 DEF HandleRequestComplete
  <2>4. DOMAIN u.m_Peers = DOMAIN t.m_Peers BY <1>1 DEF Typed, TransportRecord
  <2> HIDE DEF p
  <2>5. Quiet(t, u) BY <1>1, <2>1, <2>2, PeerEditQuiet
  <2>6. Typed(u) /\ i \in DOMAIN u.m_Peers BY <2>1, <2>4, <2>5 DEF Quiet
  <2> HIDE DEF u
  <2>7. Quiet(t, ConnectToPeer(u, i)) BY <2>5, <2>6, ConnectQuiet, QuietTransitive
  <2> QED BY <2>3, <2>7, QuietSound
<1> QED BY <1>2, <1>3, <1>4

LEMMA ResolvedSound ==
  ASSUME NEW t, NEW low, Sound(t, low), NEW i \in Routers(t.case), NEW found \in BOOLEAN
  PROVE  Sound(HandleNTCPResolve(t, i, found), low)
<1>1. Typed(t) BY DEF Sound
<1>2. Quiet(t, NewTransportSession(t, i, "NTCP")) BY <1>1, NewSessionQuiet
<1>3. Quiet(t, ErasePeer(t, i)) BY <1>1, EraseQuiet DEF ErasePeer
<1> QED BY <1>2, <1>3, QuietSound DEF HandleNTCPResolve

LEMMA PostCloseSound ==
  ASSUME NEW t, NEW low, Sound(t, low), NEW i
  PROVE  Sound(PostCloseSession(t, i), low)
<1> DEFINE ssu == {s \in DOMAIN t.sessions : t.sessions[s].ident = i /\ t.sessions[s].style = "SSU"
                                            /\ t.sessions[s].state # "down"}
           s == CHOOSE x \in ssu : TRUE
<1>1. CASE ssu = {} BY <1>1 DEF PostCloseSession
<1>2. CASE ssu # {}
  <2>1. s \in ssu BY <1>2
  <2>2. PostCloseSession(t, i) = Ends(t, s) BY <1>2 DEF PostCloseSession
  <2>3. s \in DOMAIN t.sessions /\ t.sessions[s].state # "down" BY <2>1
  <2> HIDE DEF s
  <2> QED BY <2>2, <2>3, EndsSound
<1> QED BY <1>1, <1>2

LEMMA RunJobKeeps == ASSUME IInv, RunJob PROVE IInv'
<1> DEFINE j == Head(transports.m_Service)
           t == Popped(transports)
<1>1. PICK low \in Nat : Sound(transports, low) BY DEF IInv
<1>2. transports.m_Service # <<>> /\ Typed(transports) BY <1>1 DEF RunJob, Sound
<1>3. Typed(t) /\ t.case = transports.case /\ j \in Job(t.case)
  BY <1>2, PoppedFields
<1>4. /\ Ordered(t, low)
      /\ j.kind = "post" => Following(t, low, j.msg)
      /\ j.kind # "disconnected" => SessionsOK(t)
      /\ j.kind = "connected" => Arrived(t, j.session)
      /\ j.kind = "disconnected" => SoundBut(t, j.session)
  BY <1>1, <1>2, PoppedOrdered, PoppedSessions
<1>5. \/ j.kind = "post" /\ transports' = PostMessages(t, j.ident, j.msg)
      \/ j.kind = "requested" /\ transports' = HandleRequestComplete(t, j.ident, j.found)
      \/ j.kind = "resolved" /\ transports' = HandleNTCPResolve(t, j.ident, j.found)
      \/ j.kind = "connected" /\ transports' = PeerConnected(t, j.session)
      \/ j.kind = "disconnected" /\ transports' = PeerDisconnected(t, j.session)
      \/ j.kind = "close" /\ transports' = PostCloseSession(t, j.ident)
      \/ /\ j.kind = "cleanup"
         /\ \E old \in SUBSET DOMAIN t.m_Peers, len \in 0 .. MaxPeerTests :
            \E fresh \in Injection(1 .. len, FreshForTest(t)) :
              transports' = HandlePeerCleanupTimer(t, old, fresh)
  BY DEF RunJob, Popped
<1> HIDE DEF t, j
<1>6. j.kind # "disconnected" => Sound(t, low) BY <1>3, <1>4 DEF Sound
<1>7. ASSUME NEW n \in Nat, Sound(transports', n) PROVE IInv' BY <1>7 DEF IInv
<1>8. CASE j.kind = "post" /\ transports' = PostMessages(t, j.ident, j.msg)
  <2>1. j.ident \in Idents(t.case) BY <1>3, <1>8 DEF Job
  <2>2. Sound(transports', j.msg) BY <1>4, <1>6, <1>8, <2>1, PostMessagesSound
  <2> QED BY <1>4, <1>7, <1>8, <2>2 DEF Following
<1>9. CASE j.kind = "requested" /\ transports' = HandleRequestComplete(t, j.ident, j.found)
  <2>1. j.ident \in Routers(t.case) /\ j.found \in BOOLEAN BY <1>3, <1>9 DEF Job
  <2> QED BY <1>6, <1>7, <1>9, <2>1, RequestCompleteSound
<1>10. CASE j.kind = "resolved" /\ transports' = HandleNTCPResolve(t, j.ident, j.found)
  <2>1. j.ident \in Routers(t.case) /\ j.found \in BOOLEAN BY <1>3, <1>10 DEF Job
  <2> QED BY <1>6, <1>7, <1>10, <2>1, ResolvedSound
<1>11. CASE j.kind = "connected" /\ transports' = PeerConnected(t, j.session)
  BY <1>4, <1>6, <1>7, <1>11, PeerConnectedSound
<1>12. CASE j.kind = "disconnected" /\ transports' = PeerDisconnected(t, j.session)
  BY <1>3, <1>4, <1>7, <1>12, PeerDisconnectedSound
<1>13. CASE j.kind = "close" /\ transports' = PostCloseSession(t, j.ident)
  BY <1>6, <1>7, <1>13, PostCloseSound
<1>14. ASSUME j.kind = "cleanup", NEW old, NEW len \in 0 .. MaxPeerTests,
              NEW fresh \in Injection(1 .. len, FreshForTest(t)),
              transports' = HandlePeerCleanupTimer(t, old, fresh)
       PROVE  IInv'
  <2>1. len \in Nat BY TransportsAssumption
  <2>2. Quiet(t, transports') BY <1>3, <1>14, <2>1, CleanupQuiet
  <2> QED BY <1>6, <1>7, <1>14, <2>2, QuietSound
<1> QED BY <1>5, <1>8, <1>9, <1>10, <1>11, <1>12, <1>13, <1>14
-----------------------------------------------------------------------------
(***************************************************************************)
(* Those who post jobs.                                                    *)
(***************************************************************************)
LEMMA SendMessageKeeps == ASSUME IInv, SendMessageTo PROVE IInv'
<1> DEFINE t == transports
           n == t.posted + 1
           j == [kind |-> "post", ident |-> t.case.posts[n], msg |-> n]
           v == [t EXCEPT !.posted = n]
           u == WithJob(v, j)
<1>1. PICK low \in Nat : Sound(t, low) BY DEF IInv
<1>2. Typed(t) /\ t.posted \in Nat /\ t.posted < Len(t.case.posts) BY <1>1, Fields DEF Sound, SendMessageTo
<1>3. transports' = u BY DEF SendMessageTo, PostJob, WithJob
<1>4. t.case.posts[n] \in Idents(t.case) /\ n \in Nat /\ n <= Len(t.case.posts)
  <2>1. t.case \in TransportCases BY <1>2 DEF Typed
  <2>2. t.case.posts \in Seq(Range(t.case.posts)) BY <2>1, TransportsAssumption
  <2>3. n \in DOMAIN t.case.posts
    <3> DEFINE q == t.case.posts
    <3>1. q \in Seq(Range(q)) /\ t.posted < Len(q) BY <1>2, <2>2
    <3> HIDE DEF q
    <3>2. n \in DOMAIN q BY <1>2, <3>1
    <3> QED BY <3>2 DEF q
  <2>4. n \in Nat /\ n <= Len(t.case.posts)
    <3> DEFINE q == t.case.posts
    <3>1. q \in Seq(Range(q)) /\ t.posted < Len(q) BY <1>2, <2>2
    <3> HIDE DEF q
    <3>2. n \in Nat /\ n <= Len(q) BY <1>2, <3>1
    <3> QED BY <3>2 DEF q
  <2> QED BY <2>1, <2>3, <2>4, TransportsAssumption DEF Idents, Routers
<1>5. /\ Typed(v) /\ v.case = t.case /\ v.handed = t.handed /\ v.m_Peers = t.m_Peers
      /\ v.posted = n /\ v.sessions = t.sessions /\ v.m_Service = t.m_Service
  BY <1>2, <1>4 DEF Typed, TransportRecord
<1>6. j \in Job(v.case) /\ j.kind = "post" /\ j.msg = n BY <1>4, <1>5 DEF Job
<1> HIDE DEF v, j
<1>7. /\ Typed(u) /\ u.handed = t.handed /\ u.m_Peers = t.m_Peers
      /\ u.posted = n /\ u.sessions = t.sessions
      /\ DOMAIN u.m_Service = DOMAIN t.m_Service \cup {Len(t.m_Service) + 1}
      /\ u.m_Service[Len(t.m_Service) + 1] = j
      /\ \A a \in DOMAIN t.m_Service : /\ u.m_Service[a] = t.m_Service[a]
                                       /\ a \in Nat /\ a < Len(t.m_Service) + 1
  <2>1. /\ Typed(u) /\ u.handed = v.handed /\ u.m_Peers = v.m_Peers
        /\ u.posted = v.posted /\ u.sessions = v.sessions
        /\ DOMAIN u.m_Service = DOMAIN v.m_Service \cup {Len(v.m_Service) + 1}
        /\ u.m_Service[Len(v.m_Service) + 1] = j
        /\ \A a \in DOMAIN v.m_Service : /\ u.m_Service[a] = v.m_Service[a]
                                         /\ a \in Nat /\ a < Len(v.m_Service) + 1
    BY <1>5, <1>6, WithJobFields
  <2> HIDE DEF u
  <2> QED BY <2>1, <1>5
<1>8. \A a \in DOMAIN t.m_Service : t.m_Service[a].kind = "post" => t.m_Service[a].msg \in Nat
  <2>1. \A a \in DOMAIN t.m_Service : t.m_Service[a] \in Job(t.case) BY <1>2, Fields
  <2> QED BY <2>1 DEF Job
<1> HIDE DEF u
<1>9. QueueOrdered(u.m_Service, low, u.posted) /\ low <= u.posted
  <2>1. QueueOrdered(t.m_Service, low, t.posted) /\ low <= t.posted
    BY <1>1 DEF Sound, Ordered
  <2>2. \A a \in DOMAIN t.m_Service : t.m_Service[a].kind = "post" => t.m_Service[a].msg < n
    BY <1>2, <1>8, <2>1 DEF QueueOrdered
  <2>3. \A a \in DOMAIN u.m_Service :
          u.m_Service[a].kind = "post" => low < u.m_Service[a].msg /\ u.m_Service[a].msg <= n
    BY <1>2, <1>6, <1>7, <1>8, <2>1, <2>2 DEF QueueOrdered
  <2>4. ASSUME NEW a \in DOMAIN u.m_Service, NEW b \in DOMAIN u.m_Service, a < b,
               u.m_Service[a].kind = "post", u.m_Service[b].kind = "post"
        PROVE  u.m_Service[a].msg < u.m_Service[b].msg
    <3>1. CASE b \in DOMAIN t.m_Service
      <4>1. a \in DOMAIN t.m_Service BY <3>1, <2>4, <1>2, <1>7
      <4> QED BY <3>1, <4>1, <2>1, <2>4, <1>7 DEF QueueOrdered
    <3>2. CASE b = Len(t.m_Service) + 1
      <4>1. a \in DOMAIN t.m_Service BY <3>2, <2>4, <1>2, <1>7
      <4> QED BY <3>2, <4>1, <2>2, <2>4, <1>6, <1>7
    <3> QED BY <3>1, <3>2, <1>7
  <2> QED BY <1>2, <1>7, <2>1, <2>3, <2>4 DEF QueueOrdered
<1>10. \A i \in DOMAIN u.m_Peers : PeerOrdered(u, i, low)
  BY <1>1, <1>7 DEF Sound, Ordered, PeerOrdered
<1>11. Ordered(u, low) BY <1>1, <1>7, <1>9, <1>10 DEF Sound, Ordered
<1>12. SessionsOK(u)
  <2>1. \A i \in DOMAIN u.m_Peers : PeerListed(u, i)
    BY <1>1, <1>7 DEF Sound, SessionsOK, PeerListed, SaysDown
  <2>2. \A a \in DOMAIN u.m_Service : Announced(u, a)
    BY <1>1, <1>6, <1>7 DEF Sound, SessionsOK, Announced, NotListed, SaysDown, SaysUp
  <2>3. \A a \in DOMAIN u.m_Service : Withdrawn(u, a)
    BY <1>1, <1>6, <1>7 DEF Sound, SessionsOK, Withdrawn
  <2> QED BY <2>1, <2>2, <2>3 DEF SessionsOK
<1>13. Sound(u, low) BY <1>1, <1>7, <1>11, <1>12 DEF Sound
<1> QED BY <1>1, <1>3, <1>13 DEF IInv, u

\* A change of the state that is about none of messages, jobs and sessions.
LEMMA AsideSound ==
  ASSUME NEW t, NEW u, NEW low, Sound(t, low), Typed(u), u.case = t.case,
         u.handed = t.handed, u.m_Service = t.m_Service, u.posted = t.posted,
         u.sessions = t.sessions, u.m_Peers = t.m_Peers
  PROVE  Sound(u, low)
BY QuietSound DEF Quiet, SamePeer

\* netdb and the resolver, the timer, incoming connections, a peer test.
LEMMA SourcesKeep ==
  ASSUME IInv
  PROVE  /\ \A i \in Routers(transports.case) :
              /\ \A found \in BOOLEAN : RequestComplete(i, found) \/ Resolved(i, found) => IInv'
              /\ CloseSession(i) => IInv'
         /\ PeerCleanupTimerExpires => IInv'
<1> DEFINE t == transports
<1>1. PICK low \in Nat : Sound(t, low) BY DEF IInv
<1>2. Typed(t) BY <1>1 DEF Sound
<1>3. ASSUME NEW v, Typed(v), v.case = t.case, v.handed = t.handed,
             v.m_Service = t.m_Service, v.posted = t.posted, v.sessions = t.sessions,
             v.m_Peers = t.m_Peers, NEW j \in Job(t.case), PostJob(v, j),
             j.kind \notin {"post", "connected", "disconnected"}
      PROVE  IInv'
  <2>1. Sound(v, low) BY <1>1, <1>3, AsideSound
  <2>2. Sound(WithJob(v, j), low) BY <1>3, <2>1, EnqueueSound
  <2>3. transports' = WithJob(v, j) BY <1>3 DEF PostJob, WithJob
  <2> QED BY <1>1, <2>2, <2>3 DEF IInv
<1>4. ASSUME NEW i \in Routers(t.case), NEW found \in BOOLEAN, RequestComplete(i, found)
      PROVE  IInv'
  <2> DEFINE v == [t EXCEPT !.requests = @ \ {i}]
             j == [kind |-> "requested", ident |-> i, found |-> found]
  <2>1. Typed(v) /\ v.case = t.case /\ v.handed = t.handed /\ v.m_Peers = t.m_Peers
        /\ v.m_Service = t.m_Service /\ v.posted = t.posted /\ v.sessions = t.sessions
    BY <1>2 DEF Typed, TransportRecord
  <2>2. j \in Job(t.case) /\ j.kind = "requested" BY DEF Job
  <2>3. PostJob(v, j) BY <1>4 DEF RequestComplete
  <2> HIDE DEF v, j
  <2> QED BY <1>3, <2>1, <2>2, <2>3
<1>5. ASSUME NEW i \in Routers(t.case), NEW found \in BOOLEAN, Resolved(i, found)
      PROVE  IInv'
  <2> DEFINE v == [t EXCEPT !.resolves = @ \ {i}]
             j == [kind |-> "resolved", ident |-> i, found |-> found]
  <2>1. Typed(v) /\ v.case = t.case /\ v.handed = t.handed /\ v.m_Peers = t.m_Peers
        /\ v.m_Service = t.m_Service /\ v.posted = t.posted /\ v.sessions = t.sessions
    BY <1>2 DEF Typed, TransportRecord
  <2>2. j \in Job(t.case) /\ j.kind = "resolved" BY DEF Job
  <2>3. PostJob(v, j) BY <1>5 DEF Resolved
  <2> HIDE DEF v, j
  <2> QED BY <1>3, <2>1, <2>2, <2>3
<1>6. ASSUME NEW i \in Routers(t.case), CloseSession(i) PROVE IInv'
  <2> DEFINE j == [kind |-> "close", ident |-> i]
  <2>1. j \in Job(t.case) /\ j.kind = "close" BY DEF Job
  <2>2. PostJob(t, j) BY <1>6 DEF CloseSession
  <2> HIDE DEF j
  <2> QED BY <1>2, <1>3, <2>1, <2>2
<1>7. CASE PeerCleanupTimerExpires
  <2> DEFINE v == [t EXCEPT !.cleanups = @ - 1]
             j == [kind |-> "cleanup"]
  <2>1. Typed(v) /\ v.case = t.case /\ v.handed = t.handed /\ v.m_Peers = t.m_Peers
        /\ v.m_Service = t.m_Service /\ v.posted = t.posted /\ v.sessions = t.sessions
    <3>1. t.cleanups - 1 \in Nat BY <1>2, <1>7, Fields DEF PeerCleanupTimerExpires
    <3> QED BY <1>2, <3>1 DEF Typed, TransportRecord
  <2>2. j \in Job(t.case) /\ j.kind = "cleanup" BY DEF Job
  <2>3. PostJob(v, j) BY <1>7 DEF PeerCleanupTimerExpires
  <2> HIDE DEF v, j
  <2> QED BY <1>3, <2>1, <2>2, <2>3
<1> QED BY <1>4, <1>5, <1>6, <1>7

LEMMA IncomingKeeps ==
  ASSUME IInv, NEW i \in Routers(transports.case), NEW style \in {"NTCP", "SSU"},
         Incoming(i, style)
  PROVE  IInv'
<1> DEFINE t == transports
           v == [t EXCEPT !.incoming = @ \ {<<i, style>>}]
<1>1. PICK low \in Nat : Sound(t, low) BY DEF IInv
<1>2. /\ Typed(v) /\ v.case = t.case /\ v.handed = t.handed /\ v.m_Peers = t.m_Peers
      /\ v.m_Service = t.m_Service /\ v.posted = t.posted /\ v.sessions = t.sessions
  BY <1>1 DEF Sound, Typed, TransportRecord
<1>3. transports' = NewTransportSession(v, i, style) BY DEF Incoming
<1> HIDE DEF v
<1>4. Sound(v, low) BY <1>1, <1>2, AsideSound
<1>5. Quiet(v, transports') BY <1>2, <1>3, NewSessionQuiet
<1> QED BY <1>1, <1>4, <1>5, QuietSound DEF IInv

LEMMA SessionsKeep ==
  ASSUME IInv, NEW s \in DOMAIN transports.sessions, SessionUp(s) \/ SessionDown(s)
  PROVE  IInv'
<1>1. PICK low \in Nat : Sound(transports, low) BY DEF IInv
<1>2. CASE SessionUp(s)
  <2>1. transports' = WithJob(WithState(transports, s, "up"), [kind |-> "connected", session |-> s])
    BY <1>2 DEF SessionUp, PostJob, WithJob, WithState
  <2>2. transports.sessions[s].state = "connecting" BY <1>2 DEF SessionUp
  <2> QED BY <1>1, <2>1, <2>2, ComesUpSound DEF IInv
<1>3. CASE SessionDown(s) BY <1>1, <1>3, EndsSound DEF SessionDown, IInv
<1> QED BY <1>2, <1>3

LEMMA TestDoneKeeps == ASSUME IInv, TestDone PROVE IInv'
<1>1. PICK low \in Nat : Sound(transports, low) BY DEF IInv
<1>2. transports' = [transports EXCEPT !.m_Status = "OK"] BY DEF TestDone
<1>3. Typed(transports) BY <1>1 DEF Sound
<1>4. LET v == transports' t == transports IN
      /\ Typed(v) /\ v.case = t.case /\ v.handed = t.handed /\ v.m_Peers = t.m_Peers
      /\ v.m_Service = t.m_Service /\ v.posted = t.posted /\ v.sessions = t.sessions
  BY <1>2, <1>3 DEF Typed, TransportRecord
<1>5. Sound(transports', low) BY <1>1, <1>4, AsideSound
<1> QED BY <1>1, <1>5 DEF IInv
-----------------------------------------------------------------------------
LEMMA InitInvariant == TransportsInit => IInv
<1> SUFFICES ASSUME NEW k \in TransportCases, TransportsInitWith(k) PROVE Sound(transports, 0)
  BY DEF TransportsInit, IInv
<1> DEFINE t == transports
<1>1. /\ t.m_Peers = <<>> /\ t.sessions = <<>> /\ t.m_Service = <<>> /\ t.posted = 0
      /\ t.case = k /\ t.handed = [i \in Idents(k) |-> <<>>]
  BY DEF TransportsInitWith, Idents, Routers
<1>2. Typed(t)
  <2>1. <<>> \in PartialFunctions(Routers(k), PeerRecord)
    <3>1. <<>> \in [{} -> PeerRecord] OBVIOUS
    <3> QED BY <3>1 DEF PartialFunctions
  <2>2. k.incoming \subseteq Routers(k) \X {"NTCP", "SSU"} /\ k.cleanups \in Nat
        /\ k.posts \in Seq(Range(k.posts))
    BY TransportsAssumption DEF Routers
  <2>3. [i \in Idents(k) |-> <<>>] \in [Idents(k) -> Seq(Nat)] OBVIOUS
  <2>4. 0 <= Len(k.posts)
    <3> DEFINE q == k.posts
    <3>1. q \in Seq(Range(q)) BY <2>2
    <3> HIDE DEF q
    <3>2. 0 <= Len(q) BY <3>1
    <3> QED BY <3>2 DEF q
  <2>5. t \in TransportRecord(k)
    BY <2>1, <2>2, <2>3 DEF TransportRecord, TransportsInitWith, Idents, Routers
  <2> QED BY <1>1, <2>4, <2>5 DEF Typed
<1>3. Ordered(t, 0)
  BY <1>1 DEF Ordered, QueueOrdered, Increasing, UpTo
<1>4. SessionsOK(t) BY <1>1 DEF SessionsOK
<1> QED BY <1>2, <1>3, <1>4 DEF Sound

LEMMA NextInvariant == IInv /\ [TransportsNext]_transportVars => IInv'
<1> SUFFICES ASSUME IInv, [TransportsNext]_transportVars PROVE IInv' OBVIOUS
<1>1. CASE RunJob BY <1>1, RunJobKeeps
<1>2. CASE SendMessageTo BY <1>2, SendMessageKeeps
<1>3. CASE PeerCleanupTimerExpires BY <1>3, SourcesKeep
<1>4. CASE TestDone BY <1>4, TestDoneKeeps
<1>5. ASSUME NEW i \in DOMAIN transports.case.routers,
             \/ \E found \in BOOLEAN : RequestComplete(i, found) \/ Resolved(i, found)
             \/ \E style \in {"NTCP", "SSU"} : Incoming(i, style)
             \/ CloseSession(i)
      PROVE  IInv'
  <2>1. i \in Routers(transports.case) BY DEF Routers
  <2> QED BY <1>5, <2>1, SourcesKeep, IncomingKeeps
<1>6. ASSUME NEW s \in DOMAIN transports.sessions, SessionUp(s) \/ SessionDown(s)
      PROVE  IInv'
  BY <1>6, SessionsKeep
<1>7. CASE UNCHANGED transportVars BY <1>7 DEF transportVars, IInv
<1> QED BY <1>1, <1>2, <1>3, <1>4, <1>5, <1>6, <1>7 DEF TransportsNext

\* The inductive invariant holds in every reachable state.
THEOREM Invariance == TransportsSpec => []IInv
BY InitInvariant, NextInvariant, PTL DEF TransportsSpec

\* Messages reach each peer in the order they were posted and none of them twice,
\* wait only while their peer has no session, and are given to sessions that are up
\* or whose end is queued (PostMessages, PeerConnected, PeerDisconnected).
THEOREM TransportsAreSafe == TransportsSpec => []TransportsSafe
<1>1. IInv => TransportsSafe
  <2> SUFFICES ASSUME NEW low \in Nat, Sound(transports, low) PROVE TransportsSafe BY DEF IInv
  <2> DEFINE t == transports
  <2>1. Typed(t) /\ Ordered(t, low) /\ SessionsOK(t) BY DEF Sound
  <2>2. ASSUME NEW i \in DOMAIN t.m_Peers
        PROVE  t.m_Peers[i].numAttempts \in 0 .. 2
    BY <2>1, Fields, PeerFields
  <2>3. TransportsTypeOK
    <3>1. t.posted \in Nat /\ t.posted <= Len(t.case.posts) BY <2>1, Fields DEF Typed
    <3>2. t.posted \in 0 .. Len(t.case.posts)
      <4>1. t.case.posts \in Seq(Range(t.case.posts)) BY <2>1, TransportsAssumption DEF Typed
      <4> DEFINE q == t.case.posts
      <4>2. q \in Seq(Range(q)) /\ t.posted <= Len(q) BY <3>1, <4>1
      <4> HIDE DEF q
      <4>3. t.posted \in 0 .. Len(q) BY <3>1, <4>2
      <4> QED BY <4>3 DEF q
    <3>3. t.requests \cup t.resolves \cup DOMAIN t.m_Peers \subseteq DOMAIN t.case.routers
      BY <2>1, Fields DEF Routers
    <3>4. \A i \in DOMAIN t.m_Peers : DOMAIN t.m_Peers[i].sessions \subseteq DOMAIN t.sessions
      BY <2>1 DEF SessionsOK, PeerListed
    <3> QED BY <2>2, <3>2, <3>3, <3>4 DEF TransportsTypeOK
  <2>4. HandedInOrder BY <2>1 DEF Ordered, Increasing, HandedInOrder
  <2>5. DelayedHasNoSession BY <2>1 DEF Ordered, PeerOrdered, DelayedHasNoSession
  <2>6. ListedSessionIsUp
    <3> SUFFICES ASSUME NEW i \in DOMAIN t.m_Peers, NEW s \in DOMAIN t.m_Peers[i].sessions
                 PROVE  /\ t.m_Peers[i].sessions[s] = 1 /\ t.sessions[s].ident = i
                        /\ \/ t.sessions[s].state = "up"
                           \/ [kind |-> "disconnected", session |-> s] \in Range(t.m_Service)
      BY DEF ListedSessionIsUp
    <3>1. PeerListed(t, i) BY <2>1 DEF SessionsOK
    <3>2. ASSUME NEW a \in DOMAIN t.m_Service, SaysDown(t.m_Service, a, s)
          PROVE  [kind |-> "disconnected", session |-> s] \in Range(t.m_Service)
      <4>1. t.m_Service[a] \in Job(t.case) BY <2>1, Fields
      <4>2. t.m_Service[a] = [kind |-> "disconnected", session |-> s]
        BY <3>2, <4>1 DEF Job, SaysDown
      <4> QED BY <4>2 DEF Range
    <3> QED BY <3>1, <3>2 DEF PeerListed
  <2> QED BY <2>3, <2>4, <2>5, <2>6 DEF TransportsSafe
<1> QED BY <1>1, Invariance, PTL

-----------------------------------------------------------------------------
(***************************************************************************)
(* NTCP sessions.  What an end sends is a row of items: two phases, the    *)
(* time, our RouterInfo, what is posted.  Items names them, SentItems      *)
(* counts those begun, Unwritten those whose blocks are not on the wire.   *)
(***************************************************************************)
PostIds == UNION {{m.id : m \in k.posts} : k \in NTCPCases}
NTCPIds == {"phase1", "phase2", "phase3", "phase4", "timestamp", "store"} \cup PostIds
NTCPMessages == [id : NTCPIds, len : Nat]
Posts == [id : NTCPIds, len : Nat \ {0}]
Blocks == [msg : NTCPMessages, num : Nat]
Results == {"none", "pending", "ok", "error", "aborted"}

EndRecord ==
  [phase : 0 .. 5, open : BOOLEAN, m_IsTerminated : BOOLEAN, m_IsEstablished : BOOLEAN,
   timer : BOOLEAN, read : Results, write : Results, writes : Seq(Seq(NTCPMessages)),
   m_IsSending : BOOLEAN, m_SendQueue : Seq(NTCPMessages), m_NextMessage : Seq(Blocks),
   m_ReceiveBuffer : Seq(Blocks), m_Handler : Seq(Seq(Blocks)), posted : Seq(Posts),
   events : Seq({"PeerConnected", "PeerDisconnected"})]

Items(e, s) ==
  [i \in Nat |->
     IF i = 1 THEN Phase(IF s = "client" THEN "phase1" ELSE "phase2")
     ELSE IF i = 2 THEN Phase(IF s = "client" THEN "phase3" ELSE "phase4")
     ELSE IF i = 4 THEN DatabaseStore
     ELSE IF i > 4 /\ i - 4 <= Len(e.posted) THEN e.posted[i - 4]
     ELSE TimeSync]

SentItems(e, s) ==
  IF e.phase = 5 THEN 4 + Len(e.posted)
  ELSE IF s = "client" THEN IF e.phase = 0 THEN 0 ELSE IF e.phase <= 2 THEN 1 ELSE 2
  ELSE IF e.phase <= 1 THEN 0 ELSE IF e.phase <= 3 THEN 1 ELSE 2

Unwritten(e) == Len(e.m_SendQueue) + (IF e.write = "pending" THEN Len(e.writes[1]) ELSE 0)

\* One end; between handlers, if it is connected, it is reading or terminated.
EndSound(e) ==
  /\ e \in EndRecord
  /\ e.write = "none" <=> e.writes = <<>>
  /\ Len(e.writes) <= 1
  /\ "pending" \in {e.read, e.write} => e.open
  /\ e.m_IsTerminated => ~e.open
  /\ e.read = "ok" => e.m_ReceiveBuffer # <<>> /\ (e.phase < 5 => Len(e.m_ReceiveBuffer) = 1)
  /\ e.read # "ok" => e.m_ReceiveBuffer = <<>>
  /\ e.m_IsEstablished => e.phase = 5 /\ ~e.m_IsTerminated
  /\ e.phase < 5 =>
       /\ ~e.m_IsSending /\ e.m_SendQueue = <<>> /\ e.m_NextMessage = <<>>
       /\ e.m_Handler = <<>> /\ e.posted = <<>>
       /\ e.read = "none" \/ e.writes = <<>>
       /\ e.events = IF e.m_IsTerminated THEN <<"PeerDisconnected">> ELSE <<>>
  /\ e.phase = 5 =>
       /\ e.m_IsSending <=> e.writes # <<>>
       /\ e.events = IF e.m_IsTerminated THEN <<"PeerConnected", "PeerDisconnected">>
                     ELSE <<"PeerConnected">>
EndOK(e) == EndSound(e) /\ (e.phase = 5 => e.m_IsTerminated \/ e.read # "none")

\* What an end that can still write has not written are the last of its items.
SendOK(e, s) ==
  LET n == SentItems(e, s)
      q == Len(e.m_SendQueue)
  IN /\ e.write \in {"none", "pending", "ok"}
     /\ e.phase = 5 /\ ~e.m_IsSending => e.m_SendQueue = <<>>
     /\ Unwritten(e) <= n
     /\ \A i \in 1 .. q : e.m_SendQueue[i] = Items(e, s)[n - q + i]
     /\ e.write = "pending" =>
          \A i \in 1 .. Len(e.writes[1]) :
            e.writes[1][i] = Items(e, s)[n - Unwritten(e) + i]

\* E are the blocks of the items 1 to n of I, and at[k] of them are those of 1 to k.
NumBlocks(m) == Len(CreateMsgBuffer(m))
Stream(I, n, E, at) ==
  /\ E \in Seq(Blocks) /\ at \in [0 .. n -> Nat]
  /\ at[0] = 0 /\ at[n] = Len(E)
  /\ \A k \in 1 .. n :
       /\ at[k] = at[k - 1] + NumBlocks(I[k])
       /\ \A j \in 1 .. NumBlocks(I[k]) : E[at[k - 1] + j] = [msg |-> I[k], num |-> j]

\* The items that a side has read when it is in a phase of the handshake.
ReadIn(s, phase) ==
  IF s = "client" THEN IF phase <= 2 THEN {0} ELSE {1}
  ELSE IF phase <= 1 THEN {0} ELSE IF phase = 2 THEN {1} ELSE IF phase = 3 THEN {1, 2} ELSE {2}

\* The end o has dealt with the items 1 to k, and has begun the next.
Reached(I, n, E, at, k, o) ==
  /\ k \in 0 .. n
  /\ at[k] + Len(o.m_NextMessage) <= Len(E)
  /\ \A i \in 1 .. Len(o.m_NextMessage) : o.m_NextMessage[i] = E[at[k] + i]
  /\ o.m_NextMessage # <<>> => k < n /\ Len(o.m_NextMessage) < NumBlocks(I[k + 1])
  /\ o.phase = 5 =>
       /\ k >= 2 /\ Len(o.m_Handler) = IF k <= 3 THEN 0 ELSE k - 3
       /\ \A i \in 1 .. Len(o.m_Handler) : o.m_Handler[i] = CreateMsgBuffer(I[i + 3])

\* The blocks x come behind the first p of E.
Follow(E, p, x) == p + Len(x) <= Len(E) /\ \A i \in 1 .. Len(x) : x[i] = E[p + i]

\* What o, at the side s, has not dealt with is in its buffer and on the wire w.
InHandshake(o) == o.phase < 5 /\ (o.read # "none" \/ o.writes # <<>>)
Reads(I, n, E, at, k, w, o, s) ==
  LET p == at[k] + Len(o.m_NextMessage)
  IN /\ Reached(I, n, E, at, k, o)
     /\ InHandshake(o) => k \in ReadIn(s, o.phase)
     /\ Follow(E, p, o.m_ReceiveBuffer)
     /\ Follow(E, p + Len(o.m_ReceiveBuffer), w)

\* u items are not written by a sender that is live.
FlowAt(I, n, u, live, w, o, s, E, at, k) ==
  /\ Stream(I, n, E, at)
  /\ Reads(I, n, E, at, k, w, o, s)
  /\ live => at[k] + Len(o.m_NextMessage) + Len(o.m_ReceiveBuffer) + Len(w) = at[n - u]
Flow(I, n, u, live, w, o, s) ==
  \E E \in Seq(Blocks) : \E at \in [0 .. n -> Nat] : \E k \in 0 .. n :
    FlowAt(I, n, u, live, w, o, s, E, at, k)

\* From the end e at the side s over the wire w to the end o.
Carries(e, s, broke, w, o) ==
  ~o.m_IsTerminated =>
    Flow(Items(e, s), SentItems(e, s), Unwritten(e), e.open /\ ~broke, w, o, OtherSide(s))

\* A connection: its ends x, its wires v, and whether it is cut.
ConnectionOK(x, v, broke) ==
  /\ x = [s \in Sides |-> x[s]] /\ v \in [Sides -> Seq(Blocks)]
  /\ \A s \in Sides :
       /\ EndOK(x[s])
       /\ x[s].open /\ ~broke => SendOK(x[s], s)
       /\ Carries(x[s], s, broke, v[s], x[OtherSide(s)])
  /\ x["client"].phase = 0 => \A s \in Sides : x[s] = NewEnd /\ v[s] = <<>>
  /\ x["client"].phase = 5 => x["server"].phase >= 4

NTCPIInv ==
  /\ ntcpCase \in NTCPCases
  /\ broken \cup registered \cup setUnreachable \subseteq NTCPConns
  /\ ntcp = [c \in NTCPConns |-> ntcp[c]] /\ wire = [c \in NTCPConns |-> wire[c]]
  /\ \A c \in NTCPConns : ConnectionOK(ntcp[c], wire[c], c \in broken)
-----------------------------------------------------------------------------
LEMMA BlocksOf ==
  ASSUME NEW m \in NTCPMessages
  PROVE  /\ NumBlocks(m) \in Nat /\ NumBlocks(m) >= 1
         /\ CreateMsgBuffer(m) \in Seq(Blocks)
         /\ CreateMsgBuffer(m) = [j \in 1 .. NumBlocks(m) |-> [msg |-> m, num |-> j]]
         /\ m.len = 0 => NumBlocks(m) = 1
         /\ m.len > 0 => \A j \in 1 .. NumBlocks(m) : 16 * j >= m.len + 6 <=> j = NumBlocks(m)
<1> DEFINE len == IF m.len = 0 THEN 4 ELSE m.len
           n == (len + 6 + 15) \div 16
           q == [j \in 1 .. n |-> [msg |-> m, num |-> j]]
<1>1. m.len \in Nat /\ len \in Nat /\ len >= 1 BY DEF NTCPMessages
<1>2. n \in Nat /\ n >= 1 /\ 16 * n <= len + 21 /\ len + 21 < 16 * n + 16
  <2> HIDE DEF len
  <2> QED BY <1>1
<1>3. len = 4 => n = 1 OBVIOUS
<1>4. CreateMsgBuffer(m) = q BY DEF CreateMsgBuffer
<1> HIDE DEF n
<1>5. q \in Seq(Blocks) /\ Len(q) = n BY <1>2 DEF Blocks
<1>6. NumBlocks(m) = n BY <1>4, <1>5 DEF NumBlocks
<1>7. m.len > 0 => len = m.len BY <1>1
<1>8. m.len = 0 => n = 1 BY <1>3
<1> HIDE DEF len, q
<1>9. ASSUME m.len > 0, NEW j \in 1 .. n PROVE 16 * j >= m.len + 6 <=> j = n
  <2>1. j \in Nat BY <1>2
  <2> QED BY <1>1, <1>2, <1>7, <1>9, <2>1
<1> QED BY <1>2, <1>4, <1>5, <1>6, <1>8, <1>9 DEF q

LEMMA ItemsTyped ==
  ASSUME NEW e, NEW s \in Sides, e.posted \in Seq(Posts)
  PROVE  /\ Items(e, s) \in [Nat -> NTCPMessages]
         /\ \A i \in 1 .. 3 : Items(e, s)[i].len = 0
         /\ \A i \in 4 .. 4 + Len(e.posted) : Items(e, s)[i].len > 0
<1>1. /\ Phase("phase1") \in NTCPMessages /\ Phase("phase2") \in NTCPMessages
      /\ Phase("phase3") \in NTCPMessages /\ Phase("phase4") \in NTCPMessages
      /\ TimeSync \in NTCPMessages /\ DatabaseStore \in NTCPMessages
      /\ Phase("phase1").len = 0 /\ Phase("phase2").len = 0
      /\ Phase("phase3").len = 0 /\ Phase("phase4").len = 0
      /\ TimeSync.len = 0 /\ DatabaseStore.len > 0
  BY DEF Phase, TimeSync, DatabaseStore, NTCPMessage, NTCPMessages, NTCPIds
<1>2. \A i \in 1 .. Len(e.posted) : e.posted[i] \in NTCPMessages /\ e.posted[i].len > 0
  <2> TAKE i \in 1 .. Len(e.posted)
  <2>1. e.posted[i] \in Posts OBVIOUS
  <2> QED BY <2>1 DEF Posts, NTCPMessages
<1>3. Items(e, s) \in [Nat -> NTCPMessages]
  <2> SUFFICES ASSUME NEW i \in Nat PROVE Items(e, s)[i] \in NTCPMessages
    BY DEF Items
  <2>1. CASE i > 4 /\ i - 4 <= Len(e.posted)
    <3>1. i - 4 \in 1 .. Len(e.posted) BY <2>1
    <3> QED BY <1>2, <2>1, <3>1 DEF Items
  <2>2. CASE ~(i > 4 /\ i - 4 <= Len(e.posted)) BY <1>1, <2>2 DEF Items
  <2> QED BY <2>1, <2>2
<1>4. \A i \in 1 .. 3 : Items(e, s)[i].len = 0
  <2> TAKE i \in 1 .. 3
  <2> i \in Nat /\ i \in {1, 2, 3} OBVIOUS
  <2> QED BY <1>1 DEF Items
<1>5. ASSUME NEW i \in 4 .. 4 + Len(e.posted) PROVE Items(e, s)[i].len > 0
  <2>1. CASE i > 4
    <3>1. i - 4 \in 1 .. Len(e.posted) BY <2>1
    <3> QED BY <1>2, <2>1, <3>1 DEF Items
  <2>2. CASE i = 4 BY <1>1, <2>2 DEF Items
  <2> QED BY <2>1, <2>2
<1> QED BY <1>3, <1>4, <1>5
-----------------------------------------------------------------------------
(***************************************************************************)
(* The loops over a row of messages and over the blocks of a chunk.        *)
(***************************************************************************)
LEMMA NTCPInduction ==
  ASSUME NEW S \in SUBSET Nat, 0 \in S, \A n \in S : n + 1 \in S
  PROVE  S = Nat
<1> DEFINE T == Nat \ S
<1> SUFFICES ASSUME T # {} PROVE FALSE OBVIOUS
<1>1. PICK n \in T : \A m \in T : ~(<<m, n>> \in OpToRel(<, Nat))
  BY NatLessThanWellFounded, WFMin
<1>2. \A m \in T : ~(m < n) BY <1>1 DEF OpToRel
<1>3. n # 0 /\ n - 1 \in Nat /\ n - 1 \notin T BY <1>2
<1>4. (n - 1) + 1 \in S BY <1>3
<1> QED BY <1>4

LEMMA AcceptedIs ==
  ASSUME NEW x \in Seq(Blocks)
  PROVE  /\ Accepted(x) \in Seq(Blocks)
         /\ (\A i \in DOMAIN x : ~TooLong(x[i])) => Accepted(x) = x
<1> DEFINE Stops(n) == /\ \A j \in 1 .. n : ~TooLong(x[j])
                       /\ n < Len(x) => TooLong(x[n + 1])
           S == {n \in 0 .. Len(x) : n < Len(x) => TooLong(x[n + 1])}
           first == CHOOSE n \in 0 .. Len(x) : Stops(n)
<1>0. Len(x) \in Nat OBVIOUS
<1>1. S \subseteq Nat /\ S # {}
  <2>1. Len(x) \in S BY <1>0
  <2> QED BY <2>1
<1>2. PICK n \in S : \A m \in S : ~(<<m, n>> \in OpToRel(<, Nat))
  BY <1>1, NatLessThanWellFounded, WFMin
<1>3. \A m \in S : ~(m < n) BY <1>1, <1>2 DEF OpToRel
<1>4. ASSUME NEW j \in 1 .. n PROVE ~TooLong(x[j])
  <2>1. j - 1 \in 0 .. Len(x) /\ j - 1 < n /\ j - 1 < Len(x) /\ (j - 1) + 1 = j BY <1>0
  <2>2. j - 1 \notin S BY <1>3, <2>1
  <2> QED BY <2>1, <2>2
<1>5. n \in 0 .. Len(x) /\ Stops(n) BY <1>4
<1> HIDE DEF Stops
<1>6. first \in 0 .. Len(x) /\ Stops(first) BY <1>5
<1>7. Accepted(x) = SubSeq(x, 1, first) BY DEF Accepted, Stops
<1> HIDE DEF first
<1>8. SubSeq(x, 1, first) \in Seq(Blocks) BY <1>0, <1>6
<1>9. ASSUME \A i \in DOMAIN x : ~TooLong(x[i]) PROVE SubSeq(x, 1, first) = x
  <2>1. first = Len(x)
    <3> SUFFICES ASSUME first < Len(x) PROVE FALSE BY <1>0, <1>6
    <3>1. first + 1 \in DOMAIN x BY <1>0, <1>6
    <3> QED BY <1>6, <1>9, <3>1 DEF Stops
  <2> QED BY <2>1
<1> QED BY <1>7, <1>8, <1>9

EncodedBy(f, q) ==
  /\ f \in [0 .. Len(q) -> Seq(Blocks)] /\ f[0] = <<>>
  /\ \A i \in 1 .. Len(q) : f[i] = f[i - 1] \o CreateMsgBuffer(q[i])
  /\ Encoded(q) = f[Len(q)]

LEMMA EncodedFold ==
  ASSUME NEW q \in Seq(NTCPMessages)
  PROVE  \E f : EncodedBy(f, q)
<1> DEFINE Step(a, n) == a \o CreateMsgBuffer(q[n])
           Upto(n, h) == h = [i \in 0 .. n |-> IF i = 0 THEN <<>> ELSE Step(h[i - 1], i)]
           Good == {n \in Nat : \E h : Upto(n, h)}
<1>1. Upto(0, [i \in 0 .. 0 |-> <<>>]) OBVIOUS
<1>2. ASSUME NEW n \in Nat, NEW h, Upto(n, h) PROVE \E g : Upto(n + 1, g)
  <2> HIDE DEF Step
  <2> DEFINE g == [i \in 0 .. (n + 1) |-> IF i <= n THEN h[i] ELSE Step(h[n], n + 1)]
  <2>1. ASSUME NEW i \in 0 .. (n + 1) PROVE g[i] = IF i = 0 THEN <<>> ELSE Step(g[i - 1], i)
    <3>1. CASE i = n + 1
      <4>1. g[i] = Step(h[n], i) /\ g[n] = h[n] /\ i - 1 = n /\ i # 0 BY <3>1
      <4> HIDE DEF g
      <4> QED BY <4>1
    <3>2. CASE i # n + 1
      <4>1. i \in 0 .. n /\ g[i] = h[i] /\ (i # 0 => g[i - 1] = h[i - 1]) BY <3>2
      <4>2. h[i] = IF i = 0 THEN <<>> ELSE Step(h[i - 1], i) BY <1>2, <4>1
      <4> HIDE DEF g
      <4> QED BY <4>1, <4>2
    <3> QED BY <3>1, <3>2
  <2>2. g = [i \in 0 .. (n + 1) |-> g[i]] OBVIOUS
  <2> HIDE DEF g
  <2>3. Upto(n + 1, g) BY <2>1, <2>2
  <2> QED BY <2>3
<1>3. Good = Nat
  <2>1. 0 \in Good BY <1>1
  <2> HIDE DEF Upto
  <2>2. \A n \in Good : n + 1 \in Good BY <1>2
  <2> HIDE DEF Good
  <2> QED BY <2>1, <2>2, NTCPInduction DEF Good
<1>len. Len(q) \in Nat OBVIOUS
<1> HIDE DEF Upto
<1>4. PICK g : Upto(Len(q), g) BY <1>3, <1>len
<1> DEFINE after == CHOOSE h : Upto(Len(q), h)
<1>5. Upto(Len(q), after) BY <1>4
<1>6. Encoded(q) = after[Len(q)] BY DEF Encoded, Upto, Step
<1> HIDE DEF after, Good, Step
<1>7. \A i \in 0 .. Len(q) : after[i] = IF i = 0 THEN <<>> ELSE Step(after[i - 1], i)
  BY <1>5 DEF Upto
<1>a. \A n \in 1 .. Len(q) : after[n] = Step(after[n - 1], n) BY <1>7, <1>len
<1>8. /\ after[0] = <<>>
      /\ \A n \in 1 .. Len(q) : after[n] = after[n - 1] \o CreateMsgBuffer(q[n])
  <2>1. after[0] = <<>> BY <1>7, <1>len
  <2>2. \A n \in 1 .. Len(q) : after[n] = after[n - 1] \o CreateMsgBuffer(q[n])
    BY <1>a DEF Step
  <2> QED BY <2>1, <2>2
<1> DEFINE T == {n \in Nat : n <= Len(q) => after[n] \in Seq(Blocks)}
<1>9. 0 \in T
  <2>1. after[0] \in Seq(Blocks) BY <1>8
  <2> QED BY <2>1
<1>10. ASSUME NEW n \in T, n + 1 <= Len(q) PROVE after[n + 1] \in Seq(Blocks)
  <2>1. n \in Nat /\ n + 1 \in 1 .. Len(q) /\ (n + 1) - 1 = n /\ after[n] \in Seq(Blocks)
    BY <1>10, <1>len
  <2>2. after[n + 1] = after[n] \o CreateMsgBuffer(q[n + 1]) BY <1>8, <2>1
  <2>3. CreateMsgBuffer(q[n + 1]) \in Seq(Blocks) BY <2>1, BlocksOf
  <2> QED BY <2>1, <2>2, <2>3
<1>11. T = Nat
  <2>1. \A n \in T : n + 1 \in T BY <1>10
  <2> HIDE DEF T
  <2> QED BY <1>9, <2>1, NTCPInduction DEF T
<1>12. \A n \in 0 .. Len(q) : after[n] \in Seq(Blocks) BY <1>11, <1>len
<1> DEFINE f == [n \in 0 .. Len(q) |-> after[n]]
<1>13. f \in [0 .. Len(q) -> Seq(Blocks)] /\ \A n \in 0 .. Len(q) : f[n] = after[n] BY <1>12
<1> HIDE DEF f
<1>14. \A n \in 1 .. Len(q) : f[n] = f[n - 1] \o CreateMsgBuffer(q[n])
  <2> TAKE n \in 1 .. Len(q)
  <2>1. n \in 0 .. Len(q) /\ n - 1 \in 0 .. Len(q) BY <1>len
  <2> QED BY <1>8, <1>13, <2>1
<1>15. f[0] = <<>> /\ Encoded(q) = f[Len(q)] BY <1>6, <1>8, <1>13, <1>len
<1> QED BY <1>13, <1>14, <1>15 DEF EncodedBy

DecryptedBy(f, e, q) ==
  /\ f[0] = e /\ Decrypted(e, q) = f[Len(q)]
  /\ \A i \in 1 .. Len(q) : f[i] = DecryptNextBlock(f[i - 1], q[i])

LEMMA DecryptedFold ==
  ASSUME NEW e, NEW q \in Seq(Blocks)
  PROVE  \E f : DecryptedBy(f, e, q)
<1> DEFINE Step(a, n) == DecryptNextBlock(a, q[n])
           Upto(n, h) == h = [i \in 0 .. n |-> IF i = 0 THEN e ELSE Step(h[i - 1], i)]
           Good == {n \in Nat : \E h : Upto(n, h)}
<1>1. Upto(0, [i \in 0 .. 0 |-> e]) OBVIOUS
<1>2. ASSUME NEW n \in Nat, NEW h, Upto(n, h) PROVE \E g : Upto(n + 1, g)
  <2> HIDE DEF Step
  <2> DEFINE g == [i \in 0 .. (n + 1) |-> IF i <= n THEN h[i] ELSE Step(h[n], n + 1)]
  <2>1. ASSUME NEW i \in 0 .. (n + 1) PROVE g[i] = IF i = 0 THEN e ELSE Step(g[i - 1], i)
    <3>1. CASE i = n + 1
      <4>1. g[i] = Step(h[n], i) /\ g[n] = h[n] /\ i - 1 = n /\ i # 0 BY <3>1
      <4> HIDE DEF g
      <4> QED BY <4>1
    <3>2. CASE i # n + 1
      <4>1. i \in 0 .. n /\ g[i] = h[i] /\ (i # 0 => g[i - 1] = h[i - 1]) BY <3>2
      <4>2. h[i] = IF i = 0 THEN e ELSE Step(h[i - 1], i) BY <1>2, <4>1
      <4> HIDE DEF g
      <4> QED BY <4>1, <4>2
    <3> QED BY <3>1, <3>2
  <2>2. g = [i \in 0 .. (n + 1) |-> g[i]] OBVIOUS
  <2> HIDE DEF g
  <2>3. Upto(n + 1, g) BY <2>1, <2>2
  <2> QED BY <2>3
<1>3. Good = Nat
  <2>1. 0 \in Good BY <1>1
  <2> HIDE DEF Upto
  <2>2. \A n \in Good : n + 1 \in Good BY <1>2
  <2> HIDE DEF Good
  <2> QED BY <2>1, <2>2, NTCPInduction DEF Good
<1>len. Len(q) \in Nat OBVIOUS
<1> HIDE DEF Upto
<1>4. PICK g : Upto(Len(q), g) BY <1>3, <1>len
<1> DEFINE after == CHOOSE h : Upto(Len(q), h)
<1>5. Upto(Len(q), after) BY <1>4
<1>6. Decrypted(e, q) = after[Len(q)] BY DEF Decrypted, Upto, Step
<1> HIDE DEF after, Good, Step
<1>7. \A i \in 0 .. Len(q) : after[i] = IF i = 0 THEN e ELSE Step(after[i - 1], i)
  BY <1>5 DEF Upto
<1>a. \A n \in 1 .. Len(q) : after[n] = Step(after[n - 1], n) BY <1>7, <1>len
<1>8. /\ after[0] = e
      /\ \A n \in 1 .. Len(q) : after[n] = DecryptNextBlock(after[n - 1], q[n])
  BY <1>7, <1>a, <1>len DEF Step
<1> QED BY <1>6, <1>8 DEF DecryptedBy

\* x are the blocks of E behind the first p, up to the one numbered r.
Covers(x, E, p, r) ==
  x \in Seq(Blocks) /\ Len(x) = r - p /\ \A j \in 1 .. Len(x) : x[j] = E[p + j]

\* The blocks that go out are those of the next items.
LEMMA EncodedIs ==
  ASSUME NEW q \in Seq(NTCPMessages), NEW I, NEW n \in Nat, NEW E, NEW at, Stream(I, n, E, at),
         NEW m \in Nat, m + Len(q) <= n, \A i \in 1 .. Len(q) : q[i] = I[m + i]
  PROVE  Covers(Encoded(q), E, at[m], at[m + Len(q)])
<1>0. PICK f : EncodedBy(f, q) BY EncodedFold
<1>1. /\ f \in [0 .. Len(q) -> Seq(Blocks)] /\ f[0] = <<>>
      /\ \A i \in 1 .. Len(q) : f[i] = f[i - 1] \o CreateMsgBuffer(q[i])
      /\ Encoded(q) = f[Len(q)]
  BY <1>0 DEF EncodedBy
<1> DEFINE Fits(i) == /\ Len(f[i]) = at[m + i] - at[m]
                      /\ \A j \in 1 .. Len(f[i]) : f[i][j] = E[at[m] + j]
           T == {i \in Nat : i <= Len(q) => Fits(i)}
<1>len. Len(q) \in Nat OBVIOUS
<1>at. \A i \in 0 .. n : at[i] \in Nat BY DEF Stream
<1>2. 0 \in T
  <2>1. m \in 0 .. n /\ m + 0 = m BY <1>len
  <2>2. at[m] \in Nat /\ f[0] = <<>> BY <1>1, <1>at, <2>1
  <2>3. Fits(0) BY <2>1, <2>2
  <2> QED BY <2>3
<1>3. ASSUME NEW i \in T, i + 1 <= Len(q) PROVE Fits(i + 1)
  <2>1. /\ i \in Nat /\ i + 1 \in 1 .. Len(q) /\ (i + 1) - 1 = i /\ i \in 0 .. Len(q)
        /\ m + (i + 1) \in 1 .. n /\ (m + (i + 1)) - 1 = m + i /\ m + i \in 0 .. n /\ m \in 0 .. n
    BY <1>3, <1>len
  <2>2. Fits(i) BY <2>1
  <2> DEFINE a == f[i]
             b == CreateMsgBuffer(q[i + 1])
             x == m + (i + 1)
  <2>3. a \in Seq(Blocks) BY <1>1, <2>1
  <2>4. b \in Seq(Blocks) /\ Len(b) = NumBlocks(I[x]) /\ q[i + 1] = I[x]
        /\ \A j \in 1 .. Len(b) : b[j] = [msg |-> I[x], num |-> j]
    <3>1. q[i + 1] \in NTCPMessages /\ q[i + 1] = I[x] BY <2>1
    <3>2. b = [j \in 1 .. NumBlocks(q[i + 1]) |-> [msg |-> q[i + 1], num |-> j]]
          /\ NumBlocks(q[i + 1]) \in Nat /\ b \in Seq(Blocks)
      BY <3>1, BlocksOf
    <3> HIDE DEF b, x
    <3> QED BY <3>1, <3>2
  <2>5. /\ at[x] = at[m + i] + NumBlocks(I[x])
        /\ \A j \in 1 .. NumBlocks(I[x]) : E[at[m + i] + j] = [msg |-> I[x], num |-> j]
    <3>1. x \in 1 .. n /\ x - 1 = m + i BY <2>1
    <3> HIDE DEF x
    <3>2. at[x] = at[x - 1] + NumBlocks(I[x])
          /\ \A j \in 1 .. NumBlocks(I[x]) : E[at[x - 1] + j] = [msg |-> I[x], num |-> j]
      BY <3>1 DEF Stream
    <3> QED BY <3>1, <3>2
  <2>6. f[i + 1] = a \o b BY <1>1, <2>1
  <2>7. at[m] \in Nat /\ at[m + i] \in Nat /\ Len(a) = at[m + i] - at[m]
        /\ \A j \in 1 .. Len(a) : a[j] = E[at[m] + j]
    BY <1>at, <2>1, <2>2
  <2> HIDE DEF a, b, x
  <2>8. Len(a \o b) = Len(a) + Len(b) /\ Len(a) \in Nat /\ Len(b) \in Nat
        /\ \A j \in 1 .. (Len(a) + Len(b)) : (a \o b)[j] = IF j <= Len(a) THEN a[j] ELSE b[j - Len(a)]
    <3>1. a \in Seq(Blocks) /\ b \in Seq(Blocks) BY <2>3, <2>4
    <3> QED BY ONLY <3>1
  <2>9. Len(f[i + 1]) = at[x] - at[m] BY <2>4, <2>5, <2>6, <2>7, <2>8
  <2>10. ASSUME NEW j \in 1 .. Len(f[i + 1]) PROVE f[i + 1][j] = E[at[m] + j]
    <3>1. j \in 1 .. (Len(a) + Len(b)) /\ f[i + 1][j] = IF j <= Len(a) THEN a[j] ELSE b[j - Len(a)]
      BY <2>6, <2>8
    <3>2. CASE j <= Len(a) BY <2>7, <3>1, <3>2
    <3>3. CASE j > Len(a)
      <4>1. j - Len(a) \in 1 .. Len(b) /\ at[m + i] + (j - Len(a)) = at[m] + j
        <5>1. j \in Nat /\ j <= Len(a) + Len(b) BY <2>8, <3>1
        <5>2. at[m + i] = at[m] + Len(a) BY <2>7, <2>8
        <5>3. at[m] \in Nat /\ Len(a) \in Nat /\ Len(b) \in Nat BY <2>7, <2>8
        <5>4. j - Len(a) \in 1 .. Len(b) BY <3>3, <5>1, <5>3
        <5>5. (at[m] + Len(a)) + (j - Len(a)) = at[m] + j BY <5>1, <5>3
        <5> QED BY <5>2, <5>4, <5>5
      <4>2. f[i + 1][j] = b[j - Len(a)] BY <2>8, <3>1, <3>3
      <4>3. E[at[m + i] + (j - Len(a))] = [msg |-> I[x], num |-> j - Len(a)] BY <2>4, <2>5, <4>1
      <4> QED BY <2>4, <4>1, <4>2, <4>3
    <3> QED BY <2>8, <3>1, <3>2, <3>3
  <2> QED BY <2>9, <2>10 DEF x
<1>4. T = Nat
  <2>1. \A i \in T : i + 1 \in T BY <1>3
  <2> HIDE DEF T
  <2> QED BY <1>2, <2>1, NTCPInduction DEF T
<1>5. Fits(Len(q))
  <2>1. Len(q) \in T BY <1>4, <1>len
  <2> QED BY <2>1
<1>6. Encoded(q) \in Seq(Blocks) BY <1>1, <1>len
<1> QED BY <1>1, <1>5, <1>6 DEF Covers
-----------------------------------------------------------------------------
(***************************************************************************)
(* What may happen to the row of items, to the wire and to the reader.     *)
(***************************************************************************)
LEMMA StreamIs ==
  ASSUME NEW I \in [Nat -> NTCPMessages], NEW n \in Nat, NEW E, NEW at, Stream(I, n, E, at)
  PROVE  /\ E \in Seq(Blocks) /\ Len(E) \in Nat
         /\ \A k \in 0 .. n : at[k] \in Nat /\ at[k] <= Len(E) /\ (k < n => at[k] < Len(E))
<1>1. E \in Seq(Blocks) /\ Len(E) \in Nat /\ \A k \in 0 .. n : at[k] \in Nat BY DEF Stream
<1> DEFINE Fits(j) == at[n - j] + j <= Len(E)
           T == {j \in Nat : j <= n => Fits(j)}
<1>2. 0 \in T
  <2>1. Fits(0) BY <1>1 DEF Stream
  <2> QED BY <2>1
<1>3. ASSUME NEW j \in T, j + 1 <= n PROVE Fits(j + 1)
  <2>1. n - j \in 1 .. n /\ n - j \in 0 .. n /\ (n - j) - 1 = n - (j + 1) /\ n - (j + 1) \in 0 .. n
        /\ j \in Nat /\ Fits(j)
    BY <1>3
  <2> DEFINE k == n - j
  <2>2. at[k] = at[k - 1] + NumBlocks(I[k]) BY <2>1 DEF Stream
  <2>3. NumBlocks(I[k]) \in Nat /\ NumBlocks(I[k]) >= 1
    <3>1. I[k] \in NTCPMessages BY <2>1
    <3> HIDE DEF k
    <3> QED BY <3>1, BlocksOf
  <2>4. at[k] \in Nat /\ at[k - 1] \in Nat /\ at[k] + j <= Len(E) /\ k - 1 = n - (j + 1) BY <1>1, <2>1
  <2> HIDE DEF k
  <2>5. at[k - 1] + (j + 1) <= Len(E) BY <1>1, <2>1, <2>2, <2>3, <2>4
  <2> QED BY <2>4, <2>5
<1>4. T = Nat
  <2>1. \A j \in T : j + 1 \in T BY <1>3
  <2> HIDE DEF T
  <2> QED BY <1>2, <2>1, NTCPInduction DEF T
<1>5. ASSUME NEW k \in 0 .. n PROVE at[k] <= Len(E) /\ (k < n => at[k] < Len(E))
  <2>0. n - k \in Nat /\ n - k <= n /\ n - (n - k) = k OBVIOUS
  <2>1. n - k \in T BY <1>4, <2>0
  <2>2. at[k] + (n - k) <= Len(E) BY <2>0, <2>1
  <2>3. at[k] \in Nat BY <1>1
  <2> QED BY <1>1, <2>2, <2>3
<1> QED BY <1>1, <1>5

\* A row that has one item more.
Longer(E, at, n, F, b) ==
  /\ Len(E) <= Len(F) /\ \A k \in 0 .. n : b[k] = at[k]
  /\ \A i \in 1 .. Len(E) : F[i] = E[i]
LEMMA StreamGrows ==
  ASSUME NEW I \in [Nat -> NTCPMessages], NEW J \in [Nat -> NTCPMessages], NEW n \in Nat,
         \A i \in 1 .. n : J[i] = I[i], NEW E, NEW at, Stream(I, n, E, at)
  PROVE  \E F \in Seq(Blocks) : \E b \in [0 .. n + 1 -> Nat] :
           Stream(J, n + 1, F, b) /\ Longer(E, at, n, F, b)
<1> DEFINE x == CreateMsgBuffer(J[n + 1])
           F == E \o x
           b == [k \in 0 .. n + 1 |-> IF k <= n THEN at[k] ELSE Len(E) + Len(x)]
<1>1. /\ x \in Seq(Blocks) /\ Len(x) = NumBlocks(J[n + 1]) /\ Len(x) \in Nat
      /\ \A j \in 1 .. Len(x) : x[j] = [msg |-> J[n + 1], num |-> j]
  <2>1. J[n + 1] \in NTCPMessages OBVIOUS
  <2>2. /\ x \in Seq(Blocks) /\ NumBlocks(J[n + 1]) \in Nat
        /\ x = [j \in 1 .. NumBlocks(J[n + 1]) |-> [msg |-> J[n + 1], num |-> j]]
    BY <2>1, BlocksOf
  <2> HIDE DEF x
  <2> QED BY <2>2
<1>2. E \in Seq(Blocks) /\ Len(E) \in Nat /\ \A k \in 0 .. n : at[k] \in Nat BY StreamIs
<1> HIDE DEF x
<1>3. /\ F \in Seq(Blocks) /\ Len(F) = Len(E) + Len(x)
      /\ \A i \in 1 .. Len(E) : F[i] = E[i]
      /\ \A j \in 1 .. Len(x) : F[Len(E) + j] = x[j]
  BY <1>1, <1>2
<1> HIDE DEF F
<1>4. /\ b \in [0 .. n + 1 -> Nat] /\ b[n + 1] = Len(E) + Len(x)
      /\ \A k \in 0 .. n : b[k] = at[k]
  BY <1>1, <1>2
<1> HIDE DEF b
<1>5. ASSUME NEW k \in 1 .. n + 1
      PROVE  /\ b[k] = b[k - 1] + NumBlocks(J[k])
             /\ \A j \in 1 .. NumBlocks(J[k]) : F[b[k - 1] + j] = [msg |-> J[k], num |-> j]
  <2>1. CASE k = n + 1
    <3>1. k - 1 = n /\ n \in 0 .. n BY <2>1
    <3>2. b[k - 1] = Len(E) /\ b[k] = Len(E) + Len(x) BY <1>4, <2>1, <3>1 DEF Stream
    <3> QED BY <1>1, <1>3, <2>1, <3>2
  <2>2. CASE k # n + 1
    <3>1. k \in 1 .. n /\ k \in 0 .. n /\ k - 1 \in 0 .. n BY <2>2
    <3>2. b[k] = at[k] /\ b[k - 1] = at[k - 1] /\ J[k] = I[k] BY <1>4, <3>1
    <3>3. /\ at[k] = at[k - 1] + NumBlocks(I[k])
          /\ \A j \in 1 .. NumBlocks(I[k]) : E[at[k - 1] + j] = [msg |-> I[k], num |-> j]
      BY <3>1 DEF Stream
    <3>4. at[k] <= Len(E) /\ at[k] \in Nat /\ at[k - 1] \in Nat BY <3>1, StreamIs
    <3>5. NumBlocks(I[k]) \in Nat
      <4>1. I[k] \in NTCPMessages BY <3>1
      <4> QED BY <4>1, BlocksOf
    <3>6. ASSUME NEW j \in 1 .. NumBlocks(I[k]) PROVE F[at[k - 1] + j] = [msg |-> I[k], num |-> j]
      <4>1. at[k - 1] + j \in 1 .. Len(E) BY <1>2, <3>3, <3>4, <3>5
      <4> QED BY <1>3, <3>3, <4>1
    <3> QED BY <3>2, <3>3, <3>6
  <2> QED BY <2>1, <2>2
<1>6. b[0] = 0 /\ b[n + 1] = Len(F) BY <1>3, <1>4 DEF Stream
<1>7. Stream(J, n + 1, F, b) BY <1>3, <1>4, <1>5, <1>6 DEF Stream
<1>8. Len(E) <= Len(F) BY <1>1, <1>2, <1>3
<1>9. Longer(E, at, n, F, b) BY <1>3, <1>4, <1>8 DEF Longer
<1> QED BY <1>3, <1>4, <1>7, <1>9

LEMMA FlowGrows ==
  ASSUME NEW I \in [Nat -> NTCPMessages], NEW J \in [Nat -> NTCPMessages], NEW n \in Nat,
         \A i \in 1 .. n : J[i] = I[i],
         NEW u, NEW v, NEW live, NEW live2, live2 => live /\ u \in 0 .. n /\ v = u + 1,
         NEW w \in Seq(Blocks), NEW o \in EndRecord, NEW s, Flow(I, n, u, live, w, o, s)
  PROVE  Flow(J, n + 1, v, live2, w, o, s)
<1>1. PICK E \in Seq(Blocks), at \in [0 .. n -> Nat], k \in 0 .. n :
        FlowAt(I, n, u, live, w, o, s, E, at, k)
  BY DEF Flow
<1>2. /\ Stream(I, n, E, at) /\ Reads(I, n, E, at, k, w, o, s)
      /\ live => at[k] + Len(o.m_NextMessage) + Len(o.m_ReceiveBuffer) + Len(w) = at[n - u]
  BY <1>1 DEF FlowAt
<1>3. PICK F \in Seq(Blocks), b \in [0 .. n + 1 -> Nat] :
        Stream(J, n + 1, F, b) /\ Longer(E, at, n, F, b)
  BY <1>2, StreamGrows
<1>a. /\ Len(E) <= Len(F) /\ \A i \in 0 .. n : b[i] = at[i]
      /\ \A i \in 1 .. Len(E) : F[i] = E[i]
  BY <1>3 DEF Longer
<1> DEFINE a == at[k]
<1>4. Len(E) \in Nat /\ Len(F) \in Nat /\ a \in Nat /\ b[k] = a /\ k \in 0 .. n + 1 /\ k \in Nat
  BY <1>a
<1> DEFINE next == o.m_NextMessage
           buf == o.m_ReceiveBuffer
<1>5. next \in Seq(Blocks) /\ buf \in Seq(Blocks) /\ Len(next) \in Nat /\ Len(buf) \in Nat
      /\ Len(w) \in Nat /\ o.m_Handler \in Seq(Seq(Blocks)) /\ Len(o.m_Handler) \in Nat
  BY DEF EndRecord
<1>b. live => a + Len(next) + Len(buf) + Len(w) = at[n - u] BY <1>2
<1>c. /\ InHandshake(o) => k \in ReadIn(s, o.phase)
      /\ Follow(E, a + Len(next), buf) /\ Follow(E, (a + Len(next)) + Len(buf), w)
  BY <1>2 DEF Reads
<1>d. /\ a + Len(next) <= Len(E) /\ \A i \in 1 .. Len(next) : next[i] = E[a + i]
      /\ next # <<>> => k < n /\ Len(next) < NumBlocks(I[k + 1])
  BY <1>2 DEF Reads, Reached
<1>e. o.phase = 5 =>
        /\ k >= 2 /\ Len(o.m_Handler) = IF k <= 3 THEN 0 ELSE k - 3
        /\ \A i \in 1 .. Len(o.m_Handler) : o.m_Handler[i] = CreateMsgBuffer(I[i + 3])
  BY <1>2 DEF Reads, Reached
<1> HIDE DEF next, buf, a
<1>6. Reached(J, n + 1, F, b, k, o)
  <2>2. b[k] + Len(next) <= Len(F) BY <1>a, <1>4, <1>5, <1>d
  <2>3. \A i \in 1 .. Len(next) : next[i] = F[b[k] + i]
    <3> TAKE i \in 1 .. Len(next)
    <3>1. a + i \in 1 .. Len(E) BY <1>4, <1>5, <1>d
    <3> QED BY <1>a, <1>4, <1>d, <3>1
  <2>4. next # <<>> => k < n + 1 /\ Len(next) < NumBlocks(J[k + 1])
    <3> SUFFICES ASSUME next # <<>> PROVE k < n + 1 /\ Len(next) < NumBlocks(J[k + 1]) OBVIOUS
    <3>1. k < n /\ k + 1 \in 1 .. n BY <1>4, <1>d
    <3> QED BY <1>d, <3>1
  <2>5. ASSUME o.phase = 5, NEW i \in 1 .. Len(o.m_Handler)
        PROVE  o.m_Handler[i] = CreateMsgBuffer(J[i + 3])
    <3>1. i + 3 \in 1 .. n
      <4>1. Len(o.m_Handler) = (IF k <= 3 THEN 0 ELSE k - 3) /\ k <= n /\ i \in Nat /\ i <= Len(o.m_Handler)
        BY <1>4, <1>5, <1>e, <2>5
      <4> QED BY <1>4, <1>5, <4>1
    <3> QED BY <1>e, <2>5, <3>1
  <2> QED BY <1>4, <1>e, <2>2, <2>3, <2>4, <2>5 DEF Reached, next
<1>7. ASSUME NEW p \in Nat, NEW x, Len(x) \in Nat, Follow(E, p, x) PROVE Follow(F, p, x)
  <2>1. p + Len(x) <= Len(F) BY <1>a, <1>4, <1>7 DEF Follow
  <2>2. \A i \in 1 .. Len(x) : x[i] = F[p + i]
    <3> TAKE i \in 1 .. Len(x)
    <3>0. p + Len(x) <= Len(E) BY <1>7 DEF Follow
    <3>1. p + i \in 1 .. Len(E) BY <1>4, <1>7, <3>0
    <3> QED BY <1>a, <1>7, <3>1 DEF Follow
  <2> QED BY <2>1, <2>2 DEF Follow
<1>8. Reads(J, n + 1, F, b, k, w, o, s)
  <2>2. a + Len(next) \in Nat /\ (a + Len(next)) + Len(buf) \in Nat BY <1>4, <1>5
  <2>3. Follow(F, a + Len(next), buf) /\ Follow(F, (a + Len(next)) + Len(buf), w)
    BY <1>5, <1>7, <1>c, <2>2
  <2> QED BY <1>4, <1>6, <1>c, <2>3 DEF Reads, next, buf
<1>9. live2 => b[k] + Len(next) + Len(buf) + Len(w) = b[(n + 1) - v]
  <2> SUFFICES ASSUME live2 PROVE b[k] + Len(next) + Len(buf) + Len(w) = b[(n + 1) - v]
    OBVIOUS
  <2>1. live /\ u \in 0 .. n /\ v = u + 1 OBVIOUS
  <2>2. (n + 1) - v = n - u /\ n - u \in 0 .. n BY <2>1
  <2> QED BY <1>a, <1>b, <1>4, <2>1, <2>2
<1> QED BY <1>3, <1>4, <1>8, <1>9 DEF Flow, FlowAt, a, next, buf

\* The same items.
LEMMA FlowKept ==
  ASSUME NEW I, NEW n \in Nat,
         NEW u, NEW v, NEW live, NEW live2, live2 => live /\ v = u,
         NEW w, NEW o, NEW s, Flow(I, n, u, live, w, o, s)
  PROVE  Flow(I, n, v, live2, w, o, s)
BY DEF Flow, FlowAt

\* The first items that were not written are.
LEMMA FlowWritten ==
  ASSUME NEW I \in [Nat -> NTCPMessages], NEW n \in Nat, NEW u \in 0 .. n, NEW v \in Nat,
         NEW q \in Seq(NTCPMessages), u = Len(q) + v, \A i \in 1 .. Len(q) : q[i] = I[(n - u) + i],
         NEW w \in Seq(Blocks), NEW o \in EndRecord, NEW s, Flow(I, n, u, TRUE, w, o, s)
  PROVE  w \o Encoded(q) \in Seq(Blocks) /\ Flow(I, n, v, TRUE, w \o Encoded(q), o, s)
<1>1. PICK E \in Seq(Blocks), at \in [0 .. n -> Nat], k \in 0 .. n :
        FlowAt(I, n, u, TRUE, w, o, s, E, at, k)
  BY DEF Flow
<1>2. /\ Stream(I, n, E, at) /\ Reads(I, n, E, at, k, w, o, s)
      /\ at[k] + Len(o.m_NextMessage) + Len(o.m_ReceiveBuffer) + Len(w) = at[n - u]
  BY <1>1 DEF FlowAt
<1> DEFINE x == Encoded(q)
           m == n - u
           next == Len(o.m_NextMessage)
           got == Len(o.m_ReceiveBuffer)
           a == at[k]
           b == at[m]
           c == at[m + Len(q)]
<1>3. m \in Nat /\ m \in 0 .. n /\ m + Len(q) \in 0 .. n /\ m + Len(q) = n - v OBVIOUS
<1>4. /\ x \in Seq(Blocks) /\ Len(x) = c - b
      /\ \A j \in 1 .. Len(x) : x[j] = E[b + j]
  <2>1. \A i \in 1 .. Len(q) : q[i] = I[m + i] OBVIOUS
  <2>2. m \in Nat /\ m + Len(q) <= n BY <1>3
  <2> HIDE DEF m
  <2>3. Covers(Encoded(q), E, at[m], at[m + Len(q)]) BY <1>2, <2>1, <2>2, EncodedIs
  <2> QED BY <2>3 DEF Covers
<1>5. /\ next \in Nat /\ got \in Nat /\ Len(w) \in Nat /\ a \in Nat
      /\ b \in Nat /\ c \in Nat /\ c <= Len(E) /\ Len(E) \in Nat
  <2>1. o.m_NextMessage \in Seq(Blocks) /\ o.m_ReceiveBuffer \in Seq(Blocks) BY DEF EndRecord
  <2>2. \A j \in 0 .. n : at[j] \in Nat /\ at[j] <= Len(E) BY <1>2, StreamIs
  <2> HIDE DEF m
  <2> QED BY <1>3, <2>1, <2>2
<1>6. a + next + got + Len(w) = b /\ c = at[n - v] BY <1>2, <1>3
<1>7. \A i \in 1 .. Len(w) : w[i] = E[((a + next) + got) + i] BY <1>2 DEF Reads, Follow
<1> DEFINE p == (a + next) + got
<1> HIDE DEF x, m, a, b, c, next, got
<1>8. /\ w \o x \in Seq(Blocks) /\ Len(w \o x) = Len(w) + Len(x) /\ Len(x) \in Nat
      /\ \A i \in 1 .. Len(w) : (w \o x)[i] = w[i]
      /\ \A i \in (Len(w) + 1) .. (Len(w) + Len(x)) : (w \o x)[i] = x[i - Len(w)]
  <2>1. x \in Seq(Blocks) BY <1>4
  <2> QED BY ONLY <2>1, w \in Seq(Blocks)
<1>9. p \in Nat /\ p + Len(w) = b BY <1>5, <1>6
<1>10. Follow(E, p, w \o x)
  <2> HIDE DEF p
  <2>3. p + Len(w \o x) <= Len(E) BY <1>4, <1>5, <1>8, <1>9
  <2>4. \A i \in 1 .. Len(w \o x) : (w \o x)[i] = E[p + i]
    <3> TAKE i \in 1 .. Len(w \o x)
    <3>0. i \in Nat /\ i >= 1 /\ i <= Len(w) + Len(x) BY <1>5, <1>8
    <3>1. CASE i <= Len(w)
      <4>1. i \in 1 .. Len(w) BY <1>5, <3>0, <3>1
      <4> QED BY <1>7, <1>8, <4>1 DEF p
    <3>2. CASE i > Len(w)
      <4>1. i - Len(w) \in 1 .. Len(x) /\ i \in (Len(w) + 1) .. (Len(w) + Len(x))
        BY <1>5, <1>8, <3>0, <3>2
      <4>a. (p + Len(w)) + (i - Len(w)) = p + i BY <1>5, <1>9, <3>0
      <4>2. b + (i - Len(w)) = p + i BY <1>9, <4>a
      <4> QED BY <1>4, <1>8, <4>1, <4>2
    <3> QED BY <1>5, <3>0, <3>1, <3>2
  <2> QED BY <2>3, <2>4 DEF Follow
<1>11. Reads(I, n, E, at, k, w \o x, o, s) BY <1>2, <1>10 DEF Reads, p, a, next, got
<1>12. a + next + got + Len(w \o x) = c
  <2> HIDE DEF p
  <2>a. Len(x) = c - b BY <1>4
  <2>b. p + (Len(w) + (c - b)) = (p + Len(w)) + (c - b) BY <1>5, <1>9
  <2>c. b + (c - b) = c BY <1>5
  <2>1. p + Len(w \o x) = c BY <1>8, <1>9, <2>a, <2>b, <2>c
  <2> QED BY <2>1 DEF p
<1> QED BY <1>2, <1>6, <1>8, <1>11, <1>12 DEF Flow, FlowAt, x, a, next, got

\* The wire is cut.
LEMMA FlowCut ==
  ASSUME NEW I, NEW n \in Nat, NEW u, NEW live, NEW w \in Seq(Blocks), NEW o \in EndRecord, NEW s,
         Flow(I, n, u, live, w, o, s)
  PROVE  Flow(I, n, u, FALSE, <<>>, o, s)
<1>1. PICK E \in Seq(Blocks), at \in [0 .. n -> Nat], k \in 0 .. n :
        FlowAt(I, n, u, live, w, o, s, E, at, k)
  BY DEF Flow
<1>2. Stream(I, n, E, at) /\ Reads(I, n, E, at, k, w, o, s) BY <1>1 DEF FlowAt
<1> DEFINE p == (at[k] + Len(o.m_NextMessage)) + Len(o.m_ReceiveBuffer)
<1>3. p \in Nat /\ Len(w) \in Nat /\ Len(E) \in Nat
  <2>1. o.m_NextMessage \in Seq(Blocks) /\ o.m_ReceiveBuffer \in Seq(Blocks) BY DEF EndRecord
  <2> QED BY <2>1
<1>4. Follow(E, p, w) BY <1>2 DEF Reads
<1> HIDE DEF p
<1>5. Follow(E, p, <<>>) BY <1>3, <1>4 DEF Follow
<1>6. Reads(I, n, E, at, k, <<>>, o, s) BY <1>2, <1>5 DEF Reads, p
<1> QED BY <1>2, <1>6 DEF Flow, FlowAt

\* A read takes the first m blocks of the wire.
LEMMA FlowRead ==
  ASSUME NEW I \in [Nat -> NTCPMessages], NEW n \in Nat, NEW u, NEW live, NEW w \in Seq(Blocks),
         NEW o \in EndRecord, NEW o2, NEW s, Flow(I, n, u, live, w, o, s),
         o.read # "none", o.m_ReceiveBuffer = <<>>, NEW m \in 1 .. Len(w),
         o2.m_ReceiveBuffer = SubSeq(w, 1, m), o2.m_NextMessage = o.m_NextMessage,
         o2.phase = o.phase, o2.m_Handler = o.m_Handler
  PROVE  Flow(I, n, u, live, SubSeq(w, m + 1, Len(w)), o2, s)
<1>1. PICK E \in Seq(Blocks), at \in [0 .. n -> Nat], k \in 0 .. n :
        FlowAt(I, n, u, live, w, o, s, E, at, k)
  BY DEF Flow
<1> DEFINE next == Len(o.m_NextMessage)
           p == at[k] + next
           x == SubSeq(w, 1, m)
           y == SubSeq(w, m + 1, Len(w))
<1>2. /\ Stream(I, n, E, at) /\ Reads(I, n, E, at, k, w, o, s)
      /\ live => (p + Len(o.m_ReceiveBuffer)) + Len(w) = at[n - u]
  BY <1>1 DEF FlowAt
<1>3. /\ x \in Seq(Blocks) /\ y \in Seq(Blocks) /\ Len(x) = m /\ Len(y) = Len(w) - m
      /\ m \in Nat /\ Len(w) \in Nat
      /\ \A i \in 1 .. m : x[i] = w[i]
      /\ \A i \in 1 .. (Len(w) - m) : y[i] = w[m + i]
  OBVIOUS
<1>4. p \in Nat /\ Len(E) \in Nat
  <2>1. o.m_NextMessage \in Seq(Blocks) BY DEF EndRecord
  <2> QED BY <2>1
<1>5. Follow(E, p, w) /\ Len(o.m_ReceiveBuffer) = 0
  <2>1. Len(o.m_ReceiveBuffer) = 0 BY Len(<<>>) = 0
  <2>2. Follow(E, p + Len(o.m_ReceiveBuffer), w) BY <1>2 DEF Reads
  <2> HIDE DEF p
  <2> QED BY <1>4, <2>1, <2>2
<1> HIDE DEF p, x, y
<1>6. p + Len(w) <= Len(E) /\ \A i \in 1 .. Len(w) : w[i] = E[p + i] BY <1>5 DEF Follow
<1>7. Follow(E, p, x)
  <2>1. p + Len(x) <= Len(E) BY <1>3, <1>4, <1>6
  <2>2. \A i \in 1 .. Len(x) : x[i] = E[p + i]
    <3> TAKE i \in 1 .. Len(x)
    <3>1. i \in 1 .. m /\ i \in 1 .. Len(w) BY <1>3
    <3> QED BY <1>3, <1>6, <3>1
  <2> QED BY <2>1, <2>2 DEF Follow
<1>8. Follow(E, p + Len(x), y)
  <2>1. (p + Len(x)) + Len(y) <= Len(E)
    <3>1. m + (Len(w) - m) = Len(w) BY <1>3
    <3>2. (p + m) + (Len(w) - m) = p + Len(w) BY <1>3, <1>4
    <3> QED BY <1>3, <1>6, <3>2
  <2>2. \A i \in 1 .. Len(y) : y[i] = E[(p + Len(x)) + i]
    <3> TAKE i \in 1 .. Len(y)
    <3>1. i \in 1 .. (Len(w) - m) /\ m + i \in 1 .. Len(w) /\ i \in Nat BY <1>3
    <3>2. (p + m) + i = p + (m + i) BY <1>3, <1>4, <3>1
    <3>3. y[i] = w[m + i] /\ w[m + i] = E[p + (m + i)] BY <1>3, <1>6, <3>1
    <3> QED BY <1>3, <3>2, <3>3
  <2> QED BY <2>1, <2>2 DEF Follow
<1>9. live => (p + Len(x)) + Len(y) = at[n - u]
  <2>1. (p + m) + (Len(w) - m) = p + Len(w) BY <1>3, <1>4
  <2>2. (p + 0) + Len(w) = p + Len(w) BY <1>3, <1>4
  <2> QED BY <1>2, <1>3, <1>5, <2>1, <2>2
<1>10. Reached(I, n, E, at, k, o2) BY <1>2 DEF Reads, Reached
<1>11. Reads(I, n, E, at, k, y, o2, s)
  <2>1. InHandshake(o2) => k \in ReadIn(s, o2.phase) BY <1>2 DEF Reads, InHandshake
  <2> QED BY <1>7, <1>8, <1>10, <2>1 DEF Reads, p, x
<1> QED BY <1>2, <1>9, <1>11 DEF Flow, FlowAt, p, x, y

\* A block of the handshake is taken: it is a whole item.
LEMMA FlowTaken ==
  ASSUME NEW I \in [Nat -> NTCPMessages], \A i \in 1 .. 3 : I[i].len = 0,
         NEW n \in Nat, NEW u, NEW live, NEW w \in Seq(Blocks),
         NEW o \in EndRecord, NEW o2 \in EndRecord, NEW s, Flow(I, n, u, live, w, o, s),
         o.read # "none", o.phase < 5, ReadIn(s, o.phase) \subseteq 0 .. 2,
         Len(o.m_ReceiveBuffer) = 1, o.m_NextMessage = <<>>,
         o2.m_ReceiveBuffer = <<>>, o2.m_NextMessage = <<>>, o2.m_Handler = <<>>,
         InHandshake(o2) => \A k \in ReadIn(s, o.phase) : k < n => k + 1 \in ReadIn(s, o2.phase),
         o2.phase = 5 => \A k \in ReadIn(s, o.phase) : k < n => k + 1 \in {2, 3}
  PROVE  Flow(I, n, u, live, w, o2, s) /\ \E k \in ReadIn(s, o.phase) : k < n
<1>1. PICK E \in Seq(Blocks), at \in [0 .. n -> Nat], k \in 0 .. n :
        FlowAt(I, n, u, live, w, o, s, E, at, k)
  BY DEF Flow
<1> DEFINE p == at[k]
<1>2. /\ Stream(I, n, E, at) /\ Reads(I, n, E, at, k, w, o, s) /\ Len(o.m_NextMessage) = 0
      /\ live => ((p + 0) + 1) + Len(w) = at[n - u]
  <2>1. Len(o.m_NextMessage) = 0 BY Len(<<>>) = 0
  <2> QED BY <1>1, <2>1 DEF FlowAt
<1>3. p \in Nat /\ Len(w) \in Nat /\ Len(E) \in Nat /\ k \in Nat OBVIOUS
<1>4. k \in ReadIn(s, o.phase) /\ k \in 0 .. 2
  <2>1. InHandshake(o) BY DEF InHandshake
  <2> QED BY <1>2, <2>1 DEF Reads
<1>5. Follow(E, p + 0, o.m_ReceiveBuffer) /\ Follow(E, (p + 0) + 1, w)
  BY <1>2 DEF Reads
<1>6. p + 1 <= Len(E) BY <1>3, <1>5 DEF Follow
<1>7. k < n
  <2>1. k = n => p = Len(E) BY <1>2 DEF Stream
  <2> QED BY <1>3, <1>6, <2>1
<1>8. k + 1 \in 1 .. n /\ k + 1 \in 0 .. n /\ k + 1 \in 1 .. 3 /\ (k + 1) - 1 = k BY <1>4, <1>7
<1>9. at[k + 1] = p + 1
  <2>1. I[k + 1] \in NTCPMessages /\ I[k + 1].len = 0 BY <1>8
  <2>2. NumBlocks(I[k + 1]) = 1 BY <2>1, BlocksOf
  <2>3. at[k + 1] = at[(k + 1) - 1] + NumBlocks(I[k + 1]) BY <1>2, <1>8 DEF Stream
  <2> QED BY <1>8, <2>2, <2>3
<1> HIDE DEF p
<1>10. Reached(I, n, E, at, k + 1, o2)
  <2>1. Len(o2.m_NextMessage) = 0 /\ Len(o2.m_Handler) = 0 BY Len(<<>>) = 0
  <2>2. at[k + 1] + Len(o2.m_NextMessage) <= Len(E) BY <1>3, <1>6, <1>9, <2>1
  <2>3. o2.phase = 5 => k + 1 >= 2 /\ k + 1 <= 3 BY <1>4, <1>7
  <2> QED BY <1>8, <2>1, <2>2, <2>3 DEF Reached
<1>11. Reads(I, n, E, at, k + 1, w, o2, s)
  <2>1. InHandshake(o2) => k + 1 \in ReadIn(s, o2.phase) BY <1>4, <1>7
  <2>2. Len(o2.m_NextMessage) = 0 /\ Len(o2.m_ReceiveBuffer) = 0 BY Len(<<>>) = 0
  <2>3. Follow(E, p + 1, o2.m_ReceiveBuffer) BY <1>3, <1>6, <2>2 DEF Follow
  <2>4. Follow(E, p + 1, w) BY <1>3, <1>5
  <2>5. at[k + 1] + Len(o2.m_NextMessage) = p + 1
        /\ (at[k + 1] + Len(o2.m_NextMessage)) + Len(o2.m_ReceiveBuffer) = p + 1
    BY <1>3, <1>9, <2>2
  <2> QED BY <1>10, <2>1, <2>3, <2>4, <2>5 DEF Reads
<1>12. live => at[k + 1] + Len(o2.m_NextMessage) + Len(o2.m_ReceiveBuffer) + Len(w) = at[n - u]
  <2>1. Len(o2.m_NextMessage) = 0 /\ Len(o2.m_ReceiveBuffer) = 0 BY Len(<<>>) = 0
  <2> QED BY <1>2, <1>3, <1>9, <2>1
<1>13. Flow(I, n, u, live, w, o2, s) BY <1>2, <1>8, <1>11, <1>12 DEF Flow, FlowAt
<1> QED BY <1>4, <1>7, <1>13
-----------------------------------------------------------------------------
(***************************************************************************)
(* DecryptNextBlock, then the blocks of a chunk.                           *)
(***************************************************************************)
SameElse(e, e2) ==
  /\ e2.phase = e.phase /\ e2.open = e.open /\ e2.m_IsTerminated = e.m_IsTerminated
  /\ e2.m_IsEstablished = e.m_IsEstablished /\ e2.timer = e.timer /\ e2.read = e.read
  /\ e2.write = e.write /\ e2.writes = e.writes /\ e2.m_IsSending = e.m_IsSending
  /\ e2.m_SendQueue = e.m_SendQueue /\ e2.m_ReceiveBuffer = e.m_ReceiveBuffer
  /\ e2.posted = e.posted /\ e2.events = e.events

LEMMA DecryptNextBlockIs ==
  ASSUME NEW e \in EndRecord, NEW b \in Blocks
  PROVE  LET d == DecryptNextBlock(e, b)
             next == Append(e.m_NextMessage, b)
             size == next[1].msg.len
         IN /\ d \in EndRecord /\ SameElse(e, d)
            /\ e.m_NextMessage = <<>> /\ (size = 0 \/ b.num # 1) => d = e
            /\ ~(e.m_NextMessage = <<>> /\ (size = 0 \/ b.num # 1)) /\ 16 * Len(next) >= size + 2 + 4 =>
                 d.m_Handler = Append(e.m_Handler, next) /\ d.m_NextMessage = <<>>
            /\ ~(e.m_NextMessage = <<>> /\ (size = 0 \/ b.num # 1)) /\ ~(16 * Len(next) >= size + 2 + 4) =>
                 d.m_Handler = e.m_Handler /\ d.m_NextMessage = next
<1> DEFINE d == DecryptNextBlock(e, b)
           next == Append(e.m_NextMessage, b)
           size == next[1].msg.len
           skip == e.m_NextMessage = <<>> /\ (size = 0 \/ b.num # 1)
           full == 16 * Len(next) >= size + 2 + 4
           handler == Append(e.m_Handler, next)
<1>1. d = IF skip THEN e
          ELSE IF full THEN [e EXCEPT !.m_Handler = handler, !.m_NextMessage = <<>>]
          ELSE [e EXCEPT !.m_NextMessage = next]
  BY DEF DecryptNextBlock
<1>2. next \in Seq(Blocks) BY DEF EndRecord
<1>3. handler \in Seq(Seq(Blocks))
  <2> HIDE DEF next
  <2> QED BY <1>2 DEF EndRecord
<1> HIDE DEF d, next, size, skip, full, handler
<1>4. SameElse(e, e) BY DEF SameElse
<1>5. CASE skip BY <1>1, <1>4, <1>5 DEF d, next, size, skip, full
<1>6. CASE ~skip /\ full
  <2>1. d = [e EXCEPT !.m_Handler = handler, !.m_NextMessage = <<>>] BY <1>1, <1>6
  <2>a. <<>> \in Seq(Blocks) OBVIOUS
  <2>2. d \in EndRecord BY <1>3, <2>1, <2>a DEF EndRecord
  <2>3. SameElse(e, d) /\ d.m_Handler = handler /\ d.m_NextMessage = <<>>
    BY <2>1 DEF EndRecord, SameElse
  <2> QED BY <1>6, <2>2, <2>3 DEF d, next, size, skip, full, handler
<1>7. CASE ~skip /\ ~full
  <2>1. d = [e EXCEPT !.m_NextMessage = next] BY <1>1, <1>7
  <2>2. d \in EndRecord BY <1>2, <2>1 DEF EndRecord
  <2>3. SameElse(e, d) /\ d.m_Handler = e.m_Handler /\ d.m_NextMessage = next
    BY <2>1 DEF EndRecord, SameElse
  <2> QED BY <1>7, <2>2, <2>3 DEF d, next, size, skip, full, handler
<1> QED BY <1>5, <1>6, <1>7

\* The next block of the row: k2 is the number of items dealt with then.
NextReached(I, n, E, at, p, d) ==
  \E k2 \in 0 .. n : Reached(I, n, E, at, k2, d) /\ at[k2] + Len(d.m_NextMessage) = p

LEMMA BlockStep ==
  ASSUME NEW I \in [Nat -> NTCPMessages], \A i \in 1 .. 3 : I[i].len = 0,
         NEW n \in Nat, \A i \in 4 .. n : I[i].len > 0, NEW E, NEW at, Stream(I, n, E, at),
         NEW e \in EndRecord, e.phase = 5, NEW k \in 0 .. n, Reached(I, n, E, at, k, e),
         at[k] + Len(e.m_NextMessage) < Len(E),
         NEW b, b = E[at[k] + Len(e.m_NextMessage) + 1]
  PROVE  /\ b \in Blocks
         /\ NextReached(I, n, E, at, at[k] + Len(e.m_NextMessage) + 1, DecryptNextBlock(e, b))
<1> DEFINE d == DecryptNextBlock(e, b)
           last == e.m_NextMessage
           next == Append(last, b)
           m == I[k + 1]
           a == at[k]
           N == NumBlocks(m)
<1>1. /\ last \in Seq(Blocks) /\ Len(last) \in Nat /\ e.m_Handler \in Seq(Seq(Blocks))
      /\ Len(e.m_Handler) \in Nat /\ a \in Nat /\ E \in Seq(Blocks) /\ Len(E) \in Nat
      /\ k \in Nat
  <2>1. last \in Seq(Blocks) /\ e.m_Handler \in Seq(Seq(Blocks)) BY DEF EndRecord
  <2>2. E \in Seq(Blocks) /\ Len(E) \in Nat /\ a \in Nat BY StreamIs
  <2> HIDE DEF last
  <2> QED BY <2>1, <2>2
<1>2. /\ a + Len(last) <= Len(E) /\ \A i \in 1 .. Len(last) : last[i] = E[a + i]
      /\ last # <<>> => k < n /\ Len(last) < N
  BY DEF Reached
<1>3. k >= 2 /\ Len(e.m_Handler) = (IF k <= 3 THEN 0 ELSE k - 3)
      /\ \A i \in 1 .. Len(e.m_Handler) : e.m_Handler[i] = CreateMsgBuffer(I[i + 3])
  BY DEF Reached
<1>4. k < n
  <2>1. CASE last # <<>> BY <1>2, <2>1
  <2>2. CASE last = <<>>
    <3>1. Len(last) = 0 BY <2>2
    <3>2. a < Len(E) BY <1>1, <3>1
    <3>3. k = n => a = Len(E) BY DEF Stream
    <3> QED BY <1>1, <3>2, <3>3
  <2> QED BY <2>1, <2>2
<1>5. /\ k + 1 \in 1 .. n /\ k + 1 \in 0 .. n /\ (k + 1) - 1 = k /\ m \in NTCPMessages
      /\ at[k + 1] = a + N
      /\ \A j \in 1 .. N : E[a + j] = [msg |-> m, num |-> j]
  <2>1. k + 1 \in 1 .. n /\ (k + 1) - 1 = k BY <1>1, <1>4
  <2>2. at[k + 1] = at[(k + 1) - 1] + NumBlocks(I[k + 1])
        /\ \A j \in 1 .. NumBlocks(I[k + 1]) : E[at[(k + 1) - 1] + j] = [msg |-> I[k + 1], num |-> j]
    BY <2>1 DEF Stream
  <2> QED BY <2>1, <2>2
<1>6. /\ N \in Nat /\ N >= 1
      /\ CreateMsgBuffer(m) = [j \in 1 .. N |-> [msg |-> m, num |-> j]]
      /\ m.len = 0 => N = 1
      /\ m.len > 0 => \A j \in 1 .. N : 16 * j >= m.len + 6 <=> j = N
  <2> HIDE DEF m
  <2> QED BY <1>5, BlocksOf
<1>7. m.len \in Nat /\ (k + 1 <= 3 => m.len = 0) /\ (k + 1 > 3 => m.len > 0)
  <2>1. k + 1 <= 3 => k + 1 \in 1 .. 3 BY <1>1
  <2>2. k + 1 > 3 => k + 1 \in 4 .. n BY <1>1, <1>4
  <2>3. m.len \in Nat BY <1>5 DEF NTCPMessages
  <2> QED BY <2>1, <2>2, <2>3
<1>8. Len(last) + 1 \in 1 .. N
  <2>1. CASE last # <<>> BY <1>1, <1>2, <1>6, <2>1
  <2>2. CASE last = <<>>
    <3>1. Len(last) = 0 BY <2>2
    <3> QED BY <1>6, <3>1
  <2> QED BY <2>1, <2>2
<1>9. b = [msg |-> m, num |-> Len(last) + 1] /\ b \in Blocks
  <2>1. E[a + (Len(last) + 1)] = [msg |-> m, num |-> Len(last) + 1] BY <1>5, <1>8
  <2>2. a + (Len(last) + 1) = a + Len(last) + 1 BY <1>1
  <2>3. b = [msg |-> m, num |-> Len(last) + 1] BY <2>1, <2>2
  <2> QED BY <1>1, <1>5, <2>3 DEF Blocks
<1> HIDE DEF m, a, N
<1>10. /\ next \in Seq(Blocks) /\ Len(next) = Len(last) + 1
       /\ \A j \in 1 .. Len(next) : next[j] = [msg |-> m, num |-> j] /\ next[j] = E[a + j]
  <2>1. next \in Seq(Blocks) /\ Len(next) = Len(last) + 1 /\ next[Len(last) + 1] = b
        /\ \A j \in 1 .. Len(last) : next[j] = last[j]
    BY <1>1, <1>9
  <2> HIDE DEF next
  <2>2. ASSUME NEW j \in 1 .. Len(next) PROVE next[j] = [msg |-> m, num |-> j] /\ next[j] = E[a + j]
    <3>1. j \in 1 .. N /\ j \in Nat BY <1>1, <1>6, <1>8, <2>1
    <3>2. E[a + j] = [msg |-> m, num |-> j] BY <1>5, <3>1
    <3>3. CASE j = Len(last) + 1 BY <1>9, <2>1, <3>2, <3>3
    <3>4. CASE j # Len(last) + 1
      <4>1. j \in 1 .. Len(last) BY <1>1, <2>1, <3>4
      <4> QED BY <1>2, <2>1, <3>2, <4>1
    <3> QED BY <3>3, <3>4
  <2> QED BY <2>1, <2>2
<1> DEFINE size == next[1].msg.len
           full == 16 * Len(next) >= size + 2 + 4
           skip == last = <<>> /\ (size = 0 \/ b.num # 1)
<1>11. size = m.len
  <2>1. 1 \in 1 .. Len(next) BY <1>1, <1>10
  <2>2. next[1] = [msg |-> m, num |-> 1] BY <1>10, <2>1
  <2> QED BY <2>2
<1>12. /\ d \in EndRecord /\ SameElse(e, d)
       /\ skip => d = e
       /\ ~skip /\ full => d.m_Handler = Append(e.m_Handler, next) /\ d.m_NextMessage = <<>>
       /\ ~skip /\ ~full => d.m_Handler = e.m_Handler /\ d.m_NextMessage = next
  BY <1>9, DecryptNextBlockIs
<1> HIDE DEF d, next, size, last
<1>13. d.phase = 5 BY <1>12 DEF SameElse
<1>14. skip <=> m.len = 0
  <2>1. CASE last = <<>>
    <3>1. b.num = 1 BY <1>9, <2>1
    <3> QED BY <1>11, <2>1, <3>1
  <2>2. CASE last # <<>>
    <3>1. Len(last) # 0 BY <1>1, <2>2
    <3>2. m.len # 0 BY <1>1, <1>2, <1>6, <2>2, <3>1
    <3> QED BY <2>2, <3>2
  <2> QED BY <2>1, <2>2
<1>15. CASE m.len = 0
  <2>1. d = e /\ last = <<>> /\ k + 1 <= 3 /\ N = 1 /\ Len(last) = 0
    BY <1>1, <1>6, <1>7, <1>12, <1>14, <1>15
  <2>2. at[k + 1] = a + 1 /\ d.m_NextMessage = <<>> /\ Len(d.m_NextMessage) = 0 /\ a + 1 <= Len(E)
    BY <1>1, <1>5, <2>1 DEF last, a
  <2>3. Len(d.m_Handler) = 0 BY <1>1, <1>3, <2>1
  <2>4. Reached(I, n, E, at, k + 1, d)
    BY <1>1, <1>3, <1>5, <2>1, <2>2, <2>3 DEF Reached
  <2>5. at[k + 1] + Len(d.m_NextMessage) = a + Len(last) + 1 BY <1>1, <2>1, <2>2
  <2> QED BY <1>5, <1>9, <2>4, <2>5 DEF NextReached, d, last, a
<1>16. CASE m.len > 0 /\ full
  <2>1. d.m_Handler = Append(e.m_Handler, next) /\ d.m_NextMessage = <<>>
    BY <1>7, <1>12, <1>14, <1>16
  <2>2. Len(next) \in 1 .. N /\ Len(next) = N
    <3>1. Len(next) \in 1 .. N BY <1>8, <1>10
    <3>2. 16 * Len(next) >= m.len + 6 BY <1>1, <1>7, <1>10, <1>11, <1>16
    <3> QED BY <1>6, <1>16, <3>1, <3>2
  <2>3. next = CreateMsgBuffer(m)
    <3>1. next = [j \in 1 .. Len(next) |-> next[j]] BY <1>10
    <3> QED BY <1>6, <1>10, <2>2, <3>1
  <2>4. k + 1 > 3 /\ Len(e.m_Handler) = k - 3 BY <1>1, <1>3, <1>7, <1>16
  <2>5. /\ Len(d.m_Handler) = (k + 1) - 3
        /\ \A i \in 1 .. Len(d.m_Handler) : d.m_Handler[i] = CreateMsgBuffer(I[i + 3])
    <3> DEFINE h == e.m_Handler
    <3>1. h \in Seq(Seq(Blocks)) /\ next \in Seq(Blocks) BY <1>1, <1>10
    <3> HIDE DEF h
    <3>2. Len(Append(h, next)) = Len(h) + 1 /\ Append(h, next)[Len(h) + 1] = next
          /\ \A i \in 1 .. Len(h) : Append(h, next)[i] = h[i]
      BY ONLY <3>1
    <3>3. Len(h) = k - 3 /\ Len(h) \in Nat /\ d.m_Handler = Append(h, next)
          /\ \A i \in 1 .. Len(h) : h[i] = CreateMsgBuffer(I[i + 3])
      BY <1>1, <1>3, <2>1, <2>4 DEF h
    <3>4. Len(d.m_Handler) = (k + 1) - 3 BY <1>1, <3>2, <3>3
    <3>5. ASSUME NEW i \in 1 .. Len(d.m_Handler) PROVE d.m_Handler[i] = CreateMsgBuffer(I[i + 3])
      <4>1. CASE i = Len(h) + 1
        <5>1. i + 3 = k + 1 BY <1>1, <3>3, <4>1
        <5> QED BY <2>3, <3>2, <3>3, <4>1, <5>1 DEF m
      <4>2. CASE i # Len(h) + 1
        <5>1. i \in 1 .. Len(h) BY <3>2, <3>3, <4>2
        <5> QED BY <3>2, <3>3, <5>1
      <4> QED BY <4>1, <4>2
    <3> QED BY <3>4, <3>5
  <2>6. Len(d.m_NextMessage) = 0 BY <2>1
  <2>7. at[k + 1] = a + Len(last) + 1 BY <1>1, <1>5, <1>10, <2>2
  <2>8. at[k + 1] + Len(d.m_NextMessage) = a + Len(last) + 1 /\ a + Len(last) + 1 <= Len(E)
    <3>1. a + Len(last) < Len(E) BY DEF a, last
    <3> QED BY <1>1, <2>6, <2>7, <3>1
  <2>a. at[k + 1] + Len(d.m_NextMessage) <= Len(E) BY <2>8
  <2>b. k + 1 >= 2 /\ ~(k + 1 <= 3) BY <1>1, <2>4
  <2>c. \A i \in 1 .. Len(d.m_NextMessage) : d.m_NextMessage[i] = E[at[k + 1] + i] BY <2>6
  <2>9. Reached(I, n, E, at, k + 1, d)
    BY <1>5, <2>1, <2>5, <2>a, <2>b, <2>c DEF Reached
  <2> QED BY <1>5, <1>9, <2>8, <2>9 DEF NextReached, d, last, a
<1>17. CASE m.len > 0 /\ ~full
  <2>1. d.m_Handler = e.m_Handler /\ d.m_NextMessage = next BY <1>7, <1>12, <1>14, <1>17
  <2>2. Len(next) < N
    <3>1. Len(next) \in 1 .. N BY <1>8, <1>10
    <3>2. ~(16 * Len(next) >= m.len + 6) BY <1>1, <1>7, <1>10, <1>11, <1>17
    <3> QED BY <1>6, <1>17, <3>1, <3>2
  <2>3. a + Len(next) = a + Len(last) + 1 /\ a + Len(next) <= Len(E)
    <3>1. a + Len(last) < Len(E) BY DEF a, last
    <3> QED BY <1>1, <1>10, <3>1
  <2>4. Reached(I, n, E, at, k, d)
    BY <1>3, <1>4, <1>10, <2>1, <2>2, <2>3 DEF Reached, a, m, N
  <2> QED BY <1>9, <2>1, <2>3, <2>4 DEF NextReached, d, last, a
<1> QED BY <1>7, <1>15, <1>16, <1>17

\* A chunk that is accepted as a whole.
LEMMA DecryptedTyped ==
  ASSUME NEW e \in EndRecord, NEW x \in Seq(Blocks)
  PROVE  Decrypted(e, x) \in EndRecord /\ SameElse(e, Decrypted(e, x))
<1>0. PICK f : DecryptedBy(f, e, x) BY DecryptedFold
<1>1. /\ f[0] = e /\ Decrypted(e, x) = f[Len(x)]
      /\ \A n \in 1 .. Len(x) : f[n] = DecryptNextBlock(f[n - 1], x[n])
  BY <1>0 DEF DecryptedBy
<1> DEFINE T == {i \in Nat : i <= Len(x) => f[i] \in EndRecord /\ SameElse(e, f[i])}
<1>2. 0 \in T BY <1>1 DEF SameElse
<1>3. ASSUME NEW i \in T, i + 1 <= Len(x) PROVE f[i + 1] \in EndRecord /\ SameElse(e, f[i + 1])
  <2>1. i \in Nat /\ i + 1 \in 1 .. Len(x) /\ (i + 1) - 1 = i /\ f[i] \in EndRecord /\ SameElse(e, f[i])
    BY <1>3
  <2>2. x[i + 1] \in Blocks BY <2>1
  <2>3. f[i + 1] = DecryptNextBlock(f[i], x[i + 1]) BY <1>1, <2>1
  <2>4. f[i + 1] \in EndRecord /\ SameElse(f[i], f[i + 1]) BY <2>1, <2>2, <2>3, DecryptNextBlockIs
  <2> QED BY <2>1, <2>4 DEF SameElse
<1>4. T = Nat
  <2>1. \A i \in T : i + 1 \in T BY <1>3
  <2> HIDE DEF T
  <2> QED BY <1>2, <2>1, NTCPInduction DEF T
<1>5. Len(x) \in T /\ Len(x) \in Nat BY <1>4
<1> QED BY <1>1, <1>5

LEMMA FlowDecrypted ==
  ASSUME NEW I \in [Nat -> NTCPMessages], \A i \in 1 .. 3 : I[i].len = 0,
         NEW n \in Nat, \A i \in 4 .. n : I[i].len > 0,
         NEW u, NEW live, NEW w \in Seq(Blocks),
         NEW o \in EndRecord, NEW e \in EndRecord, NEW s, Flow(I, n, u, live, w, o, s),
         o.phase = 5, e.phase = 5, e.m_NextMessage = o.m_NextMessage, e.m_Handler = o.m_Handler,
         e.m_ReceiveBuffer = <<>>
  PROVE  Flow(I, n, u, live, w, Decrypted(e, o.m_ReceiveBuffer), s)
<1> DEFINE x == o.m_ReceiveBuffer
           d == Decrypted(e, x)
<1>0. PICK E \in Seq(Blocks), at \in [0 .. n -> Nat], k \in 0 .. n :
        FlowAt(I, n, u, live, w, o, s, E, at, k)
  BY DEF Flow
<1> DEFINE p == at[k] + Len(o.m_NextMessage)
<1>1. /\ Stream(I, n, E, at) /\ Reads(I, n, E, at, k, w, o, s)
      /\ live => (p + Len(x)) + Len(w) = at[n - u]
  BY <1>0 DEF FlowAt
<1>2. Reached(I, n, E, at, k, e) BY <1>1 DEF Reads, Reached
<1>3. Follow(E, p, x) /\ Follow(E, p + Len(x), w) BY <1>1 DEF Reads
<1>4. x \in Seq(Blocks) /\ Len(x) \in Nat /\ p \in Nat /\ Len(E) \in Nat /\ Len(w) \in Nat
  <2>1. o.m_NextMessage \in Seq(Blocks) /\ x \in Seq(Blocks) BY DEF EndRecord
  <2>2. Len(o.m_NextMessage) \in Nat /\ Len(x) \in Nat /\ Len(E) \in Nat /\ Len(w) \in Nat BY <2>1
  <2>3. at[k] \in Nat BY <1>0
  <2> QED BY <2>1, <2>2, <2>3
<1>5. p = at[k] + Len(e.m_NextMessage) OBVIOUS
<1>6. d \in EndRecord /\ SameElse(e, d) BY <1>4, DecryptedTyped
<1> HIDE DEF x, p
<1>a. PICK f : DecryptedBy(f, e, x) BY <1>4, DecryptedFold
<1>7. /\ f[0] = e /\ d = f[Len(x)]
      /\ \A i \in 1 .. Len(x) : f[i] = DecryptNextBlock(f[i - 1], x[i])
  BY <1>a DEF DecryptedBy
<1> DEFINE Fits(i) == f[i] \in EndRecord /\ f[i].phase = 5 /\ NextReached(I, n, E, at, p + i, f[i])
           T == {i \in Nat : i <= Len(x) => Fits(i)}
<1>8. 0 \in T
  <2>1. NextReached(I, n, E, at, p + 0, e) BY <1>2, <1>4, <1>5 DEF NextReached
  <2> QED BY <1>7, <2>1
<1>9. ASSUME NEW i \in T, i + 1 <= Len(x) PROVE Fits(i + 1)
  <2>1. i \in Nat /\ i + 1 \in 1 .. Len(x) /\ (i + 1) - 1 = i /\ Fits(i) BY <1>4, <1>9
  <2> DEFINE g == f[i]
             b == x[i + 1]
  <2>2. f[i + 1] = DecryptNextBlock(g, b) BY <1>7, <2>1
  <2>3. g \in EndRecord /\ g.phase = 5 /\ NextReached(I, n, E, at, p + i, g) BY <2>1
  <2> HIDE DEF g
  <2>4. PICK k2 \in 0 .. n : Reached(I, n, E, at, k2, g) /\ at[k2] + Len(g.m_NextMessage) = p + i
    BY <2>3 DEF NextReached
  <2>5. p + Len(x) <= Len(E) /\ b = E[p + (i + 1)] BY <1>3, <2>1 DEF Follow
  <2>a. i \in Nat /\ i + 1 <= Len(x) BY <1>9
  <2>b. p + (i + 1) = (p + i) + 1 BY <1>4, <2>a
  <2>6. p + i < Len(E) /\ p + (i + 1) = (p + i) + 1
    <3>1. (p + i) + 1 <= p + Len(x) BY <1>4, <2>a
    <3>2. p + i \in Nat /\ p + Len(x) \in Nat BY <1>4, <2>a
    <3> QED BY <1>4, <2>5, <2>b, <3>1, <3>2
  <2>7. at[k2] + Len(g.m_NextMessage) < Len(E) /\ b = E[at[k2] + Len(g.m_NextMessage) + 1]
    BY <2>4, <2>5, <2>6
  <2> HIDE DEF b
  <2>8. /\ b \in Blocks
        /\ NextReached(I, n, E, at, at[k2] + Len(g.m_NextMessage) + 1, DecryptNextBlock(g, b))
    BY <1>1, <2>3, <2>4, <2>7, BlockStep
  <2>9. NextReached(I, n, E, at, p + (i + 1), f[i + 1]) BY <2>2, <2>4, <2>6, <2>8
  <2>10. f[i + 1] \in EndRecord /\ f[i + 1].phase = 5
    BY <2>2, <2>3, <2>8, DecryptNextBlockIs DEF SameElse
  <2> QED BY <2>9, <2>10
<1>10. T = Nat
  <2>1. \A i \in T : i + 1 \in T BY <1>9
  <2> HIDE DEF T
  <2> QED BY <1>8, <2>1, NTCPInduction DEF T
<1>11. Fits(Len(x))
  <2>1. Len(x) \in T BY <1>4, <1>10
  <2> QED BY <1>4, <2>1
<1> HIDE DEF d
<1>12. PICK k2 \in 0 .. n : Reached(I, n, E, at, k2, d) /\ at[k2] + Len(d.m_NextMessage) = p + Len(x)
  BY <1>7, <1>11 DEF NextReached
<1>13. d.phase = 5 /\ d.m_ReceiveBuffer = <<>> /\ Len(d.m_ReceiveBuffer) = 0
  BY <1>6 DEF SameElse
<1>14. (p + Len(x)) + Len(d.m_ReceiveBuffer) = p + Len(x) BY <1>4, <1>13
<1>15. Reads(I, n, E, at, k2, w, d, s)
  <2>1. ~InHandshake(d) BY <1>13 DEF InHandshake
  <2>2. p + Len(x) <= Len(E) BY <1>3 DEF Follow
  <2>3. Follow(E, p + Len(x), d.m_ReceiveBuffer) BY <1>13, <1>14, <2>2 DEF Follow
  <2> QED BY <1>3, <1>12, <1>14, <2>1, <2>3 DEF Reads
<1>16. live => at[k2] + Len(d.m_NextMessage) + Len(d.m_ReceiveBuffer) + Len(w) = at[n - u]
  BY <1>1, <1>12, <1>14
<1>17. Flow(I, n, u, live, w, d, s) BY <1>1, <1>15, <1>16 DEF Flow, FlowAt
<1> QED BY <1>17 DEF d, x
-----------------------------------------------------------------------------
(***************************************************************************)
(* One end: what each function of the class leaves of EndOK.               *)
(***************************************************************************)
SameLife(e, d) ==
  /\ d.phase = e.phase /\ d.open = e.open /\ d.m_IsTerminated = e.m_IsTerminated
  /\ d.m_IsEstablished = e.m_IsEstablished /\ d.events = e.events
SameIn(e, d) ==
  /\ d.read = e.read /\ d.m_ReceiveBuffer = e.m_ReceiveBuffer
  /\ d.m_NextMessage = e.m_NextMessage /\ d.m_Handler = e.m_Handler
SameOut(e, d) ==
  /\ d.write = e.write /\ d.writes = e.writes /\ d.m_IsSending = e.m_IsSending
  /\ d.m_SendQueue = e.m_SendQueue
SameMessages(e, d) ==
  d.m_NextMessage = e.m_NextMessage /\ d.m_Handler = e.m_Handler /\ d.posted = e.posted

LEMMA TookRead ==
  ASSUME NEW e \in EndRecord
  PROVE  LET d == Took(e, "read")
         IN /\ d \in EndRecord /\ SameLife(e, d) /\ SameOut(e, d) /\ SameMessages(e, d)
            /\ d.read = "none" /\ d.m_ReceiveBuffer = <<>>
<1> DEFINE d == Took(e, "read")
<1>1. d = [e EXCEPT !.read = "none", !.m_ReceiveBuffer = <<>>] BY DEF Took
<1>2. <<>> \in Seq(Blocks) OBVIOUS
<1>3. d \in EndRecord BY <1>1, <1>2 DEF EndRecord, Results
<1> QED BY <1>1, <1>3 DEF EndRecord, SameLife, SameOut, SameMessages

LEMMA TookWrite ==
  ASSUME NEW e \in EndRecord, Len(e.writes) = 1
  PROVE  LET d == Took(e, "write")
         IN /\ d \in EndRecord /\ SameLife(e, d) /\ SameIn(e, d) /\ d.posted = e.posted
            /\ d.write = "none" /\ d.writes = <<>>
            /\ d.m_IsSending = e.m_IsSending /\ d.m_SendQueue = e.m_SendQueue
<1> DEFINE d == Took(e, "write")
<1>1. d = [e EXCEPT !.writes = Tail(e.writes), !.write = "none"] BY DEF Took
<1>2. Tail(e.writes) = <<>> /\ <<>> \in Seq(Seq(NTCPMessages))
  <2> DEFINE w == e.writes
  <2>1. w \in Seq(Seq(NTCPMessages)) /\ Len(w) = 1 BY DEF EndRecord
  <2> HIDE DEF w
  <2>0. w # <<>> BY <2>1, EmptySeq
  <2>2. Tail(w) \in Seq(Seq(NTCPMessages)) /\ Len(Tail(w)) = 0 BY <2>0, <2>1, HeadTailProperties
  <2>3. Tail(w) = <<>> BY <2>2, EmptySeq
  <2>4. <<>> \in Seq(Seq(NTCPMessages)) OBVIOUS
  <2> QED BY <2>3, <2>4 DEF w
<1>3. d = [e EXCEPT !.writes = <<>>, !.write = "none"] BY <1>1, <1>2
<1> HIDE DEF d
<1>4. d \in EndRecord BY <1>2, <1>3 DEF EndRecord, Results
<1>5. SameLife(e, d) /\ SameIn(e, d) /\ d.posted = e.posted
      /\ d.write = "none" /\ d.writes = <<>>
      /\ d.m_IsSending = e.m_IsSending /\ d.m_SendQueue = e.m_SendQueue
  BY <1>3 DEF EndRecord, SameLife, SameIn
<1> QED BY <1>4, <1>5 DEF d

LEMMA StartReadIs ==
  ASSUME NEW e \in EndRecord
  PROVE  LET d == StartRead(e)
         IN /\ d \in EndRecord /\ SameLife(e, d) /\ SameOut(e, d) /\ SameMessages(e, d)
            /\ d.m_ReceiveBuffer = e.m_ReceiveBuffer
            /\ d.read = (IF e.open THEN "pending" ELSE "error")
<1> DEFINE d == StartRead(e)
<1>1. d = [e EXCEPT !.read = IF e.open THEN "pending" ELSE "error"] BY DEF StartRead
<1>3. d \in EndRecord BY <1>1 DEF EndRecord, Results
<1> QED BY <1>1, <1>3 DEF EndRecord, SameLife, SameOut, SameMessages

LEMMA WriteIs ==
  ASSUME NEW e \in EndRecord, e.writes = <<>>, NEW q \in Seq(NTCPMessages)
  PROVE  LET d == Write(e, q)
         IN /\ d \in EndRecord /\ SameLife(e, d) /\ SameIn(e, d) /\ d.posted = e.posted
            /\ d.writes = <<q>> /\ Len(d.writes) = 1 /\ d.writes[1] = q
            /\ d.write = (IF e.open THEN "pending" ELSE "error")
            /\ d.m_IsSending = e.m_IsSending /\ d.m_SendQueue = e.m_SendQueue
<1> DEFINE d == Write(e, q)
<1>1. d = [e EXCEPT !.writes = Append(e.writes, q), !.write = IF e.open THEN "pending" ELSE "error"]
  BY DEF Write
<1>2. Append(e.writes, q) = <<q>> /\ <<q>> \in Seq(Seq(NTCPMessages)) /\ Len(<<q>>) = 1 /\ <<q>>[1] = q
  OBVIOUS
<1> DEFINE ws == <<q>>
           r == IF e.open THEN "pending" ELSE "error"
<1>3. d = [e EXCEPT !.writes = ws, !.write = r] /\ ws \in Seq(Seq(NTCPMessages)) /\ r \in Results
  BY <1>1, <1>2 DEF Results
<1> HIDE DEF d, ws, r
<1>4. d \in EndRecord BY <1>3 DEF EndRecord
<1>5. SameLife(e, d) /\ SameIn(e, d) /\ d.posted = e.posted /\ d.writes = ws /\ d.write = r
      /\ d.m_IsSending = e.m_IsSending /\ d.m_SendQueue = e.m_SendQueue
  BY <1>3 DEF EndRecord, SameLife, SameIn
<1> QED BY <1>2, <1>4, <1>5 DEF d, ws, r

LEMMA SendMessagesIs ==
  ASSUME NEW e \in EndRecord, e.writes = <<>>, NEW q \in Seq(NTCPMessages)
  PROVE  LET d == SendMessages(e, q)
         IN /\ d \in EndRecord /\ SameLife(e, d) /\ SameIn(e, d) /\ d.posted = e.posted
            /\ d.writes = <<q>> /\ Len(d.writes) = 1 /\ d.writes[1] = q
            /\ d.write = (IF e.open THEN "pending" ELSE "error")
            /\ d.m_IsSending /\ d.m_SendQueue = e.m_SendQueue
<1> DEFINE f == [e EXCEPT !.m_IsSending = TRUE]
<1>1. f \in EndRecord /\ SameLife(e, f) /\ SameIn(e, f) /\ f.posted = e.posted
      /\ f.writes = e.writes /\ f.m_SendQueue = e.m_SendQueue /\ f.m_IsSending
  BY DEF EndRecord, SameLife, SameIn
<1>2. SendMessages(e, q) = Write(f, q) BY DEF SendMessages
<1> HIDE DEF f
<1> QED BY <1>1, <1>2, WriteIs DEF SameLife, SameIn

LEMMA CloseSocketIs ==
  ASSUME NEW e \in EndRecord
  PROVE  LET d == CloseSocket(e)
         IN /\ d \in EndRecord /\ SameMessages(e, d) /\ ~d.open
            /\ d.phase = e.phase /\ d.m_IsTerminated = e.m_IsTerminated /\ d.timer = e.timer
            /\ d.m_IsEstablished = e.m_IsEstablished /\ d.events = e.events
            /\ d.read = (IF e.read = "pending" THEN "aborted" ELSE e.read)
            /\ d.write = (IF e.write = "pending" THEN "aborted" ELSE e.write)
            /\ d.writes = e.writes /\ d.m_IsSending = e.m_IsSending
            /\ d.m_SendQueue = e.m_SendQueue /\ d.m_ReceiveBuffer = e.m_ReceiveBuffer
<1> DEFINE d == CloseSocket(e)
           r == IF e.read = "pending" THEN "aborted" ELSE e.read
           w == IF e.write = "pending" THEN "aborted" ELSE e.write
<1>1. d = [e EXCEPT !.open = FALSE, !.read = r, !.write = w] BY DEF CloseSocket
<1>2. r \in Results /\ w \in Results BY DEF EndRecord, Results
<1> HIDE DEF r, w
<1>3. d \in EndRecord BY <1>1, <1>2 DEF EndRecord
<1>4. /\ SameMessages(e, d) /\ ~d.open /\ d.read = r /\ d.write = w
      /\ d.phase = e.phase /\ d.m_IsTerminated = e.m_IsTerminated /\ d.timer = e.timer
      /\ d.m_IsEstablished = e.m_IsEstablished /\ d.events = e.events
      /\ d.writes = e.writes /\ d.m_IsSending = e.m_IsSending
      /\ d.m_SendQueue = e.m_SendQueue /\ d.m_ReceiveBuffer = e.m_ReceiveBuffer
  BY <1>1 DEF EndRecord, SameMessages
<1> QED BY <1>3, <1>4 DEF r, w

LEMMA TerminateIs ==
  ASSUME NEW e \in EndRecord, ~e.m_IsTerminated
  PROVE  LET d == Terminate(e)
         IN /\ d \in EndRecord /\ ~d.open /\ d.m_IsTerminated /\ ~d.m_IsEstablished
            /\ d.phase = e.phase /\ d.events = Append(e.events, "PeerDisconnected")
            /\ d.read = (IF e.read = "pending" THEN "aborted" ELSE e.read)
            /\ d.write = (IF e.write = "pending" THEN "aborted" ELSE e.write)
            /\ d.writes = e.writes /\ d.m_IsSending = e.m_IsSending
            /\ d.m_ReceiveBuffer = e.m_ReceiveBuffer /\ d.posted = e.posted
            /\ d.m_SendQueue = <<>> /\ d.m_NextMessage = <<>> /\ d.m_Handler = e.m_Handler
<1> DEFINE f == CloseSocket(e)
           d == Terminate(e)
           told == Append(e.events, "PeerDisconnected")
<1>1. /\ f \in EndRecord /\ SameMessages(e, f) /\ ~f.open
      /\ f.phase = e.phase /\ f.m_IsTerminated = e.m_IsTerminated
      /\ f.m_IsEstablished = e.m_IsEstablished /\ f.events = e.events
      /\ f.read = (IF e.read = "pending" THEN "aborted" ELSE e.read)
      /\ f.write = (IF e.write = "pending" THEN "aborted" ELSE e.write)
      /\ f.writes = e.writes /\ f.m_IsSending = e.m_IsSending
      /\ f.m_SendQueue = e.m_SendQueue /\ f.m_ReceiveBuffer = e.m_ReceiveBuffer
  BY CloseSocketIs
<1>2. d = [f EXCEPT !.m_IsTerminated = TRUE, !.m_IsEstablished = FALSE, !.timer = FALSE,
                    !.m_SendQueue = <<>>, !.m_NextMessage = <<>>,
                    !.events = Append(f.events, "PeerDisconnected")]
  BY DEF Terminate
<1>3. told \in Seq({"PeerConnected", "PeerDisconnected"}) /\ <<>> \in Seq(Blocks)
      /\ <<>> \in Seq(NTCPMessages)
  BY DEF EndRecord
<1> HIDE DEF f, d, told
<1>4. d = [f EXCEPT !.m_IsTerminated = TRUE, !.m_IsEstablished = FALSE, !.timer = FALSE,
                    !.m_SendQueue = <<>>, !.m_NextMessage = <<>>, !.events = told]
  BY <1>1, <1>2 DEF told
<1>5. d \in EndRecord BY <1>1, <1>3, <1>4 DEF EndRecord
<1>6. /\ d.open = f.open /\ d.m_IsTerminated /\ ~d.m_IsEstablished
      /\ d.phase = f.phase /\ d.events = told /\ d.read = f.read /\ d.write = f.write
      /\ d.writes = f.writes /\ d.m_IsSending = f.m_IsSending
      /\ d.m_ReceiveBuffer = f.m_ReceiveBuffer /\ d.posted = f.posted
      /\ d.m_SendQueue = <<>> /\ d.m_NextMessage = <<>> /\ d.m_Handler = f.m_Handler
  BY <1>1, <1>4 DEF EndRecord
<1> QED BY <1>1, <1>5, <1>6 DEF d, told, SameMessages

\* The reader goes on, and its data stay.
LEMMA FlowReader ==
  ASSUME NEW I, NEW n \in Nat, NEW u, NEW live, NEW w, NEW o, NEW o2, NEW s,
         Flow(I, n, u, live, w, o, s),
         o2.m_NextMessage = o.m_NextMessage, o2.m_ReceiveBuffer = o.m_ReceiveBuffer,
         InHandshake(o2) => InHandshake(o) /\ ReadIn(s, o.phase) \subseteq ReadIn(s, o2.phase),
         o2.phase = 5 => \/ o.phase = 5 /\ o2.m_Handler = o.m_Handler
                         \/ InHandshake(o) /\ ReadIn(s, o.phase) \subseteq {2, 3} /\ o2.m_Handler = <<>>
  PROVE  Flow(I, n, u, live, w, o2, s)
<1>1. PICK E \in Seq(Blocks), at \in [0 .. n -> Nat], k \in 0 .. n :
        FlowAt(I, n, u, live, w, o, s, E, at, k)
  BY DEF Flow
<1>2. Stream(I, n, E, at) /\ Reads(I, n, E, at, k, w, o, s) BY <1>1 DEF FlowAt
<1>3. Reached(I, n, E, at, k, o2)
  <2>1. Reached(I, n, E, at, k, o) BY <1>2 DEF Reads
  <2>2. CASE o2.phase = 5 /\ o.phase = 5 /\ o2.m_Handler = o.m_Handler BY <2>1, <2>2 DEF Reached
  <2>3. CASE o2.phase = 5 /\ InHandshake(o) /\ ReadIn(s, o.phase) \subseteq {2, 3} /\ o2.m_Handler = <<>>
    <3>1. k \in {2, 3} BY <1>2, <2>3 DEF Reads
    <3>2. Len(o2.m_Handler) = 0 /\ \A i \in 1 .. Len(o2.m_Handler) : FALSE BY <2>3
    <3> QED BY <2>1, <3>1, <3>2 DEF Reached
  <2>4. CASE o2.phase # 5 BY <2>1, <2>4 DEF Reached
  <2> QED BY <2>2, <2>3, <2>4
<1>4. Reads(I, n, E, at, k, w, o2, s) BY <1>2, <1>3 DEF Reads
<1>5. FlowAt(I, n, u, live, w, o2, s, E, at, k) BY <1>1, <1>4 DEF FlowAt
<1> QED BY <1>5 DEF Flow
-----------------------------------------------------------------------------
LEMMA TookReadOK ==
  ASSUME NEW e, EndSound(e)
  PROVE  EndSound(Took(e, "read"))
<1> DEFINE d == Took(e, "read")
<1>1. e \in EndRecord BY DEF EndSound
<1>2. /\ d \in EndRecord /\ SameLife(e, d) /\ SameOut(e, d) /\ SameMessages(e, d)
      /\ d.read = "none" /\ d.m_ReceiveBuffer = <<>>
  BY <1>1, TookRead
<1> HIDE DEF d
<1>3. EndSound(d) BY <1>2 DEF EndSound, SameLife, SameOut, SameMessages
<1> QED BY <1>3 DEF d

LEMMA TookWriteOK ==
  ASSUME NEW e, EndSound(e), e.write # "none"
  PROVE  /\ Len(e.writes) = 1
         /\ Took(e, "write") \in EndRecord
         /\ e.phase < 5 => EndSound(Took(e, "write"))
<1> DEFINE d == Took(e, "write")
<1>1. e \in EndRecord BY DEF EndSound
<1>2. Len(e.writes) = 1
  <2> DEFINE w == e.writes
  <2>1. w \in Seq(Seq(NTCPMessages)) /\ w # <<>> /\ Len(w) <= 1 BY DEF EndSound, EndRecord
  <2> HIDE DEF w
  <2>2. Len(w) \in Nat /\ Len(w) # 0 BY <2>1, EmptySeq
  <2>a. Len(w) <= 1 BY <2>1
  <2>3. Len(w) = 1 BY <2>a, <2>2
  <2> QED BY <2>3 DEF w
<1>3. /\ d \in EndRecord /\ SameLife(e, d) /\ SameIn(e, d) /\ d.posted = e.posted
      /\ d.write = "none" /\ d.writes = <<>>
      /\ d.m_IsSending = e.m_IsSending /\ d.m_SendQueue = e.m_SendQueue
  BY <1>1, <1>2, TookWrite
<1> HIDE DEF d
<1>4. Len(d.writes) = 0 BY <1>3
<1>5. e.phase < 5 => EndSound(d) BY <1>3, <1>4 DEF EndSound, SameLife, SameIn
<1> QED BY <1>2, <1>3, <1>5 DEF d

LEMMA AppendedOne ==
  ASSUME NEW S, NEW z \in Seq(S), Len(z) = 1, NEW a \in S
  PROVE  Append(z, a) \in Seq(S) /\ Len(Append(z, a)) = 2 /\ Append(z, a)[1] = z[1] /\ Append(z, a)[2] = a
<1>1. Append(z, a) \in Seq(S) BY AppendProperties
<1>2. Len(Append(z, a)) = Len(z) + 1 BY AppendProperties
<1>3. \A i \in 1 .. Len(z) : Append(z, a)[i] = z[i] BY AppendProperties
<1>4. Append(z, a)[Len(z) + 1] = a BY AppendProperties
<1>5. Len(z) + 1 = 2 /\ 1 \in 1 .. Len(z) OBVIOUS
<1>6. Append(z, a)[1] = z[1] BY <1>3, <1>5
<1> QED BY <1>1, <1>2, <1>4, <1>5, <1>6

LEMMA Appended ==
  ASSUME NEW a, NEW b
  PROVE  Append(<<>>, a) = <<a>> /\ Append(<<b>>, a) = <<b, a>>
<1> DEFINE S == {a, b}
           x == Append(<<b>>, a)
           y == <<b, a>>
<1>1. <<b>> \in Seq(S) /\ a \in S /\ b \in S /\ Len(<<b>>) = 1 /\ <<b>>[1] = b OBVIOUS
<1>2. y \in Seq(S) /\ Len(y) = 2 /\ y[1] = b /\ y[2] = a OBVIOUS
<1>3. x \in Seq(S) /\ Len(x) = 2 /\ x[1] = b /\ x[2] = a
  <2> DEFINE z == <<b>>
  <2>1. z \in Seq(S) /\ Len(z) = 1 /\ z[1] = b BY <1>1
  <2> HIDE DEF z, S
  <2>2. Append(z, a) \in Seq(S) /\ Len(Append(z, a)) = 2 /\ Append(z, a)[1] = b /\ Append(z, a)[2] = a
    BY <1>1, <2>1, AppendedOne
  <2> QED BY <2>2 DEF z
<1> HIDE DEF x, y, S
<1>4. \A i \in 1 .. Len(x) : x[i] = y[i]
  <2>1. \A i \in 1 .. 2 : i = 1 \/ i = 2 OBVIOUS
  <2> QED BY <1>2, <1>3, <2>1
<1>5. x = y BY <1>2, <1>3, <1>4, SeqEqual
<1>6. Append(<<>>, a) = <<a>> OBVIOUS
<1> QED BY <1>5, <1>6 DEF x, y

LEMMA TerminateOK ==
  ASSUME NEW e, EndSound(e)
  PROVE  LET d == Terminate(e)
         IN /\ EndOK(d) /\ ~d.open /\ d.m_IsTerminated /\ d.phase = e.phase /\ d.posted = e.posted
            /\ d.read = (IF e.read = "pending" THEN "aborted" ELSE e.read)
            /\ d.writes = e.writes
<1> DEFINE d == Terminate(e)
<1>1. CASE e.m_IsTerminated
  <2>1. d = e BY <1>1 DEF Terminate
  <2>2. ~e.open /\ e.read # "pending" BY <1>1 DEF EndSound
  <2> QED BY <1>1, <2>1, <2>2 DEF EndOK
<1>2. CASE ~e.m_IsTerminated
  <2>1. e \in EndRecord BY DEF EndSound
  <2>2. /\ d \in EndRecord /\ ~d.open /\ d.m_IsTerminated /\ ~d.m_IsEstablished
        /\ d.phase = e.phase /\ d.events = Append(e.events, "PeerDisconnected")
        /\ d.read = (IF e.read = "pending" THEN "aborted" ELSE e.read)
        /\ d.write = (IF e.write = "pending" THEN "aborted" ELSE e.write)
        /\ d.writes = e.writes /\ d.m_IsSending = e.m_IsSending
        /\ d.m_ReceiveBuffer = e.m_ReceiveBuffer /\ d.posted = e.posted
        /\ d.m_SendQueue = <<>> /\ d.m_NextMessage = <<>> /\ d.m_Handler = e.m_Handler
    BY <1>2, <2>1, TerminateIs
  <2> HIDE DEF d
  <2>3. /\ Append(<<>>, "PeerDisconnected") = <<"PeerDisconnected">>
        /\ Append(<<"PeerConnected">>, "PeerDisconnected") = <<"PeerConnected", "PeerDisconnected">>
    BY ONLY Appended
  <2>4. /\ e.phase < 5 => e.events = <<>>
        /\ e.phase = 5 => e.events = <<"PeerConnected">>
    BY <1>2 DEF EndSound
  <2>5. /\ d.phase < 5 => d.events = <<"PeerDisconnected">>
        /\ d.phase = 5 => d.events = <<"PeerConnected", "PeerDisconnected">>
    BY <1>2, <2>2, <2>3 DEF EndSound
  <2>6. EndSound(d) BY <2>2, <2>5 DEF EndSound
  <2>7. EndOK(d) BY <2>2, <2>6 DEF EndOK
  <2> QED BY <2>2, <2>7 DEF d
<1> QED BY <1>1, <1>2

LEMMA StartReadOK ==
  ASSUME NEW e, EndSound(e), e.read = "none", e.phase < 5 => e.writes = <<>>
  PROVE  EndOK(StartRead(e))
<1> DEFINE d == StartRead(e)
<1>1. e \in EndRecord BY DEF EndSound
<1>2. /\ d \in EndRecord /\ SameLife(e, d) /\ SameOut(e, d) /\ SameMessages(e, d)
      /\ d.m_ReceiveBuffer = e.m_ReceiveBuffer
      /\ d.read = (IF e.open THEN "pending" ELSE "error")
  BY <1>1, StartReadIs
<1> HIDE DEF d
<1>3. EndOK(d) BY <1>2 DEF EndOK, EndSound, SameLife, SameOut, SameMessages
<1> QED BY <1>3 DEF d

\* The end a writes m and is in the phase p.
Answer(a, p, m) == Write([a EXCEPT !.phase = p], <<m>>)
LEMMA SendPhaseOK ==
  ASSUME NEW e, EndSound(e), e.phase < 5, e.read = "none", e.writes = <<>>,
         NEW p \in 1 .. 4, NEW m \in NTCPMessages
  PROVE  LET d == Answer(e, p, m)
         IN /\ EndOK(d) /\ d.phase = p /\ d.open = e.open /\ d.m_IsTerminated = e.m_IsTerminated
            /\ d.m_ReceiveBuffer = <<>> /\ d.m_NextMessage = <<>> /\ d.m_Handler = <<>>
            /\ d.posted = <<>> /\ d.m_SendQueue = <<>> /\ d.read = "none"
            /\ d.write = (IF e.open THEN "pending" ELSE "error")
            /\ d.writes[1] = <<m>> /\ Len(d.writes[1]) = 1 /\ d.writes[1][1] = m
<1> DEFINE f == [e EXCEPT !.phase = p]
           q == <<m>>
           d == Answer(e, p, m)
<1>0. p \in 0 .. 5 OBVIOUS
<1>1. e \in EndRecord BY DEF EndSound
<1>2. /\ f \in EndRecord /\ f.phase = p /\ f.open = e.open /\ f.m_IsTerminated = e.m_IsTerminated
      /\ f.m_IsEstablished = e.m_IsEstablished /\ f.events = e.events
      /\ SameIn(e, f) /\ SameOut(e, f) /\ f.posted = e.posted
  BY <1>1, <1>0 DEF EndRecord, SameIn, SameOut
<1>3. q \in Seq(NTCPMessages) /\ Len(q) = 1 /\ q[1] = m OBVIOUS
<1>d. d = Write(f, q) BY DEF Answer
<1> HIDE DEF f, q, d
<1>4. /\ d \in EndRecord /\ SameLife(f, d) /\ SameIn(f, d) /\ d.posted = f.posted
      /\ d.writes = <<q>> /\ Len(d.writes) = 1 /\ d.writes[1] = q
      /\ d.write = (IF f.open THEN "pending" ELSE "error")
      /\ d.m_IsSending = f.m_IsSending /\ d.m_SendQueue = f.m_SendQueue
  BY <1>d, <1>2, <1>3, WriteIs DEF SameOut
<1>5. d.writes # <<>>
  <2>1. Len(d.writes) = 1 BY <1>4
  <2>2. Len(<<>>) = 0 OBVIOUS
  <2>3. d.writes = <<>> => Len(d.writes) = 0 BY ONLY <2>2
  <2> QED BY ONLY <2>1, <2>3
<1>6. EndOK(d) BY <1>2, <1>4, <1>5 DEF EndOK, EndSound, SameLife, SameIn, SameOut
<1>7. /\ d.phase = p /\ d.open = e.open /\ d.m_IsTerminated = e.m_IsTerminated
      /\ d.m_ReceiveBuffer = <<>> /\ d.m_NextMessage = <<>> /\ d.m_Handler = <<>>
      /\ d.posted = <<>> /\ d.m_SendQueue = <<>> /\ d.read = "none"
      /\ d.write = (IF e.open THEN "pending" ELSE "error")
  BY <1>2, <1>4 DEF EndSound, SameLife, SameIn, SameOut
<1> QED BY <1>3, <1>4, <1>6, <1>7 DEF d, f, q
-----------------------------------------------------------------------------
(***************************************************************************)
(* Both directions of a connection, and the step of one end.               *)
(***************************************************************************)
LEMMA CarriesMore ==
  ASSUME NEW s \in Sides, NEW e \in EndRecord, NEW e2 \in EndRecord, NEW broke,
         NEW w \in Seq(Blocks), NEW o \in EndRecord, Carries(e, s, broke, w, o),
         NEW j \in 1 .. 2, SentItems(e2, s) = SentItems(e, s) + j,
         \A i \in 1 .. SentItems(e, s) : Items(e2, s)[i] = Items(e, s)[i],
         e2.open /\ ~broke =>
           e.open /\ Unwritten(e) \in 0 .. SentItems(e, s) /\ Unwritten(e2) = Unwritten(e) + j
  PROVE  Carries(e2, s, broke, w, o)
<1> SUFFICES ASSUME ~o.m_IsTerminated
             PROVE  Flow(Items(e2, s), SentItems(e2, s), Unwritten(e2), e2.open /\ ~broke, w, o,
                         OtherSide(s))
  BY DEF Carries
<1> DEFINE I == Items(e, s)
           J == Items(e2, s)
           n == SentItems(e, s)
           live == e.open /\ ~broke
           live2 == e2.open /\ ~broke
           u == Unwritten(e)
           v == Unwritten(e2)
           t == OtherSide(s)
<1>1. I \in [Nat -> NTCPMessages] /\ J \in [Nat -> NTCPMessages] BY ItemsTyped DEF EndRecord
<1>2. n \in Nat
  <2>1. e.posted \in Seq(Posts) BY DEF EndRecord
  <2> QED BY <2>1 DEF SentItems
<1>3. Flow(I, n, u, live, w, o, t) BY DEF Carries
<1>4. \A i \in 1 .. n : J[i] = I[i] OBVIOUS
<1>5. live2 => live /\ u \in 0 .. n /\ v = u + j OBVIOUS
<1>n. SentItems(e2, s) = n + j OBVIOUS
<1> HIDE DEF I, J, n, live, live2, u, v, t
<1>6. Flow(J, n + 1, u + 1, live2, w, o, t) BY <1>1, <1>2, <1>3, <1>4, <1>5, FlowGrows
<1>7. CASE j = 1
  <2>1. Flow(J, n + 1, v, live2, w, o, t) BY <1>2, <1>5, <1>6, <1>7, FlowKept
  <2> QED BY <1>7, <1>n, <2>1 DEF J, live2, v, t
<1>8. CASE j = 2
  <2>1. live2 => live2 /\ u + 1 \in 0 .. n + 1 /\ v = (u + 1) + 1 BY <1>2, <1>5, <1>8
  <2>2. n + 1 \in Nat BY <1>2
  <2> DEFINE m == n + 1
             a == u + 1
  <2>3. m \in Nat /\ Flow(J, m, a, live2, w, o, t) /\ (live2 => live2 /\ a \in 0 .. m /\ v = a + 1)
    BY <1>6, <2>1, <2>2
  <2>4. m + 1 = n + 2 BY <1>2
  <2> HIDE DEF m, a
  <2>5. Flow(J, m + 1, v, live2, w, o, t) BY <1>1, <2>3, FlowGrows
  <2> QED BY <1>8, <1>n, <2>4, <2>5 DEF J, live2, v, t
<1> QED BY <1>7, <1>8

\* What it has to write stays, or some of its end is dropped with the socket.
SendsTheSame(e, e2) ==
  /\ e2.m_SendQueue = e.m_SendQueue /\ e2.m_IsSending = e.m_IsSending
  /\ e2.write \in {e.write, "none"}
  /\ e.write = "pending" => e2.write = e.write /\ e2.writes = e.writes
LEMMA SendKept ==
  ASSUME NEW s \in Sides, NEW e \in EndRecord, NEW e2 \in EndRecord, NEW broke,
         NEW w, NEW o, Carries(e, s, broke, w, o), e.open /\ ~broke => SendOK(e, s),
         e2.posted = e.posted, SentItems(e2, s) = SentItems(e, s), e2.phase = 5 => e.phase = 5,
         e2.open /\ ~broke => e.open /\ SendsTheSame(e, e2)
  PROVE  /\ e2.open /\ ~broke => SendOK(e2, s)
         /\ Carries(e2, s, broke, w, o)
<1>1. Items(e2, s) = Items(e, s) BY DEF Items
<1>2. SendsTheSame(e, e2) => Unwritten(e2) = Unwritten(e) BY DEF Unwritten, SendsTheSame
<1>3. SentItems(e, s) \in Nat
  <2>1. e.posted \in Seq(Posts) BY DEF EndRecord
  <2> QED BY <2>1 DEF SentItems
<1>4. Carries(e2, s, broke, w, o)
  <2> SUFFICES ASSUME ~o.m_IsTerminated
               PROVE  Flow(Items(e2, s), SentItems(e2, s), Unwritten(e2), e2.open /\ ~broke, w, o,
                           OtherSide(s))
    BY DEF Carries
  <2>1. Flow(Items(e, s), SentItems(e, s), Unwritten(e), e.open /\ ~broke, w, o, OtherSide(s))
    BY DEF Carries
  <2>2. e2.open /\ ~broke => (e.open /\ ~broke) /\ Unwritten(e2) = Unwritten(e) BY <1>2
  <2> DEFINE l == e.open /\ ~broke
             m == e2.open /\ ~broke
  <2>3. m => l /\ Unwritten(e2) = Unwritten(e) BY <2>2
  <2>4. Flow(Items(e, s), SentItems(e, s), Unwritten(e), l, w, o, OtherSide(s)) BY <2>1
  <2> HIDE DEF l, m
  <2>5. Flow(Items(e, s), SentItems(e, s), Unwritten(e2), m, w, o, OtherSide(s))
    BY <1>3, <2>3, <2>4, FlowKept
  <2> QED BY <1>1, <2>5 DEF m
<1>5. ASSUME e2.open, ~broke PROVE SendOK(e2, s)
  <2>1. SendOK(e, s) /\ SendsTheSame(e, e2) BY <1>5
  <2>2. e.m_SendQueue = e2.m_SendQueue /\ Unwritten(e2) = Unwritten(e) BY <1>2, <2>1 DEF SendsTheSame
  <2>3. e2.write = "pending" => e.write = "pending" /\ e2.writes = e.writes
    BY <2>1 DEF SendsTheSame
  <2>4. e2.write \in {"none", "pending", "ok"} BY <2>1 DEF SendOK, SendsTheSame
  <2>5. e2.phase = 5 /\ ~e2.m_IsSending => e2.m_SendQueue = <<>> BY <2>1 DEF SendOK, SendsTheSame
  <2>6. /\ Unwritten(e) <= SentItems(e, s)
        /\ \A i \in 1 .. Len(e.m_SendQueue) :
             e.m_SendQueue[i] = Items(e, s)[SentItems(e, s) - Len(e.m_SendQueue) + i]
        /\ e.write = "pending" =>
             \A i \in 1 .. Len(e.writes[1]) :
               e.writes[1][i] = Items(e, s)[SentItems(e, s) - Unwritten(e) + i]
    BY <2>1 DEF SendOK
  <2> QED BY <1>1, <2>2, <2>3, <2>4, <2>5, <2>6 DEF SendOK
<1> QED BY <1>4, <1>5

\* What it has read stays.
LEMMA ReadKept ==
  ASSUME NEW s \in Sides, NEW e \in EndRecord, NEW broke, NEW w, NEW o \in EndRecord, NEW o2,
         Carries(e, s, broke, w, o), NEW t, t = OtherSide(s),
         ~o2.m_IsTerminated =>
           /\ ~o.m_IsTerminated
           /\ o2.m_NextMessage = o.m_NextMessage /\ o2.m_ReceiveBuffer = o.m_ReceiveBuffer
           /\ InHandshake(o2) => InHandshake(o) /\ ReadIn(t, o.phase) \subseteq ReadIn(t, o2.phase)
           /\ o2.phase = 5 => \/ o.phase = 5 /\ o2.m_Handler = o.m_Handler
                              \/ InHandshake(o) /\ ReadIn(t, o.phase) \subseteq {2, 3} /\ o2.m_Handler = <<>>
  PROVE  Carries(e, s, broke, w, o2)
<1>1. SentItems(e, s) \in Nat
  <2>1. e.posted \in Seq(Posts) BY DEF EndRecord
  <2> QED BY <2>1 DEF SentItems
<1> QED BY <1>1, FlowReader DEF Carries
-----------------------------------------------------------------------------
LEMMA OneEnd ==
  ASSUME NEW x, NEW v, NEW broke, ConnectionOK(x, v, broke), NEW s \in Sides, NEW e2,
         NEW v2 \in [Sides -> Seq(Blocks)],
         EndOK(e2), e2.open /\ ~broke => SendOK(e2, s),
         Carries(e2, s, broke, v2[s], x[OtherSide(s)]),
         Carries(x[OtherSide(s)], OtherSide(s), broke, v2[OtherSide(s)], e2),
         x["client"].phase # 0,
         e2.phase >= x[s].phase,
         e2.phase = 5 /\ x[s].phase # 5 /\ s = "client" => x["server"].phase >= 4
  PROVE  ConnectionOK([x EXCEPT ![s] = e2], v2, broke)
<1> DEFINE y == [x EXCEPT ![s] = e2]
           t == OtherSide(s)
<1>0. x = [r \in Sides |-> x[r]] BY DEF ConnectionOK
<1>1. y[s] = e2 /\ y[t] = x[t] /\ t \in Sides /\ t # s /\ OtherSide(t) = s
      /\ \A r \in Sides : r = s \/ r = t
  BY <1>0 DEF OtherSide, Sides
<1>2. y = [r \in Sides |-> y[r]] BY <1>0
<1>3. /\ EndOK(x[t]) /\ EndOK(x[s]) /\ (x[t].open /\ ~broke => SendOK(x[t], t))
      /\ x["client"].phase = 5 => x["server"].phase >= 4
  BY <1>1 DEF ConnectionOK
<1>4. x[s].phase \in 0 .. 5 /\ e2.phase \in 0 .. 5 /\ x[t].phase \in 0 .. 5
  BY <1>3 DEF EndOK, EndSound, EndRecord
<1> HIDE DEF y
<1>5. ASSUME NEW r \in Sides
      PROVE  /\ EndOK(y[r])
             /\ y[r].open /\ ~broke => SendOK(y[r], r)
             /\ Carries(y[r], r, broke, v2[r], y[OtherSide(r)])
  <2>1. CASE r = s BY <1>1, <2>1
  <2>2. CASE r = t BY <1>1, <1>3, <2>2
  <2> QED BY <1>1, <2>1, <2>2
<1>6. CASE s = "client"
  <2>1. t = "server" BY <1>6 DEF OtherSide
  <2>2. y["client"] = e2 /\ y["server"] = x["server"] BY <1>1, <1>6, <2>1
  <2>3. e2.phase # 0 /\ (e2.phase = 5 => x["server"].phase >= 4) BY <1>3, <1>4, <1>6
  <2> QED BY <1>2, <1>5, <2>2, <2>3 DEF ConnectionOK, y
<1>7. CASE s = "server"
  <2>1. t = "client" BY <1>7 DEF OtherSide
  <2>2. y["server"] = e2 /\ y["client"] = x["client"] BY <1>1, <1>7, <2>1
  <2>3. x["client"].phase = 5 => e2.phase >= 4 BY <1>3, <1>4, <1>7
  <2> QED BY <1>2, <1>5, <2>2, <2>3 DEF ConnectionOK, y
<1> QED BY <1>6, <1>7 DEF Sides

\* The new state of one connection.
LEMMA OneConnection ==
  ASSUME NTCPIInv, NEW c \in NTCPConns, NEW x, NEW v,
         ntcp' = [ntcp EXCEPT ![c] = x], wire' = [wire EXCEPT ![c] = v],
         ntcpCase' = ntcpCase, broken' \cup registered' \cup setUnreachable' \subseteq NTCPConns,
         \A d \in NTCPConns : d # c => (d \in broken') = (d \in broken),
         ConnectionOK(x, v, c \in broken')
  PROVE  NTCPIInv'
<1>1. ntcp = [d \in NTCPConns |-> ntcp[d]] /\ wire = [d \in NTCPConns |-> wire[d]] BY DEF NTCPIInv
<1>2. /\ ntcp' = [d \in NTCPConns |-> ntcp'[d]] /\ wire' = [d \in NTCPConns |-> wire'[d]]
      /\ ntcp'[c] = x /\ wire'[c] = v
      /\ \A d \in NTCPConns : d # c => ntcp'[d] = ntcp[d] /\ wire'[d] = wire[d]
  BY <1>1
<1>3. ASSUME NEW d \in NTCPConns PROVE ConnectionOK(ntcp'[d], wire'[d], d \in broken')
  <2>1. CASE d = c BY <1>2, <2>1
  <2>2. CASE d # c
    <3>1. (d \in broken') = (d \in broken) BY <2>2
    <3>2. ConnectionOK(ntcp[d], wire[d], d \in broken) BY DEF NTCPIInv
    <3> QED BY <1>2, <2>2, <3>1, <3>2
  <2> QED BY <2>1, <2>2
<1>4. ntcpCase' \in NTCPCases BY DEF NTCPIInv
<1> QED BY <1>2, <1>3, <1>4 DEF NTCPIInv

LEMMA EndsAre ==
  ASSUME NTCPIInv, NEW c \in NTCPConns, NEW s \in Sides
  PROVE  LET e == ntcp[c][s]
             t == OtherSide(s)
             o == ntcp[c][t]
         IN /\ t \in Sides /\ OtherSide(t) = s
            /\ EndOK(e) /\ EndSound(e) /\ e \in EndRecord /\ EndSound(o) /\ o \in EndRecord
            /\ wire[c] \in [Sides -> Seq(Blocks)]
            /\ wire[c][s] \in Seq(Blocks) /\ wire[c][t] \in Seq(Blocks)
            /\ e.open /\ ~(c \in broken) => SendOK(e, s)
            /\ Carries(e, s, c \in broken, wire[c][s], o)
            /\ Carries(o, t, c \in broken, wire[c][t], e)
            /\ (e.read # "none" \/ e.write # "none" \/ e.events # <<>> \/ e.timer) =>
                 ntcp[c]["client"].phase # 0
            /\ SentItems(e, s) \in Nat /\ SentItems(o, t) \in Nat
<1> DEFINE e == ntcp[c][s]
           t == OtherSide(s)
           o == ntcp[c][t]
<1>1. ConnectionOK(ntcp[c], wire[c], c \in broken) BY DEF NTCPIInv
<1>2. t \in Sides /\ OtherSide(t) = s BY DEF Sides, OtherSide
<1>3. EndOK(e) /\ EndOK(o) BY <1>1, <1>2 DEF ConnectionOK
<1>4. EndSound(e) /\ e \in EndRecord /\ EndSound(o) /\ o \in EndRecord BY <1>3 DEF EndOK, EndSound
<1>5. wire[c] \in [Sides -> Seq(Blocks)] BY <1>1 DEF ConnectionOK
<1>6. wire[c][s] \in Seq(Blocks) /\ wire[c][t] \in Seq(Blocks) BY <1>2, <1>5
<1>7. /\ e.open /\ ~(c \in broken) => SendOK(e, s)
      /\ Carries(e, s, c \in broken, wire[c][s], o)
  BY <1>1 DEF ConnectionOK
<1>8. Carries(o, t, c \in broken, wire[c][t], e)
  <2>1. Carries(ntcp[c][t], t, c \in broken, wire[c][t], ntcp[c][OtherSide(t)])
    BY <1>1, <1>2 DEF ConnectionOK
  <2> QED BY <1>2, <2>1
<1>9. (e.read # "none" \/ e.write # "none" \/ e.events # <<>> \/ e.timer) =>
        ntcp[c]["client"].phase # 0
  <2>1. ntcp[c]["client"].phase = 0 => e = NewEnd BY <1>1 DEF ConnectionOK
  <2>2. NewEnd.read = "none" /\ NewEnd.write = "none" /\ NewEnd.events = <<>> /\ ~NewEnd.timer
    BY DEF NewEnd
  <2> QED BY <2>1, <2>2
<1>10. SentItems(e, s) \in Nat /\ SentItems(o, t) \in Nat
  <2>1. e.posted \in Seq(Posts) /\ o.posted \in Seq(Posts) BY <1>4 DEF EndRecord
  <2> HIDE DEF e, o
  <2> QED BY <2>1 DEF SentItems
<1> QED BY <1>2, <1>3, <1>4, <1>5, <1>6, <1>7, <1>8, <1>9, <1>10

\* The new state of one end.
LEMMA EndActs ==
  ASSUME NTCPIInv, NEW c \in NTCPConns, NEW s \in Sides, NEW e2, PutEnd(c, s, e2),
         NEW v \in [Sides -> Seq(Blocks)], wire' = [wire EXCEPT ![c] = v],
         broken' = broken, ntcpCase' = ntcpCase, registered' \cup setUnreachable' \subseteq NTCPConns,
         EndOK(e2), e2.open /\ ~(c \in broken) => SendOK(e2, s),
         Carries(e2, s, c \in broken, v[s], ntcp[c][OtherSide(s)]),
         Carries(ntcp[c][OtherSide(s)], OtherSide(s), c \in broken, v[OtherSide(s)], e2),
         ntcp[c]["client"].phase # 0,
         e2.phase >= ntcp[c][s].phase,
         e2.phase = 5 /\ ntcp[c][s].phase # 5 /\ s = "client" => ntcp[c]["server"].phase >= 4
  PROVE  NTCPIInv'
<1> DEFINE x == [ntcp[c] EXCEPT ![s] = e2]
           broke == c \in broken
<1>1. ConnectionOK(ntcp[c], wire[c], broke) BY DEF NTCPIInv
<1>2. ConnectionOK(x, v, broke)
  <2> DEFINE z == ntcp[c]
  <2>1. /\ ConnectionOK(z, wire[c], broke) /\ (e2.open /\ ~broke => SendOK(e2, s))
        /\ Carries(e2, s, broke, v[s], z[OtherSide(s)])
        /\ Carries(z[OtherSide(s)], OtherSide(s), broke, v[OtherSide(s)], e2)
        /\ z["client"].phase # 0 /\ e2.phase >= z[s].phase
        /\ e2.phase = 5 /\ z[s].phase # 5 /\ s = "client" => z["server"].phase >= 4
    BY <1>1
  <2> HIDE DEF z, broke
  <2>2. ConnectionOK([z EXCEPT ![s] = e2], v, broke) BY <2>1, OneEnd
  <2> QED BY <2>2 DEF z
<1>3. ntcp' = [ntcp EXCEPT ![c] = x] BY DEF PutEnd
<1>4. broken' \cup registered' \cup setUnreachable' \subseteq NTCPConns BY DEF NTCPIInv
<1>5. broken' = broken /\ ConnectionOK(x, v, c \in broken') BY <1>2
<1>6. \A d \in NTCPConns : d # c => (d \in broken') = (d \in broken) BY <1>5
<1> HIDE DEF x, broke
<1> QED BY <1>3, <1>4, <1>5, <1>6, OneConnection

\* The wires stay.
LEMMA EndActsAlone ==
  ASSUME NTCPIInv, NEW c \in NTCPConns, NEW s \in Sides, NEW e2, PutEnd(c, s, e2),
         wire' = wire,
         broken' = broken, ntcpCase' = ntcpCase, registered' \cup setUnreachable' \subseteq NTCPConns,
         EndOK(e2), e2.open /\ ~(c \in broken) => SendOK(e2, s),
         Carries(e2, s, c \in broken, wire[c][s], ntcp[c][OtherSide(s)]),
         Carries(ntcp[c][OtherSide(s)], OtherSide(s), c \in broken, wire[c][OtherSide(s)], e2),
         ntcp[c]["client"].phase # 0,
         e2.phase >= ntcp[c][s].phase,
         e2.phase = 5 /\ ntcp[c][s].phase # 5 /\ s = "client" => ntcp[c]["server"].phase >= 4
  PROVE  NTCPIInv'
<1> DEFINE v == wire[c]
<1>1. v \in [Sides -> Seq(Blocks)] BY EndsAre
<1>2. wire' = [wire EXCEPT ![c] = v] BY DEF NTCPIInv
<1>3. /\ Carries(e2, s, c \in broken, v[s], ntcp[c][OtherSide(s)])
      /\ Carries(ntcp[c][OtherSide(s)], OtherSide(s), c \in broken, v[OtherSide(s)], e2)
  OBVIOUS
<1> HIDE DEF v
<1> QED BY <1>1, <1>2, <1>3, EndActs

LEMMA SameSent ==
  ASSUME NEW e, NEW e2, NEW s, e2.phase = e.phase, e2.posted = e.posted
  PROVE  SentItems(e2, s) = SentItems(e, s)
BY DEF SentItems

\* a is the end without the operation whose handler runs, or more of it.
LEMMA Terminates ==
  ASSUME NTCPIInv, NEW c \in NTCPConns, NEW s \in Sides, NEW a, EndSound(a),
         a.phase = ntcp[c][s].phase, a.posted = ntcp[c][s].posted,
         PutEnd(c, s, Terminate(a)), wire' = wire,
         broken' = broken, ntcpCase' = ntcpCase, registered' \cup setUnreachable' \subseteq NTCPConns,
         ntcp[c]["client"].phase # 0
  PROVE  NTCPIInv'
<1> DEFINE e == ntcp[c][s]
           o == ntcp[c][OtherSide(s)]
           d == Terminate(a)
<1>1. /\ e \in EndRecord /\ (e.open /\ ~(c \in broken) => SendOK(e, s))
      /\ Carries(e, s, c \in broken, wire[c][s], o)
  BY EndsAre
<1>2. EndOK(d) /\ ~d.open /\ d.m_IsTerminated /\ d.phase = e.phase /\ d.posted = e.posted
  BY TerminateOK
<1>3. PutEnd(c, s, d) OBVIOUS
<1> HIDE DEF d
<1>4. d \in EndRecord BY <1>2 DEF EndOK, EndSound
<1>5. Carries(d, s, c \in broken, wire[c][s], o)
  <2>1. SentItems(d, s) = SentItems(e, s) BY <1>2, SameSent
  <2> HIDE DEF e, o
  <2> QED BY <1>1, <1>2, <1>4, <2>1, SendKept
<1>6. Carries(o, OtherSide(s), c \in broken, wire[c][OtherSide(s)], d) BY <1>2 DEF Carries
<1>7. d.phase >= e.phase
  <2>1. e.phase \in 0 .. 5 BY <1>1 DEF EndRecord
  <2> QED BY <1>2, <2>1
<1> QED BY <1>2, <1>3, <1>5, <1>6, <1>7, EndActsAlone
-----------------------------------------------------------------------------
LEMMA HandlePhaseErrorOK ==
  ASSUME NTCPIInv, NEW c \in NTCPConns, NEW s \in Sides, NEW op \in {"read", "write"},
         ntcp[c][s].phase < 5, HandlePhaseError(c, s, op, ntcp[c][s][op])
  PROVE  NTCPIInv'
<1> DEFINE e == ntcp[c][s]
           o == ntcp[c][OtherSide(s)]
           a == Took(e, op)
<1>1. /\ EndSound(e) /\ e \in EndRecord /\ o \in EndRecord /\ OtherSide(s) \in Sides
      /\ s = OtherSide(OtherSide(s))
      /\ e.open /\ ~(c \in broken) => SendOK(e, s)
      /\ Carries(e, s, c \in broken, wire[c][s], o)
      /\ Carries(o, OtherSide(s), c \in broken, wire[c][OtherSide(s)], e)
      /\ (e.read # "none" \/ e.write # "none") => ntcp[c]["client"].phase # 0
  BY EndsAre
<1>2. /\ e[op] \in {"error", "aborted"}
      /\ PutEnd(c, s, IF e[op] = "aborted" THEN a ELSE Terminate(a))
      /\ wire' = wire /\ broken' = broken /\ ntcpCase' = ntcpCase
      /\ registered' \cup setUnreachable' \subseteq NTCPConns
  BY DEF HandlePhaseError, NTCPIInv
<1>3. ntcp[c]["client"].phase # 0
  <2>1. CASE op = "read" BY <1>1, <1>2, <2>1
  <2>2. CASE op = "write" BY <1>1, <1>2, <2>2
  <2> QED BY <2>1, <2>2
<1>4. /\ EndSound(a) /\ a.phase = e.phase /\ a.posted = e.posted /\ a.open = e.open
      /\ a.m_IsTerminated = e.m_IsTerminated /\ a.m_NextMessage = e.m_NextMessage
      /\ a.m_ReceiveBuffer = e.m_ReceiveBuffer
      /\ SendsTheSame(e, a) /\ a.read = "none" /\ a.writes = <<>>
  <2> HIDE DEF e
  <2>1. CASE op = "read"
    <3> DEFINE b == Took(e, "read")
    <3>1. EndSound(b) BY <1>1, TookReadOK
    <3>2. /\ SameLife(e, b) /\ SameOut(e, b) /\ SameMessages(e, b)
          /\ b.read = "none" /\ b.m_ReceiveBuffer = <<>>
      BY <1>1, TookRead
    <3>3. e.read # "ok" /\ e.read # "none" BY <1>2, <2>1
    <3>4. e.m_ReceiveBuffer = <<>> /\ e.writes = <<>> BY <1>1, <3>3 DEF EndSound, e
    <3> HIDE DEF b
    <3> QED BY <2>1, <3>1, <3>2, <3>4 DEF b, SameLife, SameOut, SameMessages, SendsTheSame
  <2>2. CASE op = "write"
    <3> DEFINE b == Took(e, "write")
    <3>0. e.write # "none" /\ e.write # "pending" /\ e.phase < 5 BY <1>2, <2>2 DEF e
    <3>1. EndSound(b) /\ Len(e.writes) = 1 BY <1>1, <3>0, TookWriteOK
    <3>2. /\ SameLife(e, b) /\ SameIn(e, b) /\ b.posted = e.posted
          /\ b.write = "none" /\ b.writes = <<>>
          /\ b.m_IsSending = e.m_IsSending /\ b.m_SendQueue = e.m_SendQueue
      BY <1>1, <3>1, TookWrite
    <3>3. e.read = "none" BY <1>1, <3>0 DEF EndSound
    <3> HIDE DEF b
    <3> QED BY <2>2, <3>0, <3>1, <3>2, <3>3 DEF b, SameLife, SameIn, SendsTheSame
  <2> QED BY <2>1, <2>2
<1> HIDE DEF a
<1>5. CASE e[op] = "aborted"
  <2>1. PutEnd(c, s, a) BY <1>2, <1>5
  <2>2. a \in EndRecord /\ EndOK(a) BY <1>4 DEF EndSound, EndOK
  <2>3. SentItems(a, s) = SentItems(e, s) BY <1>4, SameSent
  <2>4. (a.open /\ ~(c \in broken) => SendOK(a, s)) /\ Carries(a, s, c \in broken, wire[c][s], o)
    <3> HIDE DEF e, o
    <3> QED BY <1>1, <1>4, <2>2, <2>3, SendKept
  <2>5. Carries(o, OtherSide(s), c \in broken, wire[c][OtherSide(s)], a)
    <3>1. ~InHandshake(a) /\ a.phase # 5 BY <1>4 DEF InHandshake
    <3> HIDE DEF e, o
    <3> QED BY <1>1, <1>4, <2>2, <3>1, ReadKept
  <2>6. a.phase >= e.phase /\ a.phase # 5
    <3>1. e.phase \in 0 .. 5 BY <1>1 DEF EndRecord
    <3> QED BY <1>4, <3>1
  <2> QED BY <1>2, <1>3, <2>1, <2>2, <2>4, <2>5, <2>6, EndActsAlone
<1>6. CASE e[op] = "error"
  <2>1. PutEnd(c, s, Terminate(a)) BY <1>2, <1>6
  <2> QED BY <1>2, <1>3, <1>4, <2>1, Terminates
<1> QED BY <1>2, <1>5, <1>6

\* What was written is out; the side and the phase are those of a handler.
LEMMA PhaseSentOK ==
  ASSUME NTCPIInv, NEW c \in NTCPConns, NEW s \in Sides, NEW p \in 1 .. 3, PhaseSent(c, s, p),
         (s = "client" /\ p \in {1, 3}) \/ (s = "server" /\ p = 2)
  PROVE  NTCPIInv'
<1> DEFINE e == ntcp[c][s]
           o == ntcp[c][OtherSide(s)]
           a == Took(e, "write")
           b == [a EXCEPT !.phase = p + 1]
           d == StartRead(b)
<1>1. /\ EndSound(e) /\ e \in EndRecord /\ o \in EndRecord /\ OtherSide(s) \in Sides
      /\ s = OtherSide(OtherSide(s))
      /\ e.open /\ ~(c \in broken) => SendOK(e, s)
      /\ Carries(e, s, c \in broken, wire[c][s], o)
      /\ Carries(o, OtherSide(s), c \in broken, wire[c][OtherSide(s)], e)
      /\ e.write # "none" => ntcp[c]["client"].phase # 0
  BY EndsAre
<1>2. /\ e.write = "ok" /\ e.phase = p /\ PutEnd(c, s, d)
      /\ wire' = wire /\ broken' = broken /\ ntcpCase' = ntcpCase
      /\ registered' \cup setUnreachable' \subseteq NTCPConns
  BY DEF PhaseSent, NTCPRest, NTCPIInv
<1> HIDE DEF e, o
<1>3. EndSound(a) /\ a \in EndRecord /\ Len(e.writes) = 1 BY <1>1, <1>2, TookWriteOK
<1>4. /\ SameLife(e, a) /\ SameIn(e, a) /\ a.posted = e.posted
      /\ a.write = "none" /\ a.writes = <<>>
      /\ a.m_IsSending = e.m_IsSending /\ a.m_SendQueue = e.m_SendQueue
  BY <1>1, <1>3, TookWrite
<1>5. e.read = "none" /\ e.writes # <<>> /\ e.m_ReceiveBuffer = <<>>
  BY <1>1, <1>2 DEF EndSound
<1> HIDE DEF a
<1>6. p + 1 \in 2 .. 4 OBVIOUS
<1> DEFINE q == p + 1
<1>7. /\ q \in 0 .. 5 /\ q < 5 /\ q # 5 /\ q >= p OBVIOUS
<1> HIDE DEF q
<1>8. /\ b \in EndRecord /\ b.phase = q /\ b.open = a.open /\ b.m_IsTerminated = a.m_IsTerminated
      /\ b.m_IsEstablished = a.m_IsEstablished /\ b.events = a.events
      /\ SameIn(a, b) /\ SameOut(a, b) /\ b.posted = a.posted
  BY <1>3, <1>7 DEF EndRecord, SameIn, SameOut, q
<1> HIDE DEF b
<1>9. EndSound(b)
  BY <1>2, <1>3, <1>4, <1>7, <1>8 DEF EndSound, SameLife, SameIn, SameOut
<1>10. /\ b.read = "none" /\ b.writes = <<>> BY <1>4, <1>5, <1>8 DEF SameIn, SameOut
<1>11. EndOK(d) BY <1>9, <1>10, StartReadOK
<1>12. /\ d \in EndRecord /\ SameLife(b, d) /\ SameOut(b, d) /\ SameMessages(b, d)
       /\ d.m_ReceiveBuffer = b.m_ReceiveBuffer
  BY <1>8, StartReadIs
<1> HIDE DEF d
<1>13. SentItems(d, s) = SentItems(e, s)
  <2>1. d.phase = p + 1 /\ d.posted = e.posted
    BY <1>4, <1>8, <1>12 DEF SameLife, SameMessages, q
  <2>2. CASE s = "client" /\ p = 1 BY <1>2, <2>1, <2>2 DEF SentItems
  <2>3. CASE s = "client" /\ p = 3 BY <1>2, <2>1, <2>3 DEF SentItems
  <2>4. CASE s = "server" /\ p = 2 BY <1>2, <2>1, <2>4 DEF SentItems
  <2> QED BY <2>2, <2>3, <2>4
<1>14. SendsTheSame(e, d) /\ d.open = e.open /\ d.posted = e.posted /\ d.phase = q
  BY <1>2, <1>4, <1>8, <1>12 DEF SameLife, SameOut, SameMessages, SendsTheSame
<1>15. (d.open /\ ~(c \in broken) => SendOK(d, s)) /\ Carries(d, s, c \in broken, wire[c][s], o)
  BY <1>1, <1>7, <1>12, <1>13, <1>14, SendKept
<1>16. Carries(o, OtherSide(s), c \in broken, wire[c][OtherSide(s)], d)
  <2>1. InHandshake(e) BY <1>2, <1>5 DEF InHandshake
  <2>2. ReadIn(s, e.phase) \subseteq ReadIn(s, d.phase)
    <3>1. CASE s = "client" /\ p = 1 BY <1>2, <1>14, <3>1 DEF ReadIn, q
    <3>2. CASE s = "client" /\ p = 3 BY <1>2, <1>14, <3>2 DEF ReadIn, q
    <3>3. CASE s = "server" /\ p = 2 BY <1>2, <1>14, <3>3 DEF ReadIn, q
    <3> QED BY <3>1, <3>2, <3>3
  <2>3. /\ d.m_IsTerminated = e.m_IsTerminated /\ d.m_NextMessage = e.m_NextMessage
        /\ d.m_ReceiveBuffer = e.m_ReceiveBuffer
    BY <1>4, <1>8, <1>12 DEF SameLife, SameIn, SameMessages
  <2> QED BY <1>1, <1>7, <1>14, <2>1, <2>2, <2>3, ReadKept
<1>17. d.phase >= e.phase /\ d.phase # 5 BY <1>2, <1>7, <1>14
<1> QED BY <1>1, <1>2, <1>11, <1>15, <1>16, <1>17, EndActsAlone DEF e, o
-----------------------------------------------------------------------------
\* The block of a phase is taken.
TakesBlock(e, e2) ==
  /\ e.read = "ok" /\ e.phase < 5
  /\ e2.m_ReceiveBuffer = <<>> /\ e2.m_NextMessage = <<>> /\ e2.m_Handler = <<>>
  /\ ~e2.m_IsTerminated => ~e.m_IsTerminated
LEMMA TakeBlock ==
  ASSUME NEW s \in Sides, NEW t \in Sides, s = OtherSide(t),
         NEW o \in EndRecord, NEW e, EndSound(e), NEW e2 \in EndRecord, NEW broke,
         NEW w \in Seq(Blocks), Carries(o, t, broke, w, e), TakesBlock(e, e2),
         ReadIn(s, e.phase) \subseteq 0 .. 2,
         InHandshake(e2) =>
           \A k \in ReadIn(s, e.phase) : k < SentItems(o, t) => k + 1 \in ReadIn(s, e2.phase),
         e2.phase = 5 => \A k \in ReadIn(s, e.phase) : k < SentItems(o, t) => k + 1 \in {2, 3}
  PROVE  /\ Carries(o, t, broke, w, e2)
         /\ ~e.m_IsTerminated => \E k \in ReadIn(s, e.phase) : k < SentItems(o, t)
<1> DEFINE I == Items(o, t)
           n == SentItems(o, t)
           u == Unwritten(o)
           live == o.open /\ ~broke
<1>1. CASE e.m_IsTerminated BY <1>1 DEF Carries, TakesBlock
<1>2. CASE ~e.m_IsTerminated
  <2>1. I \in [Nat -> NTCPMessages] /\ \A i \in 1 .. 3 : I[i].len = 0
    BY ItemsTyped DEF EndRecord
  <2>2. n \in Nat
    <3>1. o.posted \in Seq(Posts) BY DEF EndRecord
    <3> QED BY <3>1 DEF SentItems
  <2>3. Flow(I, n, u, live, w, e, s) BY <1>2 DEF Carries
  <2>4. /\ e \in EndRecord /\ e.read # "none" /\ e.phase < 5 /\ Len(e.m_ReceiveBuffer) = 1
        /\ e.m_NextMessage = <<>>
        /\ e2.m_ReceiveBuffer = <<>> /\ e2.m_NextMessage = <<>> /\ e2.m_Handler = <<>>
    BY DEF TakesBlock, EndSound
  <2>5. /\ InHandshake(e2) =>
             \A k \in ReadIn(s, e.phase) : k < n => k + 1 \in ReadIn(s, e2.phase)
        /\ e2.phase = 5 => \A k \in ReadIn(s, e.phase) : k < n => k + 1 \in {2, 3}
    OBVIOUS
  <2> HIDE DEF I, n, u, live
  <2>6. Flow(I, n, u, live, w, e2, s) /\ \E k \in ReadIn(s, e.phase) : k < n
    BY <2>1, <2>2, <2>3, <2>4, <2>5, FlowTaken
  <2> QED BY <2>6 DEF Carries, I, n, u, live
<1> QED BY <1>1, <1>2

\* The answer m to the phase that was read: a is the end as it answers.
LEMMA Answers ==
  ASSUME NTCPIInv, NEW c \in NTCPConns, NEW s \in Sides, NEW p \in 1 .. 4, NEW m \in NTCPMessages,
         NEW a, EndSound(a), a.phase = ntcp[c][s].phase, a.read = "none", a.writes = <<>>,
         a.open => ntcp[c][s].open, ~a.m_IsTerminated => ~ntcp[c][s].m_IsTerminated,
         PutEnd(c, s, Answer(a, p, m)), UNCHANGED NTCPRest,
         ntcp[c][s].read = "ok", ntcp[c][s].phase < p,
         ReadIn(s, ntcp[c][s].phase) \subseteq 0 .. 2,
         \A k \in ReadIn(s, ntcp[c][s].phase) :
           k < SentItems(ntcp[c][OtherSide(s)], OtherSide(s)) => k + 1 \in ReadIn(s, p),
         \A d : d.phase = p => SentItems(d, s) = SentItems(ntcp[c][s], s) + 1,
         \A d : Items(d, s)[SentItems(ntcp[c][s], s) + 1] = m,
         SentItems(ntcp[c][s], s) \in 0 .. 1
  PROVE  NTCPIInv'
<1> DEFINE e == ntcp[c][s]
           t == OtherSide(s)
           o == ntcp[c][t]
           d == Answer(a, p, m)
           n == SentItems(e, s)
<1>1. /\ EndSound(e) /\ e \in EndRecord /\ o \in EndRecord /\ t \in Sides
      /\ s = OtherSide(t)
      /\ e.open /\ ~(c \in broken) => SendOK(e, s)
      /\ Carries(e, s, c \in broken, wire[c][s], o)
      /\ Carries(o, t, c \in broken, wire[c][t], e)
      /\ e.read # "none" => ntcp[c]["client"].phase # 0
      /\ wire[c][s] \in Seq(Blocks) /\ wire[c][t] \in Seq(Blocks)
  BY EndsAre
<1>2. /\ e.read = "ok" /\ e.phase < p /\ p \in 1 .. 4 /\ e.phase \in 0 .. 5 /\ PutEnd(c, s, d)
      /\ wire' = wire /\ broken' = broken /\ ntcpCase' = ntcpCase
      /\ registered' \cup setUnreachable' \subseteq NTCPConns
  BY <1>1 DEF NTCPRest, NTCPIInv, EndRecord
<1>3. /\ EndSound(a) /\ a.phase < 5 /\ a.read = "none" /\ a.writes = <<>>
      /\ p \in 1 .. 4 /\ m \in NTCPMessages
  BY <1>2
<1>4. /\ EndOK(d) /\ d.phase = p /\ d.open = a.open /\ d.m_IsTerminated = a.m_IsTerminated
      /\ d.m_ReceiveBuffer = <<>> /\ d.m_NextMessage = <<>> /\ d.m_Handler = <<>>
      /\ d.posted = <<>> /\ d.m_SendQueue = <<>> /\ d.read = "none"
      /\ d.write = (IF a.open THEN "pending" ELSE "error")
      /\ d.writes[1] = <<m>> /\ Len(d.writes[1]) = 1 /\ d.writes[1][1] = m
  BY <1>3, SendPhaseOK
<1>5. SentItems(d, s) = n + 1 /\ Items(d, s)[n + 1] = m /\ n \in 0 .. 1 BY <1>4
<1>6. /\ \A k \in ReadIn(s, e.phase) : k < SentItems(o, t) => k + 1 \in ReadIn(s, p)
      /\ ReadIn(s, e.phase) \subseteq 0 .. 2
      /\ (a.open => e.open) /\ (~a.m_IsTerminated => ~e.m_IsTerminated)
  OBVIOUS
<1> HIDE DEF e, o, d, t, n
<1>7. d \in EndRecord /\ p # 5 /\ d.phase >= e.phase BY <1>2, <1>4 DEF EndOK, EndSound
<1>8. Len(d.m_SendQueue) = 0 BY <1>4
<1>9. d.open => Unwritten(d) = 1 /\ d.write = "pending"
  <2>1. 0 + 1 = 1 OBVIOUS
  <2> QED BY <1>4, <1>8, <2>1 DEF Unwritten
<1>10. ASSUME d.open PROVE SendOK(d, s)
  <2> DEFINE N == SentItems(d, s)
  <2>1. N = n + 1 /\ N - 1 + 1 = N /\ 1 <= N BY <1>5
  <2>2. Unwritten(d) = 1 /\ d.write = "pending" BY <1>9, <1>10
  <2>3. \A i \in 1 .. Len(d.m_SendQueue) : FALSE BY <1>8
  <2>4. ASSUME NEW i \in 1 .. Len(d.writes[1]) PROVE d.writes[1][i] = Items(d, s)[N - 1 + i]
    <3>1. i = 1 BY <1>4
    <3>2. N - 1 + i = n + 1 BY <2>1, <3>1
    <3> QED BY <1>4, <1>5, <3>1, <3>2
  <2>5. d.phase # 5 BY <1>4, <1>7
  <2> HIDE DEF N
  <2> QED BY <2>1, <2>2, <2>3, <2>4, <2>5 DEF SendOK, N
<1>11. Carries(d, s, c \in broken, wire[c][s], o)
  <2>1. e.posted = <<>> BY <1>1, <1>2 DEF EndSound
  <2>2. Items(d, s) = Items(e, s) BY <1>4, <2>1 DEF Items
  <2>3. ASSUME d.open, ~(c \in broken)
        PROVE  e.open /\ Unwritten(e) \in 0 .. SentItems(e, s) /\ Unwritten(d) = Unwritten(e) + 1
    <3>1. e.open /\ SendOK(e, s) BY <1>1, <1>4, <1>6, <2>3
    <3>2. e.writes = <<>> /\ e.m_SendQueue = <<>> /\ e.write = "none" BY <1>1, <1>2 DEF EndSound
    <3>3. Unwritten(e) = 0
      <4>1. Len(e.m_SendQueue) = 0 BY <3>2
      <4> QED BY <3>2, <4>1 DEF Unwritten
    <3>4. Unwritten(d) = 1 BY <1>9, <2>3
    <3>5. 0 \in 0 .. n /\ 0 + 1 = 1 BY <1>5
    <3> QED BY <3>1, <3>3, <3>4, <3>5 DEF n
  <2>4. SentItems(d, s) = SentItems(e, s) + 1 /\ 1 \in 1 .. 2 BY <1>5 DEF n
  <2> QED BY <1>1, <1>7, <2>2, <2>3, <2>4, CarriesMore
<1>12. Carries(o, t, c \in broken, wire[c][t], d)
  <2>1. TakesBlock(e, d) BY <1>2, <1>4, <1>6 DEF TakesBlock
  <2>2. d.phase # 5 BY <1>4, <1>7
  <2>3. InHandshake(d) =>
           \A k \in ReadIn(s, e.phase) : k < SentItems(o, t) => k + 1 \in ReadIn(s, d.phase)
    BY <1>4, <1>6
  <2> QED BY <1>1, <1>6, <1>7, <2>1, <2>2, <2>3, TakeBlock
<1>13. d.phase # 5 BY <1>4, <1>7
<1> QED BY <1>1, <1>2, <1>4, <1>7, <1>10, <1>11, <1>12, <1>13, EndActsAlone DEF e, o, t
-----------------------------------------------------------------------------
\* Taking the read off in the handshake.
LEMMA TookPhase ==
  ASSUME NEW e, EndSound(e), e.read = "ok", e.phase < 5
  PROVE  LET a == Took(e, "read")
         IN /\ EndSound(a) /\ a \in EndRecord /\ a.phase = e.phase /\ a.open = e.open
            /\ a.m_IsTerminated = e.m_IsTerminated /\ a.posted = e.posted
            /\ a.read = "none" /\ a.write = "none" /\ a.writes = <<>> /\ SendsTheSame(e, a)
            /\ a.m_ReceiveBuffer = <<>> /\ a.m_NextMessage = <<>> /\ a.m_Handler = <<>>
<1> DEFINE a == Took(e, "read")
<1>1. EndSound(a) BY TookReadOK
<1>2. e \in EndRecord BY DEF EndSound
<1>3. /\ a \in EndRecord /\ SameLife(e, a) /\ SameOut(e, a) /\ SameMessages(e, a)
      /\ a.read = "none" /\ a.m_ReceiveBuffer = <<>>
  BY <1>2, TookRead
<1>4. e.writes = <<>> /\ e.write = "none" BY DEF EndSound
<1> HIDE DEF a
<1>5. a.m_NextMessage = <<>> /\ a.m_Handler = <<>> BY <1>3 DEF EndSound, SameMessages
<1> QED BY <1>1, <1>3, <1>4, <1>5 DEF a, SameLife, SameOut, SameMessages, SendsTheSame

LEMMA PhaseMessages ==
  \A name \in {"phase1", "phase2", "phase3", "phase4"} : Phase(name) \in NTCPMessages
BY DEF Phase, NTCPMessage, NTCPMessages, NTCPIds

LEMMA HandlePhase1ReceivedOK ==
  ASSUME NTCPIInv, NEW c \in NTCPConns, HandlePhase1Received(c)
  PROVE  NTCPIInv'
<1> DEFINE s == "server"
           e == ntcp[c][s]
           a == Took(e, "read")
<1>0. s \in Sides BY DEF Sides
<1>1. EndSound(e) /\ (e.read # "none" => ntcp[c]["client"].phase # 0) BY <1>0, EndsAre
<1>2. /\ e.read = "ok" /\ e.phase = 1 /\ UNCHANGED NTCPRest
      /\ PutEnd(c, s, IF c \in ntcpCase.wrongIdent THEN Terminate(a) ELSE SendPhase2(a))
  BY DEF HandlePhase1Received
<1>3. /\ EndSound(a) /\ a.phase = e.phase /\ a.open = e.open
      /\ a.m_IsTerminated = e.m_IsTerminated /\ a.posted = e.posted
      /\ a.read = "none" /\ a.writes = <<>>
  BY <1>1, <1>2, TookPhase
<1> HIDE DEF a
<1>4. CASE c \in ntcpCase.wrongIdent
  <2>1. PutEnd(c, s, Terminate(a)) BY <1>2, <1>4
  <2>2. registered' \cup setUnreachable' \subseteq NTCPConns /\ wire' = wire /\ broken' = broken
        /\ ntcpCase' = ntcpCase
    BY <1>2 DEF NTCPRest, NTCPIInv
  <2> QED BY <1>0, <1>1, <1>2, <1>3, <2>1, <2>2, Terminates
<1>5. CASE c \notin ntcpCase.wrongIdent
  <2>1. PutEnd(c, s, Answer(a, 2, Phase("phase2")))
    BY <1>2, <1>5 DEF SendPhase2, Answer
  <2>2. Phase("phase2") \in NTCPMessages /\ 2 \in 1 .. 4 BY PhaseMessages
  <2>3. ReadIn(s, e.phase) = {0} /\ ReadIn(s, 2) = {1} BY <1>2 DEF ReadIn
  <2>4. SentItems(e, s) = 0 /\ \A d : d.phase = 2 => SentItems(d, s) = 1 BY <1>2 DEF SentItems
  <2>5. \A d : Items(d, s)[1] = Phase("phase2") BY DEF Items
  <2> HIDE DEF e
  <2>6. /\ \A d : d.phase = 2 => SentItems(d, s) = SentItems(e, s) + 1
        /\ \A d : Items(d, s)[SentItems(e, s) + 1] = Phase("phase2")
        /\ SentItems(e, s) \in 0 .. 1
    BY <2>4, <2>5
  <2>7. /\ ReadIn(s, e.phase) \subseteq 0 .. 2
        /\ \A k \in ReadIn(s, e.phase) : k + 1 \in ReadIn(s, 2)
    BY <2>3
  <2>8. e.phase < 2 BY <1>2
  <2> HIDE DEF s
  <2> QED BY <1>0, <1>2, <1>3, <2>1, <2>2, <2>6, <2>7, <2>8, Answers DEF e
<1> QED BY <1>4, <1>5

\* No key: the session is terminated, and phase 2 written to a closed socket.
LEMMA HandlePhase1NoKeyOK ==
  ASSUME NTCPIInv, NEW c \in NTCPConns, HandlePhase1NoKey(c)
  PROVE  NTCPIInv'
<1> DEFINE s == "server"
           e == ntcp[c][s]
           a == Took(e, "read")
           t == Terminate(a)
<1>0. s \in Sides BY DEF Sides
<1>1. EndSound(e) /\ (e.read # "none" => ntcp[c]["client"].phase # 0) BY <1>0, EndsAre
<1>2. /\ e.read = "ok" /\ e.phase = 1 /\ UNCHANGED NTCPRest
      /\ PutEnd(c, s, SendPhase2(t))
  BY DEF HandlePhase1NoKey
<1>3. /\ EndSound(a) /\ a.phase = e.phase /\ a.read = "none" /\ a.writes = <<>>
  BY <1>1, <1>2, TookPhase
<1> HIDE DEF a
<1>4. /\ EndSound(t) /\ t.phase = e.phase /\ t.read = "none" /\ t.writes = <<>>
      /\ (t.open => e.open) /\ (~t.m_IsTerminated => ~e.m_IsTerminated)
  <2>1. /\ EndOK(t) /\ ~t.open /\ t.m_IsTerminated /\ t.phase = a.phase
        /\ t.read = (IF a.read = "pending" THEN "aborted" ELSE a.read)
        /\ t.writes = a.writes
    BY <1>3, TerminateOK
  <2> HIDE DEF t
  <2> QED BY <1>3, <2>1 DEF EndOK
<1> HIDE DEF t
<1>5. PutEnd(c, s, Answer(t, 2, Phase("phase2"))) BY <1>2 DEF SendPhase2, Answer
<1>6. Phase("phase2") \in NTCPMessages /\ 2 \in 1 .. 4 BY PhaseMessages
<1>7. ReadIn(s, e.phase) = {0} /\ ReadIn(s, 2) = {1} BY <1>2 DEF ReadIn
<1>8. SentItems(e, s) = 0 /\ \A d : d.phase = 2 => SentItems(d, s) = 1 BY <1>2 DEF SentItems
<1>9. \A d : Items(d, s)[1] = Phase("phase2") BY DEF Items
<1> HIDE DEF e
<1>10. /\ \A d : d.phase = 2 => SentItems(d, s) = SentItems(e, s) + 1
       /\ \A d : Items(d, s)[SentItems(e, s) + 1] = Phase("phase2")
       /\ SentItems(e, s) \in 0 .. 1
  BY <1>8, <1>9
<1>11. /\ ReadIn(s, e.phase) \subseteq 0 .. 2
       /\ \A k \in ReadIn(s, e.phase) : k + 1 \in ReadIn(s, 2)
  BY <1>7
<1>12. e.phase < 2 BY <1>2
<1> HIDE DEF s
<1> QED BY <1>0, <1>2, <1>4, <1>5, <1>6, <1>10, <1>11, <1>12, Answers DEF e

\* A check that fails terminates the session, in whichever phase.
LEMMA CheckFailsOK ==
  ASSUME NTCPIInv, NEW c \in NTCPConns, NEW s \in Sides, CheckFails(c, s)
  PROVE  NTCPIInv'
<1> DEFINE e == ntcp[c][s]
           a == Took(e, "read")
<1>1. EndSound(e) /\ (e.read # "none" => ntcp[c]["client"].phase # 0) BY EndsAre
<1>2. e.read = "ok" /\ e.phase < 5 /\ UNCHANGED NTCPRest /\ PutEnd(c, s, Terminate(a))
  BY DEF CheckFails
<1>3. EndSound(a) /\ a.phase = e.phase /\ a.posted = e.posted BY <1>1, <1>2, TookPhase
<1> HIDE DEF a
<1>4. registered' \cup setUnreachable' \subseteq NTCPConns /\ wire' = wire /\ broken' = broken
      /\ ntcpCase' = ntcpCase
  BY <1>2 DEF NTCPRest, NTCPIInv
<1> QED BY <1>1, <1>2, <1>3, <1>4, Terminates

LEMMA HandlePhase2ReceivedOK ==
  ASSUME NTCPIInv, NEW c \in NTCPConns, HandlePhase2Received(c)
  PROVE  NTCPIInv'
<1> DEFINE s == "client"
           e == ntcp[c][s]
           a == Took(e, "read")
<1>0. s \in Sides BY DEF Sides
<1>1. EndSound(e) /\ e \in EndRecord BY <1>0, EndsAre
<1>2. /\ e.read = "ok" /\ UNCHANGED NTCPRest /\ a.phase = 2
      /\ PutEnd(c, s, SendPhase3(a))
  BY DEF HandlePhase2Received
<1>a. e.phase = 2
  <2>1. SameLife(e, a) BY <1>1, TookRead
  <2> QED BY <1>2, <2>1 DEF SameLife
<1>3. /\ EndSound(a) /\ a.phase = e.phase /\ a.open = e.open
      /\ a.m_IsTerminated = e.m_IsTerminated /\ a.posted = e.posted
      /\ a.read = "none" /\ a.writes = <<>>
  BY <1>1, <1>2, <1>a, TookPhase
<1> HIDE DEF a
<1>5. PutEnd(c, s, Answer(a, 3, Phase("phase3")))
  BY <1>2 DEF SendPhase3, Answer
<1>6. Phase("phase3") \in NTCPMessages /\ 3 \in 1 .. 4 BY PhaseMessages
<1>7. ReadIn(s, e.phase) = {0} /\ ReadIn(s, 3) = {1} BY <1>a DEF ReadIn
<1>8. SentItems(e, s) = 1 /\ \A d : d.phase = 3 => SentItems(d, s) = 2 BY <1>a DEF SentItems
<1>9. \A d : Items(d, s)[2] = Phase("phase3") BY DEF Items
<1> HIDE DEF e
<1>10. /\ \A d : d.phase = 3 => SentItems(d, s) = SentItems(e, s) + 1
       /\ \A d : Items(d, s)[SentItems(e, s) + 1] = Phase("phase3")
       /\ SentItems(e, s) \in 0 .. 1
  BY <1>8, <1>9
<1>11. /\ ReadIn(s, e.phase) \subseteq 0 .. 2
       /\ \A k \in ReadIn(s, e.phase) : k + 1 \in ReadIn(s, 3)
  BY <1>7
<1>12. e.phase < 3 BY <1>a
<1> HIDE DEF s
<1> QED BY <1>0, <1>2, <1>3, <1>5, <1>6, <1>10, <1>11, <1>12, Answers DEF e

LEMMA HandlePhase3ReceivedOK ==
  ASSUME NTCPIInv, NEW c \in NTCPConns, HandlePhase3Received(c)
  PROVE  NTCPIInv'
<1> DEFINE s == "server"
           e == ntcp[c][s]
           o == ntcp[c]["client"]
           a == Took(e, "read")
           t == IF registered # {} THEN Terminate(a) ELSE a
<1>0. s \in Sides /\ OtherSide(s) = "client" /\ "client" \in Sides /\ s = OtherSide("client")
  BY DEF Sides, OtherSide
<1>1. /\ EndSound(e) /\ e \in EndRecord /\ o \in EndRecord
      /\ (e.read # "none" => ntcp[c]["client"].phase # 0)
      /\ e.open /\ ~(c \in broken) => SendOK(e, s)
      /\ Carries(e, s, c \in broken, wire[c][s], o)
      /\ Carries(o, "client", c \in broken, wire[c]["client"], e)
      /\ wire[c]["client"] \in Seq(Blocks)
  <2>1. ntcp[c][OtherSide(s)] = o BY <1>0
  <2> QED BY <1>0, <2>1, EndsAre
<1>2. /\ e.read = "ok" /\ a.phase = 3 /\ UNCHANGED NTCPRest
      /\ PutEnd(c, s, IF c \in ntcpCase.longIdentity THEN StartRead(t) ELSE SendPhase4(t))
  BY DEF HandlePhase3Received
<1>a. e.phase = 3
  <2>1. SameLife(e, a) BY <1>1, TookRead
  <2> QED BY <1>2, <2>1 DEF SameLife
<1>3. /\ EndSound(a) /\ a.phase = e.phase /\ a.open = e.open
      /\ a.m_IsTerminated = e.m_IsTerminated /\ a.posted = e.posted
      /\ a.read = "none" /\ a.writes = <<>> /\ SendsTheSame(e, a)
      /\ a.m_ReceiveBuffer = <<>> /\ a.m_NextMessage = <<>> /\ a.m_Handler = <<>>
  BY <1>1, <1>2, <1>a, TookPhase
<1>4. \A k \in {1, 2} : k < SentItems(o, "client") => k = 1
  <2>1. ConnectionOK(ntcp[c], wire[c], c \in broken) BY DEF NTCPIInv
  <2>2. o.phase # 5 BY <1>a, <2>1 DEF ConnectionOK
  <2>3. SentItems(o, "client") \in {0, 1, 2} BY <2>2 DEF SentItems
  <2> QED BY <2>3
<1> HIDE DEF a
<1>5. /\ EndSound(t) /\ t.phase = 3 /\ t.posted = e.posted /\ (t.open => t = a /\ e.open)
      /\ (~t.m_IsTerminated => t = a /\ ~e.m_IsTerminated)
      /\ t.read = "none" /\ t.writes = <<>>
  <2>1. CASE registered # {}
    <3> DEFINE b == Terminate(a)
    <3>1. /\ EndOK(b) /\ ~b.open /\ b.m_IsTerminated /\ b.phase = a.phase /\ b.posted = a.posted
          /\ b.read = (IF a.read = "pending" THEN "aborted" ELSE a.read)
          /\ b.writes = a.writes
      BY <1>3, TerminateOK
    <3>2. t = b BY <2>1
    <3> HIDE DEF b, t
    <3> QED BY <1>a, <1>3, <3>1, <3>2 DEF EndOK
  <2>2. CASE registered = {} BY <1>3, <1>a, <2>2
  <2> QED BY <2>1, <2>2
<1> HIDE DEF t
<1>6. ReadIn(s, 3) = {1, 2} /\ ReadIn(s, 4) = {2} BY DEF ReadIn
<1>7. CASE c \in ntcpCase.longIdentity
  <2> DEFINE d == StartRead(t)
  <2>1. PutEnd(c, s, d) BY <1>2, <1>7
  <2>2. EndOK(d) BY <1>5, StartReadOK
  <2>3. t \in EndRecord BY <1>5 DEF EndSound
  <2>4. /\ d \in EndRecord /\ SameLife(t, d) /\ SameOut(t, d) /\ SameMessages(t, d)
        /\ d.m_ReceiveBuffer = t.m_ReceiveBuffer
    BY <2>3, StartReadIs
  <2> HIDE DEF d
  <2>5. t.m_ReceiveBuffer = <<>> /\ t.m_NextMessage = <<>> /\ t.m_Handler = <<>>
    BY <1>5 DEF EndSound
  <2>6. /\ d.phase = 3 /\ d.posted = e.posted /\ (d.open => e.open /\ SendsTheSame(e, d))
        /\ (~d.m_IsTerminated => ~e.m_IsTerminated)
        /\ d.m_ReceiveBuffer = <<>> /\ d.m_NextMessage = <<>> /\ d.m_Handler = <<>>
    BY <1>3, <1>5, <2>4, <2>5 DEF SameLife, SameOut, SameMessages, SendsTheSame
  <2>7. SentItems(d, s) = SentItems(e, s) BY <1>a, <2>6, SameSent
  <2> HIDE DEF e, o
  <2>8. (d.open /\ ~(c \in broken) => SendOK(d, s)) /\ Carries(d, s, c \in broken, wire[c][s], o)
    <3>1. d.phase = 5 => e.phase = 5 BY <2>6
    <3>2. /\ s \in Sides /\ e \in EndRecord /\ d \in EndRecord
          /\ Carries(e, s, c \in broken, wire[c][s], o) /\ (e.open /\ ~(c \in broken) => SendOK(e, s))
          /\ d.posted = e.posted /\ SentItems(d, s) = SentItems(e, s)
          /\ (d.open /\ ~(c \in broken) => e.open /\ SendsTheSame(e, d))
      BY <1>0, <1>1, <2>4, <2>6, <2>7
    <3> HIDE DEF s
    <3> QED BY ONLY <3>1, <3>2, SendKept
  <2>9. Carries(o, "client", c \in broken, wire[c]["client"], d)
    <3>1. TakesBlock(e, d) BY <1>1, <1>2, <1>a, <2>6 DEF TakesBlock
    <3>2. d.phase # 5 BY <2>6
    <3>3. ReadIn(s, e.phase) \subseteq 0 .. 2 BY <1>a, <1>6
    <3>4. \A k \in ReadIn(s, e.phase) :
             k < SentItems(o, "client") => k + 1 \in ReadIn(s, d.phase)
      <4>1. ReadIn(s, e.phase) = {1, 2} /\ ReadIn(s, d.phase) = {1, 2} BY <1>a, <1>6, <2>6
      <4>2. \A k \in {1, 2} : k < SentItems(o, "client") => k + 1 = 2 BY <1>4
      <4> QED BY <4>1, <4>2
    <3> QED BY <1>0, <1>1, <2>4, <3>1, <3>2, <3>3, <3>4, TakeBlock
  <2>10. d.phase # 5 /\ d.phase >= e.phase BY <1>a, <2>6
  <2>11. registered' \cup setUnreachable' \subseteq NTCPConns /\ wire' = wire /\ broken' = broken
         /\ ntcpCase' = ntcpCase
    BY <1>2 DEF NTCPRest, NTCPIInv
  <2>12. /\ Carries(d, s, c \in broken, wire[c][s], ntcp[c][OtherSide(s)])
         /\ Carries(ntcp[c][OtherSide(s)], OtherSide(s), c \in broken, wire[c][OtherSide(s)], d)
    BY <1>0, <2>8, <2>9 DEF o
  <2>13. ntcp[c]["client"].phase # 0 BY <1>1, <1>2
  <2>14. d.phase >= ntcp[c][s].phase BY <2>10 DEF e
  <2> HIDE DEF s
  <2> QED BY <1>0, <2>1, <2>2, <2>8, <2>10, <2>11, <2>12, <2>13, <2>14, EndActsAlone
<1>8. CASE c \notin ntcpCase.longIdentity
  <2>1. PutEnd(c, s, Answer(t, 4, Phase("phase4"))) BY <1>2, <1>8 DEF SendPhase4, Answer
  <2>2. Phase("phase4") \in NTCPMessages /\ 4 \in 1 .. 4 BY PhaseMessages
  <2>4. SentItems(e, s) = 1 /\ \A d : d.phase = 4 => SentItems(d, s) = 2 BY <1>a DEF SentItems
  <2>5. \A d : Items(d, s)[2] = Phase("phase4") BY DEF Items
  <2> HIDE DEF e
  <2>6. /\ \A d : d.phase = 4 => SentItems(d, s) = SentItems(e, s) + 1
        /\ \A d : Items(d, s)[SentItems(e, s) + 1] = Phase("phase4")
        /\ SentItems(e, s) \in 0 .. 1
    BY <2>4, <2>5
  <2>7. /\ ReadIn(s, e.phase) \subseteq 0 .. 2
        /\ \A k \in ReadIn(s, e.phase) :
             k < SentItems(o, "client") => k + 1 \in ReadIn(s, 4)
    <3>1. ReadIn(s, e.phase) = {1, 2} BY <1>a, <1>6
    <3>2. \A k \in {1, 2} : k < SentItems(o, "client") => k + 1 = 2 BY <1>4
    <3> QED BY <1>6, <3>1, <3>2
  <2>8. e.phase < 4 BY <1>a
  <2>9. \A k \in ReadIn(s, e.phase) :
          k < SentItems(ntcp[c][OtherSide(s)], OtherSide(s)) => k + 1 \in ReadIn(s, 4)
    BY <1>0, <2>7
  <2>10. /\ EndSound(t) /\ t.phase = e.phase /\ t.read = "none" /\ t.writes = <<>>
         /\ (t.open => e.open) /\ (~t.m_IsTerminated => ~e.m_IsTerminated)
    BY <1>5, <1>a
  <2> HIDE DEF s
  <2> QED BY <1>0, <1>2, <2>1, <2>2, <2>6, <2>7, <2>8, <2>9, <2>10, Answers DEF e
<1> QED BY <1>7, <1>8
-----------------------------------------------------------------------------
\* The end is connected.
LEMMA ConnectedIs ==
  ASSUME NEW a, EndSound(a), a.phase = 4, a.open, a.read = "none", a.write = "none"
  PROVE  LET d == Connected(a)
         IN /\ EndOK(d) /\ d.phase = 5 /\ d.open /\ ~d.m_IsTerminated
            /\ d.m_ReceiveBuffer = <<>> /\ d.m_NextMessage = <<>> /\ d.m_Handler = <<>>
            /\ d.posted = <<>> /\ Len(d.m_SendQueue) = 1 /\ d.m_SendQueue[1] = DatabaseStore
            /\ d.write = "pending" /\ Len(d.writes[1]) = 1 /\ d.writes[1][1] = TimeSync
            /\ d.m_IsSending
<1> DEFINE f == [a EXCEPT !.phase = 5, !.m_IsEstablished = TRUE]
           q == <<TimeSync>>
           w == SendMessages(f, q)
           g == [w EXCEPT !.m_SendQueue = Append(w.m_SendQueue, DatabaseStore),
                          !.events = Append(w.events, "PeerConnected"), !.m_NextMessage = <<>>]
           d == Connected(a)
<1>1. a \in EndRecord BY DEF EndSound
<1>2. ~a.m_IsTerminated /\ a.writes = <<>> /\ a.m_SendQueue = <<>> /\ a.events = <<>>
      /\ a.m_ReceiveBuffer = <<>> /\ a.m_NextMessage = <<>> /\ a.m_Handler = <<>>
      /\ a.posted = <<>>
  BY DEF EndSound
<1>3. /\ f \in EndRecord /\ f.phase = 5 /\ f.m_IsEstablished /\ f.open = a.open
      /\ f.m_IsTerminated = a.m_IsTerminated /\ f.events = a.events
      /\ SameIn(a, f) /\ SameOut(a, f) /\ f.posted = a.posted
  <2>1. 5 \in 0 .. 5 OBVIOUS
  <2> QED BY <1>1, <2>1 DEF EndRecord, SameIn, SameOut
<1>4. TimeSync \in NTCPMessages /\ DatabaseStore \in NTCPMessages
  BY DEF TimeSync, DatabaseStore, NTCPMessage, NTCPMessages, NTCPIds
<1>5. q \in Seq(NTCPMessages) /\ Len(q) = 1 /\ q[1] = TimeSync BY <1>4
<1>6. d = StartRead(g) BY DEF Connected
<1> HIDE DEF f, q, d
<1>7. /\ w \in EndRecord /\ SameLife(f, w) /\ SameIn(f, w) /\ w.posted = f.posted
      /\ w.writes = <<q>> /\ Len(w.writes) = 1 /\ w.writes[1] = q
      /\ w.write = (IF f.open THEN "pending" ELSE "error")
      /\ w.m_IsSending /\ w.m_SendQueue = f.m_SendQueue
  BY <1>2, <1>3, <1>5, SendMessagesIs DEF SameOut
<1> HIDE DEF w
<1> DEFINE queue == <<DatabaseStore>>
           told == <<"PeerConnected">>
<1>8. queue \in Seq(NTCPMessages) /\ Len(queue) = 1 /\ queue[1] = DatabaseStore BY <1>4
<1>9. told \in Seq({"PeerConnected", "PeerDisconnected"}) OBVIOUS
<1>10. Append(w.m_SendQueue, DatabaseStore) = queue /\ Append(w.events, "PeerConnected") = told
  <2>1. w.m_SendQueue = <<>> /\ w.events = <<>>
    BY <1>2, <1>3, <1>7 DEF SameLife, SameOut
  <2> QED BY <2>1, Appended
<1>a. <<>> \in Seq(Blocks) OBVIOUS
<1>11. g = [w EXCEPT !.m_SendQueue = queue, !.events = told, !.m_NextMessage = <<>>]
  BY <1>10
<1> HIDE DEF g, queue, told
<1>12. g \in EndRecord BY <1>7, <1>8, <1>9, <1>a, <1>11 DEF EndRecord
<1>13. /\ g.m_SendQueue = queue /\ g.events = told /\ g.m_NextMessage = <<>>
       /\ g.phase = w.phase /\ g.open = w.open /\ g.m_IsTerminated = w.m_IsTerminated
       /\ g.m_IsEstablished = w.m_IsEstablished /\ g.read = w.read /\ g.write = w.write
       /\ g.writes = w.writes /\ g.m_IsSending = w.m_IsSending /\ g.posted = w.posted
       /\ g.m_ReceiveBuffer = w.m_ReceiveBuffer /\ g.m_Handler = w.m_Handler
  BY <1>7, <1>11 DEF EndRecord
<1>14. /\ g.phase = 5 /\ g.open /\ ~g.m_IsTerminated /\ g.m_IsEstablished /\ g.read = "none"
       /\ g.write = "pending" /\ g.writes[1] = q /\ Len(g.writes) = 1 /\ g.m_IsSending
       /\ g.posted = <<>> /\ g.m_ReceiveBuffer = <<>> /\ g.m_Handler = <<>>
  BY <1>2, <1>3, <1>7, <1>13 DEF SameLife, SameIn
<1>15. g.writes # <<>>
  <2>1. Len(<<>>) = 0 OBVIOUS
  <2>2. g.writes = <<>> => Len(g.writes) = 0 BY ONLY <2>1
  <2> QED BY <1>14, <2>2
<1>16. g.events = <<"PeerConnected">> BY <1>13 DEF told
<1>17. EndSound(g) BY <1>12, <1>13, <1>14, <1>15, <1>16 DEF EndSound
<1>18. EndOK(d)
  <2>1. g.phase < 5 => g.writes = <<>> BY <1>14
  <2> QED BY <1>6, <1>14, <1>17, <2>1, StartReadOK
<1>19. /\ SameLife(g, d) /\ SameOut(g, d) /\ SameMessages(g, d)
       /\ d.m_ReceiveBuffer = g.m_ReceiveBuffer
  BY <1>6, <1>12, StartReadIs
<1>20. /\ d.phase = 5 /\ d.open /\ ~d.m_IsTerminated
       /\ d.m_ReceiveBuffer = <<>> /\ d.m_NextMessage = <<>> /\ d.m_Handler = <<>>
       /\ d.posted = <<>> /\ d.m_SendQueue = queue /\ d.write = "pending" /\ d.writes[1] = q
       /\ d.m_IsSending
  BY <1>13, <1>14, <1>19 DEF SameLife, SameOut, SameMessages
<1> QED BY <1>5, <1>8, <1>18, <1>20 DEF d

LEMMA HandlePhase4OK ==
  ASSUME NTCPIInv, NEW c \in NTCPConns, NEW s \in Sides, HandlePhase4(c, s)
  PROVE  NTCPIInv'
<1> DEFINE e == ntcp[c][s]
           t == OtherSide(s)
           o == ntcp[c][t]
           op == IF s = "client" THEN "read" ELSE "write"
           a == Took(e, op)
           broke == c \in broken
           ok == a.open /\ ~broke
           W == wire[c][s]
           V == wire[c][t]
<1>1. /\ EndSound(e) /\ e \in EndRecord /\ o \in EndRecord /\ t \in Sides
      /\ s = OtherSide(t)
      /\ e.open /\ ~broke => SendOK(e, s)
      /\ Carries(e, s, broke, W, o)
      /\ Carries(o, t, broke, V, e)
      /\ (e.read # "none" \/ e.write # "none") => ntcp[c]["client"].phase # 0
      /\ W \in Seq(Blocks) /\ V \in Seq(Blocks)
  BY EndsAre
<1>2. /\ e[op] = "ok" /\ e.phase = 4 /\ PutEnd(c, s, IF ok THEN Connected(a) ELSE a)
      /\ wire' = wire /\ broken' = broken /\ ntcpCase' = ntcpCase
      /\ registered' \cup setUnreachable' \subseteq NTCPConns
  BY DEF HandlePhase4, NTCPIInv
<1>3. ntcp[c]["client"].phase # 0
  <2>1. CASE op = "read" BY <1>1, <1>2, <2>1
  <2>2. CASE op = "write" BY <1>1, <1>2, <2>2
  <2> QED BY <2>1, <2>2
<1>4. /\ EndSound(a) /\ a.phase = 4 /\ a.posted = e.posted /\ a.open = e.open
      /\ a.m_IsTerminated = e.m_IsTerminated
      /\ a.m_ReceiveBuffer = <<>> /\ a.m_NextMessage = <<>> /\ a.m_Handler = <<>>
      /\ SendsTheSame(e, a) /\ a.read = "none" /\ a.write = "none" /\ a.writes = <<>>
      /\ e.write \in {"none", "ok"}
  <2> HIDE DEF e
  <2>1. CASE s = "client"
    <3> DEFINE b == Took(e, "read")
    <3>0. a = b /\ e.read = "ok" /\ e.phase < 5 BY <1>2, <2>1
    <3>1. /\ EndSound(b) /\ b \in EndRecord /\ b.phase = e.phase /\ b.open = e.open
          /\ b.m_IsTerminated = e.m_IsTerminated /\ b.posted = e.posted
          /\ b.read = "none" /\ b.write = "none" /\ b.writes = <<>> /\ SendsTheSame(e, b)
          /\ b.m_ReceiveBuffer = <<>> /\ b.m_NextMessage = <<>> /\ b.m_Handler = <<>>
      BY <1>1, <3>0, TookPhase
    <3>2. e.write = "none" BY <1>1, <3>0 DEF EndSound
    <3> HIDE DEF a, b
    <3> QED BY <1>2, <3>0, <3>1, <3>2
  <2>2. CASE s # "client"
    <3> DEFINE b == Took(e, "write")
    <3>0. a = b /\ e.write = "ok" /\ e.write # "none" /\ e.phase < 5 BY <1>2, <2>2
    <3>1. EndSound(b) /\ Len(e.writes) = 1 BY <1>1, <3>0, TookWriteOK
    <3>2. /\ SameLife(e, b) /\ SameIn(e, b) /\ b.posted = e.posted
          /\ b.write = "none" /\ b.writes = <<>>
          /\ b.m_IsSending = e.m_IsSending /\ b.m_SendQueue = e.m_SendQueue
      BY <1>1, <3>1, TookWrite
    <3>3. e.read = "none" /\ e.m_ReceiveBuffer = <<>> /\ e.m_NextMessage = <<>> /\ e.m_Handler = <<>>
      BY <1>1, <3>0 DEF EndSound
    <3> HIDE DEF a, b
    <3> QED BY <1>2, <3>0, <3>1, <3>2, <3>3 DEF SameLife, SameIn, SendsTheSame
  <2> QED BY <2>1, <2>2
<1>5. a \in EndRecord BY <1>4 DEF EndSound
<1>ph. o.phase \in 0 .. 5 BY <1>1 DEF EndRecord
<1>sc. s = "client" => t = "server" BY DEF OtherSide
<1>os. o = ntcp[c][t] OBVIOUS
<1>cs. s = "client" \/ s = "server" BY DEF Sides
<1>op. s = "client" => e.read = "ok"
  <2>1. CASE s = "client"
    <3>1. op = "read" BY <2>1
    <3> QED BY <1>2, <3>1
  <2> QED BY <2>1
<1>ow. s = "server" => e.write = "ok"
  <2>1. CASE s = "server"
    <3>1. op = "write" BY <2>1
    <3> QED BY <1>2, <3>1
  <2> QED BY <2>1
<1> HIDE DEF e, o, a, t, W, V
\* What it has read.
<1>6. ASSUME NEW d \in EndRecord, d.m_ReceiveBuffer = <<>>, d.m_NextMessage = <<>>,
             d.m_Handler = <<>>, ~InHandshake(d), ~d.m_IsTerminated => ~e.m_IsTerminated
      PROVE  /\ Carries(o, t, broke, V, d)
             /\ s = "client" /\ ~e.m_IsTerminated => o.phase >= 4
  <2> HIDE DEF broke
  <2>1. CASE s = "client"
    <3>1. e.read = "ok" /\ e.phase < 5 BY <1>2, <1>op, <2>1
    <3>2. TakesBlock(e, d) BY <1>6, <3>1 DEF TakesBlock
    <3>3. ReadIn(s, e.phase) = {1} BY <1>2, <2>1 DEF ReadIn
    <3>4. ReadIn(s, e.phase) \subseteq 0 .. 2 BY <3>3
    <3>5. \A k \in ReadIn(s, e.phase) : k < SentItems(o, t) => k + 1 \in {2, 3} BY <3>3
    <3>6. /\ Carries(o, t, broke, V, d)
          /\ ~e.m_IsTerminated => \E k \in ReadIn(s, e.phase) : k < SentItems(o, t)
      BY <1>1, <1>6, <3>2, <3>4, <3>5, TakeBlock
    <3>7. ASSUME 1 < SentItems(o, t) PROVE o.phase >= 4
      <4>1. t = "server" BY <1>sc, <2>1
      <4> QED BY <1>ph, <3>7, <4>1 DEF SentItems
    <3> QED BY <3>3, <3>6, <3>7
  <2>2. CASE s = "server"
    <3>1. e.phase < 5 /\ e.writes # <<>> /\ e.read = "none" BY <1>1, <1>2, <1>ow, <2>2 DEF EndSound
    <3>2. e.m_ReceiveBuffer = <<>> /\ e.m_NextMessage = <<>> BY <1>1, <3>1 DEF EndSound
    <3>3. InHandshake(e) BY <3>1 DEF InHandshake
    <3>4. ReadIn(s, e.phase) \subseteq {2, 3} BY <1>2, <2>2 DEF ReadIn
    <3>5. Carries(o, t, broke, V, d) BY <1>1, <1>6, <3>2, <3>3, <3>4, ReadKept
    <3> QED BY <2>2, <3>5
  <2> QED BY <1>cs, <2>1, <2>2
<1>7. CASE ~ok
  <2>1. PutEnd(c, s, a) BY <1>2, <1>7
  <2>2. EndOK(a) BY <1>4 DEF EndOK
  <2>3. ~InHandshake(a) BY <1>4 DEF InHandshake
  <2>4. Carries(o, t, broke, V, a) BY <1>4, <1>5, <1>6, <2>3
  <2>5. SentItems(a, s) = SentItems(e, s) BY <1>2, <1>4, SameSent
  <2>6. (a.open /\ ~broke => SendOK(a, s)) /\ Carries(a, s, broke, W, o)
    <3>1. a.phase = 5 => e.phase = 5 BY <1>4
    <3> HIDE DEF broke
    <3> QED BY <1>1, <1>4, <1>5, <2>5, <3>1, SendKept
  <2>7. a.phase >= e.phase /\ a.phase # 5 BY <1>2, <1>4
  <2> QED BY <1>2, <1>3, <2>1, <2>2, <2>4, <2>6, <2>7, EndActsAlone DEF e, o, t, V, W
<1>8. CASE ok
  <2> DEFINE d == Connected(a)
  <2>1. PutEnd(c, s, d) BY <1>2, <1>8
  <2>2. /\ EndOK(d) /\ d.phase = 5 /\ d.open /\ ~d.m_IsTerminated
        /\ d.m_ReceiveBuffer = <<>> /\ d.m_NextMessage = <<>> /\ d.m_Handler = <<>>
        /\ d.posted = <<>> /\ Len(d.m_SendQueue) = 1 /\ d.m_SendQueue[1] = DatabaseStore
        /\ d.write = "pending" /\ Len(d.writes[1]) = 1 /\ d.writes[1][1] = TimeSync
        /\ d.m_IsSending
    BY <1>4, <1>8, ConnectedIs
  <2> HIDE DEF d
  <2>3. d \in EndRecord BY <2>2 DEF EndOK, EndSound
  <2>4. ~InHandshake(d) BY <2>2 DEF InHandshake
  <2>5. e.open /\ ~broke /\ ~e.m_IsTerminated BY <1>1, <1>4, <1>8 DEF EndSound
  <2>6. Carries(o, t, broke, V, d) /\ (s = "client" => o.phase >= 4)
    BY <1>6, <2>2, <2>3, <2>4, <2>5
  <2>7. SentItems(d, s) = 4 /\ SentItems(e, s) = 2
    <3>1. Len(d.posted) = 0 BY <2>2
    <3> QED BY <1>2, <1>cs, <2>2, <3>1 DEF SentItems
  <2>8. Unwritten(d) = 2
    <3>1. 1 + 1 = 2 OBVIOUS
    <3> QED BY <2>2, <3>1 DEF Unwritten
  <2>9. Unwritten(e) = 0
    <3>1. e.m_SendQueue = <<>> BY <1>1, <1>2 DEF EndSound
    <3>2. Len(e.m_SendQueue) = 0 BY <3>1
    <3>3. e.write # "pending" BY <1>4
    <3> QED BY <3>2, <3>3 DEF Unwritten
  <2>10. SendOK(d, s)
    <3> DEFINE I == Items(d, s)
    <3>1. I[3] = TimeSync /\ I[4] = DatabaseStore
      <4>1. Len(d.posted) = 0 BY <2>2
      <4> QED BY <4>1 DEF Items
    <3> HIDE DEF I
    <3>2. \A i \in 1 .. Len(d.m_SendQueue) : d.m_SendQueue[i] = I[4 - 1 + i]
      <4>1. \A i \in 1 .. 1 : i = 1 /\ 4 - 1 + i = 4 OBVIOUS
      <4> QED BY <2>2, <3>1, <4>1
    <3>3. \A i \in 1 .. Len(d.writes[1]) : d.writes[1][i] = I[4 - 2 + i]
      <4>1. \A i \in 1 .. 1 : i = 1 /\ 4 - 2 + i = 3 OBVIOUS
      <4> QED BY <2>2, <3>1, <4>1
    <3>4. 2 <= 4 OBVIOUS
    <3> QED BY <2>2, <2>7, <2>8, <3>2, <3>3, <3>4 DEF SendOK, I
  <2>11. Carries(d, s, broke, W, o)
    <3>1. Items(d, s) = Items(e, s)
      <4>1. e.posted = <<>> BY <1>1, <1>2 DEF EndSound
      <4> QED BY <2>2, <4>1 DEF Items
    <3>2. SentItems(d, s) = SentItems(e, s) + 2 /\ 2 \in 1 .. 2 BY <2>7
    <3>3. Unwritten(e) \in 0 .. SentItems(e, s) /\ Unwritten(d) = Unwritten(e) + 2
      BY <2>7, <2>8, <2>9
    <3> HIDE DEF broke
    <3> QED BY <1>1, <2>3, <2>5, <3>1, <3>2, <3>3, CarriesMore
  <2>12. d.phase >= e.phase BY <1>2, <2>2
  <2>13. s = "client" => ntcp[c]["server"].phase >= 4 BY <1>sc, <2>6 DEF o
  <2>14. registered' \cup setUnreachable' \subseteq NTCPConns BY <1>2
  <2>15. /\ Carries(d, s, c \in broken, wire[c][s], ntcp[c][OtherSide(s)])
         /\ Carries(ntcp[c][OtherSide(s)], OtherSide(s), c \in broken, wire[c][OtherSide(s)], d)
         /\ d.phase >= ntcp[c][s].phase
    BY <2>6, <2>11, <2>12 DEF e, o, t, V, W
  <2> QED BY <1>2, <1>3, <2>1, <2>2, <2>10, <2>13, <2>14, <2>15, EndActsAlone
<1> QED BY <1>7, <1>8
-----------------------------------------------------------------------------
(***************************************************************************)
(* A connected end.                                                        *)
(***************************************************************************)
LEMMA ToldConnected ==
  ASSUME NEW e, EndSound(e), Told(e, "PeerConnected")
  PROVE  e.phase = 5 /\ e.events # <<>>
<1>1. PICK i \in DOMAIN e.events : e.events[i] = "PeerConnected" BY DEF Told
<1>2. e.events # <<>>
  <2>1. DOMAIN <<>> = {} OBVIOUS
  <2> QED BY <1>1, <2>1
<1>3. e.events # <<"PeerDisconnected">>
  <2>1. DOMAIN <<"PeerDisconnected">> = {1} /\ <<"PeerDisconnected">>[1] = "PeerDisconnected" OBVIOUS
  <2> QED BY <1>1, <2>1
<1>4. e.phase \in 0 .. 5 BY DEF EndSound, EndRecord
<1> QED BY <1>2, <1>3, <1>4 DEF EndSound

LEMMA HandleReceivedOK ==
  ASSUME NTCPIInv, NEW c \in NTCPConns, NEW s \in Sides, HandleReceived(c, s)
  PROVE  NTCPIInv'
<1> DEFINE e == ntcp[c][s]
           t == OtherSide(s)
           o == ntcp[c][t]
           broke == c \in broken
           V == wire[c][t]
           W == wire[c][s]
           x == e.m_ReceiveBuffer
           a == Took(e, "read")
           f == Decrypted(a, Accepted(x))
           end == e.read # "ok" \/ \E i \in DOMAIN x : TooLong(x[i])
           g == ScheduleTerminationNTCP(f)
           d == StartRead(g)
<1>1. /\ EndSound(e) /\ e \in EndRecord /\ o \in EndRecord /\ t \in Sides
      /\ s = OtherSide(t)
      /\ e.open /\ ~broke => SendOK(e, s)
      /\ Carries(e, s, broke, W, o)
      /\ Carries(o, t, broke, V, e)
      /\ e.read # "none" => ntcp[c]["client"].phase # 0
      /\ W \in Seq(Blocks) /\ V \in Seq(Blocks) /\ SentItems(o, t) \in Nat
  BY EndsAre
<1>2. /\ e.phase = 5 /\ e.read # "none" /\ PutEnd(c, s, IF end THEN Terminate(f) ELSE d)
      /\ wire' = wire /\ broken' = broken /\ ntcpCase' = ntcpCase
      /\ registered' \cup setUnreachable' \subseteq NTCPConns
  BY DEF HandleReceived, NTCPIInv
<1>3. x \in Seq(Blocks) /\ Accepted(x) \in Seq(Blocks)
  <2>1. x \in Seq(Blocks) BY <1>1 DEF EndRecord
  <2> QED BY <2>1, AcceptedIs
<1>4. EndSound(a) BY <1>1, TookReadOK
<1>5. /\ a \in EndRecord /\ SameLife(e, a) /\ SameOut(e, a) /\ SameMessages(e, a)
      /\ a.read = "none" /\ a.m_ReceiveBuffer = <<>>
  BY <1>1, TookRead
<1> HIDE DEF a
<1>6. f \in EndRecord /\ SameElse(a, f) BY <1>3, <1>5, DecryptedTyped
<1>acc. ~end => Accepted(x) = x BY <1>3, AcceptedIs
<1> HIDE DEF f, e, o, t, W, V
<1>7. EndSound(f)
  <2>1. a.phase = 5 BY <1>2, <1>5 DEF SameLife
  <2>2. f.phase = 5 BY <1>6, <2>1 DEF SameElse
  <2> QED BY <1>4, <1>6, <2>1, <2>2 DEF EndSound, SameElse
<1>8. /\ f.phase = 5 /\ f.posted = e.posted /\ f.open = e.open
      /\ f.m_IsTerminated = e.m_IsTerminated /\ f.read = "none" /\ f.m_ReceiveBuffer = <<>>
      /\ SameOut(e, f)
  BY <1>2, <1>5, <1>6 DEF SameElse, SameLife, SameOut, SameMessages
<1>9. CASE end
  <2>1. PutEnd(c, s, Terminate(f)) BY <1>2, <1>9
  <2>2. f.phase = e.phase BY <1>2, <1>8
  <2> QED BY <1>1, <1>2, <1>7, <1>8, <2>1, <2>2, Terminates DEF e
<1>10. CASE ~end
  <2>1. PutEnd(c, s, d) BY <1>2, <1>10
  <2>2. g = [f EXCEPT !.timer = TRUE] BY DEF ScheduleTerminationNTCP
  <2> HIDE DEF d, g
  <2>3. /\ g \in EndRecord /\ SameLife(f, g) /\ SameIn(f, g) /\ SameOut(f, g) /\ g.posted = f.posted
    BY <1>6, <2>2 DEF EndRecord, SameLife, SameIn, SameOut
  <2>4. EndSound(g) BY <1>7, <1>8, <2>3 DEF EndSound, SameLife, SameIn, SameOut
  <2>5. EndOK(d)
    <3>1. g.read = "none" /\ (g.phase < 5 => g.writes = <<>>)
      BY <1>8, <2>3 DEF SameLife, SameIn
    <3> QED BY <2>4, <3>1, StartReadOK DEF d
  <2>6. /\ d \in EndRecord /\ SameLife(g, d) /\ SameOut(g, d) /\ SameMessages(g, d)
        /\ d.m_ReceiveBuffer = g.m_ReceiveBuffer
    BY <2>3, StartReadIs DEF d
  <2>7. /\ d.phase = 5 /\ d.posted = e.posted /\ d.open = e.open /\ SendsTheSame(e, d)
        /\ d.m_IsTerminated = f.m_IsTerminated /\ d.m_NextMessage = f.m_NextMessage
        /\ d.m_Handler = f.m_Handler /\ d.m_ReceiveBuffer = f.m_ReceiveBuffer
    BY <1>8, <2>3, <2>6 DEF SameLife, SameIn, SameOut, SameMessages, SendsTheSame
  <2>8. SentItems(d, s) = SentItems(e, s) BY <1>2, <2>7, SameSent
  <2>9. (d.open /\ ~broke => SendOK(d, s)) /\ Carries(d, s, broke, W, o)
    <3> HIDE DEF broke
    <3> QED BY <1>1, <1>2, <2>6, <2>7, <2>8, SendKept
  <2>10. Carries(o, t, broke, V, f)
    <3> SUFFICES ASSUME ~f.m_IsTerminated
                 PROVE  Flow(Items(o, t), SentItems(o, t), Unwritten(o), o.open /\ ~broke, V, f,
                             OtherSide(t))
      BY DEF Carries
    <3> DEFINE I == Items(o, t)
               n == SentItems(o, t)
               u == Unwritten(o)
               live == o.open /\ ~broke
    <3>1. Flow(I, n, u, live, V, e, s) BY <1>1, <1>8 DEF Carries
    <3>2. /\ I \in [Nat -> NTCPMessages] /\ \A i \in 1 .. 3 : I[i].len = 0
          /\ \A i \in 4 .. 4 + Len(o.posted) : I[i].len > 0
      BY <1>1, ItemsTyped DEF EndRecord
    <3>3. n \in Nat /\ n <= 4 + Len(o.posted)
      <4>1. Len(o.posted) \in Nat BY <1>1 DEF EndRecord
      <4> QED BY <4>1 DEF SentItems
    <3>4. \A i \in 4 .. n : I[i].len > 0
      <4>1. Len(o.posted) \in Nat BY <1>1 DEF EndRecord
      <4> HIDE DEF I, n
      <4> QED BY <3>2, <3>3, <4>1
    <3>5. a.phase = 5 /\ a.m_NextMessage = e.m_NextMessage /\ a.m_Handler = e.m_Handler
      BY <1>2, <1>5 DEF SameLife, SameMessages
    <3>6. f = Decrypted(a, e.m_ReceiveBuffer) BY <1>10, <1>acc DEF f
    <3> HIDE DEF I, n, u, live
    <3>7. Flow(I, n, u, live, V, Decrypted(a, e.m_ReceiveBuffer), s)
      BY <1>1, <1>2, <1>5, <3>1, <3>2, <3>3, <3>4, <3>5, FlowDecrypted
    <3> QED BY <1>1, <3>6, <3>7 DEF I, n, u, live
  <2>11. Carries(o, t, broke, V, d)
    <3>1. ~InHandshake(d) BY <2>7 DEF InHandshake
    <3> HIDE DEF broke
    <3> QED BY <1>1, <1>6, <1>8, <2>7, <2>10, <3>1, ReadKept
  <2>12. d.phase >= e.phase BY <1>2, <2>7
  <2> QED BY <1>1, <1>2, <2>1, <2>5, <2>9, <2>11, <2>12, EndActsAlone DEF e, o, t, V, W
<1> QED BY <1>9, <1>10

\* The same messages, elsewhere.
LEMMA CarriesSame ==
  ASSUME NEW s \in Sides, NEW e \in EndRecord, NEW e2, NEW broke, NEW w, NEW o,
         Carries(e, s, broke, w, o), e2.posted = e.posted, e2.phase = e.phase,
         e2.open /\ ~broke => e.open /\ Unwritten(e2) = Unwritten(e)
  PROVE  Carries(e2, s, broke, w, o)
<1>1. Items(e2, s) = Items(e, s) BY DEF Items
<1>2. SentItems(e2, s) = SentItems(e, s) BY SameSent
<1>3. SentItems(e, s) \in Nat
  <2>1. e.posted \in Seq(Posts) BY DEF EndRecord
  <2> QED BY <2>1 DEF SentItems
<1> SUFFICES ASSUME ~o.m_IsTerminated
             PROVE  Flow(Items(e, s), SentItems(e, s), Unwritten(e2), e2.open /\ ~broke, w, o,
                         OtherSide(s))
  BY <1>1, <1>2 DEF Carries
<1> DEFINE l == e.open /\ ~broke
           m == e2.open /\ ~broke
<1>4. m => l /\ Unwritten(e2) = Unwritten(e) OBVIOUS
<1>5. Flow(Items(e, s), SentItems(e, s), Unwritten(e), l, w, o, OtherSide(s)) BY DEF Carries
<1> HIDE DEF l, m
<1>6. Flow(Items(e, s), SentItems(e, s), Unwritten(e2), m, w, o, OtherSide(s))
  BY <1>3, <1>4, <1>5, FlowKept
<1> QED BY <1>6 DEF m

LEMMA HandleSentOK ==
  ASSUME NTCPIInv, NEW c \in NTCPConns, NEW s \in Sides, HandleSent(c, s)
  PROVE  NTCPIInv'
<1> DEFINE e == ntcp[c][s]
           t == OtherSide(s)
           o == ntcp[c][t]
           broke == c \in broken
           V == wire[c][t]
           W == wire[c][s]
           b == Took(e, "write")
           a == [b EXCEPT !.m_IsSending = FALSE]
           queue == a.m_SendQueue
           r == e.write
           d == IF r # "ok" THEN a
                ELSE IF queue # <<>> THEN [SendMessages(a, queue) EXCEPT !.m_SendQueue = <<>>]
                ELSE ScheduleTerminationNTCP(a)
<1>1. /\ EndOK(e) /\ EndSound(e) /\ e \in EndRecord /\ o \in EndRecord /\ t \in Sides
      /\ s = OtherSide(t)
      /\ e.open /\ ~broke => SendOK(e, s)
      /\ Carries(e, s, broke, W, o)
      /\ Carries(o, t, broke, V, e)
      /\ e.write # "none" => ntcp[c]["client"].phase # 0
  BY EndsAre
<1>2. /\ e.phase = 5 /\ r \in {"ok", "error", "aborted"} /\ PutEnd(c, s, d)
      /\ wire' = wire /\ broken' = broken /\ ntcpCase' = ntcpCase
      /\ registered' \cup setUnreachable' \subseteq NTCPConns
  BY DEF HandleSent, NTCPRest, NTCPIInv
<1> HIDE DEF e, o, t, V, W
<1>3. Len(e.writes) = 1 BY <1>1, <1>2, TookWriteOK
<1>4. /\ b \in EndRecord /\ SameLife(e, b) /\ SameIn(e, b) /\ b.posted = e.posted
      /\ b.write = "none" /\ b.writes = <<>> /\ b.m_SendQueue = e.m_SendQueue
  BY <1>1, <1>3, TookWrite
<1> HIDE DEF b
<1>5. /\ a \in EndRecord /\ SameLife(e, a) /\ SameIn(e, a) /\ a.posted = e.posted
      /\ a.write = "none" /\ a.writes = <<>> /\ a.m_SendQueue = e.m_SendQueue /\ ~a.m_IsSending
  BY <1>4 DEF EndRecord, SameLife, SameIn
<1> HIDE DEF a
<1>6. Len(<<>>) = 0 OBVIOUS
<1>7. EndOK(a) BY <1>1, <1>2, <1>5, <1>6 DEF EndOK, EndSound, SameLife, SameIn
<1>8. e.open /\ ~broke => r = "ok" BY <1>1, <1>2 DEF SendOK
<1>9. r = "ok" => Unwritten(e) = Len(e.m_SendQueue)
  <2>1. Len(e.m_SendQueue) \in Nat BY <1>1 DEF EndRecord
  <2> QED BY <2>1 DEF Unwritten
<1>q. queue \in Seq(NTCPMessages) /\ queue = e.m_SendQueue /\ Len(queue) \in Nat
  <2>1. queue \in Seq(NTCPMessages) BY <1>5 DEF EndRecord
  <2> QED BY <1>5, <2>1
<1> DEFINE w == SendMessages(a, queue)
<1>10. /\ w \in EndRecord /\ SameLife(a, w) /\ SameIn(a, w) /\ w.posted = a.posted
       /\ w.writes = <<queue>> /\ Len(w.writes) = 1 /\ w.writes[1] = queue
       /\ w.write = (IF a.open THEN "pending" ELSE "error")
       /\ w.m_IsSending /\ w.m_SendQueue = a.m_SendQueue
  BY <1>5, <1>q, SendMessagesIs
<1>d. d = IF r # "ok" THEN a ELSE IF queue # <<>> THEN [w EXCEPT !.m_SendQueue = <<>>]
          ELSE [a EXCEPT !.timer = TRUE]
  BY DEF ScheduleTerminationNTCP
<1> HIDE DEF w, d, r
\* What each case leaves.
<1>11. /\ EndOK(d) /\ d \in EndRecord /\ SameLife(e, d) /\ SameIn(e, d) /\ d.posted = e.posted
       /\ d.open /\ ~broke =>
            /\ Unwritten(d) = Len(queue) /\ d.m_SendQueue = <<>>
            /\ d.write \in {"none", "pending"}
            /\ d.write = "pending" => d.writes[1] = queue
  <2>1. CASE r # "ok"
    <3>1. d = a BY <1>d, <2>1
    <3>2. ~(d.open /\ ~broke) BY <1>5, <1>8, <2>1, <3>1 DEF SameLife
    <3> QED BY <1>5, <1>7, <3>1, <3>2
  <2>2. CASE r = "ok" /\ queue # <<>>
    <3>1. d = [w EXCEPT !.m_SendQueue = <<>>] BY <1>d, <2>2
    <3>2. <<>> \in Seq(NTCPMessages) OBVIOUS
    <3>3. /\ d \in EndRecord /\ SameLife(w, d) /\ SameIn(w, d) /\ d.posted = w.posted
          /\ d.writes = w.writes /\ d.write = w.write /\ d.m_IsSending = w.m_IsSending
          /\ d.m_SendQueue = <<>>
      BY <1>10, <3>1, <3>2 DEF EndRecord, SameLife, SameIn
    <3>4. SameLife(e, d) /\ SameIn(e, d) /\ d.posted = e.posted
      BY <1>5, <1>10, <3>3 DEF SameLife, SameIn
    <3>5. d.writes # <<>> /\ d.write = (IF e.open THEN "pending" ELSE "error") /\ d.m_IsSending
      <4>1. Len(d.writes) = 1 BY <1>10, <3>3
      <4>2. d.writes = <<>> => Len(d.writes) = 0 BY ONLY <1>6
      <4> QED BY <1>5, <1>10, <3>3, <4>1, <4>2 DEF SameLife
    <3>6. EndOK(d)
      <4>1. Len(d.writes) = 1 BY <1>10, <3>3
      <4> QED BY <1>1, <1>2, <3>3, <3>4, <3>5, <4>1 DEF EndOK, EndSound, SameLife, SameIn
    <3>7. ASSUME d.open PROVE Unwritten(d) = Len(queue) /\ d.write = "pending" /\ d.writes[1] = queue
      <4>1. d.write = "pending" BY <3>4, <3>5, <3>7 DEF SameLife
      <4>2. d.writes[1] = queue BY <1>10, <3>3
      <4>3. Len(d.m_SendQueue) = 0 BY <1>6, <3>3
      <4> QED BY <1>q, <4>1, <4>2, <4>3 DEF Unwritten
    <3> QED BY <3>3, <3>4, <3>6, <3>7
  <2>3. CASE r = "ok" /\ queue = <<>>
    <3>1. d = [a EXCEPT !.timer = TRUE] BY <1>d, <2>3
    <3>2. /\ d \in EndRecord /\ SameLife(a, d) /\ SameIn(a, d) /\ d.posted = a.posted
          /\ d.writes = a.writes /\ d.write = a.write /\ d.m_IsSending = a.m_IsSending
          /\ d.m_SendQueue = a.m_SendQueue
      BY <1>5, <3>1 DEF EndRecord, SameLife, SameIn
    <3>3. SameLife(e, d) /\ SameIn(e, d) /\ d.posted = e.posted
      BY <1>5, <3>2 DEF SameLife, SameIn
    <3>4. EndOK(d) BY <1>7, <3>2 DEF EndOK, EndSound, SameLife, SameIn
    <3>5. d.m_SendQueue = <<>> /\ d.write = "none" BY <1>5, <2>3, <3>2
    <3>6. Unwritten(d) = Len(queue)
      <4>1. Len(d.m_SendQueue) = 0 /\ Len(queue) = 0 BY <1>6, <2>3, <3>5
      <4> QED BY <3>5, <4>1 DEF Unwritten
    <3> QED BY <3>2, <3>3, <3>4, <3>5, <3>6
  <2> QED BY <2>1, <2>2, <2>3
<1>12. d.open = e.open /\ d.phase = 5 /\ d.m_IsTerminated = e.m_IsTerminated
  BY <1>2, <1>11 DEF SameLife
<1>13. d.open /\ ~broke => e.open /\ Unwritten(d) = Unwritten(e)
  BY <1>8, <1>9, <1>11, <1>12, <1>q
<1>14. Carries(d, s, broke, W, o)
  <2> HIDE DEF broke
  <2> QED BY <1>1, <1>2, <1>11, <1>12, <1>13, CarriesSame
<1>15. ASSUME d.open, ~broke PROVE SendOK(d, s)
  <2>1. SendOK(e, s) /\ r = "ok" BY <1>1, <1>8, <1>12, <1>15
  <2>2. SentItems(d, s) = SentItems(e, s) /\ Items(d, s) = Items(e, s)
    <3>1. d.phase = e.phase /\ d.posted = e.posted BY <1>2, <1>11, <1>12
    <3> QED BY <3>1, SameSent DEF Items
  <2>3. /\ Unwritten(e) <= SentItems(e, s)
        /\ \A i \in 1 .. Len(queue) : queue[i] = Items(e, s)[SentItems(e, s) - Len(queue) + i]
    BY <1>q, <2>1 DEF SendOK
  <2>4. Unwritten(d) = Len(queue) /\ Unwritten(e) = Len(queue) BY <1>9, <1>11, <1>15, <1>q, <2>1
  <2>5. \A i \in 1 .. Len(d.m_SendQueue) : FALSE BY <1>6, <1>11, <1>15
  <2>6. d.write = "pending" =>
          \A i \in 1 .. Len(d.writes[1]) :
            d.writes[1][i] = Items(d, s)[SentItems(d, s) - Unwritten(d) + i]
    BY <1>11, <1>15, <2>2, <2>3, <2>4
  <2>7. /\ d.write \in {"none", "pending", "ok"} /\ d.m_SendQueue = <<>>
        /\ Unwritten(d) <= SentItems(d, s)
    BY <1>11, <1>15, <2>2, <2>3, <2>4
  <2> QED BY <2>5, <2>6, <2>7 DEF SendOK
<1>16. Carries(o, t, broke, V, d)
  <2>1. ~InHandshake(d) BY <1>12 DEF InHandshake
  <2> HIDE DEF broke
  <2> QED BY <1>1, <1>2, <1>11, <1>12, <2>1, ReadKept DEF SameIn
<1>17. d.phase >= e.phase /\ ntcp[c]["client"].phase # 0 BY <1>1, <1>2, <1>12 DEF r
<1> QED BY <1>2, <1>11, <1>14, <1>15, <1>16, <1>17, EndActsAlone DEF e, o, t, V, W

LEMMA PostOK ==
  ASSUME NTCPIInv, NEW c \in NTCPConns, NEW s \in Sides, NEW m \in Posts, PostI2NPMessages(c, s, m)
  PROVE  NTCPIInv'
<1> DEFINE e == ntcp[c][s]
           t == OtherSide(s)
           o == ntcp[c][t]
           broke == c \in broken
           V == wire[c][t]
           W == wire[c][s]
           p == Posted(e, m)
           d == IF p.m_IsTerminated THEN p
                ELSE IF p.m_IsSending THEN [p EXCEPT !.m_SendQueue = Append(p.m_SendQueue, m)]
                ELSE SendMessages(p, <<m>>)
<1>1. /\ EndOK(e) /\ EndSound(e) /\ e \in EndRecord /\ o \in EndRecord /\ t \in Sides
      /\ s = OtherSide(t)
      /\ e.open /\ ~broke => SendOK(e, s)
      /\ Carries(e, s, broke, W, o)
      /\ Carries(o, t, broke, V, e)
      /\ e.events # <<>> => ntcp[c]["client"].phase # 0
      /\ W \in Seq(Blocks)
  BY EndsAre
<1>2. /\ Told(p, "PeerConnected") /\ PutEnd(c, s, d)
      /\ wire' = wire /\ broken' = broken /\ ntcpCase' = ntcpCase
      /\ registered' \cup setUnreachable' \subseteq NTCPConns
  BY DEF PostI2NPMessages, NTCPRest, NTCPIInv
<1> HIDE DEF e, o, t, V, W
<1> DEFINE posted == Append(e.posted, m)
<1>3. e.posted \in Seq(Posts) /\ Len(e.posted) \in Nat BY <1>1 DEF EndRecord
<1>4. posted \in Seq(Posts) /\ Len(posted) = Len(e.posted) + 1
      /\ (\A i \in 1 .. Len(e.posted) : posted[i] = e.posted[i]) /\ posted[Len(e.posted) + 1] = m
  <2> DEFINE q == e.posted
  <2>1. q \in Seq(Posts) BY <1>3
  <2> HIDE DEF q
  <2>2. Append(q, m) \in Seq(Posts) BY <2>1, AppendProperties
  <2>3. Len(Append(q, m)) = Len(q) + 1 BY <2>1, AppendProperties
  <2>4. \A i \in 1 .. Len(q) : Append(q, m)[i] = q[i] BY <2>1, AppendProperties
  <2>5. Append(q, m)[Len(q) + 1] = m BY <2>1, AppendProperties
  <2> QED BY <2>2, <2>3, <2>4, <2>5 DEF q
<1>5. p = [e EXCEPT !.posted = posted] BY DEF Posted
<1> HIDE DEF posted, p
<1>6. /\ p \in EndRecord /\ SameLife(e, p) /\ SameIn(e, p) /\ SameOut(e, p) /\ p.posted = posted
  BY <1>1, <1>4, <1>5 DEF EndRecord, SameLife, SameIn, SameOut
<1>7. e.phase = 5 /\ e.events # <<>>
  <2>1. p.events = e.events BY <1>6 DEF SameLife
  <2>2. Told(e, "PeerConnected") BY <1>2, <2>1 DEF Told
  <2> QED BY <1>1, <2>2, ToldConnected
<1>8. EndOK(p) BY <1>1, <1>6, <1>7 DEF EndOK, EndSound, SameLife, SameIn, SameOut
<1>9. m \in NTCPMessages BY DEF Posts, NTCPMessages
<1> DEFINE n == SentItems(e, s)
           queue == Append(e.m_SendQueue, m)
<1>10. n = 4 + Len(e.posted) /\ n \in Nat BY <1>3, <1>7 DEF SentItems
<1>11. e.m_SendQueue \in Seq(NTCPMessages) /\ Len(e.m_SendQueue) \in Nat BY <1>1 DEF EndRecord
<1>12. queue \in Seq(NTCPMessages) /\ Len(queue) = Len(e.m_SendQueue) + 1
       /\ (\A i \in 1 .. Len(e.m_SendQueue) : queue[i] = e.m_SendQueue[i])
       /\ queue[Len(e.m_SendQueue) + 1] = m
  <2> DEFINE q == e.m_SendQueue
  <2>1. q \in Seq(NTCPMessages) BY <1>11
  <2> HIDE DEF q
  <2>2. Append(q, m) \in Seq(NTCPMessages) BY <1>9, <2>1, AppendProperties
  <2>3. Len(Append(q, m)) = Len(q) + 1 BY <1>9, <2>1, AppendProperties
  <2>4. \A i \in 1 .. Len(q) : Append(q, m)[i] = q[i] BY <1>9, <2>1, AppendProperties
  <2>5. Append(q, m)[Len(q) + 1] = m BY <1>9, <2>1, AppendProperties
  <2> QED BY <2>2, <2>3, <2>4, <2>5 DEF q
<1>13. d = IF e.m_IsTerminated THEN p
           ELSE IF e.m_IsSending THEN [p EXCEPT !.m_SendQueue = queue]
           ELSE SendMessages(p, <<m>>)
  BY <1>6 DEF SameLife, SameOut
<1> HIDE DEF n, queue, d
\* What each case leaves.
<1>14. /\ EndOK(d) /\ d \in EndRecord /\ SameLife(e, d) /\ SameIn(e, d) /\ d.posted = posted
       /\ e.m_IsTerminated \/ ~e.m_IsSending \/ (d.m_SendQueue = queue /\ d.write = e.write
                                                 /\ d.writes = e.writes /\ d.m_IsSending)
       /\ e.m_IsTerminated \/ e.m_IsSending \/
            (d.m_SendQueue = e.m_SendQueue /\ d.writes[1] = <<m>> /\ d.m_IsSending
             /\ d.write = IF e.open THEN "pending" ELSE "error")
  <2>1. CASE e.m_IsTerminated
    <3>1. d = p BY <1>13, <2>1
    <3> QED BY <1>6, <1>8, <2>1, <3>1
  <2>2. CASE ~e.m_IsTerminated /\ e.m_IsSending
    <3>1. d = [p EXCEPT !.m_SendQueue = queue] BY <1>13, <2>2
    <3>2. /\ d \in EndRecord /\ SameLife(p, d) /\ SameIn(p, d) /\ d.posted = p.posted
          /\ d.writes = p.writes /\ d.write = p.write /\ d.m_IsSending = p.m_IsSending
          /\ d.m_SendQueue = queue
      BY <1>6, <1>12, <3>1 DEF EndRecord, SameLife, SameIn
    <3>3. d.phase = 5 BY <1>6, <1>7, <3>2 DEF SameLife
    <3>4. EndOK(d) BY <1>8, <3>2, <3>3 DEF EndOK, EndSound, SameLife, SameIn
    <3> QED BY <1>6, <2>2, <3>2, <3>4 DEF SameLife, SameIn, SameOut
  <2>3. CASE ~e.m_IsTerminated /\ ~e.m_IsSending
    <3> DEFINE q == <<m>>
    <3>1. q \in Seq(NTCPMessages) BY <1>9
    <3>2. d = SendMessages(p, q) BY <1>13, <2>3
    <3>3. p.writes = <<>> BY <1>1, <1>6, <1>7, <2>3 DEF EndSound, SameOut
    <3> HIDE DEF q
    <3>4. /\ d \in EndRecord /\ SameLife(p, d) /\ SameIn(p, d) /\ d.posted = p.posted
          /\ d.writes = <<q>> /\ Len(d.writes) = 1 /\ d.writes[1] = q
          /\ d.write = (IF p.open THEN "pending" ELSE "error")
          /\ d.m_IsSending /\ d.m_SendQueue = p.m_SendQueue
      BY <1>6, <3>1, <3>2, <3>3, SendMessagesIs
    <3>5. d.writes # <<>>
      <4>1. Len(<<>>) = 0 OBVIOUS
      <4>2. d.writes = <<>> => Len(d.writes) = 0 BY ONLY <4>1
      <4> QED BY <3>4, <4>2
    <3>6. d.phase = 5 BY <1>6, <1>7, <3>4 DEF SameLife
    <3>7. EndOK(d) BY <1>8, <3>4, <3>5, <3>6 DEF EndOK, EndSound, SameLife, SameIn
    <3> QED BY <1>6, <2>3, <3>4, <3>7 DEF q, SameLife, SameIn, SameOut
  <2> QED BY <2>1, <2>2, <2>3
<1>15. d.open = e.open /\ d.phase = 5 /\ d.m_IsTerminated = e.m_IsTerminated
  BY <1>7, <1>14 DEF SameLife
<1>16. SentItems(d, s) = n + 1
  <2>1. Len(d.posted) = Len(e.posted) + 1 BY <1>4, <1>14
  <2> QED BY <1>3, <1>10, <1>15, <2>1 DEF SentItems
<1>17. (\A i \in 1 .. n : Items(d, s)[i] = Items(e, s)[i]) /\ Items(d, s)[n + 1] = m
  <2>1. d.posted = posted BY <1>14
  <2>2. ASSUME NEW i \in 1 .. n PROVE Items(d, s)[i] = Items(e, s)[i]
    <3>1. i \in Nat BY <1>10
    <3>2. i > 4 => i - 4 \in 1 .. Len(e.posted) /\ i - 4 <= Len(e.posted) /\ i - 4 <= Len(posted)
      BY <1>3, <1>4, <1>10
    <3>3. i > 4 => posted[i - 4] = e.posted[i - 4] BY <1>4, <3>2
    <3> QED BY <2>1, <3>1, <3>2, <3>3 DEF Items
  <2>3. Items(d, s)[n + 1] = m
    <3>1. n + 1 \in Nat /\ n + 1 > 4 /\ (n + 1) - 4 = Len(e.posted) + 1 BY <1>3, <1>10
    <3>2. (n + 1) - 4 <= Len(posted) BY <1>3, <1>4, <3>1
    <3>3. posted[(n + 1) - 4] = m BY <1>4, <3>1
    <3> QED BY <1>10, <2>1, <3>1, <3>2, <3>3 DEF Items
  <2> QED BY <2>2, <2>3
<1> DEFINE k == Len(e.m_SendQueue)
           u == Unwritten(e)
\* An end that can still write.
<1>18. ASSUME d.open, ~broke
       PROVE  u \in 0 .. n /\ Unwritten(d) = u + 1 /\ SendOK(d, s)
  <2>1. e.open /\ ~e.m_IsTerminated /\ SendOK(e, s) BY <1>1, <1>15, <1>18 DEF EndSound
  <2>2. /\ e.write \in {"none", "pending", "ok"}
        /\ ~e.m_IsSending => e.m_SendQueue = <<>>
        /\ u <= n
        /\ \A i \in 1 .. k : e.m_SendQueue[i] = Items(e, s)[n - k + i]
        /\ e.write = "pending" => \A i \in 1 .. Len(e.writes[1]) : e.writes[1][i] = Items(e, s)[n - u + i]
    BY <1>7, <2>1 DEF SendOK, n
  <2>3. e.write = "pending" => Len(e.writes[1]) \in Nat
    <3> DEFINE ws == e.writes
    <3>1. ws \in Seq(Seq(NTCPMessages)) /\ (e.write = "pending" => ws # <<>> /\ Len(ws) <= 1)
      BY <1>1 DEF EndRecord, EndSound
    <3> HIDE DEF ws
    <3>2. ASSUME e.write = "pending" PROVE Len(ws[1]) \in Nat
      <4>1. Len(ws) \in Nat /\ Len(ws) # 0 BY <3>1, <3>2, EmptySeq
      <4>2. 1 \in 1 .. Len(ws) BY <4>1
      <4>3. ws[1] \in Seq(NTCPMessages) BY <3>1, <4>2
      <4> QED BY <4>3
    <3> QED BY <3>2 DEF ws
  <2>4. u = k + (IF e.write = "pending" THEN Len(e.writes[1]) ELSE 0) BY DEF Unwritten
  <2>k. k \in Nat BY <1>11
  <2>n. n \in Nat BY <1>10
  <2> DEFINE l == Len(e.writes[1])
  <2>l. u = k + (IF e.write = "pending" THEN l ELSE 0) /\ (e.write = "pending" => l \in Nat) /\ u <= n
    BY <2>2, <2>3, <2>4
  <2>q. \A i \in 1 .. k : queue[i] = e.m_SendQueue[i] BY <1>12
  <2>r. queue[k + 1] = m /\ Len(queue) = k + 1 BY <1>12
  <2> HIDE DEF k, u, l
  <2>5. u \in 0 .. n /\ k <= n /\ (e.write = "pending" => l = u - k /\ k <= u)
    BY <2>k, <2>n, <2>l
  <2>6. d.phase = 5 BY <1>15
  <2>7. CASE e.m_IsSending
    <3>1. d.m_SendQueue = queue /\ d.write = e.write /\ d.writes = e.writes /\ d.m_IsSending
      BY <1>14, <2>1, <2>7
    <3>2. Len(d.m_SendQueue) = k + 1 BY <2>r, <3>1
    <3>3. Unwritten(d) = u + 1
      <4>1. Unwritten(d) = (k + 1) + (IF e.write = "pending" THEN l ELSE 0)
        BY <3>1, <3>2 DEF Unwritten, l
      <4>2. CASE e.write = "pending" BY <2>k, <2>l, <4>1, <4>2
      <4>3. CASE e.write # "pending" BY <2>k, <2>l, <4>1, <4>3
      <4> QED BY <4>2, <4>3
    <3>4. ASSUME NEW i \in 1 .. k + 1 PROVE queue[i] = Items(d, s)[(n + 1) - (k + 1) + i]
      <4>1. CASE i = k + 1
        <5>1. (n + 1) - (k + 1) + i = n + 1 BY <2>k, <2>n, <4>1
        <5> QED BY <2>r, <1>17, <4>1, <5>1
      <4>2. CASE i # k + 1
        <5>1. i \in 1 .. k /\ (n + 1) - (k + 1) + i = n - k + i /\ n - k + i \in 1 .. n
          BY <2>k, <2>n, <2>5, <4>2
        <5>2. queue[i] = e.m_SendQueue[i] BY <2>q, <5>1
        <5>3. e.m_SendQueue[i] = Items(e, s)[n - k + i] BY <2>2, <5>1
        <5> QED BY <1>17, <5>1, <5>2, <5>3
      <4> QED BY <4>1, <4>2
    <3>5. ASSUME e.write = "pending", NEW i \in 1 .. Len(e.writes[1])
          PROVE  e.writes[1][i] = Items(d, s)[(n + 1) - (u + 1) + i]
      <4>1. i \in Nat /\ i >= 1 /\ i <= u - k BY <2>5, <3>5 DEF l
      <4>2. (n + 1) - (u + 1) + i = n - u + i /\ n - u + i \in 1 .. n
        BY <2>k, <2>n, <2>5, <4>1
      <4>3. e.writes[1][i] = Items(e, s)[n - u + i] BY <2>2, <3>5
      <4> QED BY <1>17, <4>2, <4>3
    <3>6. u + 1 <= n + 1 BY <2>n, <2>5
    <3>7. SendOK(d, s) BY <1>16, <2>2, <2>r, <3>1, <3>2, <3>3, <3>4, <3>5, <3>6 DEF SendOK
    <3> QED BY <2>5, <3>3, <3>7
  <2>8. CASE ~e.m_IsSending
    <3>1. /\ d.m_SendQueue = e.m_SendQueue /\ d.writes[1] = <<m>> /\ d.m_IsSending
          /\ d.write = "pending"
      BY <1>14, <2>1, <2>8
    <3>2. e.m_SendQueue = <<>> /\ e.write = "none" BY <1>1, <1>7, <2>2, <2>8 DEF EndSound
    <3>3. k = 0 /\ Len(d.m_SendQueue) = 0 /\ u = 0
      <4>1. Len(<<>>) = 0 OBVIOUS
      <4>2. k = 0 /\ Len(d.m_SendQueue) = 0 BY <3>1, <3>2, <4>1 DEF k
      <4> QED BY <2>l, <3>2, <4>2
    <3>4. Len(<<m>>) = 1 /\ <<m>>[1] = m OBVIOUS
    <3>5. Unwritten(d) = 1 BY <3>1, <3>3, <3>4 DEF Unwritten
    <3>6. ASSUME NEW i \in 1 .. Len(d.writes[1]) PROVE d.writes[1][i] = Items(d, s)[(n + 1) - 1 + i]
      <4>1. i = 1 BY <3>1, <3>4
      <4>2. (n + 1) - 1 + i = n + 1 BY <2>n, <4>1
      <4> QED BY <1>17, <3>1, <3>4, <4>1, <4>2
    <3>7. \A i \in 1 .. Len(d.m_SendQueue) : FALSE BY <3>3
    <3>8. 1 <= n + 1 BY <2>n
    <3>9. SendOK(d, s) BY <1>16, <3>1, <3>5, <3>6, <3>7, <3>8 DEF SendOK
    <3>10. Unwritten(d) = u + 1 BY <3>3, <3>5
    <3> QED BY <2>5, <3>9, <3>10
  <2> QED BY <2>7, <2>8
<1>19. Carries(d, s, broke, W, o)
  <2>1. /\ SentItems(d, s) = SentItems(e, s) + 1 /\ 1 \in 1 .. 2
        /\ \A i \in 1 .. SentItems(e, s) : Items(d, s)[i] = Items(e, s)[i]
        /\ d.open /\ ~broke =>
             e.open /\ Unwritten(e) \in 0 .. SentItems(e, s) /\ Unwritten(d) = Unwritten(e) + 1
    BY <1>15, <1>16, <1>17, <1>18 DEF n
  <2> HIDE DEF broke
  <2> QED BY <1>1, <1>14, <2>1, CarriesMore
<1>20. Carries(o, t, broke, V, d)
  <2>1. ~InHandshake(d) BY <1>15 DEF InHandshake
  <2> HIDE DEF broke
  <2> QED BY <1>1, <1>7, <1>14, <1>15, <2>1, ReadKept DEF SameIn
<1>21. d.phase >= e.phase /\ ntcp[c]["client"].phase # 0 BY <1>1, <1>7, <1>15
<1> QED BY <1>2, <1>7, <1>14, <1>18, <1>19, <1>20, <1>21, EndActsAlone DEF e, o, t, V, W

LEMMA DoneNTCPOK ==
  ASSUME NTCPIInv, NEW c \in NTCPConns, NEW s \in Sides, DoneNTCP(c, s)
  PROVE  NTCPIInv'
<1> DEFINE e == ntcp[c][s]
<1>1. EndSound(e) /\ (e.events # <<>> => ntcp[c]["client"].phase # 0) BY EndsAre
<1>2. /\ Told(e, "PeerConnected") /\ PutEnd(c, s, Terminate(e))
      /\ wire' = wire /\ broken' = broken /\ ntcpCase' = ntcpCase
      /\ registered' \cup setUnreachable' \subseteq NTCPConns
  BY DEF DoneNTCP, NTCPIInv
<1>3. e.events # <<>> BY <1>1, <1>2, ToldConnected
<1> QED BY <1>1, <1>2, <1>3, Terminates

LEMMA HandleTerminationTimerOK ==
  ASSUME NTCPIInv, NEW c \in NTCPConns, NEW s \in Sides, HandleTerminationTimer(c, s)
  PROVE  NTCPIInv'
<1> DEFINE e == ntcp[c][s]
           t == OtherSide(s)
           o == ntcp[c][t]
           broke == c \in broken
           V == wire[c][t]
           W == wire[c][s]
           a == CloseSocket(e)
           d == [a EXCEPT !.timer = FALSE]
<1>1. /\ EndOK(e) /\ EndSound(e) /\ e \in EndRecord /\ o \in EndRecord /\ t \in Sides
      /\ s = OtherSide(t)
      /\ e.open /\ ~broke => SendOK(e, s)
      /\ Carries(e, s, broke, W, o)
      /\ Carries(o, t, broke, V, e)
      /\ e.timer => ntcp[c]["client"].phase # 0
  BY EndsAre
<1>2. /\ e.timer /\ PutEnd(c, s, d)
      /\ wire' = wire /\ broken' = broken /\ ntcpCase' = ntcpCase
      /\ registered' \cup setUnreachable' \subseteq NTCPConns
  BY DEF HandleTerminationTimer, NTCPRest, NTCPIInv
<1> HIDE DEF e, o, t, V, W
<1>3. /\ a \in EndRecord /\ SameMessages(e, a) /\ ~a.open
      /\ a.phase = e.phase /\ a.m_IsTerminated = e.m_IsTerminated
      /\ a.m_IsEstablished = e.m_IsEstablished /\ a.events = e.events
      /\ a.read = (IF e.read = "pending" THEN "aborted" ELSE e.read)
      /\ a.write = (IF e.write = "pending" THEN "aborted" ELSE e.write)
      /\ a.writes = e.writes /\ a.m_IsSending = e.m_IsSending
      /\ a.m_SendQueue = e.m_SendQueue /\ a.m_ReceiveBuffer = e.m_ReceiveBuffer
  BY <1>1, CloseSocketIs
<1> HIDE DEF a
<1>4. /\ d \in EndRecord /\ SameLife(a, d) /\ SameIn(a, d) /\ SameOut(a, d) /\ d.posted = a.posted
  BY <1>3 DEF EndRecord, SameLife, SameIn, SameOut
<1> HIDE DEF d
<1>5. /\ d.phase = e.phase /\ d.m_IsTerminated = e.m_IsTerminated /\ ~d.open
      /\ d.m_IsEstablished = e.m_IsEstablished /\ d.events = e.events
      /\ d.read = (IF e.read = "pending" THEN "aborted" ELSE e.read)
      /\ d.write = (IF e.write = "pending" THEN "aborted" ELSE e.write)
      /\ d.writes = e.writes /\ d.m_IsSending = e.m_IsSending
      /\ d.m_SendQueue = e.m_SendQueue /\ d.m_ReceiveBuffer = e.m_ReceiveBuffer
      /\ d.m_NextMessage = e.m_NextMessage /\ d.m_Handler = e.m_Handler /\ d.posted = e.posted
  BY <1>3, <1>4 DEF SameLife, SameIn, SameOut, SameMessages
<1>6. EndOK(d) BY <1>1, <1>4, <1>5 DEF EndOK, EndSound
<1>7. Carries(d, s, broke, W, o)
  <2> HIDE DEF broke
  <2> QED BY <1>1, <1>5, CarriesSame
<1>8. Carries(o, t, broke, V, d)
  <2>1. InHandshake(d) => InHandshake(e) BY <1>5 DEF InHandshake
  <2> HIDE DEF broke
  <2> QED BY <1>1, <1>5, <2>1, ReadKept
<1>9. d.phase >= e.phase
  <2>1. e.phase \in 0 .. 5 BY <1>1 DEF EndRecord
  <2> QED BY <1>5, <2>1
<1> QED BY <1>1, <1>2, <1>5, <1>6, <1>7, <1>8, <1>9, EndActsAlone DEF e, o, t, V, W
-----------------------------------------------------------------------------
(***************************************************************************)
(* The network.                                                            *)
(***************************************************************************)
LEMMA ReadDoneOK ==
  ASSUME NTCPIInv, NEW c \in NTCPConns, NEW s \in Sides, ReadDone(c, s)
  PROVE  NTCPIInv'
<1> DEFINE e == ntcp[c][s]
           t == OtherSide(s)
           o == ntcp[c][t]
           broke == c \in broken
           V == wire[c][t]
           W == wire[c][s]
<1>1. /\ EndOK(e) /\ EndSound(e) /\ e \in EndRecord /\ o \in EndRecord /\ t \in Sides
      /\ s = OtherSide(t)
      /\ e.open /\ ~broke => SendOK(e, s)
      /\ Carries(e, s, broke, W, o)
      /\ Carries(o, t, broke, V, e)
      /\ e.read # "none" => ntcp[c]["client"].phase # 0
      /\ W \in Seq(Blocks) /\ V \in Seq(Blocks) /\ wire[c] \in [Sides -> Seq(Blocks)]
      /\ SentItems(o, t) \in Nat
  BY EndsAre
<1>2. /\ e.read = "pending" /\ broken' = broken /\ ntcpCase' = ntcpCase
      /\ registered' \cup setUnreachable' \subseteq NTCPConns
  BY DEF ReadDone, NTCPIInv
<1>3. e.m_ReceiveBuffer = <<>> /\ e.open /\ e.phase \in 0 .. 5
  BY <1>1, <1>2 DEF EndSound, EndRecord
<1>4. t # s BY DEF OtherSide, Sides
<1>5. ASSUME NEW n \in 1 .. Len(V), e.phase < 5 => n = 1,
             wire' = [wire EXCEPT ![c][t] = SubSeq(V, n + 1, Len(V))],
             PutEnd(c, s, [e EXCEPT !.read = "ok", !.m_ReceiveBuffer = SubSeq(V, 1, n)])
      PROVE  NTCPIInv'
  <2> DEFINE x == SubSeq(V, 1, n)
             rest == SubSeq(V, n + 1, Len(V))
             d == [e EXCEPT !.read = "ok", !.m_ReceiveBuffer = x]
             v == [wire[c] EXCEPT ![t] = rest]
  <2>1. PutEnd(c, s, d) /\ wire' = [wire EXCEPT ![c] = v] BY <1>5
  <2>2. x \in Seq(Blocks) /\ rest \in Seq(Blocks) /\ Len(x) = n
    <3>1. Len(V) \in Nat BY <1>1
    <3> HIDE DEF V
    <3> QED BY <1>1, <1>5, <3>1
  <2>3. v \in [Sides -> Seq(Blocks)] /\ v[t] = rest /\ v[s] = W BY <1>1, <1>4, <2>2
  <2>4. x # <<>>
    <3>1. Len(<<>>) = 0 OBVIOUS
    <3>2. x = <<>> => Len(x) = 0 BY ONLY <3>1
    <3>3. n # 0 BY <1>5
    <3> QED BY <2>2, <3>2, <3>3
  <2> HIDE DEF e, o, t, V, W, x, v
  <2>5. /\ d \in EndRecord /\ SameLife(e, d) /\ SameOut(e, d) /\ SameMessages(e, d)
        /\ d.read = "ok" /\ d.m_ReceiveBuffer = x
    BY <1>1, <2>2 DEF EndRecord, Results, SameLife, SameOut, SameMessages
  <2> HIDE DEF d
  <2>6. EndOK(d)
    BY <1>1, <1>2, <1>3, <1>5, <2>2, <2>4, <2>5 DEF EndOK, EndSound, SameLife, SameOut, SameMessages
  <2>7. /\ d.phase = e.phase /\ d.posted = e.posted /\ d.open = e.open /\ SendsTheSame(e, d)
        /\ d.m_IsTerminated = e.m_IsTerminated /\ d.m_NextMessage = e.m_NextMessage
        /\ d.m_Handler = e.m_Handler
    BY <2>5 DEF SameLife, SameOut, SameMessages, SendsTheSame
  <2>8. (d.open /\ ~broke => SendOK(d, s)) /\ Carries(d, s, broke, W, o)
    <3>1. SentItems(d, s) = SentItems(e, s) BY <2>7, SameSent
    <3> HIDE DEF broke
    <3> QED BY <1>1, <2>5, <2>7, <3>1, SendKept
  <2>9. Carries(o, t, broke, rest, d)
    <3> SUFFICES ASSUME ~d.m_IsTerminated
                 PROVE  Flow(Items(o, t), SentItems(o, t), Unwritten(o), o.open /\ ~broke, rest, d, s)
      BY <1>1 DEF Carries
    <3> DEFINE I == Items(o, t)
               N == SentItems(o, t)
               u == Unwritten(o)
               live == o.open /\ ~broke
    <3>1. Flow(I, N, u, live, V, e, s) BY <1>1, <2>7 DEF Carries
    <3>2. I \in [Nat -> NTCPMessages] BY <1>1, ItemsTyped DEF EndRecord
    <3>3. N \in Nat /\ e.read # "none" BY <1>1, <1>2
    <3>4. d.m_ReceiveBuffer = SubSeq(V, 1, n) BY <2>5 DEF x
    <3>5. n \in 1 .. Len(V) BY <1>5 DEF V
    <3> HIDE DEF I, N, u, live
    <3>6. Flow(I, N, u, live, SubSeq(V, n + 1, Len(V)), d, s)
      BY <1>1, <1>3, <2>7, <3>1, <3>2, <3>3, <3>4, <3>5, FlowRead
    <3> QED BY <3>6 DEF I, N, u, live
  <2>10. d.phase >= e.phase BY <1>3, <2>7
  <2>11. /\ Carries(d, s, c \in broken, v[s], ntcp[c][OtherSide(s)])
         /\ Carries(ntcp[c][OtherSide(s)], OtherSide(s), c \in broken, v[OtherSide(s)], d)
    BY <2>3, <2>8, <2>9 DEF o, t
  <2>12. ntcp[c]["client"].phase # 0 /\ d.phase >= ntcp[c][s].phase
         /\ (d.phase = 5 => ntcp[c][s].phase = 5)
    BY <1>1, <1>2, <2>7, <2>10 DEF e
  <2> QED BY <1>2, <2>1, <2>3, <2>6, <2>8, <2>11, <2>12, EndActs
<1>6. ASSUME wire' = wire, PutEnd(c, s, [e EXCEPT !.read = "error"])
      PROVE  NTCPIInv'
  <2> DEFINE d == [e EXCEPT !.read = "error"]
  <2>1. PutEnd(c, s, d) BY <1>6
  <2> HIDE DEF e, o, t, V, W
  <2>5. /\ d \in EndRecord /\ SameLife(e, d) /\ SameOut(e, d) /\ SameMessages(e, d)
        /\ d.read = "error" /\ d.m_ReceiveBuffer = e.m_ReceiveBuffer
    BY <1>1 DEF EndRecord, Results, SameLife, SameOut, SameMessages
  <2> HIDE DEF d
  <2>6. EndOK(d)
    BY <1>1, <1>2, <1>3, <2>5 DEF EndOK, EndSound, SameLife, SameOut, SameMessages
  <2>7. /\ d.phase = e.phase /\ d.posted = e.posted /\ d.open = e.open /\ SendsTheSame(e, d)
        /\ d.m_IsTerminated = e.m_IsTerminated /\ d.m_NextMessage = e.m_NextMessage
        /\ d.m_Handler = e.m_Handler
    BY <2>5 DEF SameLife, SameOut, SameMessages, SendsTheSame
  <2>8. (d.open /\ ~broke => SendOK(d, s)) /\ Carries(d, s, broke, W, o)
    <3>1. SentItems(d, s) = SentItems(e, s) BY <2>7, SameSent
    <3> HIDE DEF broke
    <3> QED BY <1>1, <2>5, <2>7, <3>1, SendKept
  <2>9. Carries(o, t, broke, V, d)
    <3>1. InHandshake(d) => InHandshake(e) BY <1>2, <2>7 DEF InHandshake
    <3> HIDE DEF broke
    <3> QED BY <1>1, <2>5, <2>7, <3>1, ReadKept
  <2>10. d.phase >= e.phase /\ ntcp[c]["client"].phase # 0 BY <1>1, <1>2, <1>3, <2>7
  <2> QED BY <1>2, <1>6, <2>1, <2>6, <2>7, <2>8, <2>9, <2>10, EndActsAlone DEF e, o, t, V, W
<1> QED BY <1>5, <1>6 DEF ReadDone

LEMMA WriteDoneOK ==
  ASSUME NTCPIInv, NEW c \in NTCPConns, NEW s \in Sides, WriteDone(c, s)
  PROVE  NTCPIInv'
<1> DEFINE e == ntcp[c][s]
           t == OtherSide(s)
           o == ntcp[c][t]
           broke == c \in broken
           V == wire[c][t]
           W == wire[c][s]
           q == e.writes[1]
           z == IF broke THEN "error" ELSE "ok"
           d == [e EXCEPT !.write = z]
<1>1. /\ EndOK(e) /\ EndSound(e) /\ e \in EndRecord /\ o \in EndRecord /\ t \in Sides
      /\ s = OtherSide(t)
      /\ e.open /\ ~broke => SendOK(e, s)
      /\ Carries(e, s, broke, W, o)
      /\ Carries(o, t, broke, V, e)
      /\ e.write # "none" => ntcp[c]["client"].phase # 0
      /\ W \in Seq(Blocks) /\ V \in Seq(Blocks) /\ wire[c] \in [Sides -> Seq(Blocks)]
      /\ SentItems(e, s) \in Nat
  BY EndsAre
<1>2. /\ e.write = "pending" /\ broken' = broken /\ ntcpCase' = ntcpCase /\ PutEnd(c, s, d)
      /\ registered' \cup setUnreachable' \subseteq NTCPConns
      /\ wire' = IF broke THEN wire ELSE [wire EXCEPT ![c][s] = W \o Encoded(Head(e.writes))]
  BY DEF WriteDone, NTCPIInv
<1>t. t # s BY DEF OtherSide, Sides
<1>w. wire[c] = [r \in Sides |-> wire[c][r]] BY <1>1
<1> DEFINE Z == W \o Encoded(q)
           v == [wire[c] EXCEPT ![s] = Z]
<1>v. ~broke => wire' = [wire EXCEPT ![c] = v]
  <2>1. Head(e.writes) = q OBVIOUS
  <2> QED BY <1>2, <2>1
<1>x. Z \in Seq(Blocks) => v \in [Sides -> Seq(Blocks)] /\ v[s] = Z /\ v[t] = V
  <2> HIDE DEF Z
  <2> QED BY <1>1, <1>t
<1> HIDE DEF e, o, t, V, W, z, v, Z
<1>3. /\ d \in EndRecord /\ SameLife(e, d) /\ SameIn(e, d) /\ d.posted = e.posted
      /\ d.write = z /\ d.writes = e.writes /\ d.m_IsSending = e.m_IsSending
      /\ d.m_SendQueue = e.m_SendQueue
  BY <1>1 DEF EndRecord, Results, SameLife, SameIn, z
<1> HIDE DEF d
<1>4. EndOK(d) BY <1>1, <1>2, <1>3 DEF EndOK, EndSound, SameLife, SameIn, z
<1>5. d.phase = e.phase /\ d.open = e.open /\ d.m_IsTerminated = e.m_IsTerminated /\ e.open
  BY <1>1, <1>2, <1>3 DEF SameLife, EndSound
<1>6. Carries(o, t, broke, V, d)
  <2>1. InHandshake(d) => InHandshake(e) BY <1>3, <1>5 DEF InHandshake, SameIn
  <2> HIDE DEF broke
  <2> QED BY <1>1, <1>3, <1>5, <2>1, ReadKept DEF SameIn
<1>7. /\ d.phase >= ntcp[c][s].phase /\ ntcp[c]["client"].phase # 0
      /\ (d.phase = 5 => ntcp[c][s].phase = 5)
  <2>1. e.phase \in 0 .. 5 BY <1>1 DEF EndRecord
  <2>2. d.phase >= e.phase BY <1>5, <2>1
  <2>3. e.write # "none" BY <1>2
  <2> QED BY <1>1, <1>5, <2>2, <2>3 DEF e
<1>8. CASE broke
  <2>1. wire' = wire BY <1>2, <1>8
  <2>2. Carries(d, s, broke, W, o)
    <3> HIDE DEF broke
    <3> QED BY <1>1, <1>3, <1>5, <1>8, CarriesSame
  <2> QED BY <1>2, <1>4, <1>6, <1>7, <1>8, <2>1, <2>2, EndActsAlone DEF e, o, t, V, W
<1>9. CASE ~broke
  <2> DEFINE n == SentItems(e, s)
             k == Len(e.m_SendQueue)
             u == Unwritten(e)
             I == Items(e, s)
  <2>1. SendOK(e, s) /\ d.write = "ok" BY <1>1, <1>3, <1>5, <1>9 DEF z
  <2>2. q \in Seq(NTCPMessages)
    <3> DEFINE ws == e.writes
    <3>1. ws \in Seq(Seq(NTCPMessages)) /\ ws # <<>> BY <1>1, <1>2 DEF EndRecord, EndSound
    <3> HIDE DEF ws
    <3>2. Len(ws) \in Nat /\ Len(ws) # 0 BY <3>1, EmptySeq
    <3>3. 1 \in 1 .. Len(ws) BY <3>2
    <3>4. ws[1] \in Seq(NTCPMessages) BY <3>1, <3>3
    <3> QED BY <3>4 DEF ws
  <2>3. u = k + Len(q) /\ Unwritten(d) = k BY <1>2, <1>3, <2>1 DEF Unwritten
  <2>4. /\ u <= n
        /\ \A i \in 1 .. k : e.m_SendQueue[i] = I[n - k + i]
        /\ \A i \in 1 .. Len(q) : q[i] = I[n - u + i]
        /\ e.phase = 5 /\ ~e.m_IsSending => e.m_SendQueue = <<>>
    BY <1>2, <2>1 DEF SendOK
  <2>5. k \in Nat /\ n \in Nat /\ Len(q) \in Nat
    <3>1. Len(e.m_SendQueue) \in Nat BY <1>1 DEF EndRecord
    <3> QED BY <1>1, <2>2, <3>1
  <2>6. SentItems(d, s) = n /\ Items(d, s) = I
    <3>1. SentItems(d, s) = SentItems(e, s) BY <1>3, <1>5, SameSent
    <3> QED BY <1>3, <3>1 DEF Items
  <2> HIDE DEF n, k, u, I, q
  <2>7. u \in 0 .. n /\ u = Len(q) + k /\ k <= n BY <2>3, <2>4, <2>5
  <2>8. SendOK(d, s)
    <3>1. Len(d.m_SendQueue) = k BY <1>3 DEF k
    <3>2. d.m_SendQueue = e.m_SendQueue /\ d.m_IsSending = e.m_IsSending BY <1>3
    <3> QED BY <1>5, <2>1, <2>3, <2>4, <2>6, <2>7, <3>1, <3>2 DEF SendOK
  <2>9. Z \in Seq(Blocks)
    <3>1. PICK f : EncodedBy(f, q) BY <2>2, EncodedFold
    <3>2. Encoded(q) \in Seq(Blocks)
      <4>1. Len(q) \in 0 .. Len(q) BY <2>5
      <4> QED BY <3>1, <4>1 DEF EncodedBy
    <3> QED BY <1>1, <3>2 DEF Z
  <2>10. Carries(d, s, broke, Z, o)
    <3> SUFFICES ASSUME ~o.m_IsTerminated
                 PROVE  Flow(I, n, k, d.open /\ ~broke, Z, o, OtherSide(s))
      BY <2>3, <2>6 DEF Carries
    <3> DEFINE l == e.open /\ ~broke
               m == d.open /\ ~broke
    <3>1. Flow(I, n, u, l, W, o, OtherSide(s)) BY <1>1 DEF Carries, I, n, u
    <3>2. TRUE => l BY <1>5, <1>9
    <3>3. I \in [Nat -> NTCPMessages] BY <1>1, ItemsTyped DEF EndRecord, I
    <3> HIDE DEF l, m
    <3>4. Flow(I, n, u, TRUE, W, o, OtherSide(s)) BY <2>5, <3>1, <3>2, FlowKept
    <3>5. Flow(I, n, k, TRUE, W \o Encoded(q), o, OtherSide(s))
      BY <1>1, <2>2, <2>4, <2>5, <2>7, <3>3, <3>4, FlowWritten
    <3>6. Flow(I, n, k, m, Z, o, OtherSide(s)) BY <2>5, <3>5, FlowKept DEF Z
    <3> QED BY <3>6 DEF m
  <2>11. /\ wire' = [wire EXCEPT ![c] = v] /\ v \in [Sides -> Seq(Blocks)]
         /\ v[s] = Z /\ v[t] = V
    BY <1>9, <1>v, <1>x, <2>9
  <2>12. /\ Carries(d, s, c \in broken, v[s], ntcp[c][OtherSide(s)])
         /\ Carries(ntcp[c][OtherSide(s)], OtherSide(s), c \in broken, v[OtherSide(s)], d)
    BY <1>6, <2>10, <2>11 DEF o, t
  <2> QED BY <1>2, <1>4, <1>7, <2>8, <2>11, <2>12, EndActs
<1> QED BY <1>8, <1>9

\* Nothing has been sent.
LEMMA FlowBegins ==
  ASSUME NEW I, NEW live, NEW o, NEW s, o.phase < 5, o.m_NextMessage = <<>>,
         o.m_ReceiveBuffer = <<>>, 0 \in ReadIn(s, o.phase), o.phase \in 0 .. 5
  PROVE  Flow(I, 0, 0, live, <<>>, o, s)
<1> DEFINE at == [i \in 0 .. 0 |-> 0]
           E == <<>>
<1>1. E \in Seq(Blocks) /\ at \in [0 .. 0 -> Nat] /\ at[0] = 0 /\ Len(E) = 0 /\ 0 \in 0 .. 0 OBVIOUS
<1>2. \A i \in 1 .. 0 : FALSE OBVIOUS
<1>3. Len(o.m_NextMessage) = 0 /\ Len(o.m_ReceiveBuffer) = 0 BY <1>1
<1>e. \A i \in 1 .. Len(<<>>) : FALSE BY <1>1
<1> HIDE DEF at, E
<1>4. Stream(I, 0, E, at)
  <2>1. \A i \in 1 .. 0 : /\ at[i] = at[i - 1] + NumBlocks(I[i])
                          /\ \A j \in 1 .. NumBlocks(I[i]) : E[at[i - 1] + j] = [msg |-> I[i], num |-> j]
    BY <1>2
  <2> QED BY <1>1, <2>1 DEF Stream
<1>5. Reached(I, 0, E, at, 0, o) BY <1>1, <1>2, <1>3 DEF Reached
<1>6. Follow(E, 0, <<>>) BY <1>1, <1>e DEF Follow, E
<1>7. at[0] + Len(o.m_NextMessage) = 0 /\ 0 + Len(o.m_ReceiveBuffer) = 0 BY <1>1, <1>3
<1>8. Reads(I, 0, E, at, 0, <<>>, o, s) BY <1>5, <1>6, <1>7 DEF Reads
<1>9. at[0] + Len(o.m_NextMessage) + Len(o.m_ReceiveBuffer) + Len(<<>>) = at[0 - 0]
  <2>1. Len(<<>>) = 0 OBVIOUS
  <2> QED BY <1>1, <1>3, <2>1
<1>10. FlowAt(I, 0, 0, live, <<>>, o, s, E, at, 0) BY <1>4, <1>8, <1>9 DEF FlowAt
<1> QED BY <1>1, <1>10 DEF Flow

LEMMA NewEndIs ==
  /\ NewEnd \in EndRecord /\ EndOK(NewEnd)
  /\ NewEnd.phase = 0 /\ ~NewEnd.open /\ NewEnd.posted = <<>>
<1>1. /\ <<>> \in Seq(Seq(NTCPMessages)) /\ <<>> \in Seq(NTCPMessages) /\ <<>> \in Seq(Blocks)
      /\ <<>> \in Seq(Seq(Blocks)) /\ <<>> \in Seq(Posts)
      /\ <<>> \in Seq({"PeerConnected", "PeerDisconnected"})
  OBVIOUS
<1>2. NewEnd \in EndRecord BY <1>1 DEF NewEnd, EndRecord, Results
<1>3. Len(<<>>) = 0 OBVIOUS
<1>4. EndOK(NewEnd) BY <1>2, <1>3 DEF NewEnd, EndOK, EndSound
<1> QED BY <1>2, <1>4 DEF NewEnd

LEMMA LoginOK ==
  ASSUME NTCPIInv, NEW c \in NTCPConns, Login(c)
  PROVE  NTCPIInv'
<1> DEFINE up == [NewEnd EXCEPT !.phase = 1, !.open = TRUE, !.timer = TRUE]
           zero == [NewEnd EXCEPT !.open = TRUE]
           m == Phase("phase1")
           a == ClientLogin(up)
           b == ServerLogin(up)
           x == [s \in Sides |-> IF s = "client" THEN a ELSE b]
           v == wire[c]
           broke == c \in broken
<1>1. /\ ntcp' = [ntcp EXCEPT ![c] = x] /\ ntcp[c]["client"].phase = 0
      /\ wire' = wire /\ broken' = broken /\ ntcpCase' = ntcpCase
      /\ registered' = registered /\ setUnreachable' = setUnreachable
  BY DEF Login, NTCPRest
<1>2. ConnectionOK(ntcp[c], v, broke) BY DEF NTCPIInv
<1>3. v \in [Sides -> Seq(Blocks)] /\ \A s \in Sides : v[s] = <<>>
  BY <1>1, <1>2 DEF ConnectionOK
<1> HIDE DEF v
<1>4. /\ up \in EndRecord /\ EndOK(up) /\ up.phase = 1 /\ up.open /\ ~up.m_IsTerminated
      /\ up.read = "none" /\ up.write = "none" /\ up.writes = <<>> /\ up.posted = <<>>
  <2>1. 1 \in 0 .. 5 OBVIOUS
  <2>2. /\ up \in EndRecord /\ up.phase = 1 /\ up.open /\ ~up.m_IsTerminated /\ up.read = "none"
        /\ up.write = "none" /\ up.writes = <<>> /\ up.posted = <<>> /\ up.m_SendQueue = <<>>
        /\ up.m_NextMessage = <<>> /\ up.m_Handler = <<>> /\ up.m_ReceiveBuffer = <<>>
        /\ ~up.m_IsSending /\ ~up.m_IsEstablished /\ up.events = <<>>
    BY <2>1, NewEndIs DEF EndRecord, NewEnd
  <2>3. Len(<<>>) = 0 OBVIOUS
  <2> HIDE DEF up
  <2>4. EndOK(up) BY <2>2, <2>3 DEF EndOK, EndSound
  <2> QED BY <2>2, <2>4
<1>5. /\ zero \in EndRecord /\ zero.open /\ zero.phase = 0 /\ zero.posted = <<>>
      /\ zero.write = "none" /\ zero.m_SendQueue = <<>>
  BY NewEndIs DEF EndRecord, NewEnd
<1>up. [up EXCEPT !.phase = 1] = up
  <2> HIDE DEF up
  <2> QED BY <1>4 DEF EndRecord
<1> HIDE DEF up, zero
<1>6. a = Answer(up, 1, m) BY <1>up DEF ClientLogin, Answer
<1>7. /\ EndOK(a) /\ a.phase = 1 /\ a.open /\ ~a.m_IsTerminated
      /\ a.m_ReceiveBuffer = <<>> /\ a.m_NextMessage = <<>> /\ a.m_Handler = <<>>
      /\ a.posted = <<>> /\ a.m_SendQueue = <<>> /\ a.read = "none" /\ a.write = "pending"
      /\ Len(a.writes[1]) = 1 /\ a.writes[1][1] = m
  <2>1. EndSound(up) /\ up.phase < 5 /\ 1 \in 1 .. 4 /\ m \in NTCPMessages
    BY <1>4, PhaseMessages DEF EndOK
  <2> HIDE DEF a, m
  <2> QED BY <1>4, <1>6, <2>1, SendPhaseOK
<1>8. EndOK(b)
  <2>1. EndSound(up) BY <1>4 DEF EndOK
  <2> QED BY <1>4, <2>1, StartReadOK DEF ServerLogin
<1>9. /\ b \in EndRecord /\ b.phase = 1 /\ b.open /\ ~b.m_IsTerminated /\ b.write = "none"
      /\ b.posted = <<>>
  BY <1>4, StartReadIs DEF ServerLogin, SameLife, SameOut, SameMessages
<1> HIDE DEF a, b
<1>10. b.m_SendQueue = <<>> /\ b.m_NextMessage = <<>> /\ b.m_ReceiveBuffer = <<>>
  <2>1. EndSound(b) /\ b.phase < 5 BY <1>8, <1>9 DEF EndOK
  <2>2. b.read # "ok"
    <3>1. b.read = IF up.open THEN "pending" ELSE "error" BY <1>4, StartReadIs DEF b, ServerLogin
    <3> QED BY <3>1
  <2> QED BY <2>1, <2>2 DEF EndSound
<1>11. a \in EndRecord BY <1>7 DEF EndOK, EndSound
<1>12. Carries(a, "client", broke, <<>>, b)
  <2>1. OtherSide("client") = "server" /\ 0 \in ReadIn("server", b.phase) /\ b.phase < 5
        /\ b.phase \in 0 .. 5
    BY <1>9 DEF OtherSide, ReadIn
  <2>2. SentItems(zero, "client") = 0 /\ Unwritten(zero) = 0
    <3>1. Len(zero.m_SendQueue) = 0 BY <1>5
    <3> QED BY <1>5, <3>1 DEF SentItems, Unwritten
  <2>3. Carries(zero, "client", broke, <<>>, b)
    BY <1>10, <2>1, <2>2, FlowBegins DEF Carries
  <2>4. SentItems(a, "client") = 0 + 1 /\ Unwritten(a) = 0 + 1
    <3>1. Len(a.m_SendQueue) = 0 BY <1>7
    <3>2. 0 + 1 = 1 OBVIOUS
    <3> QED BY <1>7, <3>1, <3>2 DEF SentItems, Unwritten
  <2>5. \A i \in 1 .. 0 : FALSE OBVIOUS
  <2>6. "client" \in Sides /\ <<>> \in Seq(Blocks) /\ 1 \in 1 .. 2 /\ 0 \in 0 .. 0 BY DEF Sides
  <2>7. /\ SentItems(a, "client") = SentItems(zero, "client") + 1
        /\ \A i \in 1 .. SentItems(zero, "client") : Items(a, "client")[i] = Items(zero, "client")[i]
        /\ Unwritten(zero) \in 0 .. SentItems(zero, "client") /\ Unwritten(a) = Unwritten(zero) + 1
    BY <2>2, <2>4, <2>5, <2>6
  <2> HIDE DEF broke
  <2> QED BY <1>5, <1>9, <1>11, <2>3, <2>6, <2>7, CarriesMore
<1>13. Carries(b, "server", broke, <<>>, a)
  <2>1. OtherSide("server") = "client" /\ 0 \in ReadIn("client", a.phase) /\ a.phase < 5
        /\ a.phase \in 0 .. 5
    BY <1>7 DEF OtherSide, ReadIn
  <2>2. SentItems(b, "server") = 0 /\ Unwritten(b) = 0
    <3>1. Len(b.m_SendQueue) = 0 BY <1>10
    <3> QED BY <1>9, <3>1 DEF SentItems, Unwritten
  <2> QED BY <1>7, <2>1, <2>2, FlowBegins DEF Carries
<1>14. SendOK(a, "client")
  <2>1. SentItems(a, "client") = 1 /\ Unwritten(a) = 1
    <3>1. Len(a.m_SendQueue) = 0 BY <1>7
    <3>2. 0 + 1 = 1 OBVIOUS
    <3> QED BY <1>7, <3>1, <3>2 DEF SentItems, Unwritten
  <2>2. \A i \in 1 .. Len(a.m_SendQueue) : FALSE BY <1>7
  <2>3. ASSUME NEW i \in 1 .. Len(a.writes[1])
        PROVE  a.writes[1][i] = Items(a, "client")[1 - 1 + i]
    <3>1. i = 1 /\ 1 - 1 + i = 1 BY <1>7
    <3> QED BY <1>7, <3>1 DEF Items
  <2> QED BY <1>7, <2>1, <2>2, <2>3 DEF SendOK
<1>15. SendOK(b, "server")
  <2>1. SentItems(b, "server") = 0 /\ Unwritten(b) = 0
    <3>1. Len(b.m_SendQueue) = 0 BY <1>10
    <3> QED BY <1>9, <3>1 DEF SentItems, Unwritten
  <2>2. \A i \in 1 .. Len(b.m_SendQueue) : FALSE BY <1>10
  <2> QED BY <1>9, <1>10, <2>1, <2>2 DEF SendOK
<1>16. /\ x["client"] = a /\ x["server"] = b /\ v["client"] = <<>> /\ v["server"] = <<>>
       /\ OtherSide("client") = "server" /\ OtherSide("server") = "client"
       /\ x = [s \in Sides |-> x[s]]
  BY <1>3 DEF Sides, OtherSide
<1>17. ConnectionOK(x, v, broke)
  <2> HIDE DEF x, broke
  <2>1. ASSUME NEW s \in Sides
        PROVE  /\ EndOK(x[s]) /\ (x[s].open /\ ~broke => SendOK(x[s], s))
               /\ Carries(x[s], s, broke, v[s], x[OtherSide(s)])
    <3>1. CASE s = "client" BY <1>7, <1>12, <1>14, <1>16, <3>1
    <3>2. CASE s = "server" BY <1>8, <1>13, <1>15, <1>16, <3>2
    <3> QED BY <3>1, <3>2 DEF Sides
  <2>2. x["client"].phase = 1 BY <1>7, <1>16
  <2>3. (x["client"].phase = 0 => \A s \in Sides : x[s] = NewEnd /\ v[s] = <<>>)
        /\ (x["client"].phase = 5 => x["server"].phase >= 4)
    BY ONLY <2>2
  <2>4. x = [s \in Sides |-> x[s]] /\ v \in [Sides -> Seq(Blocks)] BY <1>3, <1>16
  <2> QED BY ONLY <2>1, <2>3, <2>4 DEF ConnectionOK
<1>18. wire' = [wire EXCEPT ![c] = v] BY <1>1 DEF NTCPIInv, v
<1>19. broken' \cup registered' \cup setUnreachable' \subseteq NTCPConns BY <1>1 DEF NTCPIInv
<1>20. /\ ConnectionOK(x, v, c \in broken')
       /\ \A d \in NTCPConns : d # c => (d \in broken') = (d \in broken)
  BY <1>1, <1>17
<1> HIDE DEF x
<1> QED BY <1>1, <1>18, <1>19, <1>20, OneConnection

LEMMA CutOK ==
  ASSUME NTCPIInv, NEW c \in NTCPConns, Cut(c)
  PROVE  NTCPIInv'
<1> DEFINE x == ntcp[c]
           v == [s \in Sides |-> <<>>]
<1>1. /\ x["client"].phase > 0 /\ broken' = broken \cup {c} /\ wire' = [wire EXCEPT ![c] = v]
      /\ ntcp' = ntcp /\ registered' = registered /\ setUnreachable' = setUnreachable
      /\ ntcpCase' = ntcpCase
  BY DEF Cut
<1>2. ConnectionOK(x, wire[c], c \in broken) BY DEF NTCPIInv
<1>3. ntcp' = [ntcp EXCEPT ![c] = x] BY <1>1 DEF NTCPIInv
<1>4. broken' \cup registered' \cup setUnreachable' \subseteq NTCPConns BY <1>1 DEF NTCPIInv
<1>5. \A d \in NTCPConns : d # c => (d \in broken') = (d \in broken) BY <1>1
<1>6. ASSUME NEW s \in Sides PROVE Carries(x[s], s, TRUE, <<>>, x[OtherSide(s)])
  <2> DEFINE e == x[s]
             o == x[OtherSide(s)]
             w == wire[c][s]
             broke == c \in broken
  <2>1. Carries(e, s, broke, w, o) /\ o \in EndRecord /\ w \in Seq(Blocks) /\ SentItems(e, s) \in Nat
    BY EndsAre
  <2> HIDE DEF x
  <2> SUFFICES ASSUME ~o.m_IsTerminated
               PROVE  Flow(Items(e, s), SentItems(e, s), Unwritten(e), e.open /\ ~TRUE, <<>>, o,
                           OtherSide(s))
    BY DEF Carries
  <2> DEFINE l == e.open /\ ~broke
             m == e.open /\ ~TRUE
  <2>2. Flow(Items(e, s), SentItems(e, s), Unwritten(e), l, w, o, OtherSide(s))
    BY <2>1 DEF Carries
  <2>3. ~m OBVIOUS
  <2> HIDE DEF e, o, w, l, m, broke
  <2>4. Flow(Items(e, s), SentItems(e, s), Unwritten(e), FALSE, <<>>, o, OtherSide(s))
    BY <2>1, <2>2, FlowCut
  <2>5. Flow(Items(e, s), SentItems(e, s), Unwritten(e), m, <<>>, o, OtherSide(s))
    BY <2>1, <2>3, <2>4, FlowKept
  <2> QED BY <2>5 DEF m
<1>7. ConnectionOK(x, v, TRUE)
  <2>1. v \in [Sides -> Seq(Blocks)] /\ \A s \in Sides : v[s] = <<>> OBVIOUS
  <2> HIDE DEF x, v
  <2>2. x["client"].phase # 0 BY <1>1
  <2> QED BY <1>2, <1>6, <2>1, <2>2 DEF ConnectionOK
<1>8. c \in broken' /\ ConnectionOK(x, v, c \in broken')
  <2>1. (c \in broken') = TRUE BY <1>1
  <2> QED BY <1>7, <2>1
<1> HIDE DEF x, v
<1> QED BY <1>1, <1>3, <1>4, <1>5, <1>8, OneConnection
-----------------------------------------------------------------------------
LEMMA NTCPInitOK == NTCPInit => NTCPIInv
<1> SUFFICES ASSUME NTCPInit PROVE NTCPIInv OBVIOUS
<1>1. /\ ntcpCase \in NTCPCases
      /\ ntcp = [c \in NTCPConns |-> [s \in Sides |-> NewEnd]]
      /\ wire = [c \in NTCPConns |-> [s \in Sides |-> <<>>]]
      /\ broken = {} /\ registered = {} /\ setUnreachable = {}
  BY DEF NTCPInit, NTCPInitWith
<1>2. ASSUME NEW c \in NTCPConns PROVE ConnectionOK(ntcp[c], wire[c], c \in broken)
  <2> DEFINE x == [s \in Sides |-> NewEnd]
             v == [s \in Sides |-> <<>>]
             broke == c \in broken
  <2>1. ntcp[c] = x /\ wire[c] = v /\ x = [s \in Sides |-> x[s]] /\ v \in [Sides -> Seq(Blocks)]
        /\ \A s \in Sides : x[s] = NewEnd /\ v[s] = <<>>
    BY <1>1
  <2>2. "client" \in Sides /\ \A s \in Sides : OtherSide(s) \in Sides /\ OtherSide(OtherSide(s)) = s
    BY DEF Sides, OtherSide
  <2>3. ASSUME NEW s \in Sides PROVE Carries(NewEnd, s, broke, <<>>, NewEnd)
    <3>1. SentItems(NewEnd, s) = 0 /\ Unwritten(NewEnd) = 0
      <4>1. Len(<<>>) = 0 OBVIOUS
      <4> QED BY <4>1 DEF SentItems, Unwritten, NewEnd
    <3>2. 0 \in ReadIn(OtherSide(s), NewEnd.phase) BY NewEndIs DEF ReadIn
    <3>3. /\ NewEnd.phase < 5 /\ NewEnd.phase \in 0 .. 5
          /\ NewEnd.m_NextMessage = <<>> /\ NewEnd.m_ReceiveBuffer = <<>>
      BY DEF NewEnd
    <3> QED BY <3>1, <3>2, <3>3, FlowBegins DEF Carries
  <2>4. x["client"].phase = 0 BY <2>1, <2>2, NewEndIs
  <2> HIDE DEF x, v, broke
  <2>5. ConnectionOK(x, v, broke) BY <2>1, <2>2, <2>3, <2>4, NewEndIs DEF ConnectionOK
  <2> QED BY <2>1, <2>5 DEF broke
<1> QED BY <1>1, <1>2 DEF NTCPIInv

LEMMA PhaseSentByClient ==
  ASSUME NTCPIInv, NEW c \in NTCPConns, NEW q \in {1, 3}, PhaseSent(c, "client", q)
  PROVE  NTCPIInv'
<1>1. ASSUME NEW s \in Sides, s = "client" PROVE NTCPIInv'
  <2>1. q \in 1 .. 3 OBVIOUS
  <2>2. PhaseSent(c, s, q) BY <1>1
  <2>3. (s = "client" /\ q \in {1, 3}) \/ (s = "server" /\ q = 2) BY <1>1
  <2> QED BY <2>1, <2>2, <2>3, PhaseSentOK
<1>2. "client" \in Sides BY DEF Sides
<1> QED BY <1>1, <1>2

LEMMA NTCPNextOK ==
  ASSUME NTCPIInv, NTCPNext
  PROVE  NTCPIInv'
<1>1. PICK c \in NTCPConns :
        \/ Login(c) \/ Cut(c)
        \/ HandlePhase1Received(c) \/ HandlePhase2Received(c) \/ HandlePhase3Received(c)
        \/ HandlePhase1NoKey(c) \/ HandlePhase1Sent(c) \/ HandlePhase2Sent(c) \/ HandlePhase3Sent(c)
        \/ \E s \in Sides :
             \/ ReadDone(c, s) \/ WriteDone(c, s)
             \/ ntcp[c][s].phase < 5 /\ \/ HandlePhaseError(c, s, "read", ntcp[c][s].read)
                                        \/ HandlePhaseError(c, s, "write", ntcp[c][s].write)
             \/ CheckFails(c, s) \/ HandlePhase4(c, s)
             \/ HandleReceived(c, s) \/ HandleSent(c, s)
             \/ \E m \in ntcpCase.posts : m.conn = c /\ m.side = s
                                        /\ PostI2NPMessages(c, s, NTCPMessage(m.id, m.len))
             \/ DoneNTCP(c, s) \/ HandleTerminationTimer(c, s)
  BY DEF NTCPNext
<1>2. CASE Login(c) BY <1>2, LoginOK
<1>3. CASE Cut(c) BY <1>3, CutOK
<1>4. CASE HandlePhase1Received(c) BY <1>4, HandlePhase1ReceivedOK
<1>5. CASE HandlePhase2Received(c) BY <1>5, HandlePhase2ReceivedOK
<1>6. CASE HandlePhase3Received(c) BY <1>6, HandlePhase3ReceivedOK
<1>7. CASE HandlePhase1Sent(c)
  <2>1. 1 \in {1, 3} /\ PhaseSent(c, "client", 1) BY <1>7 DEF HandlePhase1Sent
  <2> QED BY <2>1, PhaseSentByClient
<1>8. CASE HandlePhase2Sent(c)
  <2>1. "server" \in Sides /\ 2 \in 1 .. 3 /\ PhaseSent(c, "server", 2)
    BY <1>8 DEF HandlePhase2Sent, Sides
  <2> QED BY <2>1, PhaseSentOK
<1>9. CASE HandlePhase3Sent(c)
  <2>1. 3 \in {1, 3} /\ PhaseSent(c, "client", 3) BY <1>9 DEF HandlePhase3Sent
  <2> QED BY <2>1, PhaseSentByClient
<1>10. ASSUME NEW s \in Sides, ReadDone(c, s) PROVE NTCPIInv' BY <1>10, ReadDoneOK
<1>11. ASSUME NEW s \in Sides, WriteDone(c, s) PROVE NTCPIInv' BY <1>11, WriteDoneOK
<1>12. ASSUME NEW s \in Sides, ntcp[c][s].phase < 5,
              \/ HandlePhaseError(c, s, "read", ntcp[c][s].read)
              \/ HandlePhaseError(c, s, "write", ntcp[c][s].write)
       PROVE  NTCPIInv'
  <2>1. "read" \in {"read", "write"} /\ "write" \in {"read", "write"} OBVIOUS
  <2>2. CASE HandlePhaseError(c, s, "read", ntcp[c][s].read)
    <3>1. ntcp[c][s].read = ntcp[c][s]["read"] OBVIOUS
    <3>2. HandlePhaseError(c, s, "read", ntcp[c][s]["read"]) BY <2>2, <3>1
    <3> QED BY <1>12, <2>1, <3>2, HandlePhaseErrorOK
  <2>3. CASE HandlePhaseError(c, s, "write", ntcp[c][s].write)
    <3>1. ntcp[c][s].write = ntcp[c][s]["write"] OBVIOUS
    <3>2. HandlePhaseError(c, s, "write", ntcp[c][s]["write"]) BY <2>3, <3>1
    <3> QED BY <1>12, <2>1, <3>2, HandlePhaseErrorOK
  <2> QED BY <1>12, <2>2, <2>3
<1>13. ASSUME NEW s \in Sides, HandlePhase4(c, s) PROVE NTCPIInv' BY <1>13, HandlePhase4OK
<1>14. ASSUME NEW s \in Sides, HandleReceived(c, s) PROVE NTCPIInv' BY <1>14, HandleReceivedOK
<1>15. ASSUME NEW s \in Sides, HandleSent(c, s) PROVE NTCPIInv' BY <1>15, HandleSentOK
<1>16. ASSUME NEW s \in Sides, NEW m \in ntcpCase.posts,
              PostI2NPMessages(c, s, NTCPMessage(m.id, m.len))
       PROVE  NTCPIInv'
  <2>1. ntcpCase \in NTCPCases BY DEF NTCPIInv
  <2>2. m.len \in Nat \ {0} BY <1>16, <2>1, NTCPAssumption
  <2>3. m.id \in PostIds BY <1>16, <2>1 DEF PostIds
  <2>4. NTCPMessage(m.id, m.len) \in Posts BY <2>2, <2>3 DEF NTCPMessage, Posts, NTCPIds
  <2> QED BY <1>16, <2>4, PostOK
<1>17. ASSUME NEW s \in Sides, DoneNTCP(c, s) PROVE NTCPIInv' BY <1>17, DoneNTCPOK
<1>18. ASSUME NEW s \in Sides, HandleTerminationTimer(c, s) PROVE NTCPIInv'
  BY <1>18, HandleTerminationTimerOK
<1>19. CASE HandlePhase1NoKey(c) BY <1>19, HandlePhase1NoKeyOK
<1>20. ASSUME NEW s \in Sides, CheckFails(c, s) PROVE NTCPIInv' BY <1>20, CheckFailsOK
<1> QED BY <1>1, <1>2, <1>3, <1>4, <1>5, <1>6, <1>7, <1>8, <1>9, <1>10, <1>11, <1>12, <1>13,
           <1>14, <1>15, <1>16, <1>17, <1>18, <1>19, <1>20

\* What is read next is an item that was sent.
LEMMA HandlerIsSent ==
  ASSUME NTCPIInv, NEW c \in NTCPConns, NEW s \in Sides, ~ntcp[c][OtherSide(s)].m_IsTerminated
  PROVE  LET got  == ntcp[c][OtherSide(s)].m_Handler
             sent == <<DatabaseStore>> \o ntcp[c][s].posted
         IN /\ Len(got) <= Len(sent)
            /\ \A i \in 1 .. Len(got) : got[i] = CreateMsgBuffer(sent[i])
<1> DEFINE e == ntcp[c][s]
           o == ntcp[c][OtherSide(s)]
           got == o.m_Handler
           one == <<DatabaseStore>>
           sent == one \o e.posted
           I == Items(e, s)
           n == SentItems(e, s)
<1>1. /\ EndSound(e) /\ e \in EndRecord /\ EndSound(o) /\ o \in EndRecord
      /\ Carries(e, s, c \in broken, wire[c][s], o)
  BY EndsAre
<1> HIDE DEF e, o
<1>2. e.posted \in Seq(Posts) /\ Len(e.posted) \in Nat BY <1>1 DEF EndRecord
<1>3. Posts \subseteq NTCPMessages /\ DatabaseStore \in NTCPMessages
  BY DEF Posts, NTCPMessages, DatabaseStore, NTCPMessage, NTCPIds
<1>4. /\ one \in Seq(NTCPMessages) /\ Len(one) = 1 /\ one[1] = DatabaseStore BY <1>3
<1>5. /\ Len(sent) = 1 + Len(e.posted) /\ sent[1] = DatabaseStore
      /\ \A i \in 1 .. Len(e.posted) : sent[i + 1] = e.posted[i]
  <2> DEFINE q == e.posted
  <2>1. q \in Seq(NTCPMessages) BY <1>2, <1>3
  <2> HIDE DEF one, q
  <2>2. Len(one \o q) = Len(one) + Len(q) BY <1>4, <2>1, ConcatProperties
  <2>3. \A i \in 1 .. Len(one) + Len(q) : (one \o q)[i] = IF i <= Len(one) THEN one[i] ELSE q[i - Len(one)]
    BY <1>4, <2>1, ConcatProperties
  <2>4. Len(q) \in Nat BY <2>1
  <2>5. 1 \in 1 .. Len(one) + Len(q) BY <1>4, <2>4
  <2>6. (one \o q)[1] = DatabaseStore BY <1>4, <2>3, <2>5
  <2>7. ASSUME NEW i \in 1 .. Len(q) PROVE (one \o q)[i + 1] = q[i]
    <3>1. i + 1 \in 1 .. Len(one) + Len(q) /\ ~(i + 1 <= Len(one)) /\ (i + 1) - Len(one) = i
      BY <1>4, <2>4
    <3> QED BY <2>3, <3>1
  <2> QED BY <1>4, <2>2, <2>6, <2>7 DEF q
<1>6. CASE o.phase # 5
  <2>1. o.phase < 5 BY <1>1, <1>6 DEF EndRecord
  <2>2. got = <<>> BY <1>1, <2>1 DEF EndSound
  <2>3. Len(got) = 0 BY <2>2
  <2>4. 0 <= Len(sent) /\ \A i \in 1 .. 0 : FALSE BY <1>2, <1>5
  <2> QED BY <2>3, <2>4 DEF e, o
<1>7. CASE o.phase = 5
  <2>1. PICK E \in Seq(Blocks), at \in [0 .. n -> Nat], k \in 0 .. n :
          FlowAt(I, n, Unwritten(e), e.open /\ ~(c \in broken), wire[c][s], o, OtherSide(s), E, at, k)
    BY <1>1 DEF Carries, Flow, o
  <2>2. /\ Len(got) = (IF k <= 3 THEN 0 ELSE k - 3)
        /\ \A i \in 1 .. Len(got) : got[i] = CreateMsgBuffer(I[i + 3])
    BY <1>7, <2>1 DEF FlowAt, Reads, Reached
  <2>3. n \in Nat /\ n <= 4 + Len(e.posted) BY <1>2 DEF SentItems
  <2> HIDE DEF got, sent, n
  <2>4. Len(got) <= 1 + Len(e.posted) BY <1>2, <2>2, <2>3
  <2>5. ASSUME NEW i \in 1 .. Len(got) PROVE I[i + 3] = sent[i]
    <3>0. i \in Nat /\ i >= 1 /\ i <= 1 + Len(e.posted)
      <4>1. Len(got) \in Nat BY <2>2, <2>3
      <4> QED BY <1>2, <2>4, <4>1
    <3>1. CASE i = 1
      <4>1. I[4] = DatabaseStore BY DEF Items
      <4> QED BY <1>5, <3>1, <4>1
    <3>2. CASE i # 1
      <4>1. /\ i + 3 \in Nat /\ i + 3 > 4 /\ (i + 3) - 4 = i - 1 /\ i - 1 \in 1 .. Len(e.posted)
            /\ (i - 1) + 1 = i /\ i - 1 <= Len(e.posted)
        BY <1>2, <3>0, <3>2
      <4>2. I[i + 3] = e.posted[i - 1] BY <4>1 DEF Items
      <4>3. sent[(i - 1) + 1] = e.posted[i - 1] BY <1>5, <4>1
      <4> QED BY <4>1, <4>2, <4>3
    <3> QED BY <3>1, <3>2
  <2>6. Len(got) <= Len(sent) /\ \A i \in 1 .. Len(got) : got[i] = CreateMsgBuffer(sent[i])
    BY <1>5, <2>2, <2>4, <2>5
  <2> QED BY <2>6 DEF got, sent, e, o
<1> QED BY <1>6, <1>7

LEMMA NTCPIInvIsSafe ==
  ASSUME NTCPIInv
  PROVE  NTCPSafe
<1>1. ASSUME NEW c \in NTCPConns, NEW s \in Sides
      PROVE  EndOK(ntcp[c][s]) /\ EndSound(ntcp[c][s]) /\ ntcp[c][s] \in EndRecord
  BY EndsAre
<1>2. NTCPTypeOK
  <2>1. ASSUME NEW c \in NTCPConns, NEW s \in Sides
        PROVE  /\ ntcp[c][s].phase \in 0 .. 5
               /\ ntcp[c][s].read \in {"none", "pending", "ok", "error", "aborted"}
               /\ ntcp[c][s].write \in {"none", "pending", "ok", "error", "aborted"}
               /\ (ntcp[c][s].write = "none") = (ntcp[c][s].writes = <<>>)
    BY <1>1 DEF EndRecord, EndSound, Results
  <2> QED BY <2>1 DEF NTCPTypeOK, NTCPIInv
<1>3. OneWriteAtATime BY <1>1 DEF OneWriteAtATime, EndSound
<1>4. ConnectedIsReading BY <1>1 DEF ConnectedIsReading, EndOK, EndSound
<1>5. ReceivedInOrder BY HandlerIsSent DEF ReceivedInOrder
<1>6. ToldInOrder
  <2>1. ASSUME NEW c \in NTCPConns, NEW s \in Sides
        PROVE  ntcp[c][s].events \in {<<>>, <<"PeerConnected">>, <<"PeerDisconnected">>,
                                      <<"PeerConnected", "PeerDisconnected">>}
    <3> DEFINE e == ntcp[c][s]
    <3>1. EndSound(e) /\ e.phase \in 0 .. 5 BY <1>1 DEF EndRecord
    <3> HIDE DEF e
    <3>2. e.phase < 5 \/ e.phase = 5 BY <3>1
    <3>3. e.events \in {<<>>, <<"PeerConnected">>, <<"PeerDisconnected">>,
                        <<"PeerConnected", "PeerDisconnected">>}
      BY <3>1, <3>2 DEF EndSound
    <3> QED BY <3>3 DEF e
  <2> QED BY <2>1 DEF ToldInOrder
<1> QED BY <1>2, <1>3, <1>4, <1>5, <1>6 DEF NTCPSafe

\* An NTCP session writes one batch at a time, is read from until it is
\* terminated, hands on our RouterInfo and the messages posted whole and in the
\* order in which they were posted, and tells Transports of its beginning and
\* end once: for any connections, cases, messages and lengths.
THEOREM NTCPIsSafe == NTCPSpec => []NTCPSafe
<1>1. NTCPInit => NTCPIInv BY NTCPInitOK
<1>2. NTCPIInv /\ [NTCPNext]_ntcpVars => NTCPIInv'
  <2>1. ASSUME NTCPIInv, UNCHANGED ntcpVars PROVE NTCPIInv'
    <3>1. /\ ntcp' = ntcp /\ wire' = wire /\ broken' = broken /\ registered' = registered
          /\ setUnreachable' = setUnreachable /\ ntcpCase' = ntcpCase
      BY <2>1 DEF ntcpVars
    <3> QED BY <2>1, <3>1 DEF NTCPIInv
  <2> QED BY <2>1, NTCPNextOK
<1>3. NTCPIInv => NTCPSafe BY NTCPIInvIsSafe
<1> QED BY <1>1, <1>2, <1>3, PTL DEF NTCPSpec
=============================================================================
