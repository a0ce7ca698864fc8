----------------------------- MODULE SSUSession -----------------------------
(***************************************************************************)
(* SSU sessions and the server that keeps them (core/transport/SSU.cpp,    *)
(* SSUSession.cpp): handshake, introduction through a third router, the    *)
(* session table, timers, batches of packets.                              *)
(*                                                                         *)
(* A router has one endpoint, named like the router.  Packets are a set    *)
(* that only grows: any of them may come in at any time, again, or never.  *)
(* A packet is named by its type and by the key its MAC is computed with.  *)
(***************************************************************************)
EXTENDS Integers, FiniteSets, Sequences

CONSTANTS
  SSURouters,
  IntroducerOf,     \* function: the introducer of a router that is not reachable
  Scenarios         \* bounds, per router a record of
                    \*   wanted       routers that GetSession is called for
                    \*   maxSessions  session objects
                    \*   maxGarbage   packets acted upon though their MAC is wrong
                    \*   faults       whether timers expire, Done is called, it stops

ASSUME SSUSessionAssumption ==
  /\ \A w \in Scenarios : \A r \in SSURouters :
       /\ w[r].wanted \subseteq SSURouters \ {r}
       /\ w[r].maxSessions \in Nat /\ w[r].maxGarbage \in Nat
       /\ w[r].faults \subseteq {"timeout", "done", "stop"}
  /\ IntroducerOf \in [DOMAIN IntroducerOf -> SSURouters]
  /\ DOMAIN IntroducerOf \subseteq SSURouters
  /\ \A c \in DOMAIN IntroducerOf : IntroducerOf[c] # c
  /\ SSURouters \cap {"none", "garbage", "intro"} = {}

VARIABLE server   \* per router, see NewServer

sessionVars == <<server>>

NoRouter == "none"
NoPair   == <<"none", 0>>      \* no key pair
Garbage  == <<"garbage", 0>>   \* what is read in a packet that was not decrypted
NoKey    == {}
NoData   == <<>>
Spoilt   == <<"spoilt">>
\* The session key two key pairs agree on, by their public halves; the intro
\* key in a router's SSU address.
Agree(x, y)  == {x, y}
IntroKey(r)  == {<<"intro", r>>}

\* m_RemoteRouter is none on the side that was called.  m_SessionConfirmData is
\* what the caller's signature is verified over.  m_Timer has one wait at a
\* time; due holds the handlers that will run without an error.
NewSession(endpoint, router) ==
  [m_RemoteEndpoint |-> endpoint, m_RemoteRouter |-> router, m_State |-> "Unknown",
   m_SessionKey |-> NoKey, m_DHKeysPair |-> NoPair, m_SessionConfirmData |-> NoData,
   m_RelayTag |-> 0, m_Timer |-> "none", due |-> {}]

\* sessions: the objects; m_Sessions: endpoint to object, 0 for none; session:
\* the local variable of HandleReceivedPackets.  Sent packets, key pairs drawn
\* and the keys ever agreed on are kept here too.
NewServer(scenario) ==
  [sessions |-> <<>>, m_Sessions |-> [e \in SSURouters |-> 0], m_Relays |-> <<>>,
   session |-> 0, scenario |-> scenario, drawn |-> 0, sent |-> {}, held |-> {},
   garbage |-> 0, m_IsRunning |-> TRUE]

SessionInitWith(w) == server = [r \in SSURouters |-> NewServer(w[r])]
SessionInit == \E w \in Scenarios : SessionInitWith(w)

IsIntroducer(r) == \E c \in DOMAIN IntroducerOf : IntroducerOf[c] = r
-----------------------------------------------------------------------------
(***************************************************************************)
(* What handlers do to the server v of router r and its session i.         *)
(***************************************************************************)
IsOutbound(s) == s.m_RemoteRouter # NoRouter

\* A packet: the key stands for its encryption and its MAC.
Packet(type, from, to, key, body) ==
  [type |-> type, from |-> from, to |-> to, key |-> key, body |-> body]

\* FillHeaderAndEncrypt and the server's Send.
Send(v, type, from, to, key, body) ==
  [v EXCEPT !.sent = @ \cup {Packet(type, from, to, key, body)}]

ScheduleConnectTimer(v, i) == [v EXCEPT !.sessions[i].m_Timer = "connect"]
ScheduleTermination(v, i)  == [v EXCEPT !.sessions[i].m_Timer = "termination"]

\* transports.GetNextDHKeysPair.
NextPair(v, r) == <<r, v.drawn + 1>>

SendSessionRequest(v, r, i) ==
  Send([v EXCEPT !.sessions[i].m_DHKeysPair = NextPair(v, r), !.drawn = @ + 1],
       "SessionRequest", r, v.sessions[i].m_RemoteEndpoint,
       IntroKey(v.sessions[i].m_RemoteRouter), NextPair(v, r))

Connect(v, r, i) ==
  IF v.sessions[i].m_State # "Unknown" THEN v
  ELSE SendSessionRequest(ScheduleConnectTimer(v, i), r, i)

SendSesionDestroyed(v, r, i) ==
  IF v.sessions[i].m_SessionKey = NoKey THEN v
  ELSE Send(v, "SessionDestroyed", r, v.sessions[i].m_RemoteEndpoint,
            v.sessions[i].m_SessionKey, NoData)

Close(v, r, i) ==
  SendSesionDestroyed([v EXCEPT !.sessions[i].m_State = "Closed",
                                !.sessions[i].m_Timer = "none"], r, i)

\* Erases whatever session the endpoint of this one leads to.
DeleteSession(v, r, i) ==
  [Close(v, r, i) EXCEPT !.m_Sessions[v.sessions[i].m_RemoteEndpoint] = 0]

Failed(v, r, i) == IF v.sessions[i].m_State = "Failed" THEN v ELSE DeleteSession(v, r, i)

\* Mutant: nothing ends an established session that falls silent.
EstablishedUntimed(v, r, i) ==
  Send([v EXCEPT !.sessions[i].m_State = "Established", !.sessions[i].m_Timer = "none",
                 !.sessions[i].m_SessionConfirmData = NoData,
                 !.sessions[i].m_DHKeysPair = NoPair],
       "DeliveryStatus", r, v.sessions[i].m_RemoteEndpoint, v.sessions[i].m_SessionKey, NoData)

\* The DeliveryStatus goes out as data; PeerConnected and the rest of the data
\* are other modules' business.
Established(v, r, i) ==
  Send([ScheduleTermination(v, i) EXCEPT
          !.sessions[i].m_State = "Established",
          !.sessions[i].m_SessionConfirmData = NoData,
          !.sessions[i].m_DHKeysPair = NoPair],
       "DeliveryStatus", r, v.sessions[i].m_RemoteEndpoint, v.sessions[i].m_SessionKey, NoData)

\* Mutant: a session that has agreed on a key keeps it when it is asked for another.
SendCreatedKeepsKey(v, r, i, from, x, y, tag) ==
  Send([v EXCEPT
          !.sessions[i].m_SessionKey = IF @ = NoKey THEN Agree(x, y) ELSE @,
          !.sessions[i].m_SessionConfirmData = IF @ = NoData THEN <<x, y, tag>> ELSE @,
          !.m_Relays = IF tag = 0 THEN @ ELSE Append(@, from),
          !.held = @ \cup {Agree(x, y)}],
       "SessionCreated", r, from, IntroKey(r), [y |-> y, tag |-> tag, sig |-> <<r, x, y, tag>>])

\* Key and answer for the public key x; an introducer gives a relay tag.
SendSessionCreated(v, r, i, from, x, y, tag) ==
  Send([v EXCEPT
          !.sessions[i].m_SessionKey = Agree(x, y),
          !.sessions[i].m_SessionConfirmData = <<x, y, tag>>,
          !.m_Relays = IF tag = 0 THEN @ ELSE Append(@, from),
          !.held = @ \cup {Agree(x, y)}],
       "SessionCreated", r, from, IntroKey(r), [y |-> y, tag |-> tag, sig |-> <<r, x, y, tag>>])

ProcessSessionRequest(v, r, i, x, from) ==
  LET s   == v.sessions[i]
      new == s.m_DHKeysPair = NoPair
      y   == IF new THEN NextPair(v, r) ELSE s.m_DHKeysPair
      tag == IF IsIntroducer(r) THEN Len(v.m_Relays) + 1 ELSE 0
  IN IF IsOutbound(s) THEN v
     ELSE SendSessionCreated([v EXCEPT !.sessions[i].m_RemoteEndpoint = from,
                                       !.sessions[i].m_DHKeysPair = y,
                                       !.drawn = IF new THEN @ + 1 ELSE @],
                             r, i, from, x, y, tag)

SendSessionConfirmed(v, r, i, x, b) ==
  Send(v, "SessionConfirmed", r, v.sessions[i].m_RemoteEndpoint, Agree(x, b.y),
       [who |-> r, data |-> <<x, b.y, b.tag>>])

\* The timer is cancelled and the key is set before the signature is verified.
ProcessSessionCreated(v, r, i, b) ==
  LET s   == v.sessions[i]
      x   == s.m_DHKeysPair
      set == [v EXCEPT !.sessions[i].m_Timer = "none",
                       !.sessions[i].m_SessionKey = Agree(x, b.y),
                       !.sessions[i].m_RelayTag = b.tag,
                       !.held = @ \cup {Agree(x, b.y)}]
  IN IF ~IsOutbound(s) \/ x = NoPair THEN v
     ELSE IF b.sig # <<s.m_RemoteRouter, x, b.y, b.tag>> THEN set
     ELSE SendSessionConfirmed(set, r, i, x, b)

\* A signature that does not verify leaves its time in m_SessionConfirmData, and
\* no other will verify over that.
ProcessSessionConfirmed(v, r, i, b) ==
  LET c == v.sessions[i].m_SessionConfirmData
  IN IF c = NoData THEN v
     ELSE IF b.data = c THEN Established(v, r, i)
     ELSE [v EXCEPT !.sessions[i].m_SessionConfirmData = Spoilt]

\* To the caller: under its session's key, or under the intro key it gave.
SendRelayResponse(v, r, i, p) ==
  LET estab == v.sessions[i].m_State = "Established"
  IN Send(v, "RelayResponse", r,
          IF estab THEN v.sessions[i].m_RemoteEndpoint ELSE p.from,
          IF estab THEN v.sessions[i].m_SessionKey ELSE p.body.introKey, NoData)

\* To the router behind the tag: who calls it.
SendRelayIntro(v, r, j, from) ==
  Send(v, "RelayIntro", r, v.sessions[j].m_RemoteEndpoint, v.sessions[j].m_SessionKey, from)

\* The caller names the relay tag; the router behind it is found by endpoint.
ProcessRelayRequest(v, r, i, p) ==
  LET known == p.body.tag \in DOMAIN v.m_Relays
      c     == IF known THEN v.m_Relays[p.body.tag] ELSE r
      j     == v.m_Sessions[c]
  IN IF ~known \/ j = 0 THEN v ELSE SendRelayIntro(SendRelayResponse(v, r, i, p), r, j, p.from)

\* Sends an empty packet, the hole punch, to the caller.
ProcessRelayIntro(v, r, p) == Send(v, "HolePunch", r, p.body, NoKey, NoData)

ProcessRelayResponse(v, r, i) ==
  IF v.sessions[i].m_State = "Established" THEN v ELSE DeleteSession(v, r, i)

\* Data: a DeliveryStatus establishes the session of the caller
\* (SSUData::ProcessFragments).
ProcessDeliveryStatus(v, r, i) ==
  IF v.sessions[i].m_State = "Established" THEN v ELSE Established(v, r, i)

ProcessDecryptedMessage(v, r, i, p) ==
  CASE p.type = "SessionRequest"   -> ProcessSessionRequest(v, r, i, p.body, p.from)
    [] p.type = "SessionCreated"   -> ProcessSessionCreated(v, r, i, p.body)
    [] p.type = "SessionConfirmed" -> ProcessSessionConfirmed(v, r, i, p.body)
    [] p.type = "DeliveryStatus"   -> ProcessDeliveryStatus(v, r, i)
    [] p.type = "SessionDestroyed" -> DeleteSession(v, r, i)
    [] p.type = "RelayRequest"     -> ProcessRelayRequest(v, r, i, p)
    [] p.type = "RelayResponse"    -> ProcessRelayResponse(v, r, i)
    [] p.type = "RelayIntro"       -> ProcessRelayIntro(v, r, p)

\* A packet whose MAC is wrong is not decrypted but processed, on any session: the
\* branch of ProcessNextMessage that deletes the session is for a router without
\* an SSU address, to which none comes.  The packet is taken for whatever its
\* bytes look like, Data with a DeliveryStatus included; types without an effect
\* here are left out.
ProcessGarbage(v, r, i, p, type) ==
  LET g == [v EXCEPT !.garbage = @ + 1]
  IN CASE type = "SessionRequest"   -> ProcessSessionRequest(g, r, i, Garbage, p.from)
       [] type = "SessionCreated"   -> ProcessSessionCreated(g, r, i, [y |-> Garbage, tag |-> 0, sig |-> NoData])
       [] type = "SessionConfirmed" -> ProcessSessionConfirmed(g, r, i, [data |-> Garbage])
       [] type = "DeliveryStatus"   -> ProcessDeliveryStatus(g, r, i)
       [] type = "SessionDestroyed" -> DeleteSession(g, r, i)
       [] type = "RelayResponse"    -> ProcessRelayResponse(g, r, i)

GarbageTypes == {"SessionRequest", "SessionCreated", "SessionConfirmed",
                 "DeliveryStatus", "SessionDestroyed", "RelayResponse"}

\* A session that is established lives on with every packet, whatever it is.
Alive(v, i) ==
  IF v.sessions[i].m_State = "Established" THEN ScheduleTermination(v, i) ELSE v

\* The key the MAC is checked against.
MacKey(s, r) ==
  IF s.m_SessionKey # NoKey THEN s.m_SessionKey
  ELSE IntroKey(IF IsOutbound(s) THEN s.m_RemoteRouter ELSE r)

\* What may come of packet p, as the set of the servers that may result.
ProcessNextMessage(v, r, i, p) ==
  LET s == v.sessions[i] IN
  IF s.m_State = "Introduced"
  THEN {Connect([v EXCEPT !.sessions[i].m_State = "Unknown"], r, i)}
  ELSE IF p.type = "HolePunch" THEN {v}
  ELSE IF p.key = MacKey(s, r) THEN {ProcessDecryptedMessage(Alive(v, i), r, i, p)}
  ELSE {Alive(v, i)} \cup
       {ProcessGarbage(Alive(v, i), r, i, p, t) :
          t \in IF v.garbage < v.scenario.maxGarbage THEN GarbageTypes ELSE {}}
-----------------------------------------------------------------------------
(***************************************************************************)
(* Steps.  Handlers of one router run one after the other; those that do   *)
(* not belong to a batch end it.                                           *)
(***************************************************************************)
Handled(r, v) == server' = [server EXCEPT ![r] = [v EXCEPT !.session = 0]]

\* WaitForConnect on a session for an endpoint without one.
NewInbound(v, from) ==
  [v EXCEPT !.sessions = Append(@, [NewSession(from, NoRouter) EXCEPT !.m_Timer = "connect"]),
            !.m_Sessions[from] = Len(v.sessions) + 1]

\* HandleReceivedPackets for the next packet: the session of the packet before
\* is kept if it has the right endpoint or if the endpoint has no session.
HandleReceivedPacket(r, p, before) ==
  LET v    == server[r]
      mine == before # 0 /\ v.sessions[before].m_RemoteEndpoint = p.from
      i    == IF mine THEN before
              ELSE IF v.m_Sessions[p.from] # 0 THEN v.m_Sessions[p.from] ELSE before
      n    == Len(v.sessions) + 1
  IN /\ i = 0 => n <= v.scenario.maxSessions
     /\ \E w \in IF i = 0 THEN ProcessNextMessage(NewInbound(v, p.from), r, n, p)
                 ELSE ProcessNextMessage(v, r, i, p) :
          server' = [server EXCEPT ![r] = [w EXCEPT !.session = IF i = 0 THEN n ELSE i]]

\* The packet begins a batch or goes on with one.  A router calls none at its own
\* endpoint, and so none of its own packets comes back.
HandleReceivedPackets(r) ==
  /\ server[r].m_IsRunning
  /\ \E q \in SSURouters \ {r} : \E p \in server[q].sent :
       /\ p.to = r
       /\ \E before \in {0, server[r].session} : HandleReceivedPacket(r, p, before)

SendRelayRequest(v, r, k, tag) ==
  LET s == v.sessions[k]
      b == s.m_RemoteEndpoint
  IN Send(v, "RelayRequest", r, b,
          IF s.m_State = "Established" THEN s.m_SessionKey ELSE IntroKey(b),
          [tag |-> tag, introKey |-> IntroKey(r)])

Introduce(v, r, k, tag) ==
  SendRelayRequest(IF v.sessions[k].m_State = "Unknown" THEN ScheduleConnectTimer(v, k) ELSE v,
                   r, k, tag)

WaitForIntroduction(s) == [s EXCEPT !.m_State = "Introduced", !.m_Timer = "connect"]

\* The session with the introducer b; if there is none it is made, for the
\* router that is called.
IntroducerSession(v, b, to) ==
  IF v.m_Sessions[b] # 0 THEN v
  ELSE [v EXCEPT !.sessions = Append(@, NewSession(b, to)), !.m_Sessions[b] = Len(v.sessions) + 1]

\* A router that has an introducer itself lets the called router's packets in.
PunchHole(v, r, to) ==
  IF r \in DOMAIN IntroducerOf THEN Send(v, "HolePunch", r, to, NoKey, NoData) ELSE v

\* A session that waits for its introduction.
Waiting(v, to) ==
  [v EXCEPT !.sessions = Append(@, WaitForIntroduction(NewSession(to, to))),
            !.m_Sessions[to] = Len(v.sessions) + 1]

IntroducedBy(v, r, to, b, tag) ==
  LET w == IntroducerSession(Waiting(v, to), b, to)
  IN Introduce(PunchHole(w, r, to), r, w.m_Sessions[b], tag)

\* The tags a router has published with its introducer.
PublishedTags(to) ==
  {server[to].sessions[i].m_RelayTag : i \in DOMAIN server[to].sessions} \ {0}

\* GetSession for a router whose endpoint has no session yet; it returns the one
\* there is otherwise, and none for a router that has published no introducer.
GetSession(r, to) ==
  LET v == server[r]
      n == Len(v.sessions) + 1
  IN /\ v.m_IsRunning /\ to \in v.scenario.wanted /\ v.m_Sessions[to] = 0
     /\ n <= v.scenario.maxSessions
     /\ \/ /\ to \notin DOMAIN IntroducerOf
           /\ server' = [server EXCEPT ![r] =
                Connect([v EXCEPT !.sessions = Append(@, NewSession(to, to)),
                                  !.m_Sessions[to] = n], r, n)]
        \/ /\ to \in DOMAIN IntroducerOf
           /\ v.m_Sessions[IntroducerOf[to]] = 0 => n + 1 <= v.scenario.maxSessions
           /\ \E tag \in PublishedTags(to) :
                server' = [server EXCEPT ![r] = IntroducedBy(v, r, to, IntroducerOf[to], tag)]

\* m_Timer expires: to cancel it is too late for its handler.
TimerExpires(r, i) ==
  LET s == server[r].sessions[i] IN
  /\ s.m_Timer # "none" /\ server[r].m_IsRunning /\ "timeout" \in server[r].scenario.faults
  /\ server' = [server EXCEPT ![r] =
       [server[r] EXCEPT !.sessions[i].m_Timer = "none", !.sessions[i].due = @ \cup {s.m_Timer}]]

\* Done, from Transports: Failed is posted.
Done(r, i) ==
  /\ server[r].sessions[i].m_State = "Established" /\ server[r].m_IsRunning
  /\ "done" \in server[r].scenario.faults
  /\ server' = [server EXCEPT ![r].sessions[i].due = @ \cup {"done"}]

\* HandleConnectTimer, HandleTerminationTimer and the posted Failed.
HandleFailed(r, i) ==
  \E h \in server[r].sessions[i].due :
    /\ server[r].m_IsRunning
    /\ Handled(r, Failed([server[r] EXCEPT !.sessions[i].due = @ \ {h}], r, i))

\* Stop: DeleteAllSessions closes them one by one.
StopServer(r) ==
  LET v   == server[r]
      all == {v.m_Sessions[e] : e \in SSURouters} \ {0}
      Cut(i) == Close(v, r, i)
  IN /\ v.m_IsRunning /\ "stop" \in v.scenario.faults
     /\ Handled(r, [v EXCEPT
          !.m_IsRunning = FALSE, !.m_Sessions = [e \in SSURouters |-> 0],
          !.sessions = [i \in DOMAIN @ |-> IF i \in all THEN Cut(i).sessions[i] ELSE @[i]],
          !.sent = @ \cup UNION {Cut(i).sent : i \in all}])
-----------------------------------------------------------------------------
SessionNext ==
  \E r \in SSURouters :
    \/ HandleReceivedPackets(r)
    \/ \E to \in SSURouters : GetSession(r, to)
    \/ \E i \in DOMAIN server[r].sessions :
         TimerExpires(r, i) \/ Done(r, i) \/ HandleFailed(r, i)
    \/ StopServer(r)

SessionSpec == SessionInit /\ [][SessionNext]_sessionVars
-----------------------------------------------------------------------------
SessionTypeOK ==
  \A r \in SSURouters :
    /\ server[r].m_Sessions \in [SSURouters -> 0 .. Len(server[r].sessions)]
    /\ server[r].session \in 0 .. Len(server[r].sessions)
    /\ Len(server[r].sessions) <= server[r].scenario.maxSessions
    /\ \A i \in DOMAIN server[r].sessions :
         LET s == server[r].sessions[i] IN
         /\ s.m_State \in {"Unknown", "Introduced", "Established", "Closed"}
         /\ s.m_RemoteEndpoint \in SSURouters
         /\ s.m_Timer \in {"none", "connect", "termination"}

\* A packet that is decrypted establishes a session only under a key that the
\* router at its endpoint has agreed on as well, whatever packets are late,
\* repeated, lost or were taken for something they are not before, and whichever
\* session of a batch they are given to.  (A packet that is not decrypted may
\* look like a DeliveryStatus and establish a session under any key or none, or
\* like a SessionRequest and change the key of one that is established.)
EstablishedSharesKey ==
  [][\A r \in SSURouters : \A i \in DOMAIN server[r].sessions :
       LET old == server[r].sessions[i]
           new == server'[r].sessions[i]
           decrypted == server'[r].garbage = server[r].garbage
       IN old.m_State # "Established" /\ new.m_State = "Established" /\ decrypted
            => new.m_SessionKey \in server[new.m_RemoteEndpoint].held]_sessionVars

\* An established session always has the timer that ends it when its peer falls
\* silent, or that handler is about to run: handlers that come late and sessions
\* that are closed or established twice included.
EstablishedWillEnd ==
  \A r \in SSURouters : \A i \in DOMAIN server[r].sessions :
    LET s == server[r].sessions[i] IN
    s.m_State = "Established" /\ server[r].m_IsRunning
      => s.m_Timer = "termination" \/ s.due # {}

\* A session in the table that is not established yet has the timer that fails
\* it.  The exception is what ProcessSessionCreated leaves behind: a call that
\* was answered has a key and no timer.
WaitingWillFail ==
  \A r \in SSURouters : \A e \in SSURouters :
    LET i == server[r].m_Sessions[e] IN
    i # 0 /\ server[r].m_IsRunning =>
      LET s == server[r].sessions[i] IN
      s.m_State \in {"Unknown", "Introduced"} /\ s.m_Timer = "none" /\ s.due = {}
        => IsOutbound(s) /\ s.m_SessionKey # NoKey

\* Session tables are well formed, and no session, established or waiting, is left
\* without the timer that ends it.
SSUSessionSafe ==
  /\ SessionTypeOK
  /\ EstablishedWillEnd
  /\ WaitingWillFail
=============================================================================
