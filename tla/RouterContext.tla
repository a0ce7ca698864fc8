--------------------------- MODULE RouterContext ---------------------------
(***************************************************************************)
(* What a router says of itself (core/RouterContext.cpp, RouterInfo.cpp):  *)
(* capabilities, addresses and introducers, written to a buffer that is    *)
(* published and to a file that is read again after a restart; and the     *)
(* timer of SSUServer that keeps up the introducers of a router that is    *)
(* firewalled.                                                             *)
(*                                                                         *)
(* Keys, properties other than the capabilities and the statistics of a    *)
(* floodfill, and timestamps are left out.                                 *)
(***************************************************************************)
EXTENDS Integers, Sequences, SequencesExt

CONSTANTS
  RCHosts,                  \* IPv4 addresses the router is told it has
  RCEndpoints,              \* of sessions and of routers that may introduce us
  RCConfigs,                \* records [floodfill, high, v6]: the command line
  SSU_MAX_NUM_INTRODUCERS,
  RCMaxTags, RCMaxRestarts, RCMaxAddresses  \* bounds

V6Host == "v6"

ASSUME RouterContextAssumption ==
  /\ RCHosts # {} /\ V6Host \notin RCHosts /\ SSU_MAX_NUM_INTRODUCERS \in Nat \ {0}
  /\ {RCMaxTags, RCMaxRestarts, RCMaxAddresses} \subseteq Nat
  /\ \A c \in RCConfigs : {c.floodfill, c.high, c.v6} \subseteq BOOLEAN

\* See RouterContextInit.  `moved` is history: since the start an introducer was
\* published at another endpoint than that of the session it was found by.
VARIABLE context

contextVars == <<context>>

DefaultHost == CHOOSE h \in RCHosts : TRUE
NTCP(host) == [style |-> "NTCP", host |-> host, introducers |-> <<>>]
SSU(host)  == [style |-> "SSU", host |-> host, introducers |-> <<>>]
Style(a, style, v6) == a.style = style /\ (a.host = V6Host) = v6
-----------------------------------------------------------------------------
(***************************************************************************)
(* RouterInfo: what CreateBuffer writes, what ReadFromStream makes of it.  *)
(* m_Caps are sets; a floodfill is written as of the highest bandwidth.    *)
(***************************************************************************)
UpdateCapsProperty(caps) ==
  (IF "Floodfill" \in caps THEN {"O", "f"} ELSE IF "HighBandwidth" \in caps THEN {"P"} ELSE {"L"})
    \cup {x \in {"R", "U"} : (x = "R" /\ "Reachable" \in caps) \/ (x = "U" /\ "Unreachable" \in caps)}

\* B and C stand in each SSU address.
WriteToStream(ri) ==
  [letters |-> UpdateCapsProperty(ri.m_Caps), stats |-> ri.stats,
   addresses |-> [n \in DOMAIN ri.m_Addresses |->
     [address |-> ri.m_Addresses[n],
      caps |-> IF ri.m_Addresses[n].style = "NTCP" THEN {}
               ELSE ri.m_Caps \cap {"SSUTesting", "SSUIntroducer"}]]]

ExtractCaps(letters) ==
  {c \in {"Floodfill", "HighBandwidth", "Reachable", "Unreachable"} :
     \/ c = "Floodfill" /\ "f" \in letters
     \/ c = "HighBandwidth" /\ letters \cap {"O", "P"} # {}
     \/ c = "Reachable" /\ "R" \in letters
     \/ c = "Unreachable" /\ "U" \in letters}

ReadFromStream(w) ==
  [m_Caps |-> ExtractCaps(w.letters) \cup UNION {w.addresses[n].caps : n \in DOMAIN w.addresses},
   m_Addresses |-> [n \in DOMAIN w.addresses |-> w.addresses[n].address],
   v6 |-> \E n \in DOMAIN w.addresses : w.addresses[n].address.host = V6Host,
   stats |-> w.stats]

Is(ri, cap) == cap \in ri.m_Caps
AddNTCPAddress(ri, host) ==
  [ri EXCEPT !.m_Addresses = Append(@, NTCP(host)), !.v6 = @ \/ host = V6Host]
AddSSUAddress(ri, host) ==
  [ri EXCEPT !.m_Addresses = Append(@, SSU(host)), !.v6 = @ \/ host = V6Host,
             !.m_Caps = @ \cup {"SSUTesting", "SSUIntroducer"}]
ClearIntroducers(ri) ==
  [ri EXCEPT !.m_Addresses = [n \in DOMAIN @ |-> [@[n] EXCEPT !.introducers = <<>>]]]

\* The first address of a style with v6 in a set of values, 0 if there is none.
FirstAddress(ri, style, v6) ==
  LET s == {n \in DOMAIN ri.m_Addresses : \E b \in v6 : Style(ri.m_Addresses[n], style, b)}
  IN IF s = {} THEN 0 ELSE CHOOSE n \in s : \A m \in s : n <= m
RemoveFirstAddress(ri, style, v6) ==
  IF FirstAddress(ri, style, v6) = 0 THEN ri
  ELSE [ri EXCEPT !.m_Addresses = RemoveAt(@, FirstAddress(ri, style, v6))]

DisableV6(ri) ==
  IF ~ri.v6 THEN ri
  ELSE [RemoveFirstAddress(RemoveFirstAddress(ri, "NTCP", {TRUE}), "SSU", {TRUE})
          EXCEPT !.v6 = FALSE]

\* Introducers are told apart by their tags, and removed by their endpoints.
IntroducingAddress(ri) == FirstAddress(ri, "SSU", {FALSE})
CanAddIntroducer(ri, tag) ==
  LET n == IntroducingAddress(ri)
  IN n # 0 /\ \A x \in Range(ri.m_Addresses[n].introducers) : x.iTag # tag
AddIntroducer(ri, endpoint, tag) ==
  [ri EXCEPT !.m_Addresses[IntroducingAddress(ri)].introducers =
     Append(@, [endpoint |-> endpoint, iTag |-> tag])]
\* Mutant: the last of an endpoint's introducers is kept.
RemoveOtherIntroducer(ri, endpoint) ==
  LET n == IntroducingAddress(ri)
      s == {i \in DOMAIN ri.m_Addresses[n].introducers :
              ri.m_Addresses[n].introducers[i].endpoint # endpoint}
  IN IF n = 0 \/ s = {} THEN ri
     ELSE [ri EXCEPT !.m_Addresses[n].introducers = RemoveAt(@, CHOOSE i \in s : \A j \in s : i <= j)]
RemoveIntroducer(ri, endpoint) ==
  LET n == IntroducingAddress(ri)
      s == {i \in DOMAIN ri.m_Addresses[n].introducers :
              ri.m_Addresses[n].introducers[i].endpoint = endpoint}
  IN IF n = 0 \/ s = {} THEN ri
     ELSE [ri EXCEPT !.m_Addresses[n].introducers = RemoveAt(@, CHOOSE i \in s : \A j \in s : i <= j)]
-----------------------------------------------------------------------------
(***************************************************************************)
(* RouterContext.                                                          *)
(***************************************************************************)
\* UpdateRouterInfo: every change is written to the buffer and to the file.
UpdateRouterInfo(c, ri) ==
  [c EXCEPT !.m_RouterInfo = ri, !.m_Buffer = WriteToStream(ri), !.file = WriteToStream(ri)]

NewRouterInfo ==
  [AddNTCPAddress(AddSSUAddress([m_Caps |-> {}, m_Addresses |-> <<>>, v6 |-> FALSE, stats |-> FALSE],
                                DefaultHost), DefaultHost)
     EXCEPT !.m_Caps = {"Reachable", "SSUTesting", "SSUIntroducer"}]

\* UpdateAddress for an address of one version.
WithHost(ri, host) ==
  [ri EXCEPT !.m_Addresses = [n \in DOMAIN @ |->
     IF (@[n].host = V6Host) = (host = V6Host) THEN [@[n] EXCEPT !.host = host] ELSE @[n]]]
UpdateAddress(c, host) ==
  IF WithHost(c.m_RouterInfo, host) = c.m_RouterInfo THEN c
  ELSE UpdateRouterInfo(c, WithHost(c.m_RouterInfo, host))

SetFloodfill(c, floodfill) ==
  UpdateRouterInfo([c EXCEPT !.m_IsFloodfill = floodfill],
    IF floodfill THEN [c.m_RouterInfo EXCEPT !.m_Caps = @ \cup {"Floodfill"}]
    ELSE [c.m_RouterInfo EXCEPT !.m_Caps = @ \ {"Floodfill"}, !.stats = FALSE])

SetBandwidth(c, high) ==
  IF Is(c.m_RouterInfo, "HighBandwidth") = high THEN c
  ELSE UpdateRouterInfo(c, [c.m_RouterInfo EXCEPT
         !.m_Caps = IF high THEN @ \cup {"HighBandwidth"} ELSE @ \ {"HighBandwidth"}])

SetSupportsV6(c, v6) ==
  UpdateRouterInfo(c, IF v6 THEN [c.m_RouterInfo EXCEPT !.v6 = TRUE] ELSE DisableV6(c.m_RouterInfo))

\* All other capabilities are gone, and the first NTCP address.
SetUnreachable(c) ==
  UpdateRouterInfo(c, ClearIntroducers(RemoveFirstAddress(
    [c.m_RouterInfo EXCEPT !.m_Caps = {"Unreachable", "SSUTesting"}], "NTCP", BOOLEAN)))

SetReachable(c) ==
  LET caps == (c.m_RouterInfo.m_Caps \ {"Unreachable"}) \cup {"Reachable", "SSUIntroducer"}
                \cup (IF c.m_IsFloodfill THEN {"Floodfill"} ELSE {})
      n    == FirstAddress(c.m_RouterInfo, "SSU", BOOLEAN)
      ri   == [c.m_RouterInfo EXCEPT !.m_Caps = caps]
  IN UpdateRouterInfo(c, ClearIntroducers(
       IF n = 0 THEN ri ELSE AddNTCPAddress(ri, ri.m_Addresses[n].host)))

\* A router that was unreachable is taken for reachable until tests say otherwise.
Load(c) ==
  LET l == [c EXCEPT !.m_RouterInfo = ReadFromStream(c.file)]
  IN IF Is(l.m_RouterInfo, "Unreachable") THEN SetReachable(l) ELSE l

\* Not saved at first: <<>> is no file.
InitRouter(c) ==
  LET l == IF c.file = <<>> THEN [c EXCEPT !.m_RouterInfo = NewRouterInfo] ELSE Load(c)
  IN UpdateRouterInfo(l, l.m_RouterInfo)

RouterContextInit ==
  context = [m_RouterInfo |-> <<>>, m_Buffer |-> <<>>, file |-> <<>>, m_IsFloodfill |-> FALSE,
             m_Status |-> "OK", m_Introducers |-> <<>>, moved |-> FALSE, timer |-> FALSE,
             sessions |-> {}, tags |-> 0, restarts |-> 0, running |-> FALSE]
-----------------------------------------------------------------------------
(***************************************************************************)
(* Steps.                                                                  *)
(***************************************************************************)
\* Daemon's start; the restart of a router that stopped or crashed.
StartRouter(config) ==
  /\ ~context.running
  /\ LET c == InitRouter([context EXCEPT !.m_IsFloodfill = FALSE, !.running = TRUE,
                            !.m_Status = "Testing", !.timer = TRUE, !.m_Introducers = <<>>,
                            !.moved = FALSE, !.sessions = {}])
         d == SetSupportsV6(UpdateAddress(c, DefaultHost), config.v6)
     IN context' = SetBandwidth(SetFloodfill(d, config.floodfill), config.high)

CrashRouter ==
  /\ context.running /\ context.restarts < RCMaxRestarts
  /\ context' = [context EXCEPT !.running = FALSE, !.restarts = @ + 1]

LearnAddress(host) == context.running /\ context' = UpdateAddress(context, host)

\* From NTCPServer: a connection over IPv6.  The address it stands for is made if
\* there is none.
UpdateNTCPV6Address ==
  LET ri == context.m_RouterInfo IN
  /\ context.running /\ Len(ri.m_Addresses) + 2 <= RCMaxAddresses
  /\ \A a \in Range(ri.m_Addresses) : ~Style(a, "NTCP", TRUE)
  /\ context' = UpdateRouterInfo(context, AddSSUAddress(AddNTCPAddress(ri, V6Host), V6Host))

UpdateStats ==
  /\ context.running /\ context.m_IsFloodfill /\ ~context.m_RouterInfo.stats
  /\ context' = UpdateRouterInfo(context, [context.m_RouterInfo EXCEPT !.stats = TRUE])

\* Peer tests and Transports.
SetStatus(status) ==
  context.running /\ context.m_Status # status /\ context' = [context EXCEPT !.m_Status = status]

\* SSU sessions with routers that gave us a relay tag.
SessionMade(e) ==
  /\ context.running /\ context.tags < RCMaxTags /\ \A s \in context.sessions : s.endpoint # e
  /\ context' = [context EXCEPT !.tags = @ + 1, !.sessions = @ \cup
                   {[endpoint |-> e, tag |-> context.tags + 1, young |-> TRUE]}]
SessionAges(s) ==
  s.young /\ context' = [context EXCEPT !.sessions = (@ \ {s}) \cup {[s EXCEPT !.young = FALSE]}]
SessionGone(s) == context' = [context EXCEPT !.sessions = @ \ {s}]

Young(c, e) == \E s \in c.sessions : s.endpoint = e /\ s.young

KeepIntroducer(c, at, e) ==
  IF Young(c, e) THEN [at EXCEPT !.newList = Append(@, e)]
  ELSE [at EXCEPT !.ri = RemoveIntroducer(@, e)]

\* The introducers whose session lives on are kept, the others are removed; one
\* more is added as long as there are too few, if a session for it is found.
KeepIntroducers(c) ==
  LET list == c.m_Introducers
      after[i \in 0 .. Len(list)] ==
        IF i = 0 THEN [ri |-> c.m_RouterInfo, newList |-> <<>>]
        ELSE KeepIntroducer(c, after[i - 1], list[i])
      all == after[Len(list)]
  IN [UpdateRouterInfo(c, all.ri) EXCEPT !.m_Introducers = all.newList]

\* What is published is the endpoint in the router's RouterInfo, over IPv4 and as
\* it is now; what SSUServer keeps is the endpoint of the session.
AddFound(c, s, endpoint) ==
  IF ~CanAddIntroducer(c.m_RouterInfo, s.tag) THEN c
  ELSE [UpdateRouterInfo(c, AddIntroducer(c.m_RouterInfo, endpoint, s.tag)) EXCEPT
          !.m_Introducers = Append(@, s.endpoint), !.moved = @ \/ endpoint # s.endpoint]

\* A router without an SSU address over IPv4 is not added.
NewIntroducer(c) ==
  {c} \cup {AddFound(c, x[1], x[2]) : x \in
    {y \in c.sessions \X RCEndpoints :
       y[1].young /\ Len(c.m_Introducers) < SSU_MAX_NUM_INTRODUCERS}}

\* The timer is not armed again once the status is OK.
HandleIntroducersUpdateTimer ==
  /\ context.running /\ context.timer
  /\ \/ context.m_Status = "Testing" /\ UNCHANGED context
     \/ context.m_Status = "OK" /\ context' = [context EXCEPT !.timer = FALSE]
     \/ /\ context.m_Status = "Firewalled"
        /\ context' \in NewIntroducer(KeepIntroducers(
             IF Is(context.m_RouterInfo, "Unreachable") THEN context ELSE SetUnreachable(context)))

RouterContextNext ==
  \/ \E config \in RCConfigs : StartRouter(config)
  \/ CrashRouter \/ UpdateNTCPV6Address \/ UpdateStats \/ HandleIntroducersUpdateTimer
  \/ \E host \in RCHosts : LearnAddress(host)
  \/ \E status \in {"Testing", "OK", "Firewalled"} : SetStatus(status)
  \/ \E e \in RCEndpoints : SessionMade(e)
  \/ \E s \in context.sessions : SessionAges(s) \/ SessionGone(s)

RouterContextSpec == RouterContextInit /\ [][RouterContextNext]_contextVars
-----------------------------------------------------------------------------
RouterContextTypeOK ==
  /\ context.restarts \in 0 .. RCMaxRestarts /\ context.tags \in 0 .. RCMaxTags
  /\ Range(context.m_Introducers) \subseteq RCEndpoints
  /\ Len(context.m_Introducers) <= SSU_MAX_NUM_INTRODUCERS
  /\ context.running => context.m_RouterInfo.m_Caps \subseteq
       {"Floodfill", "HighBandwidth", "Reachable", "Unreachable", "SSUTesting", "SSUIntroducer"}

\* What is published, and what a restart will read, says what the router believes
\* of itself; only a floodfill is of high bandwidth for others, whatever it is to
\* itself.  No operation changes an address, a capability or an introducer without
\* writing it, and nothing is lost in writing and reading it.
PublishedIsBelieved ==
  LET c  == context
      ri == c.m_RouterInfo
  IN c.running =>
       /\ c.m_Buffer = c.file
       /\ ReadFromStream(c.file).m_Addresses = ri.m_Addresses
       /\ ReadFromStream(c.file).m_Caps =
            ri.m_Caps \cup (IF Is(ri, "Floodfill") THEN {"HighBandwidth"} ELSE {})

\* A router is published either as reachable or as unreachable, and as floodfill
\* exactly if it is meant to be one and is reachable, through tests that fail,
\* restarts with another command line and all that was in the file.
CapsAgree ==
  LET ri == context.m_RouterInfo IN
  context.running =>
    /\ Is(ri, "Reachable") # Is(ri, "Unreachable")
    /\ Is(ri, "Floodfill") = (context.m_IsFloodfill /\ Is(ri, "Reachable"))

\* As long as routers are introducers at the endpoints of their sessions, what is
\* published are the introducers SSUServer keeps alive, one for one, though they
\* are added by tag and removed by endpoint, sessions are made anew with another
\* tag, and SetUnreachable drops them all.  Otherwise an introducer that is gone
\* can stay published, but never are fewer published than kept alive.
IntroducersAgree ==
  LET n == IntroducingAddress(context.m_RouterInfo) IN
  context.running /\ n # 0 =>
    LET q == context.m_RouterInfo.m_Addresses[n].introducers IN
    /\ Len(context.m_Introducers) <= Len(q)
    /\ context.moved \/ context.m_Introducers = [i \in DOMAIN q |-> q[i].endpoint]

\* What the router believes, publishes and saves of itself agrees: addresses,
\* capabilities and introducers.
RouterContextSafe ==
  /\ RouterContextTypeOK
  /\ PublishedIsBelieved
  /\ CapsAgree
  /\ IntroducersAgree
=============================================================================
