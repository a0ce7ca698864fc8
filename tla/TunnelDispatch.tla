--------------------------- MODULE TunnelDispatch ---------------------------
(***************************************************************************)
(* From the transport sessions to the next hop: I2NPMessagesHandler and    *)
(* HandleI2NPMessage (I2NPProtocol.cpp) sort the messages of a packet, the *)
(* thread of the tunnels (Tunnels::Run) takes them from one queue and      *)
(* gives them to transit tunnels, which collect what they pass on until    *)
(* they are flushed.                                                       *)
(*                                                                         *)
(* Run remembers the tunnel of the previous message and flushes it when a  *)
(* message for another tunnel comes or the queue is empty.  A build        *)
(* message makes it forget the tunnel without a flush: what was collected  *)
(* then waits for the next message to that tunnel.                         *)
(***************************************************************************)
EXTENDS Integers, Sequences, FiniteSets, SequencesExt

CONSTANTS TDSessions,      \* transport sessions
          TDTunnels,       \* IDs of transit tunnels
          TDNone,          \* no tunnel
          TDCases          \* packets the sessions receive, expirations

TDMessages == [from : TDSessions, seq : Nat, kind : STRING,
               tunnel : TDTunnels \cup {TDNone}, database : BOOLEAN]

\* A session numbers the messages it receives (seq) as they come: nothing else
\* is assumed of the packets.
ASSUME TunnelDispatchAssumption ==
  /\ TDNone \notin TDTunnels
  /\ \A c \in TDCases :
       /\ c.tunnels \subseteq TDTunnels
       /\ c.packets \in [TDSessions -> Seq(Seq(TDMessages))]
       /\ \A s \in TDSessions : \A k, l \in DOMAIN c.packets[s] :
            \A i \in DOMAIN c.packets[s][k], j \in DOMAIN c.packets[s][l] :
              /\ c.packets[s][k][i].from = s
              /\ k < l \/ (k = l /\ i < j) => c.packets[s][k][i].seq < c.packets[s][l][j].seq

VARIABLE dispatch

dispatchVars == <<dispatch>>

NoBatch == [running |-> FALSE, tunnelID |-> TDNone, prevID |-> TDNone, prev |-> TDNone]

TunnelDispatchInitWith(c) ==
    dispatch = [case |-> c, next |-> [s \in TDSessions |-> 1],
                queue |-> <<>>, netdb |-> <<>>, local |-> <<>>,
                tunnels |-> c.tunnels, batch |-> NoBatch,
                collected |-> [t \in TDTunnels |-> <<>>],
                sent |-> [t \in TDTunnels |-> <<>>],
                behindBuild |-> {}]

TunnelDispatchInit == \E c \in TDCases : TunnelDispatchInitWith(c)

(***************************************************************************)
(* The sessions                                                            *)
(***************************************************************************)
OfKind(msgs, kinds) ==
    LET among[n \in 0 .. Len(msgs)] ==
          IF n = 0 THEN <<>>
          ELSE IF msgs[n].kind \in kinds THEN Append(among[n - 1], msgs[n]) ELSE among[n - 1]
    IN among[Len(msgs)]

\* PutNextMessage for every message of a packet, then Flush: what is not
\* tunnel data or for a gateway is handled at once, then the tunnel data are
\* posted together, then the messages for gateways.
ReceivePacket(s) ==
    /\ dispatch.next[s] <= Len(dispatch.case.packets[s])
    /\ LET msgs == dispatch.case.packets[s][dispatch.next[s]]
       IN dispatch' = [dispatch EXCEPT
             !.next[s] = @ + 1,
             !.netdb = @ \o OfKind(msgs, {"Database"}),
             !.local = @ \o OfKind(msgs, {"Garlic", "DeliveryStatus"}),
             !.queue = @ \o OfKind(msgs, {"Build"}) \o OfKind(msgs, {"Data"})
                         \o OfKind(msgs, {"Gateway"})]

(***************************************************************************)
(* Tunnels::Run                                                            *)
(***************************************************************************)
\* Mutant: what was flushed stays collected.
FlushKeeps(d, t) ==
    IF t = TDNone THEN d
    ELSE [d EXCEPT !.sent[t] = @ \o d.collected[t], !.behindBuild = @ \ {t}]

\* FlushTunnelDataMsgs of a participant or gateway.
FlushTransitMsgs(d, t) ==
    IF t = TDNone THEN d
    ELSE [d EXCEPT !.sent[t] = @ \o d.collected[t], !.collected[t] = <<>>,
                   !.behindBuild = @ \ {t}]

\* A message for a tunnel: the previous one is flushed if it is another, and
\* the tunnel of the previous message used again if it is the same.
HandleTunnelMsg(d, m) ==
    LET known == IF m.tunnel \in d.tunnels THEN m.tunnel ELSE TDNone
        tunnel == IF m.tunnel = d.batch.prevID /\ d.batch.prev # TDNone
                  THEN d.batch.prev ELSE known
        flushed == IF m.tunnel = d.batch.prevID THEN d
                   ELSE FlushTransitMsgs(d, d.batch.prev)
        handled == IF tunnel = TDNone THEN flushed
                   ELSE [flushed EXCEPT !.collected[tunnel] = Append(@, m)]
        \* HandleTunnelGatewayMsg also shows database messages to the netDb
        shown == IF m.kind = "Gateway" /\ m.database /\ tunnel # TDNone
                 THEN [handled EXCEPT !.netdb = Append(@, m)] ELSE handled
    IN [shown EXCEPT !.batch.tunnelID = m.tunnel, !.batch.tunnel = tunnel]

\* A build message: a transit tunnel may be added; no tunnel is flushed.
HandleBuildMsg(d, m) ==
    [d EXCEPT !.tunnels = @ \cup ({m.tunnel} \ {TDNone}), !.batch.tunnel = TDNone,
              !.behindBuild = @ \cup {t \in {d.batch.prev} \ {TDNone} : d.collected[t] # <<>>}]

\* The queue is empty: the loop ends with a flush of the last tunnel.
EndBatch(d) == [FlushTransitMsgs(d, d.batch.tunnel) EXCEPT !.batch = NoBatch]

\* One round of the loop, up to the next m_Queue.Get.
RunStep ==
    /\ dispatch.queue # <<>>
    /\ LET m == Head(dispatch.queue)
           d == [dispatch EXCEPT
                   !.queue = Tail(@),
                   !.batch = [running |-> TRUE, tunnelID |-> @.tunnelID, prevID |-> @.prevID,
                              prev |-> @.prev, tunnel |-> TDNone]]
           h == IF m.kind = "Build" THEN HandleBuildMsg(d, m) ELSE HandleTunnelMsg(d, m)
       IN dispatch' = IF Tail(dispatch.queue) = <<>> THEN EndBatch(h)
                      ELSE [h EXCEPT !.batch = [running |-> TRUE, tunnelID |-> h.batch.tunnelID,
                                                prevID |-> h.batch.tunnelID,
                                                prev |-> h.batch.tunnel]]

\* ManageTransitTunnels, between two batches: an expired tunnel is deleted
\* with what it collected.
ExpireTransitTunnel(t) ==
    /\ ~dispatch.batch.running
    /\ t \in dispatch.tunnels \cap dispatch.case.expiring
    /\ dispatch' = [dispatch EXCEPT !.tunnels = @ \ {t}, !.collected[t] = <<>>,
                                    !.behindBuild = @ \ {t}]

TunnelDispatchNext ==
    \/ \E s \in TDSessions : ReceivePacket(s)
    \/ RunStep
    \/ \E t \in TDTunnels : ExpireTransitTunnel(t)

TunnelDispatchSpec == TunnelDispatchInit /\ [][TunnelDispatchNext]_dispatchVars

(***************************************************************************)
(* Properties                                                              *)
(***************************************************************************)
TunnelDispatchTypeOK ==
    /\ dispatch.tunnels \subseteq TDTunnels
    /\ dispatch.behindBuild \subseteq TDTunnels
    /\ \A s \in TDSessions : dispatch.next[s] \in 1..(Len(dispatch.case.packets[s]) + 1)
    /\ {dispatch.batch.prev, dispatch.batch.prevID} \subseteq TDTunnels \cup {TDNone}

\* What a transit tunnel passes on keeps the order in which each session
\* received it, nothing is passed on twice, and nothing goes out of a tunnel
\* it was not addressed to, whatever sessions and tunnels interleave in the
\* queue and in the batches of Run.
PassedOnInOrder ==
    \A t \in TDTunnels :
       LET out == dispatch.sent[t] \o dispatch.collected[t]
       IN \A i \in DOMAIN out :
             /\ out[i].tunnel = t
             /\ \A j \in 1..(i - 1) :
                  (out[i].from = out[j].from /\ out[i].kind = out[j].kind) => out[j].seq < out[i].seq

\* Between two batches nothing waits in a transit tunnel, except behind a
\* build message that came right after the tunnel's last message.
StrandedOnlyByBuild ==
    ~dispatch.batch.running =>
       \A t \in TDTunnels : dispatch.collected[t] # <<>> => t \in dispatch.behindBuild

\* Transit tunnels pass on in order what they are given, and keep nothing back but
\* what a build message made Run forget.
TunnelDispatchSafe ==
  /\ TunnelDispatchTypeOK
  /\ PassedOnInOrder
  /\ StrandedOnlyByBuild
=============================================================================
