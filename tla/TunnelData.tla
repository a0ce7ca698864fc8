----------------------------- MODULE TunnelData -----------------------------
(***************************************************************************)
(* One tunnel, from its gateway to its endpoint.  Inbound: a transit       *)
(* router is the gateway (class TransitTunnelGateway) and an InboundTunnel *)
(* the endpoint.  Outbound: an OutboundTunnel is the gateway and a transit *)
(* router the endpoint (TransitTunnelEndpoint).  The hops in between carry *)
(* tunnel data messages, which may be lost, reordered and doubled.         *)
(***************************************************************************)
EXTENDS TunnelGateway, TunnelEndpoint

CONSTANTS
  MaxBatch,         \* bound: blocks in one call of SendTunnelDataMsg
  Inbound,          \* which kinds of tunnel: a set of Booleans
  MaxDuplicates     \* bound: deliveries that leave a copy behind

ASSUME TunnelBounds ==
  MaxBatch \in Nat \ {0} /\ Inbound \subseteq BOOLEAN /\ MaxDuplicates \in Nat

VARIABLES
  m_Buffer,         \* the gateway's buffer
  m_Endpoint,       \* the endpoint
  net,              \* tunnel data messages on their way, numbered
  given,            \* history: the blocks the gateway was given
  sent,             \* history: number of tunnel data messages sent
  arrived,          \* history: fragments that reached the endpoint
  duplicates        \* history: copies left behind

vars == <<m_Buffer, m_Endpoint, net, given, sent, arrived, duplicates>>

Init ==
  /\ m_Buffer = EmptyBuffer
  /\ m_Endpoint \in {NewEndpoint(i) : i \in Inbound}
  /\ net = {} /\ given = {} /\ sent = 0 /\ arrived = {} /\ duplicates = 0

\* Message IDs are random and do not repeat.
New(b) == \A c \in given : c.msgID # b.msgID

\* TunnelGateway::SendBuffer, for a buffer g.
SendBuffer(g) ==
  LET msgs == CompleteCurrentTunnelDataMessage(g).m_TunnelDataMsgs
  IN /\ net' = net \cup {[n |-> sent + i, frags |-> msgs[i]] : i \in DOMAIN msgs}
     /\ sent' = sent + Len(msgs)
     /\ m_Buffer' = [CompleteCurrentTunnelDataMessage(g)
                       EXCEPT !.m_TunnelDataMsgs = <<>>]

\* The buffer after a batch of blocks.
PutBatch(g, bs) ==
  LET after[i \in 0 .. Len(bs)] == IF i = 0 THEN g ELSE PutI2NPMsg(after[i - 1], bs[i])
  IN after[Len(bs)]

\* Both OutboundTunnel::SendTunnelDataMsg, under m_SendMutex.
SendTunnelDataMsg(bs) ==
  /\ ~m_Endpoint.m_IsInbound
  /\ \A i \in DOMAIN bs : New(bs[i])
  /\ \A i, j \in DOMAIN bs : bs[i].msgID = bs[j].msgID => i = j
  /\ given' = given \cup Range(bs)
  /\ SendBuffer(PutBatch(m_Buffer, bs))
  /\ UNCHANGED <<m_Endpoint, arrived, duplicates>>

\* TransitTunnelGateway::SendTunnelDataMsg only puts.
PutTunnelDataMsg(b) ==
  /\ m_Endpoint.m_IsInbound
  /\ New(b)
  /\ b.type = "Local"
  /\ given' = given \cup {b}
  /\ m_Buffer' = PutI2NPMsg(m_Buffer, b)
  /\ UNCHANGED <<m_Endpoint, net, sent, arrived, duplicates>>

FlushTunnelDataMsgs ==
  /\ m_Endpoint.m_IsInbound
  /\ SendBuffer(m_Buffer)
  /\ UNCHANGED <<m_Endpoint, given, arrived, duplicates>>

\* HandleTunnelDataMsg of the endpoint's tunnel.
HandleTunnelDataMsg(m) ==
  /\ m_Endpoint' = HandleDecryptedTunnelDataMsg(m_Endpoint, m.frags)
  /\ arrived' = arrived \cup Range(m.frags)
  /\ \/ net' = net \ {m} /\ UNCHANGED duplicates
     \/ /\ duplicates < MaxDuplicates
        /\ duplicates' = duplicates + 1
        /\ UNCHANGED net
  /\ UNCHANGED <<m_Buffer, given, sent>>

Next ==
  \/ \E n \in 1 .. MaxBatch : \E bs \in [1 .. n -> TunnelMessageBlock] :
       SendTunnelDataMsg(bs)
  \/ \E b \in TunnelMessageBlock : PutTunnelDataMsg(b)
  \/ FlushTunnelDataMsgs
  \/ \E m \in net : HandleTunnelDataMsg(m)

Spec == Init /\ [][Next]_vars
-----------------------------------------------------------------------------
\* The gateway's room never goes below zero and both maps of the endpoint
\* hold what their types say.
TypeOK ==
  /\ m_Buffer \in GatewayBuffer
  /\ \A id \in DOMAIN m_Endpoint.m_IncompleteMessages :
       m_Endpoint.m_IncompleteMessages[id] \in TunnelMessageBlockEx
  /\ \A id \in DOMAIN m_Endpoint.m_OutOfSequenceFragments :
       m_Endpoint.m_OutOfSequenceFragments[id] \in Fragment
  /\ \A m \in net : m.frags \in Seq(Fragment)

\* The ranges of data follow each other from byte 0 to byte len.
Tiles(data, len) ==
  /\ data[1].off = 0
  /\ \A i \in 1 .. Len(data) - 1 : data[i + 1].off = data[i].off + data[i].size
  /\ data[Len(data)].off + data[Len(data)].size = len

\* What PutI2NPMsg takes in a tunnel data message for a fragment.
Space(f) == f.size + (IF f.num > 0 THEN FollowOnInstructions
                      ELSE DeliveryInstructions(f.type) +
                             (IF f.last THEN 2 ELSE FragmentInstructions))

Used(frags) ==
  LET used[i \in 0 .. Len(frags)] == IF i = 0 THEN 0 ELSE used[i - 1] + Space(frags[i])
  IN used[Len(frags)]

\* No tunnel data message holds more than TUNNEL_DATA_MAX_PAYLOAD_SIZE, and
\* m_RemainingSize is exactly what is left in the one being filled.
PayloadFits ==
  /\ \A m \in net : Used(m.frags) <= TUNNEL_DATA_MAX_PAYLOAD_SIZE
  /\ m_Buffer.open => Used(m_Buffer.current) + m_Buffer.m_RemainingSize
                        = TUNNEL_DATA_MAX_PAYLOAD_SIZE

\* Whatever the hops lose, reorder or double, a message the endpoint hands
\* on is one the gateway was given, all of its bytes in order.
HandedIntact ==
  \A i \in DOMAIN m_Endpoint.handed :
    LET h == m_Endpoint.handed[i]
    IN \E b \in given : /\ b.msgID = h.msgID /\ b.type = h.type
                        /\ Tiles(h.data, b.len)

\* The fragments of b that were put in a tunnel data message.
Fragments(b) ==
  {f \in arrived \cup UNION {Range(m.frags) : m \in net} : f.msgID = b.msgID}

\* Small enough for the check of HandleFollowOnFragment, all sent, and at most
\* one follow-on fragment, which is all that is saved for it.
Acceptable(b) ==
  /\ b.msgID # 0 /\ b.len + TunnelDataEnd < I2NP_MAX_MESSAGE_SIZE
  /\ \A f \in Fragments(b) : f.num <= 1
  /\ \E f \in Fragments(b) : f.last

\* When all that was sent has arrived, once, in whatever order, every message
\* whose fragments were sent has been handed on, and none twice.
AllHanded ==
  (net = {} /\ ~m_Buffer.open /\ m_Buffer.m_TunnelDataMsgs = <<>> /\ duplicates = 0) =>
    \A b \in {c \in given : Acceptable(c)} :
      \E i \in DOMAIN m_Endpoint.handed :
        /\ m_Endpoint.handed[i].msgID = b.msgID
        /\ \A j \in DOMAIN m_Endpoint.handed :
             m_Endpoint.handed[j].msgID = b.msgID => i = j

\* Comments of PutI2NPMsg: a message that does not fit is a "first fragment"
\* and "follow on fragments".  Behind a first fragment that is not the last
\* the gateway sends the rest of the message.
FirstFragmentHasFollowOn ==
  LET all == arrived \cup UNION {Range(m.frags) : m \in net}
  IN \A f \in all : (f.num = 0 /\ ~f.last /\ ~m_Buffer.open) =>
       \E g \in all : g.msgID = f.msgID /\ g.num > 0 /\ g.last

\* No tunnel data message is overrun, nothing but whole messages are handed on at
\* the end of the tunnel, and all that arrived completely are.
TunnelDataSafe ==
  /\ TypeOK
  /\ PayloadFits
  /\ HandedIntact
  /\ AllHanded
=============================================================================
