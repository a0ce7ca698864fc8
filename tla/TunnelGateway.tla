--------------------------- MODULE TunnelGateway ---------------------------
(***************************************************************************)
(* class TunnelGatewayBuffer (src/src/core/tunnel/TunnelGateway.cpp): it   *)
(* packs I2NP messages into tunnel data messages of one fixed size and     *)
(* splits those that do not fit.  A gateway buffer is a record; current is *)
(* m_CurrentTunnelDataMsg, open says that it is not null.                  *)
(***************************************************************************)
EXTENDS TunnelBase

GatewayBuffer == [open: BOOLEAN, current: Seq(Fragment), m_RemainingSize: Nat,
                  m_TunnelDataMsgs: Seq(Seq(Fragment))]

EmptyBuffer == [open |-> FALSE, current |-> <<>>, m_RemainingSize |-> 0,
                m_TunnelDataMsgs |-> <<>>]

CreateCurrentTunnelDataMessage(g) ==
  [g EXCEPT !.open = TRUE, !.current = <<>>,
            !.m_RemainingSize = TUNNEL_DATA_MAX_PAYLOAD_SIZE]

CompleteCurrentTunnelDataMessage(g) ==
  IF ~g.open THEN g
  ELSE [g EXCEPT !.open = FALSE, !.current = <<>>,
                 !.m_TunnelDataMsgs = Append(@, g.current)]

\* The current message gets fragment f, whose instructions and data take len.
Add(g, f, len) ==
  LET added == [g EXCEPT !.current = Append(@, f), !.m_RemainingSize = @ - len]
  IN IF added.m_RemainingSize = 0
     THEN CompleteCurrentTunnelDataMessage(added) ELSE added

FullMsgLen(b) == DeliveryInstructions(b.type) + b.len + 2

\* First and last fragment.
PutWhole(g, b) ==
  Add(g, [msgID |-> b.msgID, num |-> 0, last |-> TRUE, off |-> 0,
          size |-> b.len, type |-> b.type], FullMsgLen(b))

FirstSize(g, b) ==
  g.m_RemainingSize - DeliveryInstructions(b.type) - FragmentInstructions

FollowOnSize == TUNNEL_DATA_MAX_PAYLOAD_SIZE - FollowOnInstructions

\* The follow-on fragment number i of b, whose first fragment has first bytes.
FollowOn(b, first, i) ==
  LET off  == first + (i - 1) * FollowOnSize
      left == b.len - off
  IN [msgID |-> b.msgID, num |-> i, last |-> left <= FollowOnSize, off |-> off,
      size |-> IF left > FollowOnSize THEN FollowOnSize ELSE left,
      type |-> b.type]

NumFollowOn(b, first) ==
  IF first >= b.len THEN 0 ELSE (b.len - first - 1) \div FollowOnSize + 1

\* The first fragment fills the current message; every follow-on fragment
\* but the last fills a message of its own.
PutFragments(g, b) ==
  LET first == FirstSize(g, b)
      num   == NumFollowOn(b, first)
      head  == [msgID |-> b.msgID, num |-> 0, last |-> FALSE, off |-> 0,
                size |-> first, type |-> b.type]
      g1    == CompleteCurrentTunnelDataMessage(
                 [g EXCEPT !.current = Append(@, head)])
      g2    == [g1 EXCEPT !.m_TunnelDataMsgs =
                  @ \o [i \in 1 .. num - 1 |-> <<FollowOn(b, first, i)>>]]
      tail  == FollowOn(b, first, num)
  IN IF num = 0 THEN g1
     ELSE Add(CreateCurrentTunnelDataMessage(g2), tail,
              tail.size + FollowOnInstructions)

\* The current message is not worth starting this one in.
CompletePrevious(g, b) ==
  LET numFollowOnFragments == FullMsgLen(b) \div TUNNEL_DATA_MAX_PAYLOAD_SIZE
      nonFit == (FullMsgLen(b) + numFollowOnFragments * 7)
                  % TUNNEL_DATA_MAX_PAYLOAD_SIZE
  IN nonFit = 0 \/ nonFit > g.m_RemainingSize

\* PutI2NPMsg with a message that was just created.
PutInFresh(g, b) ==
  LET fresh == CreateCurrentTunnelDataMessage(g)
  IN IF FullMsgLen(b) <= fresh.m_RemainingSize
     THEN PutWhole(fresh, b) ELSE PutFragments(fresh, b)

PutI2NPMsg(g, b) ==
  LET next == IF CompletePrevious(g, b)
              THEN CreateCurrentTunnelDataMessage(
                     CompleteCurrentTunnelDataMessage(g))
              ELSE g
  IN IF ~g.open THEN PutInFresh(g, b)
     ELSE IF FullMsgLen(b) <= g.m_RemainingSize THEN PutWhole(g, b)
     ELSE IF DeliveryInstructions(b.type) + FragmentInstructions
               <= next.m_RemainingSize
          THEN PutFragments(next, b)
          ELSE PutInFresh(CompleteCurrentTunnelDataMessage(next), b)
=============================================================================
