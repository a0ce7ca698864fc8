--------------------------- MODULE TunnelEndpoint ---------------------------
(***************************************************************************)
(* class TunnelEndpoint (src/src/core/tunnel/TunnelEndpoint.cpp): it puts  *)
(* fragments together again and hands on the messages they make.  An       *)
(* endpoint is a record; the two maps are functions whose domains are the  *)
(* message IDs they hold.                                                  *)
(***************************************************************************)
EXTENDS TunnelBase, Functions

\* Where the data of a first fragment ends in its buffer: it is the last
\* fragment of its tunnel data message.
TunnelDataEnd == 2 + 16 + 1028

\* data: the byte ranges in the buffer, in order; len: its end.
TunnelMessageBlockEx ==
  [nextFragmentNum: Nat, data: Seq([off: Nat, size: Nat]), len: Nat,
   type: TunnelDeliveryType]

EmptyMap == [id \in {} |-> 0]

\* m_IsInbound: the end of one of our inbound tunnels, else of a transit
\* tunnel; handed: the messages handed on, in order.
NewEndpoint(isInbound) ==
  [m_IsInbound |-> isInbound, m_IncompleteMessages |-> EmptyMap,
   m_OutOfSequenceFragments |-> EmptyMap, handed |-> <<>>]

Without(map, id) == Restrict(map, DOMAIN map \ {id})
Insert(map, id, v) == [i \in DOMAIN map \cup {id} |-> IF i = id THEN v ELSE map[i]]

Bytes(f) == [off |-> f.off, size |-> f.size]

\* To HandleI2NPMessage, to another tunnel's gateway or to another router; a
\* message for another router is dropped at the end of an inbound tunnel.
HandleNextMessage(e, id, type, data) ==
  IF type = "Router" /\ e.m_IsInbound THEN e
  ELSE [e EXCEPT !.handed = Append(@, [msgID |-> id, type |-> type, data |-> data])]

Concatenate(m, f) == [m EXCEPT !.data = Append(@, Bytes(f)), !.len = @ + f.size]

\* Mutant: the saved fragment's number is not compared.
HandleAnySavedFragment(e, id) ==
  LET m     == e.m_IncompleteMessages[id]
      saved == e.m_OutOfSequenceFragments[id]
      m1    == Concatenate(m, saved)
      rest  == [e EXCEPT !.m_OutOfSequenceFragments = Without(@, id)]
  IN IF id \notin DOMAIN e.m_OutOfSequenceFragments THEN e
     ELSE IF saved.last
     THEN [HandleNextMessage(rest, id, m1.type, m1.data)
             EXCEPT !.m_IncompleteMessages = Without(@, id)]
     ELSE [rest EXCEPT !.m_IncompleteMessages[id] =
             [m1 EXCEPT !.nextFragmentNum = @ + 1]]

HandleOutOfSequenceFragment(e, id) ==
  LET m     == e.m_IncompleteMessages[id]
      saved == e.m_OutOfSequenceFragments[id]
      m1    == Concatenate(m, saved)
      rest  == [e EXCEPT !.m_OutOfSequenceFragments = Without(@, id)]
  IN IF id \notin DOMAIN e.m_OutOfSequenceFragments THEN e
     ELSE IF saved.num # m.nextFragmentNum THEN e
     ELSE IF saved.last
     THEN [HandleNextMessage(rest, id, m1.type, m1.data)
             EXCEPT !.m_IncompleteMessages = Without(@, id)]
     ELSE [rest EXCEPT !.m_IncompleteMessages[id] =
             [m1 EXCEPT !.nextFragmentNum = @ + 1]]

\* One fragment per message is kept; a second one is not inserted.
AddOutOfSequenceFragment(e, f) ==
  IF f.msgID \in DOMAIN e.m_OutOfSequenceFragments THEN e
  ELSE [e EXCEPT !.m_OutOfSequenceFragments = Insert(@, f.msgID, f)]

HandleFollowOnFragment(e, f) ==
  LET id == f.msgID
      m  == e.m_IncompleteMessages[id]
      m1 == Concatenate(m, f)
  IN IF id \notin DOMAIN e.m_IncompleteMessages \/ f.num # m.nextFragmentNum
     THEN AddOutOfSequenceFragment(e, f)                       \* "Saved"
     ELSE IF m1.len >= I2NP_MAX_MESSAGE_SIZE                   \* dropped
     THEN [e EXCEPT !.m_IncompleteMessages = Without(@, id)]
     ELSE IF f.last
     THEN [HandleNextMessage(e, id, m1.type, m1.data)
             EXCEPT !.m_IncompleteMessages = Without(@, id)]
     ELSE HandleOutOfSequenceFragment(
            [e EXCEPT !.m_IncompleteMessages[id] =
               [m1 EXCEPT !.nextFragmentNum = @ + 1]], id)

\* The first fragment of a fragmented message.
HandleFirstFragment(e, f) ==
  IF f.msgID \in DOMAIN e.m_IncompleteMessages THEN e     \* "already exists"
  ELSE HandleOutOfSequenceFragment(
         [e EXCEPT !.m_IncompleteMessages = Insert(@, f.msgID,
            [nextFragmentNum |-> 1, data |-> <<Bytes(f)>>,
             len |-> TunnelDataEnd, type |-> f.type])], f.msgID)

HandleFragment(e, f) ==
  IF f.num = 0 /\ f.last THEN HandleNextMessage(e, f.msgID, f.type, <<Bytes(f)>>)
  ELSE IF f.msgID = 0 THEN e                      \* "msgID is not presented"
  ELSE IF f.num = 0 THEN HandleFirstFragment(e, f)
  ELSE HandleFollowOnFragment(e, f)

\* All fragments of one tunnel data message whose checksum is right.
HandleDecryptedTunnelDataMsg(e, frags) ==
  LET after[i \in 0 .. Len(frags)] ==
        IF i = 0 THEN e ELSE HandleFragment(after[i - 1], frags[i])
  IN after[Len(frags)]
=============================================================================
