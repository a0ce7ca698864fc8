---------------------------- MODULE MCStreaming ----------------------------
(***************************************************************************)
(* Small instances of Streaming for TLC.                                   *)
(***************************************************************************)
EXTENDS Streaming, SequencesExt

\* The streams nobody reads are interchangeable: none is special before a SYN
\* creates it.
IncomingSymmetry == Permutations(Incoming \ Readers)

\* A server whose earlier streams were reset, closed and deleted: what is left of
\* Incoming is one stream that its application reads and closes, or two that
\* nobody reads, the second one made by a resent SYN.
Gone == [NewStream EXCEPT !.m_Status = "Reset", !.closes = MaxCloses]
ServersInit ==
  /\ \E old \in {Readers, Incoming \ Readers} :
       streams = [s \in Streams |-> IF s \in old THEN Gone ELSE NewStream]
  /\ net = {}
  /\ acceptor \in BOOLEAN
ServersSpec == ServersInit /\ [][Next]_vars

Client == CHOOSE s \in Outgoing : TRUE
Server == CHOOSE s \in Incoming : TRUE

\* The units of payload that stream s has processed, in that order.
RECURSIVE Units(_)
Units(r) ==
  IF r = <<>> THEN <<>>
  ELSE [j \in 1 .. Head(r).len |-> Head(r).off + j] \o Units(Tail(r))

Delivered(s) == Units(streams[s].received)

Abstract == INSTANCE ByteStream WITH
  written   <- streams[Client].written,
  delivered <- Delivered(Server),
  owed      <- streams[Client].owed,
  closed    <- streams[Client].m_Status = "Closed"

\* One client stream and one server stream, over a network that loses,
\* reorders and (by retransmission) duplicates, implement the byte stream:
\* ProcessPacket hands over what Send wrote, once and in order, and Close
\* completes only when all of it has been handed over.
ImplementsByteStream == Abstract!Spec
=============================================================================
