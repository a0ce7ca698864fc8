----------------------------- MODULE Streaming -----------------------------
(***************************************************************************)
(* Two StreamingDestinations (src/src/api/Streaming.cpp), a client that    *)
(* opens the streams Outgoing and a server that accepts the streams        *)
(* Incoming, and the packets between them.  Packets may be lost, delayed   *)
(* and reordered; a retransmitted packet may arrive twice.  Everything a   *)
(* destination does runs on its one io_service thread, one handler at a    *)
(* time; only Send writes m_SendBuffer from the application's thread.      *)
(***************************************************************************)
EXTENDS Stream

VARIABLES
  streams,    \* stream ID -> Stream
  net,        \* packets in flight; one that is never delivered is lost
  acceptor    \* StreamingDestination::m_Acceptor of the server is set

vars == <<streams, net, acceptor>>

Init ==
  /\ streams = [s \in Streams |-> NewStream]
  /\ net = {}
  /\ acceptor \in BOOLEAN

\* Stream s becomes st, and what it sent in this step enters the network.
Update(s, st, arrived) ==
  /\ streams' = [streams EXCEPT ![s] = [st EXCEPT !.out = {}]]
  /\ net' = (net \ arrived) \cup st.out

Exists(s) == streams[s].m_Status # "None"
-----------------------------------------------------------------------------
(***************************************************************************)
(* The application.                                                        *)
(***************************************************************************)
CreateNewOutgoingStream(s) ==
  /\ s \in Outgoing
  /\ ~Exists(s)
  /\ Update(s, [NewStream EXCEPT !.m_Status = "New", !.registered = TRUE], {})
  /\ UNCHANGED acceptor

\* The write clears eof; the posted SendBuffer runs later.
Write(st, n) ==
  [st EXCEPT !.written = @ + n, !.eof = @ /\ n = 0, !.posted = @ + 1]

CanWrite(s, n) ==
  /\ Exists(s)
  /\ streams[s].posted < MaxPending
  /\ streams[s].written + n <= MaxWritten

Send(s, n) ==
  /\ s \in Writers
  /\ CanWrite(s, n)
  /\ Update(s, Write(streams[s], n), {})
  /\ UNCHANGED acceptor

\* A second handler is called with in_progress at once; its data is sent.
AsyncSend(s, n) ==
  /\ s \in AsyncWriters
  /\ CanWrite(s, n)
  /\ Update(s, [Write(streams[s], n) EXCEPT !.m_SendHandler = TRUE], {})
  /\ UNCHANGED acceptor

AppClose(s) ==
  /\ s \in Closers
  /\ Exists(s)
  /\ streams[s].closes < MaxCloses
  /\ Update(s, [Close(s, streams[s]) EXCEPT
                  !.closes = @ + 1,
                  !.owed = IF streams[s].closes = 0 THEN streams[s].written ELSE @],
            {})
  /\ UNCHANGED acceptor

\* The caller's buffer takes some packets of m_ReceiveQueue to their end; a
\* small one takes a part of the first, which then stays in the queue.
ConcatenatePackets(st) == {[st EXCEPT !.queued = n] : n \in 0 .. st.queued}

\* ReadSome does not wait.
ReadSome(s) ==
  /\ s \in Readers
  /\ streams[s].queued > 0
  /\ \E st \in ConcatenatePackets(streams[s]) : Update(s, st, {})
  /\ UNCHANGED acceptor

\* AsyncReceive, when its posted lambda runs.  With data, or after a reset,
\* it calls HandleReceiveTimer directly.
AsyncReceive(s) ==
  /\ s \in Readers
  /\ Exists(s)
  /\ streams[s].reader = "none"
  /\ IF streams[s].queued > 0 \/ streams[s].m_Status = "Reset"
     THEN \E st \in ConcatenatePackets(streams[s]) : Update(s, st, {})
     ELSE Update(s, [streams[s] EXCEPT !.reader = "waiting"], {})
  /\ UNCHANGED acceptor

\* Stream::Cancel
Cancel(s) ==
  /\ s \in Readers
  /\ streams[s].reader = "waiting"
  /\ Update(s, CancelReceiveTimer(streams[s]), {})
  /\ UNCHANGED acceptor

ReceiveTimerExpires(s) ==
  /\ streams[s].reader = "waiting"
  /\ Update(s, [streams[s] EXCEPT !.reader = "expired"], {})
  /\ UNCHANGED acceptor

\* The application's handler gets data if there is some, else an error.
HandleReceiveTimer(s) ==
  /\ streams[s].reader \in {"aborted", "expired"}
  /\ \E st \in ConcatenatePackets([streams[s] EXCEPT !.reader = "none"]) :
       Update(s, st, {})
  /\ UNCHANGED acceptor
-----------------------------------------------------------------------------
(***************************************************************************)
(* What the io_service runs: posted calls and timer handlers.              *)
(***************************************************************************)
RunSendBuffer(s) ==
  /\ streams[s].posted > 0
  /\ Update(s, SendBuffer(s, [streams[s] EXCEPT !.posted = @ - 1]), {})
  /\ UNCHANGED acceptor

\* SendPacket, posted by SendClose.
SendPacket(st, p) ==
  LET st1 == IF st.m_IsAckSendScheduled
             THEN [CancelAckSendTimer(st) EXCEPT !.m_IsAckSendScheduled = FALSE]
             ELSE st
      st2 == SendPackets(st1, {p})
  IN IF st.m_Status # "Open" THEN st2
     ELSE [st2 EXCEPT !.m_SentPackets = @ \cup {p},
                      !.resendWait = @ \/ st.m_SentPackets = {}]

RunSendPacket(s) ==
  /\ \E p \in streams[s].fins :
       /\ \A q \in streams[s].fins : p.seqn <= q.seqn      \* posted first
       /\ Update(s, SendPacket([streams[s] EXCEPT !.fins = @ \ {p}], p), {})
  /\ UNCHANGED acceptor

ResendTimerExpires(s) ==
  /\ streams[s].resendWait
  /\ streams[s].resendFired < MaxPending
  /\ Update(s, [streams[s] EXCEPT !.resendWait = FALSE, !.resendFired = @ + 1], {})
  /\ UNCHANGED acceptor

RunResendTimer(s) ==
  /\ streams[s].resendFired > 0
  /\ LET st == [streams[s] EXCEPT !.resendFired = @ - 1]
     IN \E due \in SUBSET st.m_SentPackets :
          Update(s, HandleResendTimer(s, st, due), {})
  /\ UNCHANGED acceptor

AckSendTimerExpires(s) ==
  /\ streams[s].ackWait
  /\ streams[s].ackFired < MaxPending
  /\ Update(s, [streams[s] EXCEPT !.ackWait = FALSE, !.ackFired = @ + 1], {})
  /\ UNCHANGED acceptor

\* The handler does not look at its error code: a cancelled wait runs it too.
RunAckSendTimer(s) ==
  /\ \/ /\ streams[s].ackFired > 0
        /\ Update(s, HandleAckSendTimer(s,
             [streams[s] EXCEPT !.ackFired = @ - 1]), {})
     \/ /\ streams[s].ackAborted > 0
        /\ Update(s, HandleAckSendTimer(s,
             [streams[s] EXCEPT !.ackAborted = @ - 1]), {})
  /\ UNCHANGED acceptor
-----------------------------------------------------------------------------
(***************************************************************************)
(* StreamingDestination::HandleNextPacket, for a packet that arrived.      *)
(***************************************************************************)
Registered(D) == {s \in D : streams[s].registered}

\* Bound: a stream takes a packet when its timer queue has room.
CanTake(s) == streams[s].ackAborted < MaxPending

\* Whether m_LastWindowSizeIncreaseTime is long enough ago, where it matters.
MayGrow(st) == IF st.m_WindowSize < MAX_WINDOW_SIZE THEN BOOLEAN ELSE {FALSE}

ToStream(s, p) ==
  /\ CanTake(s)
  /\ \E grow \in MayGrow(streams[s]) :
       Update(s, HandleNextPacket(s, streams[s], p, grow), {p})

Drop(p) == net' = net \ {p} /\ UNCHANGED streams

DeliverToKnownStream(p) ==
  /\ p \in net
  /\ p.sid # NoStream
  /\ IF p.sid \in Registered(Remote(p.rid)) THEN ToStream(p.sid, p) ELSE Drop(p)
  /\ UNCHANGED acceptor

\* A new incoming stream; without an acceptor it is deleted at once, after
\* it has answered.
DeliverFirstSYN(p) ==
  /\ p \in net
  /\ p.sid = NoStream /\ IsSYN(p) /\ p.seqn = 0
  /\ \E s \in Remote(p.rid) :
       /\ s \in Incoming /\ ~Exists(s)
       /\ LET new == [NewStream EXCEPT !.m_Status = "New", !.registered = TRUE]
              st  == HandleNextPacket(s, new, p, FALSE)
          IN Update(s, [st EXCEPT !.registered = @ /\ acceptor], {p})
  /\ UNCHANGED acceptor

\* A packet sent before its sender knew our stream ID.
DeliverByReceiveStreamID(p) ==
  /\ p \in net
  /\ p.sid = NoStream /\ ~(IsSYN(p) /\ p.seqn = 0)
  /\ LET known == {s \in Registered(Remote(p.rid)) :
                     streams[s].m_SendStreamID = p.rid}
     IN IF known = {} THEN Drop(p) ELSE \E s \in known : ToStream(s, p)
  /\ UNCHANGED acceptor

SetAcceptor ==
  /\ ~acceptor
  /\ acceptor' = TRUE
  /\ UNCHANGED <<streams, net>>

\* StreamingDestination::Stop of the client or of the server.
Stop(D) ==
  /\ D \subseteq Stoppable
  /\ streams' = [s \in Streams |->
       IF s \in D THEN [streams[s] EXCEPT !.registered = FALSE] ELSE streams[s]]
  /\ acceptor' = (acceptor /\ D # Incoming)
  /\ UNCHANGED net

Next ==
  \/ \E s \in Streams :
       \/ CreateNewOutgoingStream(s)
       \/ \E n \in SendSizes : Send(s, n) \/ AsyncSend(s, n)
       \/ AppClose(s)
       \/ ReadSome(s) \/ AsyncReceive(s) \/ Cancel(s)
       \/ ReceiveTimerExpires(s) \/ HandleReceiveTimer(s)
       \/ RunSendBuffer(s) \/ RunSendPacket(s)
       \/ ResendTimerExpires(s) \/ RunResendTimer(s)
       \/ AckSendTimerExpires(s) \/ RunAckSendTimer(s)
  \/ \E p \in net :
       \/ DeliverToKnownStream(p)
       \/ DeliverFirstSYN(p)
       \/ DeliverByReceiveStreamID(p)
  \/ SetAcceptor
  \/ \E D \in {Outgoing, Incoming} : Stop(D)

Spec == Init /\ [][Next]_vars

\* The timer found every unacknowledged packet older than m_RTO.
ResendAll(s) ==
  /\ streams[s].resendFired > 0
  /\ Update(s, HandleResendTimer(s, [streams[s] EXCEPT !.resendFired = @ - 1],
                                 streams[s].m_SentPackets), {})
  /\ UNCHANGED acceptor
-----------------------------------------------------------------------------
\* The shape of the state: window, counters and packets keep their types.
TypeOK ==
  /\ streams \in [Streams -> StreamRecord]
  /\ net \subseteq Packet
  /\ acceptor \in BOOLEAN

\* HandleNextPacket drains m_SavedPackets whenever it processes a packet: a
\* saved packet always waits behind a gap, also after a SYN has set
\* m_LastReceivedSequenceNumber back, so none is stranded.
SavedBeyondGap ==
  \A s \in Streams : \A p \in streams[s].m_SavedPackets :
    p.seqn > streams[s].m_LastReceivedSequenceNumber + 1

\* Unacknowledged packets of a stream that is open or closing always have a
\* resend ahead of them: a wait on m_ResendTimer or its queued handler,
\* whatever the order of acks, cancels, late handlers and new sends.
UnackedWillBeResent ==
  \A s \in Streams :
    (/\ streams[s].m_SentPackets # {}
     /\ streams[s].m_Status \in {"Open", "Closing"}) =>
      (streams[s].resendWait \/ streams[s].resendFired > 0)

\* When one side writes, the packets missing below a saved one were in its
\* window together (only the FIN of a reset goes beyond it), so the NACKs of
\* SendQuickAck fit their one-byte count: its branch for 256 is not reached.
NacksFit ==
  \A s \in Streams : \A p \in streams[s].m_SavedPackets :
    Cardinality(Missing(streams[s], p.seqn)) <= MAX_WINDOW_SIZE

\* A reader never sleeps on m_ReceiveTimer while data is queued for it or
\* the stream is reset.
NoLostWakeup ==
  \A s \in Streams :
    streams[s].reader = "waiting" =>
      (streams[s].queued = 0 /\ streams[s].m_Status # "Reset")

\* A send handler that was accepted will be called: a SendBuffer is posted,
\* or packets are in flight whose ack or failure leads to the call.
SendHandlerNotStranded ==
  \A s \in Streams :
    (streams[s].m_SendHandler /\ streams[s].m_Status # "Reset") =>
      (streams[s].posted > 0 \/ streams[s].m_SentPackets # {})

\* SendBuffer and SendClose draw from one counter: a sequence number of a
\* stream never names two different packets, resent or in flight.
SequenceNumberNamesOnePacket ==
  LET all == net \cup UNION {streams[s].m_SentPackets \cup streams[s].fins :
                               s \in Streams}
  IN \A p, q \in {r \in all : ~IsPlainAck(r)} :
       (p.rid = q.rid /\ p.seqn = q.seqn) =>
         (p.off = q.off /\ p.len = q.len /\ p.flags = q.flags)

\* The payloads processed are consecutive ranges from the first unit on.
InOrder(r) ==
  /\ Len(r) > 0 => r[1].off = 0
  /\ \A i \in 1 .. Len(r) - 1 : r[i + 1].off = r[i].off + r[i].len

\* HandleNextPacket does not look at the receive stream ID: two streams that a
\* resent SYN made at the peer send to one.
OnePeer(s) ==
  \A v, w \in Incoming :
    streams[v].m_SendStreamID = s /\ streams[w].m_SendStreamID = s => v = w

\* As long as one stream of the peer sends to it and it has processed one SYN,
\* what a stream hands to its reader is a prefix of what the peer wrote: nothing
\* lost, doubled or reordered, also across a close that is not the last packet.
DeliveredInOrder ==
  \A s \in Streams :
    OnePeer(s) /\ streams[s].syns <= 1 => InOrder(streams[s].received)

\* A packet leaves m_SentPackets, and is never sent again, only when some
\* stream of the peer holds it, or the peer was reset and takes nothing more.
AckedWasReceived ==
  \A s \in Streams : \A q \in streams[s].acked :
    \E r \in Remote(s) : q \in streams[r].seen \/ streams[r].m_Status = "Reset"

\* A sender is never stuck: whatever the network loses, its packets are
\* acknowledged in the end or MAX_NUM_RESEND_ATTEMPTS resets the stream.
AckedOrReset ==
  \A s \in Streams :
    streams[s].m_SentPackets # {} ~>
      (streams[s].m_SentPackets = {} \/ streams[s].m_Status = "Reset")

\* Close ends: a closing stream becomes Closed, or Reset when the peer does
\* not answer, and does not begin to close again.
CloseTerminates == <>[](\A s \in Streams : streams[s].m_Status # "Closing")

\* Nothing is posted for the stream and no handler of m_AckSendTimer is to come.
IsQuiet(st) ==
  /\ st.posted = 0 /\ st.fins = {}
  /\ ~st.ackWait /\ st.ackFired = 0 /\ st.ackAborted = 0

\* DeleteStream and Stop take a stream out of m_Streams, but what is posted and
\* its timer handlers still run, and post, send and arm timers again.  When the
\* application makes no more calls that comes to an end, and with it the last
\* reference to the stream.  One thing does not: HandleResendTimer arms its
\* timer again also when m_SentPackets is empty, so that a stream whose last
\* packet is acknowledged, and which is closed, while the handler is queued has
\* it run for ever.
DeletedComesToRest ==
  <>[](\A s \in Streams :
         Exists(s) /\ ~streams[s].registered =>
           /\ IsQuiet(streams[s])
           /\ (streams[s].resendWait \/ streams[s].resendFired > 0) =>
                streams[s].m_SentPackets = {})
=============================================================================
