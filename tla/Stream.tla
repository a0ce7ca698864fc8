------------------------------- MODULE Stream -------------------------------
(***************************************************************************)
(* class Stream of the streaming library (src/src/api/Streaming.cpp,       *)
(* Streaming.h): its state and what each of its functions does to it.      *)
(* Streaming.tla puts streams, destinations and packets together.          *)
(*                                                                         *)
(* A Stream is a record whose m_* fields are the members of the class.     *)
(* Every function of the class is an operator from the stream before the   *)
(* call to the stream after it, so that an action, which models one whole  *)
(* handler of the destination's io_service, is a composition of them.  The *)
(* field out collects what SendPackets hands to the tunnels in one step.   *)
(*                                                                         *)
(* A boost deadline_timer is three pieces of state: a wait is pending, or  *)
(* its handler is queued because the timer fired, or its handler is queued *)
(* because the wait was cancelled.  A queued handler cannot be taken back. *)
(***************************************************************************)
EXTENDS Integers, FiniteSets, FiniteSetsExt, Sequences

CONSTANTS
  Outgoing,                 \* streams the client side may create
  Incoming,                 \* streams the server side may create (bound)
  NoStream,                 \* stream ID 0: not known yet
  MIN_WINDOW_SIZE, WINDOW_SIZE, MAX_WINDOW_SIZE,
  MAX_NUM_RESEND_ATTEMPTS,
  MaxNacks,                 \* 256, the literal in SendQuickAck
  SeqnRange,                   \* 2^32, the range of a sequence number
  STREAMING_MTU,            \* units of data that fit a follow-on packet
  SYN_MTU,                  \* units of data that fit the first packet
  SendSizes,                \* lengths an application passes to Send
  Writers, AsyncWriters,    \* streams whose application calls Send, AsyncSend
  Readers, Closers,         \* ... calls AsyncReceive, Close
  Stoppable,                \* streams whose destination may be stopped
  MaxWritten,               \* bound: units written on one stream
  MaxCloses,                \* bound: calls of Close per stream
  MaxPending                \* bound: queued handlers per timer

ASSUME StreamIDs ==
  /\ Outgoing \cap Incoming = {}
  /\ NoStream \notin Outgoing \cup Incoming
  /\ Writers \cup AsyncWriters \cup Readers \cup Closers \cup Stoppable
       \subseteq Outgoing \cup Incoming

ASSUME WindowConstants ==
  /\ MIN_WINDOW_SIZE \in Nat \ {0}
  /\ WINDOW_SIZE \in Nat /\ MAX_WINDOW_SIZE \in Nat
  /\ MIN_WINDOW_SIZE <= WINDOW_SIZE /\ WINDOW_SIZE <= MAX_WINDOW_SIZE
  /\ MAX_NUM_RESEND_ATTEMPTS \in Nat

ASSUME SizeConstants ==
  /\ STREAMING_MTU \in Nat \ {0} /\ SYN_MTU \in Nat \ {0}
  /\ SendSizes \subseteq Nat
  /\ MaxNacks \in Nat \ {0} /\ SeqnRange \in Nat \ {0}
  /\ MaxWritten \in Nat /\ MaxCloses \in Nat /\ MaxPending \in Nat

Streams == Outgoing \cup Incoming

\* The set that holds the streams of the other destination.
Remote(s) == IF s \in Outgoing THEN Incoming ELSE Outgoing

\* int32_t stored as, or compared with, a uint32_t.
ToUInt(n) == n % SeqnRange

AtLeast(n, m) == IF n < m THEN m ELSE n
AtMost(n, m) == IF n > m THEN m ELSE n
-----------------------------------------------------------------------------
(***************************************************************************)
(* Packets.  The payload is the range off+1 .. off+len of the units that   *)
(* the application wrote to the stream rid.                                *)
(***************************************************************************)
PacketFlags == {"SYN", "NO_ACK", "CLOSE"}

Packet == [sid: Streams \cup {NoStream}, rid: Streams, seqn: Nat, ack: Nat,
           nacks: SUBSET Nat, flags: SUBSET PacketFlags, off: Nat, len: Nat]

IsSYN(p) == "SYN" \in p.flags
IsNoAck(p) == "NO_ACK" \in p.flags
IsClose(p) == "CLOSE" \in p.flags
IsPlainAck(p) == p.seqn = 0 /\ ~IsSYN(p)
Seqns(P) == {p.seqn : p \in P}

\* A container of the class holds finitely many packets.
FinitePackets == {P \in SUBSET Packet : IsFiniteSet(P)}

StreamStatus == {"None", "New", "Open", "Reset", "Closing", "Closed"}

\* Both constructors; "None" is an object that does not exist yet.
NewStream ==
  [m_Status |-> "None", m_SendStreamID |-> NoStream, m_SequenceNumber |-> 0,
   m_LastReceivedSequenceNumber |-> -1, m_SavedPackets |-> {},
   m_SentPackets |-> {}, m_WindowSize |-> MIN_WINDOW_SIZE,
   m_NumResendAttempts |-> 0, m_IsAckSendScheduled |-> FALSE,
   m_SendHandler |-> FALSE,
   written |-> 0, taken |-> 0, eof |-> FALSE,            \* m_SendBuffer
   ackWait |-> FALSE, ackFired |-> 0, ackAborted |-> 0,  \* m_AckSendTimer
   resendWait |-> FALSE, resendFired |-> 0,              \* m_ResendTimer
   reader |-> "none",                                    \* m_ReceiveTimer
   queued |-> 0,                                         \* m_ReceiveQueue
   posted |-> 0, fins |-> {},                            \* m_Service.post
   registered |-> FALSE,                                 \* in m_Streams
   out |-> {},
   \* history: payloads processed, sequence numbers acknowledged and stored,
   \* SYN packets processed, Close calls of the application, units written
   \* before the first of them
   received |-> <<>>, acked |-> {}, seen |-> {}, syns |-> 0, closes |-> 0,
   owed |-> 0]
StreamRecord ==
  [m_Status: StreamStatus, m_SendStreamID: Streams \cup {NoStream},
   m_SequenceNumber: Nat, m_LastReceivedSequenceNumber: Nat \cup {-1},
   m_SavedPackets: FinitePackets, m_SentPackets: FinitePackets,
   m_WindowSize: MIN_WINDOW_SIZE .. MAX_WINDOW_SIZE, m_NumResendAttempts: Nat,
   m_IsAckSendScheduled: BOOLEAN, m_SendHandler: BOOLEAN,
   written: Nat, taken: Nat, eof: BOOLEAN,
   ackWait: BOOLEAN, ackFired: Nat, ackAborted: Nat,
   resendWait: BOOLEAN, resendFired: Nat,
   reader: {"none", "waiting", "aborted", "expired"}, queued: Nat,
   posted: Nat, fins: FinitePackets, registered: BOOLEAN, out: SUBSET Packet,
   received: Seq([off: Nat, len: Nat]), acked: SUBSET Nat, seen: SUBSET Nat,
   syns: Nat, closes: Nat, owed: Nat]
-----------------------------------------------------------------------------
(***************************************************************************)
(* Timers.                                                                 *)
(***************************************************************************)
CancelAckSendTimer(st) ==
  [st EXCEPT !.ackWait = FALSE,
             !.ackAborted = @ + (IF st.ackWait THEN 1 ELSE 0)]

\* expires_from_now cancels the wait that is pending.
ScheduleAckSend(st) ==
  [CancelAckSendTimer(st) EXCEPT !.m_IsAckSendScheduled = TRUE,
                                 !.ackWait = TRUE]

CancelReceiveTimer(st) ==
  [st EXCEPT !.reader = IF @ = "waiting" THEN "aborted" ELSE @]

\* An aborted resend handler does nothing, so only the wait is kept.
ScheduleResend(st) == [st EXCEPT !.resendWait = TRUE]

\* Mutant: the reader's timer is not cancelled.
TerminateKeepsReader(st) ==
  [CancelAckSendTimer(st) EXCEPT !.resendWait = FALSE, !.m_SendHandler = FALSE]

Terminate(st) ==
  [CancelReceiveTimer(CancelAckSendTimer(st))
     EXCEPT !.resendWait = FALSE, !.m_SendHandler = FALSE]
-----------------------------------------------------------------------------
(***************************************************************************)
(* Closing.                                                                *)
(***************************************************************************)
Fin(s, st, seqn, last) ==
  [sid |-> st.m_SendStreamID, rid |-> s, seqn |-> seqn, ack |-> ToUInt(last),
   nacks |-> {}, flags |-> {"CLOSE"}, off |-> st.taken, len |-> 0]

\* Mutant: the FIN does not use up its sequence number.
SendCloseKeepsNumber(s, st) ==
  [st EXCEPT !.fins = @ \cup {Fin(s, st, st.m_SequenceNumber,
                                  st.m_LastReceivedSequenceNumber)}]

SendClose(s, st) ==
  [st EXCEPT !.m_SequenceNumber = @ + 1,
             !.fins = @ \cup {Fin(s, st, st.m_SequenceNumber,
                                  st.m_LastReceivedSequenceNumber)}]

\* Terminate, then StreamingDestination::DeleteStream.
Shutdown(st) == [Terminate(st) EXCEPT !.registered = FALSE]

\* Mutant: packets that are not acknowledged yet are forgotten.
NothingBuffered(st) == st.eof

NothingToSend(st) == st.m_SentPackets = {} /\ st.eof

Close(s, st) ==
  CASE st.m_Status \in {"Open", "Closing"} /\ NothingToSend(st) ->
         Shutdown(SendClose(s, [st EXCEPT !.m_Status = "Closed"]))
    [] st.m_Status \in {"Open", "Closing"} /\ ~NothingToSend(st) ->
         [st EXCEPT !.m_Status = "Closing"]
    [] st.m_Status = "Reset" -> Shutdown(SendClose(s, st))
    [] st.m_Status = "Closed" -> Shutdown(st)
    [] OTHER -> st                            \* "Unexpected stream status"

Reset(s, st) == Close(s, [st EXCEPT !.m_Status = "Reset"])
-----------------------------------------------------------------------------
(***************************************************************************)
(* Sending.                                                                *)
(***************************************************************************)
\* SendPackets.  Without a lease set, a tunnel or a fresh lease nothing is
\* sent; a packet that is never delivered stands for that too.
SendPackets(st, P) == [st EXCEPT !.out = @ \cup P]

DataPacket(s, st, seqn, flags, off, len) ==
  [sid |-> st.m_SendStreamID, rid |-> s, seqn |-> seqn,
   ack |-> IF st.m_LastReceivedSequenceNumber < 0
           THEN ToUInt(st.m_LastReceivedSequenceNumber) ELSE 0,
   nacks |-> {}, flags |-> flags, off |-> off, len |-> len]

\* What one SendBuffer call reads from m_SendBuffer: the SYN packet takes up
\* to SYN_MTU units, each follow-on packet up to STREAMING_MTU, and a read
\* that asks for more than is left sets eof.
Batch(s, st, room) ==
  LET isNew  == st.m_Status = "New"
      avail  == st.written - st.taken
      synLen == IF isNew THEN AtMost(avail, SYN_MTU) ELSE 0
      synEof == IF isNew THEN avail < SYN_MTU ELSE st.eof
      rest   == avail - synLen
      toEof  == (rest \div STREAMING_MTU) + 1
      numSyn == IF isNew THEN 1 ELSE 0
      numFollowOn == IF st.m_SendStreamID # NoStream /\ ~synEof
                     THEN AtMost(toEof, room - numSyn) ELSE 0
      synFlags == {"SYN"} \cup (IF st.m_LastReceivedSequenceNumber < 0
                                THEN {"NO_ACK"} ELSE {})
  IN [num   |-> numSyn + numFollowOn,
      taken |-> st.taken + synLen + AtMost(rest, numFollowOn * STREAMING_MTU),
      eof   |-> synEof \/ numFollowOn = toEof,
      packets |->
        {DataPacket(s, st, st.m_SequenceNumber, synFlags, st.taken, synLen) :
           i \in 1 .. numSyn}
        \cup
        {DataPacket(s, st, st.m_SequenceNumber + numSyn + i, {},
                    st.taken + synLen + i * STREAMING_MTU,
                    AtMost(STREAMING_MTU, rest - i * STREAMING_MTU)) :
           i \in 0 .. numFollowOn - 1}]

\* A stream that is closing sends its FIN after the last data packet.
SendCloseAtEof(s, st) ==
  IF st.m_Status = "Closing" /\ st.eof THEN SendClose(s, st) ELSE st

\* The rest of SendBuffer, once the batch b is read from m_SendBuffer.
SendBatch(s, st, b) ==
  LET read == [st EXCEPT !.m_Status = IF @ = "New" THEN "Open" ELSE @,
                         !.m_SequenceNumber = @ + b.num,
                         !.taken = b.taken, !.eof = b.eof,
                         !.m_SendHandler = @ /\ ~b.eof]
      sent == SendPackets(
                [CancelAckSendTimer(read)
                   EXCEPT !.m_IsAckSendScheduled = FALSE,
                          !.m_SentPackets = @ \cup b.packets], b.packets)
  IN IF b.packets = {} THEN read
     ELSE IF st.m_SentPackets = {} THEN ScheduleResend(SendCloseAtEof(s, sent))
     ELSE SendCloseAtEof(s, sent)

SendBuffer(s, st) ==
  LET room == st.m_WindowSize - Cardinality(st.m_SentPackets)
  IN IF room <= 0 THEN st                               \* window is full
     ELSE SendBatch(s, st, Batch(s, st, room))

\* Mutant: the first missing packet is left out.
MissingOffByOne(st, seqn) ==
  (st.m_LastReceivedSequenceNumber + 2 .. seqn - 1) \ Seqns(st.m_SavedPackets)

\* Packets missing below seqn, given what is processed and saved.
Missing(st, seqn) ==
  (st.m_LastReceivedSequenceNumber + 1 .. seqn - 1) \ Seqns(st.m_SavedPackets)

QuickAck(s, st, ack, nacks) ==
  [sid |-> st.m_SendStreamID, rid |-> s, seqn |-> 0, ack |-> ack,
   nacks |-> nacks, flags |-> {}, off |-> 0, len |-> 0]

SendQuickAck(s, st) ==
  LET last     == st.m_LastReceivedSequenceNumber
      saved    == Seqns(st.m_SavedPackets)
      tooMany  == {q \in saved : Cardinality(Missing(st, q)) >= MaxNacks}
      nextSeqn == Max({last} \cup
                      {q \in saved : \A t \in tooMany : q < t}) + 1
      through  == Max({last} \cup saved)
      ack      == IF tooMany = {} THEN through ELSE nextSeqn
  IN IF through < 0 THEN st
     ELSE SendPackets(st, {QuickAck(s, st, ack,
            IF tooMany = {} THEN Missing(st, through)
                            ELSE Missing(st, nextSeqn))})
-----------------------------------------------------------------------------
(***************************************************************************)
(* Receiving.                                                              *)
(***************************************************************************)
\* Mutant: the window doubles with each ack and MAX_WINDOW_SIZE is not enforced.
AckWindowUncapped(st, num, grow) == st.m_WindowSize + 2 * num

\* ProcessAck.  grow: enough time has passed for a linear window increase.
AckWindow(st, num, grow) ==
  LET slow == AtMost(num, AtLeast(WINDOW_SIZE - st.m_WindowSize, 0))
  IN AtMost(st.m_WindowSize + slow + (IF num > slow /\ grow THEN 1 ELSE 0),
            MAX_WINDOW_SIZE)

Acked(st, p) ==
  {q \in st.m_SentPackets : q.seqn <= p.ack /\ q.seqn \notin p.nacks}

\* Mutant: any ack cancels the resend timer.
AcknowledgeCancels(st, p, grow) ==
  [st EXCEPT !.m_SentPackets = @ \ Acked(st, p),
             !.m_WindowSize = AckWindow(st, Cardinality(Acked(st, p)), grow),
             !.resendWait = FALSE,
             !.acked = @ \cup Seqns(Acked(st, p))]

\* The loop of ProcessAck and the cancel after it.
Acknowledge(st, p, grow) ==
  LET left == st.m_SentPackets \ Acked(st, p)
  IN [st EXCEPT !.m_SentPackets = left,
                !.m_WindowSize = AckWindow(st, Cardinality(Acked(st, p)), grow),
                !.resendWait = @ /\ left # {},
                !.acked = @ \cup Seqns(Acked(st, p))]

\* Mutant: an ack does not send the rest of m_SendBuffer.
ProcessAckSendsNothing(s, st, p, grow) ==
  LET st1 == [Acknowledge(st, p, grow) EXCEPT !.m_NumResendAttempts = 0]
  IN IF st1.m_Status = "Closing" THEN Close(s, st1) ELSE st1

\* Mutant: the last ack does not complete a close.
ProcessAckNeverCloses(s, st, p, grow) ==
  LET st1 == Acknowledge(st, p, grow)
  IN IF Acked(st, p) = {} THEN st1
     ELSE SendBuffer(s, [st1 EXCEPT !.m_NumResendAttempts = 0])

CloseIfClosing(s, st) == IF st.m_Status = "Closing" THEN Close(s, st) ELSE st

ProcessAck(s, st, p, grow) ==
  LET st1 == Acknowledge(st, p, grow)
  IN CloseIfClosing(s,
       IF Acked(st, p) = {} THEN st1
       ELSE SendBuffer(s, [st1 EXCEPT !.m_NumResendAttempts = 0]))

PacketAt(P, seqn) == CHOOSE p \in P : p.seqn = seqn

\* The payloads of P go to m_ReceiveQueue, and a reader that waits is woken.
QueuePackets(st, P, first, last) ==
  LET queue == [st EXCEPT
        !.received = @ \o [i \in 1 .. last - first + 1 |->
                             [off |-> PacketAt(P, first + i - 1).off,
                              len |-> PacketAt(P, first + i - 1).len]],
        !.queued = @ + Cardinality({p \in P : p.len > 0}),
        !.seen = @ \cup (first .. last),
        !.m_LastReceivedSequenceNumber = last]
  IN IF \E p \in P : p.len > 0 THEN CancelReceiveTimer(queue) ELSE queue

\* Each CLOSE resets the stream, and the Close it calls sends a FIN.
AnswerCloses(s, st, closes) ==
  LET Rank(p) == Cardinality({q \in closes : q.seqn < p.seqn})
  IN [st EXCEPT
        !.m_Status = "Reset",
        !.m_SequenceNumber = @ + Cardinality(closes),
        !.fins = @ \cup {Fin(s, st, st.m_SequenceNumber + Rank(p), p.seqn) :
                           p \in closes}]

\* ProcessPacket for the packets P, in the order of their sequence numbers,
\* which are first .. last.
ProcessPackets(s, st, P, first, last) ==
  LET closes == {p \in P : IsClose(p)}
      queued == QueuePackets(st, P, first, last)
  IN IF closes = {} THEN queued ELSE Shutdown(AnswerCloses(s, queued, closes))

\* Mutant: only one saved packet is tried.
SavedNext(st, seqn) == {p \in st.m_SavedPackets : p.seqn = seqn + 1}

\* The run of saved packets that becomes deliverable after seqn.
SavedRun(st, seqn) ==
  {p \in st.m_SavedPackets :
     /\ p.seqn > seqn
     /\ \A q \in seqn + 1 .. p.seqn : q \in Seqns(st.m_SavedPackets)}

\* An open stream schedules an ack; one that is not, of which the packet was
\* a SYN, answers at once.
AnswerPacket(s, st, p) ==
  IF st.m_Status = "Open"
  THEN IF st.m_IsAckSendScheduled THEN st ELSE ScheduleAckSend(st)
  ELSE IF IsSYN(p) THEN SendBuffer(s, st) ELSE st

NextInSequence(s, st, p) ==
  LET run == SavedRun(st, p.seqn)
  IN AnswerPacket(s,
       ProcessPackets(s,
         [st EXCEPT !.m_SavedPackets = @ \ run,
                    !.syns = @ + (IF IsSYN(p) THEN 1 ELSE 0)],
         {p} \cup run, p.seqn, Max({p.seqn} \cup Seqns(run))), p)

\* m_SavedPackets is ordered by sequence number: a second packet with the
\* same number is not inserted.
SavePacket(st, p) ==
  IF p.seqn \in Seqns(st.m_SavedPackets) THEN st
  ELSE [st EXCEPT !.m_SavedPackets = @ \cup {p}, !.seen = @ \cup {p.seqn}]

OutOfSequence(s, st, p) ==
  IF p.seqn <= st.m_LastReceivedSequenceNumber
  THEN SendQuickAck(s, st)                                \* duplicate
  ELSE LET saved == SavePacket(st, p)
       IN IF st.m_LastReceivedSequenceNumber < 0
          THEN ScheduleAckSend(saved)                     \* wait for SYN
          ELSE SendQuickAck(s,
                 IF st.m_IsAckSendScheduled
                 THEN [CancelAckSendTimer(saved)
                         EXCEPT !.m_IsAckSendScheduled = FALSE]
                 ELSE saved)

\* Mutant: a packet beyond a gap is processed at once.
DispatchAnyLaterPacket(s, st, p) ==
  IF IsPlainAck(p) THEN st
  ELSE IF IsSYN(p) \/ p.seqn > st.m_LastReceivedSequenceNumber
  THEN NextInSequence(s, st, p)
  ELSE OutOfSequence(s, st, p)

\* What HandleNextPacket does with a packet after its ack.
DispatchPacket(s, st, p) ==
  IF IsPlainAck(p) THEN st
  ELSE IF IsSYN(p) \/ p.seqn = st.m_LastReceivedSequenceNumber + 1
  THEN NextInSequence(s, st, p)
  ELSE OutOfSequence(s, st, p)

\* Stream::HandleNextPacket
HandleNextPacket(s, st, p, grow) ==
  LET st1 == [st EXCEPT !.m_SendStreamID = IF @ = NoStream THEN p.rid ELSE @]
  IN DispatchPacket(s,
       IF IsNoAck(p) THEN st1 ELSE ProcessAck(s, st1, p, grow), p)
-----------------------------------------------------------------------------
(***************************************************************************)
(* Timer handlers.                                                         *)
(***************************************************************************)
\* Mutant: resends are not counted.
HandleResendTimerForever(s, st, due) == ScheduleResend(SendPackets(st, due))

\* due: the packets for which ts >= sendTime + m_RTO.
HandleResendTimer(s, st, due) ==
  LET attempts == st.m_NumResendAttempts + 1
  IN IF st.m_NumResendAttempts >= MAX_NUM_RESEND_ATTEMPTS THEN Reset(s, st)
     ELSE IF due = {} THEN ScheduleResend(st)
     ELSE ScheduleResend(SendPackets(
            [st EXCEPT !.m_NumResendAttempts = attempts,
                       !.m_WindowSize = IF attempts = 1
                                        THEN AtLeast(@ \div 2, MIN_WINDOW_SIZE)
                                        ELSE @], due))

\* Mutant: a stream that is not open puts the ack off instead of dropping it.
HandleAckSendTimerLater(s, st) ==
  IF ~st.m_IsAckSendScheduled THEN st
  ELSE IF st.m_LastReceivedSequenceNumber < 0 THEN Reset(s, st)
  ELSE IF st.m_Status = "Open"
  THEN [SendQuickAck(s, st) EXCEPT !.m_IsAckSendScheduled = FALSE]
  ELSE ScheduleAckSend(st)

HandleAckSendTimer(s, st) ==
  IF ~st.m_IsAckSendScheduled THEN st
  ELSE IF st.m_LastReceivedSequenceNumber < 0 THEN Reset(s, st)
  ELSE [(IF st.m_Status = "Open" THEN SendQuickAck(s, st) ELSE st)
          EXCEPT !.m_IsAckSendScheduled = FALSE]
=============================================================================
