------------------------------ MODULE SSUData ------------------------------
(***************************************************************************)
(* Messages over an SSU session (core/transport/SSUData.cpp, SSUData.h):   *)
(* a message is cut into fragments, each fragment is acknowledged, the     *)
(* last one to come in acknowledges the whole message, what is not         *)
(* acknowledged is sent again.                                             *)
(*                                                                         *)
(* Two ends of one session.  The packets sent are a set that only grows:   *)
(* any of them may come in at any time, any number of times, or never.     *)
(* Times are counted down; handlers run within the unit of time in which   *)
(* their timer expires, packets whenever they come.                        *)
(***************************************************************************)
EXTENDS Integers, FiniteSets, Sequences, Functions

CONSTANTS
  SSUEnds,
  SSUMessages,           \* records [id, from, n, type]: n fragments
  SSULoads,              \* records [messages, established]: what is sent, and the
                         \* ends that are established when the behaviour begins
  RESEND_INTERVAL, MAX_NUM_RESENDS,
  MAX_NUM_RECEIVED_MESSAGES, INCOMPLETE_MESSAGES_CLEANUP_TIMEOUT,
  MaxFragmentAck,        \* fragments beyond it are not acknowledged (64)
  AckBits                \* fragments that one byte of an ack bitfield names (7)

ASSUME SSUDataAssumption ==
  /\ \E a, b \in SSUEnds : a # b /\ SSUEnds = {a, b}
  /\ \A l \in SSULoads : l.messages \subseteq SSUMessages /\ l.established \subseteq SSUEnds
  /\ \A m \in SSUMessages : m.from \in SSUEnds /\ m.n \in Nat \ {0}
                            /\ m.type \in {"DeliveryStatus", "DatabaseStore", "Other"}
  /\ RESEND_INTERVAL \in Nat \ {0} /\ MAX_NUM_RESENDS \in Nat
  /\ MAX_NUM_RECEIVED_MESSAGES \in Nat /\ MaxFragmentAck \in Nat /\ AckBits \in Nat \ {0}
  /\ INCOMPLETE_MESSAGES_CLEANUP_TIMEOUT \in Nat \ {0}

Fragments(m) == 0 .. m.n - 1
PeerEnd(e) == CHOOSE f \in SSUEnds : f # e

VARIABLES
  data,       \* per end, see NewSSUData
  ssuNet,     \* packets sent
  completed,  \* history: messages put together, with their fragments, and whether
              \* I2NPMessagesHandler got them
  givenUp     \* history: messages deleted after MAX_NUM_RESENDS at the sender, or
              \* deleted incomplete at the receiver

dataVars == <<data, ssuNet, completed, givenUp>>

\* Per message sent: the fragments not acknowledged, time left until the next
\* resend, number of resends.  Per message incomplete: the fragments attached
\* and saved, time left until it is too old, negative as long as no fragment
\* was saved (lastFragmentInsertTime is 0).
\*
\* m_ResendTimer: time left (0: expired; so is a timer never set), what waits
\* for it and which handlers are queued, to run without an error.  A wait is
\* the resend handler's or, because ScheduleDecay waits on m_ResendTimer, the
\* decay handler's.
NewSSUData(e, load) ==
  [m_SentMessages |-> <<>>, m_IncompleteMessages |-> <<>>,
   m_ReceivedMessages |-> {}, unsent |-> {m \in load.messages : m.from = e},
   expires |-> 0, waits |-> {}, queued |-> {},
   cleanup |-> INCOMPLETE_MESSAGES_CLEANUP_TIMEOUT, established |-> e \in load.established,
   stopped |-> FALSE]

DataInitWith(load) ==
  /\ data = [e \in SSUEnds |-> NewSSUData(e, load)]
  /\ ssuNet = {} /\ completed = {} /\ givenUp = {}
DataInit == \E load \in SSULoads : DataInitWith(load)

Insert(f, m, v) == [x \in DOMAIN f \cup {m} |-> IF x = m THEN v ELSE f[x]]

FragmentPackets(m, fs) == {[kind |-> "fragment", msg |-> m, num |-> f] : f \in fs}
-----------------------------------------------------------------------------
(***************************************************************************)
(* Timers.                                                                 *)
(***************************************************************************)
ScheduleDataResend(d) ==
  [d EXCEPT !.expires = RESEND_INTERVAL, !.waits = {"resend"}]

ScheduleDecay(d) == [d EXCEPT !.waits = @ \cup {"decay"}]

GiveUp(s) == s.numResends >= MAX_NUM_RESENDS

\* Mutant: the timer is armed again only while a message is left to resend.
HandleDataResendTimerOnce(e) ==
  LET d    == data[e]
      due  == {m \in DOMAIN d.m_SentMessages : d.m_SentMessages[m].nextResendTime <= 0}
      left == [d EXCEPT !.queued = @ \ {"resend"}]
  IN /\ "resend" \in d.queued
     /\ data' = [data EXCEPT ![e] = IF due # {} THEN ScheduleDataResend(left) ELSE left]
     /\ UNCHANGED <<ssuNet, completed, givenUp>>

\* Every message that is due is sent again, as far as it is not acknowledged,
\* or given up.  The timer is always armed again.
HandleDataResendTimer(e) ==
  LET d    == data[e]
      due  == {m \in DOMAIN d.m_SentMessages : d.m_SentMessages[m].nextResendTime <= 0}
      over == {m \in due : GiveUp(d.m_SentMessages[m])}
      Resent(s) == [s EXCEPT !.numResends = @ + 1,
                             !.nextResendTime = @ + (s.numResends + 1) * RESEND_INTERVAL]
  IN /\ "resend" \in d.queued
     /\ data' = [data EXCEPT ![e] =
          ScheduleDataResend([d EXCEPT
            !.queued = @ \ {"resend"},
            !.m_SentMessages = [m \in DOMAIN @ \ over |->
                                  IF m \in due THEN Resent(@[m]) ELSE @[m]]])]
     /\ ssuNet' = ssuNet \cup
          UNION {FragmentPackets(m, d.m_SentMessages[m].fragments) : m \in due \ over}
     /\ givenUp' = givenUp \cup over
     /\ UNCHANGED completed

HandleDecayTimer(e) ==
  /\ "decay" \in data[e].queued
  /\ data' = [data EXCEPT ![e].queued = @ \ {"decay"}, ![e].m_ReceivedMessages = {}]
  /\ UNCHANGED <<ssuNet, completed, givenUp>>

\* m_ResendTimer expires: cancel comes too late for its handlers.
ResendTimerExpired(e) ==
  /\ data[e].expires = 0 /\ data[e].waits # {}
  /\ data' = [data EXCEPT ![e].queued = @ \cup data[e].waits, ![e].waits = {}]
  /\ UNCHANGED <<ssuNet, completed, givenUp>>

\* The cleanup timer runs from Start, in Established, to Stop.
Cleaning(d) == d.established /\ ~d.stopped

\* A message none of whose fragments was saved is deleted however young it is.
HandleIncompleteMessagesCleanupTimer(e) ==
  LET d   == data[e]
      old == {m \in DOMAIN d.m_IncompleteMessages : d.m_IncompleteMessages[m].savedUntil < 0}
  IN /\ d.cleanup = 0 /\ Cleaning(d)
     /\ data' = [data EXCEPT
          ![e].cleanup = INCOMPLETE_MESSAGES_CLEANUP_TIMEOUT,
          ![e].m_IncompleteMessages = Restrict(@, DOMAIN @ \ old)]
     /\ givenUp' = givenUp \cup old
     /\ UNCHANGED <<ssuNet, completed>>

\* One end a unit of time later: no message is overdue by more than
\* RESEND_INTERVAL unless its timer is stopped.
Later(d) ==
  LET sent       == d.m_SentMessages
      incomplete == d.m_IncompleteMessages
  IN [d EXCEPT
       !.m_SentMessages = [m \in DOMAIN sent |->
          [sent[m] EXCEPT !.nextResendTime = IF @ < -RESEND_INTERVAL THEN @ ELSE @ - 1]],
       !.m_IncompleteMessages = [m \in DOMAIN incomplete |->
          [incomplete[m] EXCEPT !.savedUntil = IF @ < 0 THEN -1 ELSE @ - 1]],
       !.expires = IF d.expires = 0 THEN 0 ELSE d.expires - 1,
       !.cleanup = IF Cleaning(d) THEN d.cleanup - 1 ELSE d.cleanup]

\* A unit of time passes; what has expired has been handled.
DataTick ==
  /\ \A e \in SSUEnds : /\ data[e].queued = {}
                        /\ data[e].expires = 0 => data[e].waits = {}
                        /\ data[e].cleanup > 0 \/ ~Cleaning(data[e])
  /\ \E e \in SSUEnds : DOMAIN data[e].m_SentMessages # {} \/ DOMAIN data[e].m_IncompleteMessages # {}
  /\ data' = [e \in SSUEnds |-> Later(data[e])]
  /\ UNCHANGED <<ssuNet, completed, givenUp>>

\* Stop, from SSUSession::Close.
StopData(e) ==
  /\ ~data[e].stopped
  /\ data' = [data EXCEPT ![e].waits = {}, ![e].stopped = TRUE]
  /\ UNCHANGED <<ssuNet, completed, givenUp>>
-----------------------------------------------------------------------------
(***************************************************************************)
(* The sender.                                                             *)
(***************************************************************************)
\* PostI2NPMessages sends on an established session only; Established itself
\* sends the DeliveryStatus and the DatabaseStore.
SendMessage(e, m) ==
  LET d == data[e] IN
  /\ m \in d.unsent /\ d.established /\ ~d.stopped
  /\ data' = [data EXCEPT ![e] =
       [(IF DOMAIN d.m_SentMessages = {} THEN ScheduleDataResend(d) ELSE d) EXCEPT
          !.unsent = @ \ {m},
          !.m_SentMessages = Insert(@, m, [fragments |-> Fragments(m), numResends |-> 0,
                                           nextResendTime |-> RESEND_INTERVAL])]]
  /\ ssuNet' = ssuNet \cup FragmentPackets(m, Fragments(m))
  /\ UNCHANGED <<completed, givenUp>>

\* An explicit ack of the whole message.
ProcessSentMessageAck(d, m) ==
  IF m \notin DOMAIN d.m_SentMessages THEN d
  ELSE LET rest == Restrict(d.m_SentMessages, DOMAIN d.m_SentMessages \ {m})
       IN [d EXCEPT !.m_SentMessages = rest,
                    !.waits = IF DOMAIN rest = {} THEN {} ELSE @]

\* An ack bitfield of one fragment.  The bytes before the one with its bit are
\* passed over without counting their fragments, so that from AckBits on the ack
\* of a fragment is taken for that of a lower one.
ProcessFragmentAck(d, m, f) ==
  IF m \notin DOMAIN d.m_SentMessages THEN d
  ELSE [d EXCEPT !.m_SentMessages[m].fragments = @ \ {f % AckBits}]

ProcessAcks(e, p) ==
  /\ p.kind \in {"ack", "fragmentAck"} /\ p.msg.from = e
  /\ data' = [data EXCEPT ![e] = IF p.kind = "ack" THEN ProcessSentMessageAck(@, p.msg)
                                 ELSE ProcessFragmentAck(@, p.msg, p.num)]
  /\ UNCHANGED <<ssuNet, completed, givenUp>>
-----------------------------------------------------------------------------
(***************************************************************************)
(* The receiver.                                                           *)
(***************************************************************************)
\* The saved fragments that follow on number n without a gap, up to a last one.
RunOf(saved, n) == {f \in saved : \A g \in n .. f : g \in saved}

\* The expected fragment f is attached, then the saved ones that follow.
AttachNextFragment(m, inc, f) ==
  LET run == IF f = m.n - 1 THEN {} ELSE RunOf(inc.saved, f + 1)
  IN [inc EXCEPT !.attached = @ \o <<f>> \o [i \in 1 .. Cardinality(run) |-> f + i],
                 !.saved = @ \ run]

\* Mutant: a fragment beyond a gap is dropped, though acknowledged.
HandleExpected(m, inc, f) ==
  IF f = Len(inc.attached) THEN AttachNextFragment(m, inc, f) ELSE inc

HandleFragment(m, inc, f) ==
  IF f = Len(inc.attached) THEN AttachNextFragment(m, inc, f)
  ELSE IF f < Len(inc.attached) \/ f \in inc.saved THEN inc
  ELSE [inc EXCEPT !.saved = @ \cup {f}, !.savedUntil = INCOMPLETE_MESSAGES_CLEANUP_TIMEOUT]

\* isLast at the end of the loop: the last fragment was attached just now.
IsComplete(m, before, after) ==
  Len(after.attached) > Len(before.attached) /\ after.attached[Len(after.attached)] = m.n - 1

FindIncomplete(d, m) ==
  IF m \in DOMAIN d.m_IncompleteMessages THEN d.m_IncompleteMessages[m]
  ELSE [attached |-> <<>>, saved |-> {}, savedUntil |-> -1]

\* A complete message on an established session: handed on once, as long as
\* m_ReceivedMessages remembers it.
ReceiveEstablished(d, m) ==
  IF m \in d.m_ReceivedMessages THEN [state |-> d, put |-> FALSE]
  ELSE IF Cardinality(d.m_ReceivedMessages) > MAX_NUM_RECEIVED_MESSAGES
  THEN [state |-> [d EXCEPT !.m_ReceivedMessages = {m}], put |-> TRUE]
  ELSE [state |-> [ScheduleDecay(d) EXCEPT !.m_ReceivedMessages = @ \cup {m}], put |-> TRUE]

\* Before that: a DeliveryStatus establishes the session (SSUSession::Established
\* starts SSUData), a DatabaseStore is handed on, anything else is dropped.
ReceiveUnestablished(d, m) ==
  CASE m.type = "DeliveryStatus" ->
         [state |-> [d EXCEPT !.established = TRUE,
                              !.cleanup = INCOMPLETE_MESSAGES_CLEANUP_TIMEOUT],
          put |-> FALSE]
    [] m.type = "DatabaseStore" ->
         [state |-> [d EXCEPT !.m_ReceivedMessages = @ \cup {m}], put |-> TRUE]
    [] OTHER -> [state |-> d, put |-> FALSE]

\* ProcessFragments with one fragment, which is what Send puts into a packet.
ProcessFragment(e, p, inc, before) ==
  LET m    == p.msg
      d    == data[e]
      done == IsComplete(m, before, inc)
      kept == [d EXCEPT !.m_IncompleteMessages =
                 IF done THEN Restrict(@, DOMAIN @ \ {m}) ELSE Insert(@, m, inc)]
      r    == IF ~done THEN [state |-> kept, put |-> FALSE]
              ELSE IF d.established THEN ReceiveEstablished(kept, m)
              ELSE ReceiveUnestablished(kept, m)
  IN /\ data' = [data EXCEPT ![e] = r.state]
     /\ completed' = completed \cup
          (IF done THEN {[msg |-> m, fragments |-> inc.attached, put |-> r.put]} ELSE {})
     /\ ssuNet' = ssuNet \cup
          (IF done THEN {[kind |-> "ack", msg |-> m]}
           ELSE IF p.num <= MaxFragmentAck
           THEN {[kind |-> "fragmentAck", msg |-> m, num |-> p.num]} ELSE {})
     /\ UNCHANGED givenUp

ProcessFragments(e, p) ==
  /\ p.kind = "fragment" /\ p.msg.from # e
  /\ \E before \in {FindIncomplete(data[e], p.msg)} :
       ProcessFragment(e, p, HandleFragment(p.msg, before, p.num), before)

\* A packet comes in.  SSUSession keeps a session that was closed only for the
\* rest of a batch; none comes in after that.
ProcessMessage(e) ==
  /\ ~data[e].stopped
  /\ \E p \in ssuNet : ProcessAcks(e, p) \/ ProcessFragments(e, p)
-----------------------------------------------------------------------------
DataNext ==
  \/ DataTick
  \/ \E e \in SSUEnds :
       \/ \E m \in SSUMessages : SendMessage(e, m)
       \/ ProcessMessage(e)
       \/ ResendTimerExpired(e)
       \/ HandleDataResendTimer(e)
       \/ HandleDecayTimer(e)
       \/ HandleIncompleteMessagesCleanupTimer(e)
       \/ StopData(e)

DataSpec == DataInit /\ [][DataNext]_dataVars
-----------------------------------------------------------------------------
DataTypeOK ==
  /\ \A e \in SSUEnds :
       /\ data[e].m_ReceivedMessages \subseteq {m \in SSUMessages : m.from # e}
       /\ data[e].unsent \subseteq {m \in SSUMessages : m.from = e}
       /\ data[e].expires \in 0 .. RESEND_INTERVAL
       /\ data[e].waits \cup data[e].queued \subseteq {"resend", "decay"}
       /\ data[e].cleanup \in 0 .. INCOMPLETE_MESSAGES_CLEANUP_TIMEOUT
       /\ data[e].established \in BOOLEAN /\ data[e].stopped \in BOOLEAN
       /\ \A m \in DOMAIN data[e].m_SentMessages :
            /\ m.from = e
            /\ data[e].m_SentMessages[m].fragments \subseteq Fragments(m)
            /\ data[e].m_SentMessages[m].numResends <= MAX_NUM_RESENDS
       /\ \A m \in DOMAIN data[e].m_IncompleteMessages :
            /\ m.from # e
            /\ data[e].m_IncompleteMessages[m].saved \subseteq Fragments(m)

\* What end f of the session has of message m, while it is incomplete.
Held(f, m) ==
  IF m \notin DOMAIN data[f].m_IncompleteMessages THEN {}
  ELSE LET inc == data[f].m_IncompleteMessages[m]
       IN inc.saved \cup {inc.attached[i] : i \in DOMAIN inc.attached}

\* The sender of a message stops sending a fragment, or all of it, only when the
\* receiver has that fragment or has put the message together: acks that come
\* twice, late or for a message the receiver has begun anew never make up for a
\* fragment that is missing.  The exceptions are messages that one side gave up,
\* and those of more than AckBits fragments, where a fragment beyond the first
\* AckBits may stand in for a lower one that never arrived (ProcessFragmentAck).
AckedFragmentIsKept ==
  \A m \in SSUMessages \ givenUp : \A f \in Fragments(m) :
    \/ FragmentPackets(m, {f}) \cap ssuNet = {}
    \/ m \in DOMAIN data[m.from].m_SentMessages
         /\ f \in data[m.from].m_SentMessages[m].fragments
    \/ \E c \in completed : c.msg = m
    \/ \E g \in Held(PeerEnd(m.from), m) : g % AckBits = f

\* Fragments that come in any order, twice, or again after the message was put
\* together give the message as it was sent: every fragment once, in order.
PutTogetherIntact ==
  \A c \in completed : c.fragments = [i \in 1 .. c.msg.n |-> i - 1]

\* As long as a message waits for its ack, m_ResendTimer runs or its handler is
\* about to: whatever order acks, sends and expiries come in, none is left
\* without the timer that resends it and in the end gives it up.
SentWillBeResent ==
  \A e \in SSUEnds :
    DOMAIN data[e].m_SentMessages # {} /\ ~data[e].stopped
      => "resend" \in data[e].waits \cup data[e].queued

\* A message sent on a session that is not closed is acknowledged or given up in
\* the end, also one all of whose fragments were acknowledged and of which only
\* the last ack was lost: that one has nothing left to send again.
SentIsSettled ==
  <>[](\A e \in SSUEnds : data[e].stopped \/ DOMAIN data[e].m_SentMessages = {})

\* The state of both ends is well formed, a sender stops sending a fragment only
\* for what the receiver has, and what the receiver puts together is what was sent.
SSUDataSafe ==
  /\ DataTypeOK
  /\ AckedFragmentIsKept
  /\ PutTogetherIntact
=============================================================================
