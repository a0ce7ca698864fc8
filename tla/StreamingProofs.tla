-------------------------- MODULE StreamingProofs --------------------------
(***************************************************************************)
(* Proofs about Streaming, for every value of its constants.               *)
(*                                                                         *)
(* The inductive invariant is about one stream at a time, Sound(st) and    *)
(* Awake(st), and about the SYN packets in the network.  There is a lemma  *)
(* for each operator of module Stream: what it keeps of Sound and Awake.   *)
(* An action is a composition of these operators, so its step cites their  *)
(* lemmas.                                                                 *)
(*                                                                         *)
(* That a reader gets a prefix of what the other side wrote needs two more *)
(* invariants over both sides: AInv, which stream IDs belong to each       *)
(* other, and RInv, that there is a numbering of each stream's bytes with  *)
(* which the packets in flight, saved and processed agree.                 *)
(***************************************************************************)
EXTENDS Streaming, FiniteSetTheorems, TLAPS

\* A SYN is the packet 0 of its stream.
SynIsFirst(P) == \A p \in P : IsSYN(p) => p.seqn = 0

\* What holds of a stream between any two calls.
Sound(st) ==
  /\ st \in StreamRecord
  /\ st.taken <= st.written
  /\ \A p \in st.m_SavedPackets : p.seqn > st.m_LastReceivedSequenceNumber + 1
  /\ st.m_Status = "New" => st.m_SentPackets = {} /\ st.m_SequenceNumber = 0
  /\ SynIsFirst(st.m_SentPackets) /\ SynIsFirst(st.out) /\ SynIsFirst(st.fins)

\* What holds of a stream between any two handlers.
Awake(st) ==
  /\ (st.m_SentPackets # {} /\ st.m_Status \in {"Open", "Closing"}) =>
       (st.resendWait \/ st.resendFired > 0)
  /\ st.reader = "waiting" => (st.queued = 0 /\ st.m_Status # "Reset")

\* The members that timers do not touch.
Same(st, new) ==
  /\ new.m_Status = st.m_Status
  /\ new.m_SequenceNumber = st.m_SequenceNumber
  /\ new.m_LastReceivedSequenceNumber = st.m_LastReceivedSequenceNumber
  /\ new.m_SavedPackets = st.m_SavedPackets
  /\ new.m_SentPackets = st.m_SentPackets
  /\ new.taken = st.taken /\ new.written = st.written
  /\ new.fins = st.fins /\ new.out = st.out
-----------------------------------------------------------------------------
(***************************************************************************)
(* Arithmetic and finite sets.                                             *)
(***************************************************************************)
LEMMA ToUIntType == ASSUME NEW n \in Int PROVE ToUInt(n) \in Nat
BY SizeConstants DEF ToUInt

LEMMA Quotient ==
  ASSUME NEW r \in Nat, NEW m \in Nat \ {0}
  PROVE  r \div m \in Nat /\ (r \div m) * m <= r
OBVIOUS

LEMMA Product ==
  ASSUME NEW i \in Nat, NEW k \in Nat, NEW m \in Nat, i <= k
  PROVE  i * m \in Nat /\ i * m <= k * m
OBVIOUS

LEMMA NextProduct ==
  ASSUME NEW i \in Nat, NEW m \in Nat PROVE (i + 1) * m = i * m + m
OBVIOUS

\* A finite set of integers has a maximum: a smallest subset without one
\* cannot exist.
LEMMA MaxExists ==
  ASSUME NEW S \in SUBSET Int, IsFiniteSet(S), S # {}
  PROVE  \E m \in S : \A k \in S : m >= k
<1> DEFINE R == StrictSubsetOrdering(S)
           Bad == {U \in FiniteSubsetsOf(S) :
                     U # {} /\ ~ \E m \in U : \A k \in U : m >= k}
<1>1. IsWellFoundedOn(R, FiniteSubsetsOf(S))
  BY FS_StrictSubsetOrderingWellFounded
<1>2. SUFFICES ASSUME Bad # {} PROVE FALSE
  BY DEF FiniteSubsetsOf
<1>3. PICK U \in Bad : \A V \in Bad : <<V, U>> \notin R
  <2>1. Bad \subseteq FiniteSubsetsOf(S) OBVIOUS
  <2> HIDE DEF Bad, R
  <2> QED BY <1>1, <1>2, <2>1, WFMin
<1>4. PICK x \in U : TRUE OBVIOUS
<1> DEFINE V == U \ {x}
<1>5. V \in FiniteSubsetsOf(S) /\ <<V, U>> \in R
  BY <1>4, FS_RemoveElement DEF FiniteSubsetsOf, StrictSubsetOrdering
<1>6. V = {} \/ \E m \in V : \A k \in V : m >= k
  BY <1>3, <1>5
<1>7. U \subseteq Int BY DEF FiniteSubsetsOf
<1>8. CASE V = {}
  BY <1>4, <1>7, <1>8
<1>9. CASE \E m \in V : \A k \in V : m >= k
  <2>1. PICK m \in V : \A k \in V : m >= k BY <1>9
  <2>2. CASE m >= x BY <1>7, <2>1, <2>2
  <2>3. CASE x >= m BY <1>4, <1>7, <2>1, <2>3
  <2> QED BY <1>4, <1>7, <2>2, <2>3
<1> QED BY <1>6, <1>8, <1>9

LEMMA MaxIsMaximum ==
  ASSUME NEW S \in SUBSET Int, IsFiniteSet(S), S # {}
  PROVE  Max(S) \in S /\ \A k \in S : k <= Max(S)
<1>1. PICK m \in S : \A k \in S : m >= k BY MaxExists
<1>2. Max(S) \in S /\ \A k \in S : Max(S) >= k BY <1>1, Zenon DEF Max
<1> QED BY <1>2

LEMMA SeqnsFinite ==
  ASSUME NEW P \in FinitePackets
  PROVE  Seqns(P) \in SUBSET Nat /\ IsFiniteSet(Seqns(P))
<1> DEFINE f == [p \in P |-> p.seqn]
<1>1. \A p \in P : p.seqn \in Nat BY DEF FinitePackets, Packet
<1>2. f \in Surjection(P, Seqns(P)) BY DEF Surjection, Seqns
<1> QED BY <1>1, <1>2, FS_Surjection DEF Seqns, FinitePackets
\* The types of single members, for steps that count.
LEMMA MemberTypes ==
  ASSUME NEW st \in StreamRecord
  PROVE  /\ st.m_SequenceNumber \in Nat /\ st.syns \in Nat /\ st.queued \in Nat
         /\ st.m_LastReceivedSequenceNumber \in Nat \cup {-1}
         /\ st.ackAborted \in Nat /\ st.ackFired \in Nat /\ st.resendFired \in Nat
         /\ st.fins \in FinitePackets
BY DEF StreamRecord
-----------------------------------------------------------------------------
(***************************************************************************)
(* Timers.                                                                 *)
(***************************************************************************)
LEMMA CancelAckSendTimerSound ==
  ASSUME NEW st, Sound(st)
  PROVE  /\ Sound(CancelAckSendTimer(st))
         /\ Same(st, CancelAckSendTimer(st))
         /\ Awake(st) => Awake(CancelAckSendTimer(st))
<1> DEFINE n == st.ackAborted + (IF st.ackWait THEN 1 ELSE 0)
           new == [st EXCEPT !.ackWait = FALSE, !.ackAborted = n]
<1>1. st \in StreamRecord BY DEF Sound
<1>2. n \in Nat BY <1>1, MemberTypes
<1>3. CancelAckSendTimer(st) = new BY DEF CancelAckSendTimer
<1> HIDE DEF n
<1>4. new \in StreamRecord BY <1>1, <1>2, Zenon DEF StreamRecord
<1>5. Same(st, new) BY <1>1 DEF StreamRecord, Same
<1>6. Awake(st) => Awake(new) BY <1>1 DEF StreamRecord, Awake
<1> HIDE DEF new
<1> QED BY <1>3, <1>4, <1>5, <1>6 DEF Sound, Same

LEMMA ScheduleAckSendSound ==
  ASSUME NEW st, Sound(st)
  PROVE  /\ Sound(ScheduleAckSend(st))
         /\ Same(st, ScheduleAckSend(st))
         /\ Awake(st) => Awake(ScheduleAckSend(st))
<1> DEFINE st1 == CancelAckSendTimer(st)
           new == [st1 EXCEPT !.m_IsAckSendScheduled = TRUE, !.ackWait = TRUE]
<1>1. Sound(st1) /\ Same(st, st1) /\ (Awake(st) => Awake(st1))
  BY CancelAckSendTimerSound
<1>2. ScheduleAckSend(st) = new BY DEF ScheduleAckSend
<1> HIDE DEF st1
<1>3. st1 \in StreamRecord BY <1>1 DEF Sound
<1>4. new \in StreamRecord BY <1>3, Zenon DEF StreamRecord
<1>5. Same(st1, new) BY <1>3 DEF StreamRecord, Same
<1>6. Awake(st1) => Awake(new) BY <1>3 DEF StreamRecord, Awake
<1> HIDE DEF new
<1> QED BY <1>1, <1>2, <1>4, <1>5, <1>6 DEF Sound, Same

\* The ack timer is cancelled and no ack is scheduled any more.
LEMMA UnscheduleAckSound ==
  ASSUME NEW st, Sound(st)
  PROVE  LET new == [CancelAckSendTimer(st) EXCEPT !.m_IsAckSendScheduled = FALSE]
         IN Sound(new) /\ Same(st, new) /\ (Awake(st) => Awake(new))
<1> DEFINE st1 == CancelAckSendTimer(st)
           new == [st1 EXCEPT !.m_IsAckSendScheduled = FALSE]
<1>1. Sound(st1) /\ Same(st, st1) /\ (Awake(st) => Awake(st1))
  BY CancelAckSendTimerSound
<1> HIDE DEF st1
<1>3. st1 \in StreamRecord BY <1>1 DEF Sound
<1>4. new \in StreamRecord BY <1>3, Zenon DEF StreamRecord
<1>5. Same(st1, new) BY <1>3 DEF StreamRecord, Same
<1>6. Awake(st1) => Awake(new) BY <1>3 DEF StreamRecord, Awake
<1>7. Sound(new) /\ Same(st, new) /\ (Awake(st) => Awake(new))
  <2> HIDE DEF new
  <2> QED BY <1>1, <1>4, <1>5, <1>6 DEF Sound, Same
<1> QED BY <1>7 DEF st1

LEMMA CancelReceiveTimerSound ==
  ASSUME NEW st, Sound(st)
  PROVE  /\ Sound(CancelReceiveTimer(st))
         /\ Same(st, CancelReceiveTimer(st))
         /\ CancelReceiveTimer(st).resendWait = st.resendWait
         /\ CancelReceiveTimer(st).resendFired = st.resendFired
         /\ CancelReceiveTimer(st).reader # "waiting"
<1> DEFINE r == IF st.reader = "waiting" THEN "aborted" ELSE st.reader
           new == [st EXCEPT !.reader = r]
<1>1. st \in StreamRecord BY DEF Sound
<1>2. r \in {"none", "aborted", "expired"} BY <1>1 DEF StreamRecord
<1>3. CancelReceiveTimer(st) = new BY DEF CancelReceiveTimer
<1> HIDE DEF r
<1>4. new \in StreamRecord BY <1>1, <1>2, Zenon DEF StreamRecord
<1>5. /\ Same(st, new) /\ new.reader = r
      /\ new.resendWait = st.resendWait /\ new.resendFired = st.resendFired
  BY <1>1 DEF StreamRecord, Same
<1> HIDE DEF new
<1> QED BY <1>2, <1>3, <1>4, <1>5 DEF Sound, Same

LEMMA ScheduleResendSound ==
  ASSUME NEW st, Sound(st)
  PROVE  /\ Sound(ScheduleResend(st))
         /\ Same(st, ScheduleResend(st))
         /\ ScheduleResend(st).resendWait
         /\ ScheduleResend(st).reader = st.reader
         /\ ScheduleResend(st).queued = st.queued
<1> DEFINE new == [st EXCEPT !.resendWait = TRUE]
<1>1. st \in StreamRecord BY DEF Sound
<1>2. new \in StreamRecord BY <1>1, Zenon DEF StreamRecord
<1>3. /\ Same(st, new) /\ new.resendWait
      /\ new.reader = st.reader /\ new.queued = st.queued
  BY <1>1 DEF StreamRecord, Same
<1>4. ScheduleResend(st) = new BY DEF ScheduleResend
<1> HIDE DEF new
<1> QED BY <1>2, <1>3, <1>4 DEF Sound, Same

LEMMA TerminateSound ==
  ASSUME NEW st, Sound(st)
  PROVE  /\ Sound(Terminate(st)) /\ Same(st, Terminate(st))
         /\ Terminate(st).reader # "waiting"
<1> DEFINE st1 == CancelAckSendTimer(st)
           st2 == CancelReceiveTimer(st1)
           new == [st2 EXCEPT !.resendWait = FALSE, !.m_SendHandler = FALSE]
<1>1. Sound(st1) /\ Same(st, st1) BY CancelAckSendTimerSound
<1> HIDE DEF st1
<1>2. Sound(st2) /\ Same(st1, st2) /\ st2.reader # "waiting"
  BY <1>1, CancelReceiveTimerSound
<1>3. Terminate(st) = new BY DEF Terminate, st1
<1> HIDE DEF st2
<1>4. st2 \in StreamRecord BY <1>2 DEF Sound
<1>5. new \in StreamRecord BY <1>4, Zenon DEF StreamRecord
<1>6. Same(st2, new) /\ new.reader = st2.reader BY <1>4 DEF StreamRecord, Same
<1> HIDE DEF new
<1> QED BY <1>1, <1>2, <1>3, <1>5, <1>6 DEF Sound, Same
-----------------------------------------------------------------------------
(***************************************************************************)
(* Closing.                                                                *)
(***************************************************************************)
LEMMA FinType ==
  ASSUME NEW s \in Streams, NEW st \in StreamRecord, NEW q \in Nat, NEW n \in Int
  PROVE  Fin(s, st, q, n) \in Packet /\ ~IsSYN(Fin(s, st, q, n))
<1>1. ToUInt(n) \in Nat BY ToUIntType
<1>2. st.m_SendStreamID \in Streams \cup {NoStream} BY DEF StreamRecord
<1>3. /\ {"CLOSE"} \in SUBSET PacketFlags /\ {} \in SUBSET Nat /\ 0 \in Nat
      /\ st.taken \in Nat
  BY DEF PacketFlags, StreamRecord
<1>4. Fin(s, st, q, n) \in Packet BY <1>1, <1>2, <1>3, Zenon DEF Fin, Packet
<1>5. ~IsSYN(Fin(s, st, q, n)) BY DEF Fin, IsSYN
<1> QED BY <1>4, <1>5

LEMMA SendCloseSound ==
  ASSUME NEW s \in Streams, NEW st, Sound(st), st.m_Status # "New"
  PROVE  Sound(SendClose(s, st)) /\ SendClose(s, st).m_Status = st.m_Status
         /\ SendClose(s, st).m_SentPackets = st.m_SentPackets
         /\ SendClose(s, st).reader = st.reader
         /\ SendClose(s, st).queued = st.queued
         /\ (Awake(st) => Awake(SendClose(s, st)))
<1> DEFINE n == st.m_SequenceNumber + 1
           p == Fin(s, st, st.m_SequenceNumber, st.m_LastReceivedSequenceNumber)
           F == st.fins \cup {p}
           new == [st EXCEPT !.m_SequenceNumber = n, !.fins = F]
<1>1. st \in StreamRecord BY DEF Sound
<1>2. /\ n \in Nat /\ st.m_SequenceNumber \in Nat
      /\ st.m_LastReceivedSequenceNumber \in Int /\ st.fins \in FinitePackets
  BY <1>1, MemberTypes
<1>3. p \in Packet /\ ~IsSYN(p) BY <1>1, <1>2, FinType
<1> HIDE DEF p
<1>4. F \in FinitePackets BY <1>2, <1>3, FS_AddElement DEF FinitePackets
<1>5. SynIsFirst(F) BY <1>3 DEF Sound, SynIsFirst
<1>6. SendClose(s, st) = new BY DEF SendClose, p
<1> HIDE DEF n, F
<1>7. new \in StreamRecord BY <1>1, <1>2, <1>4, Zenon DEF StreamRecord
<1>8. /\ new.m_Status = st.m_Status
      /\ new.m_LastReceivedSequenceNumber = st.m_LastReceivedSequenceNumber
      /\ new.m_SavedPackets = st.m_SavedPackets
      /\ new.m_SentPackets = st.m_SentPackets
      /\ new.taken = st.taken /\ new.written = st.written
      /\ new.fins = F /\ new.out = st.out
      /\ new.reader = st.reader /\ new.queued = st.queued
      /\ Awake(st) => Awake(new)
  BY <1>1 DEF StreamRecord, Awake
<1> HIDE DEF new
<1> QED BY <1>5, <1>6, <1>7, <1>8 DEF Sound

LEMMA ShutdownSound ==
  ASSUME NEW st, Sound(st), st.m_Status \in {"Closed", "Reset"}
  PROVE  Sound(Shutdown(st)) /\ Awake(Shutdown(st))
<1> DEFINE st1 == Terminate(st)
           new == [st1 EXCEPT !.registered = FALSE]
<1>1. Sound(st1) /\ Same(st, st1) /\ st1.reader # "waiting" BY TerminateSound
<1>2. Shutdown(st) = new BY DEF Shutdown
<1> HIDE DEF st1
<1>3. st1 \in StreamRecord BY <1>1 DEF Sound
<1>4. new \in StreamRecord BY <1>3, Zenon DEF StreamRecord
<1>5. Same(st1, new) /\ new.reader = st1.reader BY <1>3 DEF StreamRecord, Same
<1> HIDE DEF new
<1>6. Sound(new) BY <1>1, <1>4, <1>5 DEF Sound, Same
<1>7. Awake(new) BY <1>1, <1>5 DEF Awake, Same
<1> QED BY <1>2, <1>6, <1>7

\* A stream may be given any later status.
LEMMA SetStatusSound ==
  ASSUME NEW st, Sound(st), NEW status \in {"Open", "Reset", "Closing", "Closed"}
  PROVE  /\ Sound([st EXCEPT !.m_Status = status])
         /\ [st EXCEPT !.m_Status = status].m_Status = status
         /\ (Awake(st) /\ status = "Closing" /\ st.m_Status \in {"Open", "Closing"})
              => Awake([st EXCEPT !.m_Status = status])
<1> DEFINE new == [st EXCEPT !.m_Status = status]
<1>1. st \in StreamRecord /\ status \in StreamStatus BY DEF Sound, StreamStatus
<1>2. new \in StreamRecord BY <1>1, Zenon DEF StreamRecord
<1>3. /\ new.m_Status = status
      /\ new.m_LastReceivedSequenceNumber = st.m_LastReceivedSequenceNumber
      /\ new.m_SavedPackets = st.m_SavedPackets
      /\ new.m_SentPackets = st.m_SentPackets
      /\ new.m_SequenceNumber = st.m_SequenceNumber
      /\ new.taken = st.taken /\ new.written = st.written
      /\ new.fins = st.fins /\ new.out = st.out
  BY <1>1 DEF StreamRecord
<1>4. (Awake(st) /\ status = "Closing" /\ st.m_Status \in {"Open", "Closing"})
         => Awake(new)
  BY <1>1 DEF StreamRecord, Awake
<1>5. Sound(new)
  <2> HIDE DEF new
  <2> QED BY <1>2, <1>3 DEF Sound
<1> QED BY <1>3, <1>4, <1>5

LEMMA CloseSound ==
  ASSUME NEW s \in Streams, NEW st, Sound(st), Awake(st) \/ st.m_Status = "Reset"
  PROVE  Sound(Close(s, st)) /\ Awake(Close(s, st))
<1>1. CASE st.m_Status \in {"Open", "Closing"} /\ NothingToSend(st)
  <2> DEFINE st1 == [st EXCEPT !.m_Status = "Closed"]
  <2>1. Sound(st1) /\ st1.m_Status = "Closed" BY SetStatusSound
  <2>2. Close(s, st) = Shutdown(SendClose(s, st1)) BY <1>1 DEF Close
  <2> HIDE DEF st1
  <2> QED BY <2>1, <2>2, SendCloseSound, ShutdownSound
<1>2. CASE st.m_Status \in {"Open", "Closing"} /\ ~NothingToSend(st)
  BY <1>2, SetStatusSound DEF Close
<1>3. CASE st.m_Status = "Reset"
  BY <1>3, SendCloseSound, ShutdownSound DEF Close
<1>4. CASE st.m_Status = "Closed"
  BY <1>4, ShutdownSound DEF Close
<1>5. CASE st.m_Status \notin {"Open", "Closing", "Reset", "Closed"}
  BY <1>5 DEF Close
<1> QED BY <1>1, <1>2, <1>3, <1>4, <1>5

LEMMA ResetSound ==
  ASSUME NEW s \in Streams, NEW st, Sound(st)
  PROVE  Sound(Reset(s, st)) /\ Awake(Reset(s, st))
BY SetStatusSound, CloseSound DEF Reset
-----------------------------------------------------------------------------
(***************************************************************************)
(* Sending.                                                                *)
(***************************************************************************)
LEMMA SendPacketsSound ==
  ASSUME NEW st, Sound(st), NEW P \in SUBSET Packet, SynIsFirst(P)
  PROVE  /\ Sound(SendPackets(st, P))
         /\ SendPackets(st, P).m_Status = st.m_Status
         /\ SendPackets(st, P).m_SentPackets = st.m_SentPackets
         /\ SendPackets(st, P).eof = st.eof
         /\ SendPackets(st, P).reader = st.reader
         /\ SendPackets(st, P).queued = st.queued
         /\ Awake(st) => Awake(SendPackets(st, P))
<1> DEFINE O == st.out \cup P
           new == [st EXCEPT !.out = O]
<1>1. st \in StreamRecord BY DEF Sound
<1>2. O \in SUBSET Packet BY <1>1 DEF StreamRecord
<1>3. SynIsFirst(O) BY DEF Sound, SynIsFirst
<1> HIDE DEF O
<1>4. new \in StreamRecord BY <1>1, <1>2, Zenon DEF StreamRecord
<1>5. /\ new.m_Status = st.m_Status
      /\ new.m_LastReceivedSequenceNumber = st.m_LastReceivedSequenceNumber
      /\ new.m_SavedPackets = st.m_SavedPackets
      /\ new.m_SentPackets = st.m_SentPackets
      /\ new.m_SequenceNumber = st.m_SequenceNumber
      /\ new.taken = st.taken /\ new.written = st.written
      /\ new.fins = st.fins /\ new.out = O
      /\ new.eof = st.eof /\ new.reader = st.reader /\ new.queued = st.queued
      /\ Awake(st) => Awake(new)
  BY <1>1 DEF StreamRecord, Awake
<1>6. SendPackets(st, P) = new BY DEF SendPackets, O
<1> HIDE DEF new
<1> QED BY <1>3, <1>4, <1>5, <1>6 DEF Sound

LEMMA DataPacketType ==
  ASSUME NEW s \in Streams, NEW st \in StreamRecord, NEW q \in Nat,
         NEW flags \in SUBSET PacketFlags, NEW off \in Nat, NEW len \in Nat
  PROVE  /\ DataPacket(s, st, q, flags, off, len) \in Packet
         /\ DataPacket(s, st, q, flags, off, len).seqn = q
         /\ IsSYN(DataPacket(s, st, q, flags, off, len)) <=> "SYN" \in flags
<1> DEFINE a == IF st.m_LastReceivedSequenceNumber < 0
                THEN ToUInt(st.m_LastReceivedSequenceNumber) ELSE 0
           p == [sid |-> st.m_SendStreamID, rid |-> s, seqn |-> q, ack |-> a,
                 nacks |-> {}, flags |-> flags, off |-> off, len |-> len]
<1>1. st.m_LastReceivedSequenceNumber \in Int BY DEF StreamRecord
<1>2. a \in Nat BY <1>1, ToUIntType
<1>3. st.m_SendStreamID \in Streams \cup {NoStream} BY DEF StreamRecord
<1>4. DataPacket(s, st, q, flags, off, len) = p BY DEF DataPacket
<1> HIDE DEF a
<1>5. {} \in SUBSET Nat OBVIOUS
<1>6. p \in Packet BY <1>2, <1>3, <1>5, Zenon DEF Packet
<1>7. p.seqn = q /\ (IsSYN(p) <=> "SYN" \in flags) BY DEF IsSYN
<1> QED BY <1>4, <1>6, <1>7

\* What SendBuffer reads and the packets it makes.
LEMMA BatchSound ==
  ASSUME NEW s \in Streams, NEW st, Sound(st), NEW room \in Int, room >= 1
  PROVE  LET b == Batch(s, st, room)
         IN /\ b.num \in Nat /\ b.eof \in BOOLEAN
            /\ b.taken \in Nat /\ b.taken <= st.written
            /\ b.packets \in FinitePackets /\ SynIsFirst(b.packets)
            /\ b.packets = {} => b.num = 0 /\ st.m_Status # "New"
<1> DEFINE isNew  == st.m_Status = "New"
           avail  == st.written - st.taken
           synLen == IF isNew THEN AtMost(avail, SYN_MTU) ELSE 0
           synEof == IF isNew THEN avail < SYN_MTU ELSE st.eof
           rest   == avail - synLen
           toEof  == (rest \div STREAMING_MTU) + 1
           numSyn == IF isNew THEN 1 ELSE 0
           numFollowOn == IF st.m_SendStreamID # NoStream /\ ~synEof
                          THEN AtMost(toEof, room - numSyn) ELSE 0
           synFlags == {"SYN"} \cup (IF st.m_LastReceivedSequenceNumber < 0
                                     THEN {"NO_ACK"} ELSE {})
           taken == st.taken + synLen + AtMost(rest, numFollowOn * STREAMING_MTU)
           SynPkt(i) == DataPacket(s, st, st.m_SequenceNumber, synFlags, st.taken, synLen)
           Follow(i) == DataPacket(s, st, st.m_SequenceNumber + numSyn + i, {},
                          st.taken + synLen + i * STREAMING_MTU,
                          AtMost(STREAMING_MTU, rest - i * STREAMING_MTU))
           S == {SynPkt(i) : i \in 1 .. numSyn}
           F == {Follow(i) : i \in 0 .. numFollowOn - 1}
           b == Batch(s, st, room)
<1>1. /\ st \in StreamRecord /\ st.taken \in Nat /\ st.written \in Nat
      /\ st.eof \in BOOLEAN /\ st.m_SequenceNumber \in Nat
      /\ st.taken <= st.written
      /\ SYN_MTU \in Nat \ {0} /\ STREAMING_MTU \in Nat \ {0}
  BY SizeConstants DEF Sound, StreamRecord
<1>2. /\ b.num = numSyn + numFollowOn /\ b.taken = taken
      /\ b.eof = (synEof \/ numFollowOn = toEof)
      /\ b.packets = S \cup F
  BY DEF Batch
<1>3. avail \in Nat /\ synLen \in Nat /\ synLen <= avail /\ rest \in Nat
  BY <1>1 DEF AtMost
<1> HIDE DEF isNew, synEof
<1>4. numSyn \in {0, 1} /\ (isNew <=> numSyn = 1) OBVIOUS
<1>5. toEof \in Nat /\ (toEof - 1) * STREAMING_MTU <= rest
  BY <1>1, <1>3, Quotient
<1> HIDE DEF toEof, numSyn, avail, synLen, rest
<1>6. numFollowOn \in Nat /\ numFollowOn <= toEof
  BY <1>4, <1>5 DEF AtMost
<1> HIDE DEF numFollowOn
<1>7. numFollowOn * STREAMING_MTU \in Nat BY <1>1, <1>6, Product
<1>8. taken \in Nat /\ taken <= st.written
  BY <1>1, <1>3, <1>7 DEF AtMost, rest, avail
<1>9. \A i \in 0 .. numFollowOn - 1 :
        /\ i * STREAMING_MTU \in Nat /\ i * STREAMING_MTU <= rest
        /\ AtMost(STREAMING_MTU, rest - i * STREAMING_MTU) \in Nat
  <2>1. SUFFICES ASSUME NEW i \in 0 .. numFollowOn - 1
                 PROVE /\ i * STREAMING_MTU \in Nat /\ i * STREAMING_MTU <= rest
                       /\ AtMost(STREAMING_MTU, rest - i * STREAMING_MTU) \in Nat
    OBVIOUS
  <2>2. toEof - 1 \in Nat /\ i \in Nat /\ i <= toEof - 1 BY <1>5, <1>6
  <2>3. /\ i * STREAMING_MTU \in Nat /\ (toEof - 1) * STREAMING_MTU \in Nat
        /\ i * STREAMING_MTU <= (toEof - 1) * STREAMING_MTU
    BY <1>1, <2>2, Product
  <2> QED BY <1>1, <1>3, <1>5, <2>3 DEF AtMost
<1>10. \A i \in 0 .. numFollowOn - 1 : Follow(i) \in Packet /\ ~IsSYN(Follow(i))
  <2>1. SUFFICES ASSUME NEW i \in 0 .. numFollowOn - 1
                 PROVE Follow(i) \in Packet /\ ~IsSYN(Follow(i))
    OBVIOUS
  <2> DEFINE q == st.m_SequenceNumber + numSyn + i
             o == st.taken + synLen + i * STREAMING_MTU
             l == AtMost(STREAMING_MTU, rest - i * STREAMING_MTU)
             none == {}
  <2>2. q \in Nat /\ o \in Nat /\ l \in Nat BY <1>1, <1>3, <1>4, <1>9
  <2>3. none \in SUBSET PacketFlags /\ "SYN" \notin none OBVIOUS
  <2>4. Follow(i) = DataPacket(s, st, q, none, o, l) OBVIOUS
  <2> HIDE DEF q, o, l, none, Follow
  <2> QED BY <1>1, <2>2, <2>3, <2>4, DataPacketType
<1>11. \A i \in 1 .. numSyn : SynPkt(i) \in Packet /\ SynPkt(i).seqn = 0
  <2>1. synFlags \in SUBSET PacketFlags BY DEF PacketFlags
  <2>2. numSyn = 1 => st.m_SequenceNumber = 0 BY <1>4 DEF Sound, isNew
  <2>3. \A i \in 1 .. numSyn : numSyn = 1 BY <1>4
  <2> DEFINE q == st.m_SequenceNumber
             o == st.taken
             p == DataPacket(s, st, q, synFlags, o, synLen)
  <2>4. q \in Nat /\ o \in Nat /\ q = st.m_SequenceNumber BY <1>1
  <2> HIDE DEF synFlags, q, o
  <2>5. synLen \in Nat /\ st \in StreamRecord BY <1>1, <1>3
  <2>6. p \in Packet
    BY <2>5, <2>1, <2>4, DataPacketType
  <2>7. p.seqn = q
    BY <2>5, <2>1, <2>4, DataPacketType
  <2>8. p \in Packet /\ p.seqn = st.m_SequenceNumber
    BY <2>6, <2>7, <2>4
  <2> HIDE DEF p
  <2>9. \A i \in 1 .. numSyn : SynPkt(i) = p BY DEF p, q, o
  <2> HIDE DEF SynPkt
  <2> QED BY <2>2, <2>3, <2>8, <2>9
<1>12. IsFiniteSet(F)
  <2> DEFINE f == [i \in 0 .. numFollowOn - 1 |-> Follow(i)]
  <2> HIDE DEF Follow
  <2>1. f \in Surjection(0 .. numFollowOn - 1, F) BY DEF Surjection
  <2> QED BY <1>6, <2>1, FS_Surjection, FS_Interval
<1>13. IsFiniteSet(S)
  <2> DEFINE f == [i \in 1 .. numSyn |-> SynPkt(i)]
  <2> HIDE DEF SynPkt
  <2>1. f \in Surjection(1 .. numSyn, S) BY DEF Surjection
  <2> QED BY <1>4, <2>1, FS_Surjection, FS_Interval
<1>14. S \cup F \in FinitePackets
  <2>1. S \cup F \in SUBSET Packet
    <3> HIDE DEF Follow, SynPkt
    <3> QED BY <1>10, <1>11
  <2> QED BY <1>12, <1>13, <2>1, FS_Union DEF FinitePackets
<1>15. SynIsFirst(S \cup F)
  <2> HIDE DEF Follow, SynPkt
  <2> QED BY <1>10, <1>11 DEF SynIsFirst
<1>16. S \cup F = {} => numSyn = 0 /\ numFollowOn = 0
  <2>1. numSyn # 0 => SynPkt(1) \in S BY <1>4
  <2>2. numFollowOn # 0 => Follow(0) \in F BY <1>6
  <2> QED BY <2>1, <2>2
<1> HIDE DEF S, F, taken, b
<1>17. b.num \in Nat BY <1>2, <1>4, <1>6
<1>18. b.eof \in BOOLEAN BY <1>2
<1>19. b.taken \in Nat /\ b.taken <= st.written BY <1>2, <1>8
<1>20. b.packets = {} => b.num = 0 /\ st.m_Status # "New"
  BY <1>2, <1>4, <1>16 DEF isNew
<1> QED BY <1>2, <1>14, <1>15, <1>17, <1>18, <1>19, <1>20 DEF b

LEMMA SendBufferSound ==
  ASSUME NEW s \in Streams, NEW st, Sound(st), Awake(st)
  PROVE  Sound(SendBuffer(s, st)) /\ Awake(SendBuffer(s, st))
<1> DEFINE room == st.m_WindowSize - Cardinality(st.m_SentPackets)
           b    == Batch(s, st, room)
           status == IF st.m_Status = "New" THEN "Open" ELSE st.m_Status
           n    == st.m_SequenceNumber + b.num
           h    == st.m_SendHandler /\ ~b.eof
           read == [st EXCEPT !.m_Status = status, !.m_SequenceNumber = n,
                              !.taken = b.taken, !.eof = b.eof,
                              !.m_SendHandler = h]
           idle == [CancelAckSendTimer(read) EXCEPT !.m_IsAckSendScheduled = FALSE]
           Q    == st.m_SentPackets \cup b.packets
           full == [idle EXCEPT !.m_SentPackets = Q]
           sent == SendPackets(full, b.packets)
           fin  == IF sent.m_Status = "Closing" /\ sent.eof
                   THEN SendClose(s, sent) ELSE sent
<1>1. /\ st \in StreamRecord /\ st.m_SentPackets \in FinitePackets
      /\ st.m_WindowSize \in Nat /\ st.m_SequenceNumber \in Nat
      /\ st.m_Status \in StreamStatus /\ st.m_SendHandler \in BOOLEAN
  <2>1. st \in StreamRecord BY DEF Sound
  <2>2. /\ st.m_SentPackets \in FinitePackets
        /\ st.m_WindowSize \in MIN_WINDOW_SIZE .. MAX_WINDOW_SIZE
        /\ st.m_SequenceNumber \in Nat
        /\ st.m_Status \in StreamStatus /\ st.m_SendHandler \in BOOLEAN
    BY <2>1 DEF StreamRecord
  <2>3. st.m_WindowSize \in Nat BY <2>2, WindowConstants
  <2> QED BY <2>1, <2>2, <2>3
<1>2. room \in Int
  BY <1>1, FS_CardinalityType DEF FinitePackets
<1>3. SUFFICES ASSUME room >= 1
               PROVE  Sound(SendBuffer(s, st)) /\ Awake(SendBuffer(s, st))
  BY <1>2 DEF SendBuffer
<1>4. /\ b.num \in Nat /\ b.eof \in BOOLEAN
      /\ b.taken \in Nat /\ b.taken <= st.written
      /\ b.packets \in FinitePackets /\ SynIsFirst(b.packets)
      /\ b.packets = {} => b.num = 0 /\ st.m_Status # "New"
  BY <1>2, <1>3, BatchSound
<1>5. /\ status \in StreamStatus /\ n \in Nat /\ h \in BOOLEAN
      /\ status # "New" /\ (status = "Open" => st.m_Status \in {"New", "Open"})
      /\ status = "Closing" => st.m_Status = "Closing"
      /\ status = "Reset" => st.m_Status = "Reset"
  BY <1>1, <1>4 DEF StreamStatus
<1>6. Q \in FinitePackets /\ SynIsFirst(Q)
  BY <1>1, <1>4, FS_Union DEF FinitePackets, Sound, SynIsFirst
<1>7. SendBuffer(s, st) = IF b.packets = {} THEN read
                          ELSE IF st.m_SentPackets = {} THEN ScheduleResend(fin)
                          ELSE fin
  <2>1. sent = SendPackets([CancelAckSendTimer(read)
                              EXCEPT !.m_IsAckSendScheduled = FALSE,
                                     !.m_SentPackets = @ \cup b.packets], b.packets)
    <3>1. CancelAckSendTimer(read).m_SentPackets = st.m_SentPackets
      BY <1>1 DEF CancelAckSendTimer, StreamRecord
    <3> QED BY <3>1
  <2> QED BY <1>2, <1>3, <2>1 DEF SendBuffer, SendBatch, SendCloseAtEof
<1> HIDE DEF b, room, status, n, h
<1>8. read \in StreamRecord BY <1>1, <1>4, <1>5, Zenon DEF StreamRecord
<1>9. /\ read.m_Status = status /\ read.m_SequenceNumber = n
      /\ read.m_LastReceivedSequenceNumber = st.m_LastReceivedSequenceNumber
      /\ read.m_SavedPackets = st.m_SavedPackets
      /\ read.m_SentPackets = st.m_SentPackets
      /\ read.taken = b.taken /\ read.written = st.written
      /\ read.fins = st.fins /\ read.out = st.out
      /\ read.resendWait = st.resendWait /\ read.resendFired = st.resendFired
      /\ read.reader = st.reader /\ read.queued = st.queued
  BY <1>1 DEF StreamRecord
<1>10. Sound(read)
  <2> HIDE DEF read
  <2> QED BY <1>4, <1>5, <1>8, <1>9 DEF Sound
<1>11. Awake(read)
  <2> HIDE DEF read
  <2> QED BY <1>5, <1>9 DEF Awake, Sound
<1> HIDE DEF read
<1>12. Sound(idle) /\ Same(read, idle) /\ Awake(idle)
  BY <1>10, <1>11, UnscheduleAckSound
<1>13. idle \in StreamRecord /\ idle.m_SentPackets = st.m_SentPackets
  BY <1>9, <1>12 DEF Sound, Same
<1> HIDE DEF idle, Q
<1>14. full \in StreamRecord BY <1>6, <1>13, Zenon DEF StreamRecord
<1>15. /\ full.m_Status = idle.m_Status
       /\ full.m_SequenceNumber = idle.m_SequenceNumber
       /\ full.m_LastReceivedSequenceNumber = idle.m_LastReceivedSequenceNumber
       /\ full.m_SavedPackets = idle.m_SavedPackets
       /\ full.m_SentPackets = Q
       /\ full.taken = idle.taken /\ full.written = idle.written
       /\ full.fins = idle.fins /\ full.out = idle.out
       /\ full.resendWait = idle.resendWait /\ full.resendFired = idle.resendFired
       /\ full.reader = idle.reader /\ full.queued = idle.queued
  BY <1>13 DEF StreamRecord
<1>16. idle.m_Status = status BY <1>9, <1>12 DEF Same
<1>17. Sound(full)
  <2> HIDE DEF full
  <2> QED BY <1>5, <1>6, <1>12, <1>14, <1>15, <1>16 DEF Sound
<1>18. st.m_SentPackets # {} => Awake(full)
  <2> HIDE DEF full
  <2> QED BY <1>12, <1>13, <1>15 DEF Awake
<1>19. full.reader = "waiting" => (full.queued = 0 /\ full.m_Status # "Reset")
  <2> HIDE DEF full
  <2> QED BY <1>12, <1>15 DEF Awake
<1> HIDE DEF full
<1>20. /\ Sound(sent) /\ sent.m_Status = full.m_Status
       /\ sent.reader = full.reader /\ sent.queued = full.queued
       /\ Awake(full) => Awake(sent)
  BY <1>4, <1>17, SendPacketsSound DEF FinitePackets
<1> HIDE DEF sent
<1>21. /\ Sound(fin) /\ (Awake(sent) => Awake(fin))
       /\ fin.reader = sent.reader /\ fin.queued = sent.queued
       /\ fin.m_Status = sent.m_Status
  BY <1>20, SendCloseSound
<1> HIDE DEF fin
<1>22. Sound(ScheduleResend(fin)) /\ Awake(ScheduleResend(fin))
  BY <1>19, <1>20, <1>21, ScheduleResendSound DEF Awake, Same
<1> QED BY <1>7, <1>10, <1>11, <1>18, <1>20, <1>21, <1>22

LEMMA SendQuickAckSound ==
  ASSUME NEW s \in Streams, NEW st, Sound(st)
  PROVE  /\ Sound(SendQuickAck(s, st))
         /\ Awake(st) => Awake(SendQuickAck(s, st))
<1> DEFINE last     == st.m_LastReceivedSequenceNumber
           saved    == Seqns(st.m_SavedPackets)
           tooMany  == {q \in saved : Cardinality(Missing(st, q)) >= MaxNacks}
           before   == {q \in saved : \A t \in tooMany : q < t}
           A        == {last} \cup saved
           B        == {last} \cup before
           nextSeqn == Max(B) + 1
           through  == Max(A)
           ack      == IF tooMany = {} THEN through ELSE nextSeqn
           nacks    == IF tooMany = {} THEN Missing(st, through)
                                       ELSE Missing(st, nextSeqn)
           p        == QuickAck(s, st, ack, nacks)
<1>1. /\ st \in StreamRecord /\ last \in Nat \cup {-1}
      /\ st.m_SavedPackets \in FinitePackets
      /\ st.m_SendStreamID \in Streams \cup {NoStream}
  BY DEF Sound, StreamRecord
<1>2. saved \in SUBSET Nat /\ IsFiniteSet(saved) BY <1>1, SeqnsFinite
<1>3. /\ A \in SUBSET Int /\ IsFiniteSet(A) /\ last \in A
      /\ B \in SUBSET Int /\ IsFiniteSet(B) /\ last \in B
  <2> HIDE DEF saved, tooMany, last
  <2>1. IsFiniteSet(before) BY <1>2, FS_Subset
  <2>2. IsFiniteSet({last}) BY FS_Singleton
  <2>3. before \in SUBSET saved OBVIOUS
  <2> HIDE DEF before
  <2>4. IsFiniteSet(A) /\ IsFiniteSet(B) BY <1>2, <2>1, <2>2, FS_Union
  <2>5. A \in SUBSET Int /\ B \in SUBSET Int BY <1>1, <1>2, <2>3
  <2> QED BY <2>4, <2>5
<1>4. SendQuickAck(s, st) = IF through < 0 THEN st ELSE SendPackets(st, {p})
  BY DEF SendQuickAck
<1>5. \A q \in Int : Missing(st, q) \in SUBSET Nat
  BY <1>1 DEF Missing
<1> HIDE DEF A, B, last, tooMany
<1>6. through \in Int /\ Max(B) \in Int /\ Max(B) >= last
  BY <1>3, MaxIsMaximum
<1>7. SUFFICES ASSUME through >= 0
               PROVE  Sound(SendPackets(st, {p})) /\ (Awake(st) => Awake(SendPackets(st, {p})))
  <2> HIDE DEF through, p
  <2> QED BY <1>4, <1>6
<1>8. ack \in Nat /\ nacks \in SUBSET Nat
  <2>1. nextSeqn \in Nat BY <1>1, <1>6 DEF last
  <2> HIDE DEF through, nextSeqn
  <2> QED BY <1>5, <1>6, <1>7, <2>1
<1> HIDE DEF ack, nacks
<1>9. {} \in SUBSET PacketFlags /\ 0 \in Nat OBVIOUS
<1>10. p \in Packet BY <1>1, <1>8, <1>9, Zenon DEF QuickAck, Packet
<1>11. SynIsFirst({p}) BY DEF SynIsFirst, IsSYN, QuickAck
<1> HIDE DEF p
<1> QED BY <1>10, <1>11, SendPacketsSound
-----------------------------------------------------------------------------
(***************************************************************************)
(* Receiving.                                                              *)
(***************************************************************************)
LEMMA AckWindowType ==
  ASSUME NEW st \in StreamRecord, NEW num \in Nat, NEW grow \in BOOLEAN
  PROVE  AckWindow(st, num, grow) \in MIN_WINDOW_SIZE .. MAX_WINDOW_SIZE
<1>1. st.m_WindowSize \in MIN_WINDOW_SIZE .. MAX_WINDOW_SIZE BY DEF StreamRecord
<1> QED BY <1>1, WindowConstants DEF AckWindow, AtMost, AtLeast

LEMMA AcknowledgeSound ==
  ASSUME NEW st, Sound(st), Awake(st), NEW p \in Packet, NEW grow \in BOOLEAN
  PROVE  Sound(Acknowledge(st, p, grow)) /\ Awake(Acknowledge(st, p, grow))
<1> DEFINE A    == Acked(st, p)
           left == st.m_SentPackets \ A
           w    == AckWindow(st, Cardinality(A), grow)
           wait == st.resendWait /\ left # {}
           acks == st.acked \cup Seqns(A)
           new  == [st EXCEPT !.m_SentPackets = left, !.m_WindowSize = w,
                              !.resendWait = wait, !.acked = acks]
<1>1. /\ st \in StreamRecord /\ st.m_SentPackets \in FinitePackets
      /\ st.acked \in SUBSET Nat
  BY DEF Sound, StreamRecord
<1>2. A \in SUBSET st.m_SentPackets BY DEF Acked
<1> HIDE DEF A
<1>3. A \in FinitePackets /\ left \in FinitePackets
  BY <1>1, <1>2, FS_Subset DEF FinitePackets
<1>4. w \in MIN_WINDOW_SIZE .. MAX_WINDOW_SIZE
  BY <1>1, <1>3, AckWindowType, FS_CardinalityType DEF FinitePackets
<1>5. wait \in BOOLEAN /\ acks \in SUBSET Nat BY <1>1, <1>3, SeqnsFinite
<1>6. Acknowledge(st, p, grow) = new BY DEF Acknowledge, A
<1> HIDE DEF left, w, wait, acks
<1>7. new \in StreamRecord BY <1>1, <1>3, <1>4, <1>5, Zenon DEF StreamRecord
<1>8. /\ new.m_Status = st.m_Status
      /\ new.m_LastReceivedSequenceNumber = st.m_LastReceivedSequenceNumber
      /\ new.m_SavedPackets = st.m_SavedPackets
      /\ new.m_SentPackets = left
      /\ new.m_SequenceNumber = st.m_SequenceNumber
      /\ new.taken = st.taken /\ new.written = st.written
      /\ new.fins = st.fins /\ new.out = st.out
      /\ new.resendWait = wait /\ new.resendFired = st.resendFired
      /\ new.reader = st.reader /\ new.queued = st.queued
  BY <1>1 DEF StreamRecord
<1> HIDE DEF new
<1>9. Sound(new) BY <1>7, <1>8 DEF Sound, SynIsFirst, left
<1>10. Awake(new) BY <1>8 DEF Awake, left, wait
<1> QED BY <1>6, <1>9, <1>10

LEMMA ProcessAckSound ==
  ASSUME NEW s \in Streams, NEW st, Sound(st), Awake(st), NEW p \in Packet,
         NEW grow \in BOOLEAN
  PROVE  Sound(ProcessAck(s, st, p, grow)) /\ Awake(ProcessAck(s, st, p, grow))
<1> DEFINE st1 == Acknowledge(st, p, grow)
           zero == [st1 EXCEPT !.m_NumResendAttempts = 0]
           st2 == IF Acked(st, p) = {} THEN st1 ELSE SendBuffer(s, zero)
<1>1. Sound(st1) /\ Awake(st1) BY AcknowledgeSound
<1>2. ProcessAck(s, st, p, grow) =
        IF st2.m_Status = "Closing" THEN Close(s, st2) ELSE st2
  BY DEF ProcessAck, CloseIfClosing
<1> HIDE DEF st1
<1>3. st1 \in StreamRecord BY <1>1 DEF Sound
<1>4. zero \in StreamRecord BY <1>3, Zenon DEF StreamRecord
<1>5. Same(st1, zero) /\ (Awake(st1) => Awake(zero))
  BY <1>3 DEF StreamRecord, Same, Awake
<1> HIDE DEF zero
<1>6. Sound(zero) /\ Awake(zero) BY <1>1, <1>4, <1>5 DEF Sound, Same
<1>7. Sound(st2) /\ Awake(st2) BY <1>1, <1>6, SendBufferSound
<1> HIDE DEF st2
<1> QED BY <1>2, <1>7, CloseSound

LEMMA SameButBuffers ==
  ASSUME NEW st \in StreamRecord, NEW r \in Seq([off: Nat, len: Nat]),
         NEW q \in Nat, NEW seen \in SUBSET Nat, NEW last \in Nat
  PROVE  [st EXCEPT !.received = r, !.queued = q, !.seen = seen,
                    !.m_LastReceivedSequenceNumber = last] \in StreamRecord
<1>1. last \in Nat \cup {-1} OBVIOUS
<1> QED BY <1>1, Zenon DEF StreamRecord

\* The payloads of a run of packets without gaps are queued; what stays saved
\* lies beyond a gap after it.
LEMMA QueuePacketsSound ==
  ASSUME NEW st, Sound(st), Awake(st),
         NEW P \in FinitePackets, NEW first \in Nat, NEW last \in Nat, first <= last,
         \A n \in first .. last : \E p \in P : p.seqn = n,
         \A q \in st.m_SavedPackets : q.seqn > last + 1
  PROVE  /\ Sound(QueuePackets(st, P, first, last))
         /\ Awake(QueuePackets(st, P, first, last))
<1> DEFINE new == [i \in 1 .. last - first + 1 |->
                             [off |-> PacketAt(P, first + i - 1).off,
                              len |-> PacketAt(P, first + i - 1).len]]
           r == st.received \o new
           full == {p \in P : p.len > 0}
           n == st.queued + Cardinality(full)
           seen == st.seen \cup (first .. last)
           queue == [st EXCEPT !.received = r, !.queued = n, !.seen = seen,
                               !.m_LastReceivedSequenceNumber = last]
<1>1. /\ st \in StreamRecord /\ st.received \in Seq([off: Nat, len: Nat])
      /\ st.queued \in Nat /\ st.seen \in SUBSET Nat
  BY DEF Sound, StreamRecord
<1>2. /\ P \in SUBSET Packet /\ IsFiniteSet(P)
      /\ IsFiniteSet(full) /\ Cardinality(full) \in Nat
  <2>1. P \in SUBSET Packet /\ IsFiniteSet(P) BY DEF FinitePackets
  <2>2. full \in SUBSET P OBVIOUS
  <2> HIDE DEF full
  <2> QED BY <2>1, <2>2, FS_Subset, FS_CardinalityType
<1>3. new \in Seq([off: Nat, len: Nat])
  <2>1. \A i \in 1 .. last - first + 1 : PacketAt(P, first + i - 1) \in Packet
    <3>1. SUFFICES ASSUME NEW i \in 1 .. last - first + 1
                   PROVE  PacketAt(P, first + i - 1) \in Packet
      OBVIOUS
    <3>2. first + i - 1 \in first .. last OBVIOUS
    <3>3. PICK p \in P : p.seqn = first + i - 1 BY <3>2
    <3> HIDE DEF full
    <3> QED BY <1>2, <3>3 DEF PacketAt
  <2>2. \A p \in Packet : p.off \in Nat /\ p.len \in Nat BY DEF Packet
  <2>3. last - first + 1 \in Nat OBVIOUS
  <2> QED BY <2>1, <2>2, <2>3
<1>4. r \in Seq([off: Nat, len: Nat])
  <2> HIDE DEF new
  <2> QED BY <1>1, <1>3
<1>5. n \in Nat /\ seen \in SUBSET Nat BY <1>1, <1>2
<1>6. QueuePackets(st, P, first, last) =
        IF \E p \in P : p.len > 0 THEN CancelReceiveTimer(queue) ELSE queue
  BY DEF QueuePackets
<1> HIDE DEF r, n, seen
<1>7. queue \in StreamRecord BY <1>1, <1>4, <1>5, SameButBuffers
<1>8. /\ queue.m_Status = st.m_Status
      /\ queue.m_LastReceivedSequenceNumber = last
      /\ queue.m_SavedPackets = st.m_SavedPackets
      /\ queue.m_SentPackets = st.m_SentPackets
      /\ queue.m_SequenceNumber = st.m_SequenceNumber
      /\ queue.taken = st.taken /\ queue.written = st.written
      /\ queue.fins = st.fins /\ queue.out = st.out
      /\ queue.resendWait = st.resendWait /\ queue.resendFired = st.resendFired
      /\ queue.reader = st.reader /\ queue.queued = n
  BY <1>1 DEF StreamRecord
<1> HIDE DEF queue
<1>9. Sound(queue) BY <1>7, <1>8 DEF Sound
<1>10. CASE \E p \in P : p.len > 0
  BY <1>6, <1>8, <1>9, <1>10, CancelReceiveTimerSound DEF Awake, Same
<1>11. CASE ~ \E p \in P : p.len > 0
  <2>1. full = {} BY <1>11
  <2> HIDE DEF full
  <2>2. Cardinality(full) = 0 BY <2>1, FS_EmptySet
  <2>3. n = st.queued BY <1>1, <2>2 DEF n
  <2> QED BY <1>6, <1>8, <1>9, <1>11, <2>3 DEF Awake
<1> QED BY <1>10, <1>11

\* A rank among finitely many packets is less than their number.
LEMMA RankBound ==
  ASSUME NEW C \in FinitePackets, NEW p \in C
  PROVE  LET r == Cardinality({q \in C : q.seqn < p.seqn})
         IN r \in Nat /\ r < Cardinality(C)
<1> DEFINE below == {q \in C : q.seqn < p.seqn}
<1>1. p.seqn \in Nat BY DEF FinitePackets, Packet
<1>2. below \in SUBSET C /\ p \notin below BY <1>1
<1>3. below # C BY <1>2
<1> HIDE DEF below
<1>4. IsFiniteSet(C) BY DEF FinitePackets
<1>5. /\ IsFiniteSet(below) /\ Cardinality(below) <= Cardinality(C)
      /\ Cardinality(below) # Cardinality(C)
  BY <1>2, <1>3, <1>4, FS_Subset
<1>6. Cardinality(below) \in Nat /\ Cardinality(C) \in Nat
  BY <1>4, <1>5, FS_CardinalityType
<1> QED BY <1>5, <1>6 DEF below

LEMMA AnswerClosesSound ==
  ASSUME NEW s \in Streams, NEW st, Sound(st), NEW C \in FinitePackets
  PROVE  /\ Sound(AnswerCloses(s, st, C))
         /\ AnswerCloses(s, st, C).m_Status = "Reset"
<1> DEFINE Rank(p) == Cardinality({q \in C : q.seqn < p.seqn})
           F == {Fin(s, st, st.m_SequenceNumber + Rank(p), p.seqn) : p \in C}
           k == st.m_SequenceNumber + Cardinality(C)
           G == st.fins \cup F
           reset == [st EXCEPT !.m_Status = "Reset", !.m_SequenceNumber = k,
                               !.fins = G]
<1>1. /\ st \in StreamRecord /\ st.m_SequenceNumber \in Nat
      /\ st.fins \in FinitePackets
  BY DEF Sound, StreamRecord
<1>2. /\ C \in SUBSET Packet /\ IsFiniteSet(C) /\ Cardinality(C) \in Nat
  BY FS_CardinalityType DEF FinitePackets
<1>3. \A p \in C : Rank(p) \in Nat BY RankBound
<1>4. F \in FinitePackets /\ SynIsFirst(F)
  <2>1. \A p \in C : p.seqn \in Nat BY <1>2 DEF Packet
  <2> DEFINE f == [p \in C |-> Fin(s, st, st.m_SequenceNumber + Rank(p), p.seqn)]
  <2> HIDE DEF Rank
  <2>2. \A p \in C : f[p] \in Packet /\ ~IsSYN(f[p])
    <3>1. SUFFICES ASSUME NEW p \in C PROVE f[p] \in Packet /\ ~IsSYN(f[p])
      OBVIOUS
    <3>2. st.m_SequenceNumber + Rank(p) \in Nat /\ p.seqn \in Int BY <1>1, <1>3, <2>1
    <3> QED BY <1>1, <3>2, FinType
  <2>3. f \in Surjection(C, F) BY DEF Surjection
  <2>4. IsFiniteSet(F) BY <1>2, <2>3, FS_Surjection
  <2>5. \A x \in F : \E p \in C : x = f[p] OBVIOUS
  <2> HIDE DEF f, F
  <2> QED BY <2>2, <2>4, <2>5 DEF FinitePackets, SynIsFirst
<1>5. AnswerCloses(s, st, C) = reset BY DEF AnswerCloses
<1> HIDE DEF F
<1>6. k \in Nat /\ "Reset" \in StreamStatus BY <1>1, <1>2 DEF StreamStatus
<1>7. G \in FinitePackets BY <1>1, <1>4, FS_Union DEF FinitePackets
<1>8. SynIsFirst(G) BY <1>4 DEF Sound, SynIsFirst
<1> HIDE DEF k, G
<1>9. reset \in StreamRecord BY <1>1, <1>6, <1>7, Zenon DEF StreamRecord
<1>10. /\ reset.m_Status = "Reset"
       /\ reset.m_LastReceivedSequenceNumber = st.m_LastReceivedSequenceNumber
       /\ reset.m_SavedPackets = st.m_SavedPackets
       /\ reset.m_SentPackets = st.m_SentPackets
       /\ reset.taken = st.taken /\ reset.written = st.written
       /\ reset.fins = G /\ reset.out = st.out
  BY <1>1 DEF StreamRecord
<1> HIDE DEF reset
<1> QED BY <1>5, <1>8, <1>9, <1>10 DEF Sound

LEMMA ProcessPacketsSound ==
  ASSUME NEW s \in Streams, NEW st, Sound(st), Awake(st),
         NEW P \in FinitePackets, NEW first \in Nat, NEW last \in Nat, first <= last,
         \A n \in first .. last : \E p \in P : p.seqn = n,
         \A q \in st.m_SavedPackets : q.seqn > last + 1
  PROVE  /\ Sound(ProcessPackets(s, st, P, first, last))
         /\ Awake(ProcessPackets(s, st, P, first, last))
<1> DEFINE C == {p \in P : IsClose(p)}
           queued == QueuePackets(st, P, first, last)
<1>1. ProcessPackets(s, st, P, first, last) =
        IF C = {} THEN queued ELSE Shutdown(AnswerCloses(s, queued, C))
  BY DEF ProcessPackets
<1>2. C \in SUBSET P OBVIOUS
<1> HIDE DEF C
<1>3. C \in FinitePackets BY <1>2, FS_Subset DEF FinitePackets
<1>4. Sound(queued) /\ Awake(queued) BY QueuePacketsSound
<1> HIDE DEF queued
<1>5. Sound(AnswerCloses(s, queued, C)) /\ AnswerCloses(s, queued, C).m_Status = "Reset"
  BY <1>3, <1>4, AnswerClosesSound
<1> QED BY <1>1, <1>4, <1>5, ShutdownSound

\* A run of saved packets has no gaps, and what is not in it lies beyond one.
LEMMA SavedRunIsRun ==
  ASSUME NEW st \in StreamRecord, NEW n \in Nat,
         \A q \in st.m_SavedPackets : q.seqn > n,
         NEW last, last = Max({n} \cup Seqns(SavedRun(st, n)))
  PROVE  /\ last \in Nat /\ n <= last
         /\ \A m \in n + 1 .. last : \E q \in SavedRun(st, n) : q.seqn = m
         /\ \A q \in st.m_SavedPackets \ SavedRun(st, n) : q.seqn > last + 1
<1> DEFINE saved == st.m_SavedPackets
           run == SavedRun(st, n)
<1>1. saved \in FinitePackets BY DEF StreamRecord
<1>2. run \in SUBSET saved BY DEF SavedRun
<1>3. \A q \in saved : q.seqn \in Nat BY <1>1 DEF FinitePackets, Packet
<1>4. run \in FinitePackets
  <2> HIDE DEF run, saved
  <2> QED BY <1>1, <1>2, FS_Subset DEF FinitePackets
<1>5. \A q \in saved : q \in run <=> \A m \in n + 1 .. q.seqn : m \in Seqns(saved)
  BY DEF SavedRun
<1> DEFINE S == {n} \cup Seqns(run)
<1>6. S \in SUBSET Int /\ IsFiniteSet(S) /\ n \in S
  <2> HIDE DEF run
  <2>1. Seqns(run) \in SUBSET Nat /\ IsFiniteSet(Seqns(run)) BY <1>4, SeqnsFinite
  <2> DEFINE T == Seqns(run)
  <2> HIDE DEF T
  <2>2. IsFiniteSet({n} \cup T) BY <2>1, FS_Singleton, FS_Union DEF T
  <2> QED BY <2>1, <2>2 DEF T
<1>7. last \in S /\ \A k \in S : k <= last
  <2> HIDE DEF S
  <2>1. last = Max(S) BY DEF S
  <2> QED BY <1>6, <2>1, MaxIsMaximum
<1>8. last \in Nat /\ n <= last
  BY <1>2, <1>3, <1>6, <1>7 DEF Seqns
<1> HIDE DEF run, saved
<1>9. \A m \in n + 1 .. last : m \in Seqns(saved)
  <2>1. CASE last = n BY <1>8, <2>1
  <2>2. CASE last # n
    <3>1. PICK q \in run : q.seqn = last BY <1>7, <2>2 DEF Seqns
    <3>2. q \in saved BY <1>2
    <3> QED BY <1>5, <3>1, <3>2
  <2> QED BY <2>1, <2>2
<1>10. ASSUME NEW m \in n + 1 .. last PROVE \E q \in run : q.seqn = m
  <2>1. PICK q \in saved : q.seqn = m BY <1>9 DEF Seqns
  <2>2. \A k \in n + 1 .. q.seqn : k \in n + 1 .. last BY <1>8, <2>1
  <2>3. q \in run BY <1>5, <1>9, <2>2
  <2> QED BY <2>1, <2>3
<1>11. ASSUME NEW q \in saved, q \notin run PROVE q.seqn > last + 1
  <2>1. SUFFICES ASSUME q.seqn <= last + 1 PROVE FALSE BY <1>3, <1>8
  <2>2. q.seqn \in Seqns(saved) BY DEF Seqns
  <2>3. q.seqn \in Nat BY <1>3
  <2>4. ASSUME NEW k \in n + 1 .. q.seqn PROVE k \in Seqns(saved)
    <3>1. CASE k = q.seqn BY <2>2, <3>1
    <3>2. CASE k # q.seqn
      <4>1. k \in n + 1 .. last BY <1>8, <2>1, <2>3, <3>2
      <4> QED BY <1>9, <4>1
    <3> QED BY <3>1, <3>2
  <2>5. q \in run BY <1>5, <2>4
  <2> QED BY <1>11, <2>5
<1> QED BY <1>8, <1>10, <1>11 DEF run, saved

\* Dropping saved packets keeps everything else.
LEMMA DropSavedSound ==
  ASSUME NEW st, Sound(st), Awake(st), NEW R \in SUBSET st.m_SavedPackets,
         NEW k \in Nat
  PROVE  LET new == [st EXCEPT !.m_SavedPackets = st.m_SavedPackets \ R, !.syns = k]
         IN Sound(new) /\ Awake(new) /\ new.m_SavedPackets = st.m_SavedPackets \ R
<1> DEFINE left == st.m_SavedPackets \ R
           new == [st EXCEPT !.m_SavedPackets = left, !.syns = k]
<1>1. st \in StreamRecord BY DEF Sound
<1>2. st.m_SavedPackets \in FinitePackets BY <1>1 DEF StreamRecord
<1>3. left \in FinitePackets /\ left \in SUBSET st.m_SavedPackets
  BY <1>2, FS_Subset DEF FinitePackets
<1> HIDE DEF left
<1>4. new \in StreamRecord BY <1>1, <1>3, Zenon DEF StreamRecord
<1>5. /\ new.m_Status = st.m_Status
      /\ new.m_LastReceivedSequenceNumber = st.m_LastReceivedSequenceNumber
      /\ new.m_SavedPackets = left
      /\ new.m_SentPackets = st.m_SentPackets
      /\ new.m_SequenceNumber = st.m_SequenceNumber
      /\ new.taken = st.taken /\ new.written = st.written
      /\ new.fins = st.fins /\ new.out = st.out
      /\ new.resendWait = st.resendWait /\ new.resendFired = st.resendFired
      /\ new.reader = st.reader /\ new.queued = st.queued
  BY <1>1 DEF StreamRecord
<1>6. Sound(new) /\ Awake(new) /\ new.m_SavedPackets = left
  <2> HIDE DEF new
  <2> QED BY <1>3, <1>4, <1>5 DEF Sound, Awake
<1> QED BY <1>6 DEF left

LEMMA NextInSequenceSound ==
  ASSUME NEW s \in Streams, NEW st, Sound(st), Awake(st), NEW p \in Packet,
         IsSYN(p) => p.seqn = 0,
         IsSYN(p) \/ p.seqn = st.m_LastReceivedSequenceNumber + 1
  PROVE  Sound(NextInSequence(s, st, p)) /\ Awake(NextInSequence(s, st, p))
<1> DEFINE run  == SavedRun(st, p.seqn)
           last == Max({p.seqn} \cup Seqns(run))
           k    == st.syns + (IF IsSYN(p) THEN 1 ELSE 0)
           st0  == [st EXCEPT !.m_SavedPackets = st.m_SavedPackets \ run, !.syns = k]
           P    == {p} \cup run
           st1  == ProcessPackets(s, st0, P, p.seqn, last)
<1>1. /\ st \in StreamRecord /\ p.seqn \in Nat /\ st.m_SavedPackets \in FinitePackets
      /\ st.m_LastReceivedSequenceNumber \in Nat \cup {-1}
  BY DEF Sound, StreamRecord, Packet
<1>2. k \in Nat BY <1>1, MemberTypes
<1>3. \A q \in st.m_SavedPackets : q.seqn \in Nat /\ q.seqn > p.seqn
  <2>1. \A q \in st.m_SavedPackets : q.seqn \in Nat BY <1>1 DEF FinitePackets, Packet
  <2> QED BY <1>1, <2>1 DEF Sound
<1>4. run \in SUBSET st.m_SavedPackets BY DEF SavedRun
<1>5. NextInSequence(s, st, p) =
        IF st1.m_Status = "Open"
        THEN IF st1.m_IsAckSendScheduled THEN st1 ELSE ScheduleAckSend(st1)
        ELSE IF IsSYN(p) THEN SendBuffer(s, st1) ELSE st1
  BY DEF NextInSequence, AnswerPacket
<1>6. /\ last \in Nat /\ p.seqn <= last
      /\ \A m \in p.seqn + 1 .. last : \E q \in run : q.seqn = m
      /\ \A q \in st.m_SavedPackets \ run : q.seqn > last + 1
  BY <1>1, <1>3, SavedRunIsRun
<1> HIDE DEF run, last, k
<1>7. Sound(st0) /\ Awake(st0) /\ st0.m_SavedPackets = st.m_SavedPackets \ run
  BY <1>2, <1>4, DropSavedSound
<1> HIDE DEF st0
<1>8. P \in FinitePackets
  <2>1. IsFiniteSet(run) /\ run \in SUBSET Packet
    BY <1>1, <1>4, FS_Subset DEF FinitePackets
  <2> QED BY <2>1, FS_Singleton, FS_Union DEF FinitePackets
<1>9. \A m \in p.seqn .. last : \E q \in P : q.seqn = m
  BY <1>1, <1>6
<1> HIDE DEF P
<1>10. Sound(st1) /\ Awake(st1)
  BY <1>1, <1>6, <1>7, <1>8, <1>9, ProcessPacketsSound
<1> HIDE DEF st1
<1> QED BY <1>5, <1>10, ScheduleAckSendSound, SendBufferSound

LEMMA SavePacketSound ==
  ASSUME NEW st, Sound(st), Awake(st), NEW p \in Packet,
         p.seqn > st.m_LastReceivedSequenceNumber + 1
  PROVE  Sound(SavePacket(st, p)) /\ Awake(SavePacket(st, p))
<1>1. CASE p.seqn \in Seqns(st.m_SavedPackets) BY <1>1 DEF SavePacket
<1>2. CASE p.seqn \notin Seqns(st.m_SavedPackets)
  <2> DEFINE S == st.m_SavedPackets \cup {p}
             seen == st.seen \cup {p.seqn}
             new == [st EXCEPT !.m_SavedPackets = S, !.seen = seen]
  <2>1. /\ st \in StreamRecord /\ p.seqn \in Nat /\ st.seen \in SUBSET Nat
        /\ st.m_SavedPackets \in FinitePackets
    BY DEF Sound, StreamRecord, Packet
  <2>2. S \in FinitePackets BY <2>1, FS_AddElement DEF FinitePackets
  <2>3. seen \in SUBSET Nat BY <2>1
  <2>4. SavePacket(st, p) = new BY <1>2 DEF SavePacket
  <2> HIDE DEF S, seen
  <2>5. new \in StreamRecord BY <2>1, <2>2, <2>3, Zenon DEF StreamRecord
  <2>6. /\ new.m_Status = st.m_Status
        /\ new.m_LastReceivedSequenceNumber = st.m_LastReceivedSequenceNumber
        /\ new.m_SavedPackets = S
        /\ new.m_SentPackets = st.m_SentPackets
        /\ new.m_SequenceNumber = st.m_SequenceNumber
        /\ new.taken = st.taken /\ new.written = st.written
        /\ new.fins = st.fins /\ new.out = st.out
        /\ new.resendWait = st.resendWait /\ new.resendFired = st.resendFired
        /\ new.reader = st.reader /\ new.queued = st.queued
    BY <2>1 DEF StreamRecord
  <2> HIDE DEF new
  <2>7. Sound(new) BY <2>5, <2>6 DEF Sound, S
  <2>8. Awake(new) BY <2>6 DEF Awake
  <2> QED BY <2>4, <2>7, <2>8
<1> QED BY <1>1, <1>2

LEMMA OutOfSequenceSound ==
  ASSUME NEW s \in Streams, NEW st, Sound(st), Awake(st), NEW p \in Packet,
         p.seqn # st.m_LastReceivedSequenceNumber + 1
  PROVE  Sound(OutOfSequence(s, st, p)) /\ Awake(OutOfSequence(s, st, p))
<1>1. CASE p.seqn <= st.m_LastReceivedSequenceNumber
  BY <1>1, SendQuickAckSound DEF OutOfSequence
<1>2. CASE ~(p.seqn <= st.m_LastReceivedSequenceNumber)
  <2> DEFINE saved == SavePacket(st, p)
             idle == [CancelAckSendTimer(saved) EXCEPT !.m_IsAckSendScheduled = FALSE]
             st1 == IF st.m_IsAckSendScheduled THEN idle ELSE saved
  <2>1. p.seqn \in Nat /\ st.m_LastReceivedSequenceNumber \in Nat \cup {-1}
    BY DEF Sound, StreamRecord, Packet
  <2>2. Sound(saved) /\ Awake(saved) BY <1>2, <2>1, SavePacketSound
  <2>3. OutOfSequence(s, st, p) =
          IF st.m_LastReceivedSequenceNumber < 0
          THEN ScheduleAckSend(saved) ELSE SendQuickAck(s, st1)
    BY <1>2 DEF OutOfSequence
  <2> HIDE DEF saved
  <2>4. Sound(st1) /\ Awake(st1) BY <2>2, UnscheduleAckSound
  <2> HIDE DEF st1
  <2> QED BY <2>2, <2>3, <2>4, ScheduleAckSendSound, SendQuickAckSound
<1> QED BY <1>1, <1>2

LEMMA HandleNextPacketSound ==
  ASSUME NEW s \in Streams, NEW st, Sound(st), Awake(st), NEW p \in Packet,
         IsSYN(p) => p.seqn = 0, NEW grow \in BOOLEAN
  PROVE  /\ Sound(HandleNextPacket(s, st, p, grow))
         /\ Awake(HandleNextPacket(s, st, p, grow))
<1> DEFINE id  == IF st.m_SendStreamID = NoStream THEN p.rid ELSE st.m_SendStreamID
           st1 == [st EXCEPT !.m_SendStreamID = id]
           st2 == IF IsNoAck(p) THEN st1 ELSE ProcessAck(s, st1, p, grow)
<1>1. st \in StreamRecord BY DEF Sound
<1>2. id \in Streams \cup {NoStream} BY <1>1 DEF StreamRecord, Packet
<1>3. HandleNextPacket(s, st, p, grow) =
        IF IsPlainAck(p) THEN st2
        ELSE IF IsSYN(p) \/ p.seqn = st2.m_LastReceivedSequenceNumber + 1
             THEN NextInSequence(s, st2, p)
             ELSE OutOfSequence(s, st2, p)
  BY DEF HandleNextPacket, DispatchPacket
<1> HIDE DEF id
<1>4. st1 \in StreamRecord BY <1>1, <1>2, Zenon DEF StreamRecord
<1>5. Same(st, st1) /\ (Awake(st) => Awake(st1)) BY <1>1 DEF StreamRecord, Same, Awake
<1> HIDE DEF st1
<1>6. Sound(st1) /\ Awake(st1) BY <1>4, <1>5 DEF Sound, Same
<1>7. Sound(st2) /\ Awake(st2) BY <1>6, ProcessAckSound
<1> HIDE DEF st2
<1> QED BY <1>3, <1>7, NextInSequenceSound, OutOfSequenceSound
-----------------------------------------------------------------------------
(***************************************************************************)
(* Timer handlers.                                                         *)
(***************************************************************************)
LEMMA HandleResendTimerSound ==
  ASSUME NEW s \in Streams, NEW st, Sound(st),
         st.reader = "waiting" => (st.queued = 0 /\ st.m_Status # "Reset"),
         NEW due \in SUBSET st.m_SentPackets
  PROVE  Sound(HandleResendTimer(s, st, due)) /\ Awake(HandleResendTimer(s, st, due))
<1> DEFINE k == st.m_NumResendAttempts + 1
           w == IF k = 1 THEN AtLeast(st.m_WindowSize \div 2, MIN_WINDOW_SIZE)
                ELSE st.m_WindowSize
           st1 == [st EXCEPT !.m_NumResendAttempts = k, !.m_WindowSize = w]
<1>1. /\ st \in StreamRecord /\ k \in Nat
      /\ st.m_WindowSize \in MIN_WINDOW_SIZE .. MAX_WINDOW_SIZE
      /\ st.m_SentPackets \in FinitePackets
  <2>1. st \in StreamRecord BY DEF Sound
  <2>2. /\ st.m_NumResendAttempts \in Nat
        /\ st.m_WindowSize \in MIN_WINDOW_SIZE .. MAX_WINDOW_SIZE
        /\ st.m_SentPackets \in FinitePackets
    BY <2>1 DEF StreamRecord
  <2>3. k \in Nat BY <2>2
  <2> QED BY <2>1, <2>2, <2>3
<1>2. w \in MIN_WINDOW_SIZE .. MAX_WINDOW_SIZE
  BY <1>1, WindowConstants DEF AtLeast
<1>3. HandleResendTimer(s, st, due) =
        IF st.m_NumResendAttempts >= MAX_NUM_RESEND_ATTEMPTS THEN Reset(s, st)
        ELSE IF due = {} THEN ScheduleResend(st)
        ELSE ScheduleResend(SendPackets(st1, due))
  BY DEF HandleResendTimer
<1> HIDE DEF k, w
<1>4. st1 \in StreamRecord BY <1>1, <1>2, Zenon DEF StreamRecord
<1>5. Same(st, st1) /\ st1.reader = st.reader /\ st1.queued = st.queued
  BY <1>1 DEF StreamRecord, Same
<1> HIDE DEF st1
<1>6. Sound(st1) BY <1>4, <1>5 DEF Sound, Same
<1>7. due \in SUBSET Packet /\ SynIsFirst(due)
  BY <1>1 DEF FinitePackets, Sound, SynIsFirst
<1>8. /\ Sound(SendPackets(st1, due))
      /\ SendPackets(st1, due).m_Status = st1.m_Status
      /\ SendPackets(st1, due).reader = st1.reader
      /\ SendPackets(st1, due).queued = st1.queued
  BY <1>6, <1>7, SendPacketsSound
<1>9. ASSUME NEW new, Sound(new), new.m_Status = st.m_Status,
             new.reader = st.reader, new.queued = st.queued
      PROVE  Sound(ScheduleResend(new)) /\ Awake(ScheduleResend(new))
  BY <1>9, ScheduleResendSound DEF Awake, Same
<1>10. Sound(ScheduleResend(st)) /\ Awake(ScheduleResend(st)) BY <1>9
<1>11. /\ Sound(ScheduleResend(SendPackets(st1, due)))
       /\ Awake(ScheduleResend(SendPackets(st1, due)))
  BY <1>5, <1>8, <1>9 DEF Same
<1> QED BY <1>3, <1>10, <1>11, ResetSound

LEMMA HandleAckSendTimerSound ==
  ASSUME NEW s \in Streams, NEW st, Sound(st), Awake(st)
  PROVE  Sound(HandleAckSendTimer(s, st)) /\ Awake(HandleAckSendTimer(s, st))
<1> DEFINE st1 == IF st.m_Status = "Open" THEN SendQuickAck(s, st) ELSE st
           new == [st1 EXCEPT !.m_IsAckSendScheduled = FALSE]
<1>1. Sound(st1) /\ Awake(st1) BY SendQuickAckSound
<1>2. HandleAckSendTimer(s, st) =
        IF ~st.m_IsAckSendScheduled THEN st
        ELSE IF st.m_LastReceivedSequenceNumber < 0 THEN Reset(s, st) ELSE new
  BY DEF HandleAckSendTimer
<1> HIDE DEF st1
<1>3. st1 \in StreamRecord BY <1>1 DEF Sound
<1>4. new \in StreamRecord BY <1>3, Zenon DEF StreamRecord
<1>5. Same(st1, new) /\ (Awake(st1) => Awake(new)) BY <1>3 DEF StreamRecord, Same, Awake
<1> HIDE DEF new
<1>6. Sound(new) BY <1>1, <1>4, <1>5 DEF Sound, Same
<1> QED BY <1>1, <1>2, <1>5, <1>6, ResetSound
-----------------------------------------------------------------------------
(***************************************************************************)
(* The changes that actions of Streaming make to a stream themselves.      *)
(***************************************************************************)
LEMMA NewStreamSound ==
  /\ Sound(NewStream) /\ Awake(NewStream)
  /\ LET new == [NewStream EXCEPT !.m_Status = "New", !.registered = TRUE]
     IN Sound(new) /\ Awake(new)
<1>1. /\ MIN_WINDOW_SIZE \in MIN_WINDOW_SIZE .. MAX_WINDOW_SIZE
      /\ {} \in FinitePackets /\ {} \in SUBSET Packet /\ {} \in SUBSET Nat
      /\ 0 \in Nat /\ -1 \in Nat \cup {-1} /\ FALSE \in BOOLEAN /\ TRUE \in BOOLEAN
      /\ <<>> \in Seq([off: Nat, len: Nat])
      /\ "None" \in StreamStatus /\ "New" \in StreamStatus
      /\ "none" \in {"none", "waiting", "aborted", "expired"}
      /\ NoStream \in Streams \cup {NoStream}
  BY WindowConstants, FS_EmptySet DEF FinitePackets, StreamStatus
<1>2. NewStream \in StreamRecord BY <1>1, Zenon DEF NewStream, StreamRecord
<1> DEFINE new == [NewStream EXCEPT !.m_Status = "New", !.registered = TRUE]
<1>3. new \in StreamRecord BY <1>1, <1>2, Zenon DEF StreamRecord
<1>4. Sound(NewStream) /\ Awake(NewStream)
  BY <1>2 DEF NewStream, Sound, Awake, SynIsFirst
<1>5. /\ new.m_SentPackets = {} /\ new.m_SavedPackets = {} /\ new.fins = {}
      /\ new.out = {} /\ new.m_SequenceNumber = 0 /\ new.taken = 0
      /\ new.written = 0 /\ new.reader = "none"
  BY DEF NewStream
<1>6. Sound(new) /\ Awake(new)
  <2> HIDE DEF new
  <2> QED BY <1>3, <1>5 DEF Sound, Awake, SynIsFirst
<1> QED BY <1>4, <1>6

LEMMA WriteSound ==
  ASSUME NEW st, Sound(st), Awake(st), NEW n \in Nat
  PROVE  Sound(Write(st, n)) /\ Awake(Write(st, n))
<1> DEFINE w == st.written + n
           e == st.eof /\ n = 0
           k == st.posted + 1
           new == [st EXCEPT !.written = w, !.eof = e, !.posted = k]
<1>1. st \in StreamRecord /\ st.written \in Nat /\ st.taken \in Nat /\ st.taken <= st.written
  BY DEF Sound, StreamRecord
<1>2. w \in Nat /\ e \in BOOLEAN /\ k \in Nat /\ st.taken <= w
  <2>1. st.posted \in Nat BY <1>1 DEF StreamRecord
  <2> QED BY <1>1, <2>1
<1>3. Write(st, n) = new BY DEF Write
<1> HIDE DEF w, e, k
<1>4. new \in StreamRecord BY <1>1, <1>2, Zenon DEF StreamRecord
<1>5. /\ new.m_Status = st.m_Status
      /\ new.m_LastReceivedSequenceNumber = st.m_LastReceivedSequenceNumber
      /\ new.m_SavedPackets = st.m_SavedPackets
      /\ new.m_SentPackets = st.m_SentPackets
      /\ new.m_SequenceNumber = st.m_SequenceNumber
      /\ new.taken = st.taken /\ new.written = w
      /\ new.fins = st.fins /\ new.out = st.out
      /\ Awake(st) => Awake(new)
  BY <1>1 DEF StreamRecord, Awake
<1> HIDE DEF new
<1>6. Sound(new) BY <1>2, <1>4, <1>5 DEF Sound
<1> QED BY <1>3, <1>5, <1>6

\* Bookkeeping: no part of Sound or Awake is about these members.
LEMMA BookkeepingSound ==
  ASSUME NEW st, Sound(st), Awake(st), NEW n \in Nat, NEW m \in Nat, NEW b \in BOOLEAN
  PROVE  /\ LET new == [st EXCEPT !.m_SendHandler = b] IN Sound(new) /\ Awake(new)
         /\ LET new == [st EXCEPT !.closes = n, !.owed = m] IN Sound(new) /\ Awake(new)
         /\ LET new == [st EXCEPT !.posted = n] IN Sound(new) /\ Awake(new)
         /\ LET new == [st EXCEPT !.ackWait = b, !.ackFired = n] IN Sound(new) /\ Awake(new)
         /\ LET new == [st EXCEPT !.ackFired = n] IN Sound(new) /\ Awake(new)
         /\ LET new == [st EXCEPT !.ackAborted = n] IN Sound(new) /\ Awake(new)
         /\ LET new == [st EXCEPT !.registered = b] IN Sound(new) /\ Awake(new)
<1>1. st \in StreamRecord BY DEF Sound
<1>2. ASSUME NEW new \in StreamRecord, Same(st, new), Awake(new)
      PROVE  Sound(new) /\ Awake(new)
  BY <1>2 DEF Sound, Same
<1>3. LET new == [st EXCEPT !.m_SendHandler = b] IN Sound(new) /\ Awake(new)
  <2> DEFINE new == [st EXCEPT !.m_SendHandler = b]
  <2>1. new \in StreamRecord BY <1>1, Zenon DEF StreamRecord
  <2>2. Same(st, new) /\ Awake(new) BY <1>1 DEF StreamRecord, Same, Awake
  <2> HIDE DEF new
  <2>3. Sound(new) /\ Awake(new) BY <1>2, <2>1, <2>2
  <2> QED BY <2>3 DEF new
<1>4. LET new == [st EXCEPT !.closes = n, !.owed = m] IN Sound(new) /\ Awake(new)
  <2> DEFINE new == [st EXCEPT !.closes = n, !.owed = m]
  <2>1. new \in StreamRecord BY <1>1, Zenon DEF StreamRecord
  <2>2. Same(st, new) /\ Awake(new) BY <1>1 DEF StreamRecord, Same, Awake
  <2> HIDE DEF new
  <2>3. Sound(new) /\ Awake(new) BY <1>2, <2>1, <2>2
  <2> QED BY <2>3 DEF new
<1>5. LET new == [st EXCEPT !.posted = n] IN Sound(new) /\ Awake(new)
  <2> DEFINE new == [st EXCEPT !.posted = n]
  <2>1. new \in StreamRecord BY <1>1, Zenon DEF StreamRecord
  <2>2. Same(st, new) /\ Awake(new) BY <1>1 DEF StreamRecord, Same, Awake
  <2> HIDE DEF new
  <2>3. Sound(new) /\ Awake(new) BY <1>2, <2>1, <2>2
  <2> QED BY <2>3 DEF new
<1>6. LET new == [st EXCEPT !.ackWait = b, !.ackFired = n] IN Sound(new) /\ Awake(new)
  <2> DEFINE new == [st EXCEPT !.ackWait = b, !.ackFired = n]
  <2>1. new \in StreamRecord BY <1>1, Zenon DEF StreamRecord
  <2>2. Same(st, new) /\ Awake(new) BY <1>1 DEF StreamRecord, Same, Awake
  <2> HIDE DEF new
  <2>3. Sound(new) /\ Awake(new) BY <1>2, <2>1, <2>2
  <2> QED BY <2>3 DEF new
<1>7. LET new == [st EXCEPT !.ackFired = n] IN Sound(new) /\ Awake(new)
  <2> DEFINE new == [st EXCEPT !.ackFired = n]
  <2>1. new \in StreamRecord BY <1>1, Zenon DEF StreamRecord
  <2>2. Same(st, new) /\ Awake(new) BY <1>1 DEF StreamRecord, Same, Awake
  <2> HIDE DEF new
  <2>3. Sound(new) /\ Awake(new) BY <1>2, <2>1, <2>2
  <2> QED BY <2>3 DEF new
<1>8. LET new == [st EXCEPT !.ackAborted = n] IN Sound(new) /\ Awake(new)
  <2> DEFINE new == [st EXCEPT !.ackAborted = n]
  <2>1. new \in StreamRecord BY <1>1, Zenon DEF StreamRecord
  <2>2. Same(st, new) /\ Awake(new) BY <1>1 DEF StreamRecord, Same, Awake
  <2> HIDE DEF new
  <2>3. Sound(new) /\ Awake(new) BY <1>2, <2>1, <2>2
  <2> QED BY <2>3 DEF new
<1>9. LET new == [st EXCEPT !.registered = b] IN Sound(new) /\ Awake(new)
  <2> DEFINE new == [st EXCEPT !.registered = b]
  <2>1. new \in StreamRecord BY <1>1, Zenon DEF StreamRecord
  <2>2. Same(st, new) /\ Awake(new) BY <1>1 DEF StreamRecord, Same, Awake
  <2> HIDE DEF new
  <2>3. Sound(new) /\ Awake(new) BY <1>2, <2>1, <2>2
  <2> QED BY <2>3 DEF new
<1> QED BY <1>3, <1>4, <1>5, <1>6, <1>7, <1>8, <1>9

LEMMA ReadSound ==
  ASSUME NEW st, Sound(st), Awake(st)
  PROVE  \A new \in ConcatenatePackets(st) : Sound(new) /\ Awake(new)
<1>1. SUFFICES ASSUME NEW n \in 0 .. st.queued
               PROVE  LET new == [st EXCEPT !.queued = n] IN Sound(new) /\ Awake(new)
  BY DEF ConcatenatePackets
<1> DEFINE new == [st EXCEPT !.queued = n]
<1>2. st \in StreamRecord /\ n \in Nat
  <2>1. st \in StreamRecord BY DEF Sound
  <2>2. st.queued \in Nat BY <2>1, MemberTypes
  <2> QED BY <2>1, <2>2
<1>3. new \in StreamRecord BY <1>2, Zenon DEF StreamRecord
<1>4. Same(st, new) /\ Awake(new) BY <1>2 DEF StreamRecord, Same, Awake
<1> HIDE DEF new
<1>5. Sound(new) /\ Awake(new) BY <1>3, <1>4 DEF Sound, Same
<1> QED BY <1>5 DEF new

\* The reader starts to wait only when there is nothing to hand over.
LEMMA ReaderSound ==
  ASSUME NEW st, Sound(st), Awake(st), NEW r \in {"none", "waiting", "expired"},
         r = "waiting" => (st.queued = 0 /\ st.m_Status # "Reset")
  PROVE  LET new == [st EXCEPT !.reader = r] IN Sound(new) /\ Awake(new)
<1> DEFINE new == [st EXCEPT !.reader = r]
<1>1. st \in StreamRecord BY DEF Sound
<1>2. new \in StreamRecord BY <1>1, Zenon DEF StreamRecord
<1>3. Same(st, new) /\ Awake(new) BY <1>1 DEF StreamRecord, Same, Awake
<1> HIDE DEF new
<1>4. Sound(new) /\ Awake(new) BY <1>2, <1>3 DEF Sound, Same
<1> QED BY <1>4 DEF new

\* The resend timer fires: its handler is queued.
LEMMA ResendFiresSound ==
  ASSUME NEW st, Sound(st), Awake(st)
  PROVE  LET new == [st EXCEPT !.resendWait = FALSE, !.resendFired = @ + 1]
         IN Sound(new) /\ Awake(new)
<1> DEFINE k == st.resendFired + 1
           new == [st EXCEPT !.resendWait = FALSE, !.resendFired = k]
<1>1. st \in StreamRecord BY DEF Sound
<1>2. k \in Nat /\ k > 0 BY <1>1, MemberTypes
<1> HIDE DEF k
<1>3. new \in StreamRecord BY <1>1, <1>2, Zenon DEF StreamRecord
<1>4. Same(st, new) /\ Awake(new) BY <1>1, <1>2 DEF StreamRecord, Same, Awake
<1> HIDE DEF new
<1>5. Sound(new) /\ Awake(new) BY <1>3, <1>4 DEF Sound, Same
<1> QED BY <1>5 DEF new, k

\* A resend handler leaves the queue; it is about to run.
LEMMA ResendHandlerSound ==
  ASSUME NEW st, Sound(st), Awake(st), st.resendFired > 0
  PROVE  LET new == [st EXCEPT !.resendFired = @ - 1]
         IN /\ Sound(new) /\ new.m_SentPackets = st.m_SentPackets
            /\ new.reader = "waiting" => (new.queued = 0 /\ new.m_Status # "Reset")
<1> DEFINE k == st.resendFired - 1
           new == [st EXCEPT !.resendFired = k]
<1>1. st \in StreamRecord BY DEF Sound
<1>2. k \in Nat BY <1>1, MemberTypes
<1> HIDE DEF k
<1>3. new \in StreamRecord BY <1>1, <1>2, Zenon DEF StreamRecord
<1>4. Same(st, new) /\ new.reader = st.reader /\ new.queued = st.queued
  BY <1>1, <1>2 DEF StreamRecord, Same
<1> HIDE DEF new
<1>5. /\ Sound(new) /\ new.m_SentPackets = st.m_SentPackets
      /\ new.reader = "waiting" => (new.queued = 0 /\ new.m_Status # "Reset")
  BY <1>3, <1>4 DEF Sound, Same, Awake
<1> QED BY <1>5 DEF new, k

\* A posted FIN leaves the queue.
LEMMA TakeFinSound ==
  ASSUME NEW st, Sound(st), Awake(st), NEW p \in st.fins
  PROVE  LET new == [st EXCEPT !.fins = @ \ {p}] IN Sound(new) /\ Awake(new)
<1> DEFINE F == st.fins \ {p}
           new == [st EXCEPT !.fins = F]
<1>1. st \in StreamRecord /\ st.fins \in FinitePackets BY DEF Sound, StreamRecord
<1>2. F \in FinitePackets BY <1>1, FS_RemoveElement DEF FinitePackets
<1>3. SynIsFirst(F) BY DEF Sound, SynIsFirst
<1> HIDE DEF F
<1>4. new \in StreamRecord BY <1>1, <1>2, Zenon DEF StreamRecord
<1>5. /\ new.m_Status = st.m_Status
      /\ new.m_LastReceivedSequenceNumber = st.m_LastReceivedSequenceNumber
      /\ new.m_SavedPackets = st.m_SavedPackets
      /\ new.m_SentPackets = st.m_SentPackets
      /\ new.m_SequenceNumber = st.m_SequenceNumber
      /\ new.taken = st.taken /\ new.written = st.written
      /\ new.fins = F /\ new.out = st.out
      /\ Awake(new)
  BY <1>1 DEF StreamRecord, Awake
<1> HIDE DEF new
<1>6. Sound(new) /\ Awake(new) BY <1>3, <1>4, <1>5 DEF Sound
<1> QED BY <1>6 DEF new, F

LEMMA SendPacketSound ==
  ASSUME NEW st, Sound(st), Awake(st), NEW p \in Packet, IsSYN(p) => p.seqn = 0
  PROVE  Sound(SendPacket(st, p)) /\ Awake(SendPacket(st, p))
<1> DEFINE idle == [CancelAckSendTimer(st) EXCEPT !.m_IsAckSendScheduled = FALSE]
           st1 == IF st.m_IsAckSendScheduled THEN idle ELSE st
           st2 == SendPackets(st1, {p})
           Q   == st2.m_SentPackets \cup {p}
           w   == st2.resendWait \/ st.m_SentPackets = {}
           new == [st2 EXCEPT !.m_SentPackets = Q, !.resendWait = w]
<1>1. Sound(st1) /\ Awake(st1) /\ Same(st, st1)
  BY UnscheduleAckSound DEF Same
<1>2. SendPacket(st, p) = IF st.m_Status # "Open" THEN st2 ELSE new
  BY DEF SendPacket
<1> HIDE DEF st1
<1>3. {p} \in SUBSET Packet /\ SynIsFirst({p}) BY DEF SynIsFirst
<1>4. /\ Sound(st2) /\ Awake(st2) /\ st2.m_Status = st1.m_Status
      /\ st2.m_SentPackets = st1.m_SentPackets
  BY <1>1, <1>3, SendPacketsSound
<1> HIDE DEF st2
<1>5. /\ st2 \in StreamRecord /\ st2.m_SentPackets \in FinitePackets
      /\ st2.resendWait \in BOOLEAN
  BY <1>4 DEF Sound, StreamRecord
<1>6. Q \in FinitePackets BY <1>5, FS_AddElement DEF FinitePackets
<1>7. SynIsFirst(Q) BY <1>4 DEF Sound, SynIsFirst
<1>8. w \in BOOLEAN BY <1>5
<1> HIDE DEF Q, w
<1>9. new \in StreamRecord BY <1>5, <1>6, <1>8, Zenon DEF StreamRecord
<1>10. /\ new.m_Status = st2.m_Status
       /\ new.m_LastReceivedSequenceNumber = st2.m_LastReceivedSequenceNumber
       /\ new.m_SavedPackets = st2.m_SavedPackets
       /\ new.m_SentPackets = Q
       /\ new.m_SequenceNumber = st2.m_SequenceNumber
       /\ new.taken = st2.taken /\ new.written = st2.written
       /\ new.fins = st2.fins /\ new.out = st2.out
       /\ new.resendWait = w /\ new.resendFired = st2.resendFired
       /\ new.reader = st2.reader /\ new.queued = st2.queued
  BY <1>5 DEF StreamRecord
<1> HIDE DEF new
<1>11. ASSUME st.m_Status = "Open" PROVE Sound(new) /\ Awake(new)
  <2>1. Sound(new) BY <1>1, <1>4, <1>7, <1>9, <1>10, <1>11 DEF Sound, Same
  <2>2. Awake(new) BY <1>1, <1>4, <1>10 DEF Awake, Same, w
  <2> QED BY <2>1, <2>2
<1> QED BY <1>2, <1>4, <1>11
-----------------------------------------------------------------------------
(***************************************************************************)
(* The inductive invariant.                                                *)
(***************************************************************************)
IInv ==
  /\ streams \in [Streams -> StreamRecord]
  /\ \A s \in Streams : Sound(streams[s]) /\ Awake(streams[s])
  /\ net \subseteq Packet /\ SynIsFirst(net)
  /\ acceptor \in BOOLEAN

LEMMA UpdatePreserves ==
  ASSUME IInv, NEW s \in Streams, NEW st, Sound(st) /\ Awake(st), NEW A,
         Update(s, st, A), UNCHANGED acceptor
  PROVE  IInv'
<1> DEFINE O == {}
           new == [st EXCEPT !.out = O]
<1>1. st \in StreamRecord /\ O \in SUBSET Packet BY DEF Sound
<1>2. st.out \in SUBSET Packet /\ SynIsFirst(st.out) BY <1>1 DEF StreamRecord, Sound
<1>3. SynIsFirst(O) BY DEF SynIsFirst
<1>4. streams' = [streams EXCEPT ![s] = new] /\ net' = (net \ A) \cup st.out
  BY DEF Update
<1> HIDE DEF O
<1>5. new \in StreamRecord BY <1>1, Zenon DEF StreamRecord
<1>6. /\ new.m_Status = st.m_Status
      /\ new.m_LastReceivedSequenceNumber = st.m_LastReceivedSequenceNumber
      /\ new.m_SavedPackets = st.m_SavedPackets
      /\ new.m_SentPackets = st.m_SentPackets
      /\ new.m_SequenceNumber = st.m_SequenceNumber
      /\ new.taken = st.taken /\ new.written = st.written
      /\ new.fins = st.fins /\ new.out = O
      /\ Awake(new)
  BY <1>1 DEF StreamRecord, Awake
<1> HIDE DEF new
<1>7. Sound(new) /\ Awake(new) BY <1>3, <1>5, <1>6 DEF Sound
<1>8. streams' \in [Streams -> StreamRecord] BY <1>4, <1>5 DEF IInv
<1>9. \A t \in Streams : streams'[t] = IF t = s THEN new ELSE streams[t]
  BY <1>4 DEF IInv
<1>10. \A t \in Streams : Sound(streams'[t]) /\ Awake(streams'[t])
  BY <1>7, <1>9 DEF IInv
<1>11. net' \subseteq Packet /\ SynIsFirst(net')
  BY <1>2, <1>4 DEF IInv, SynIsFirst
<1>12. acceptor' \in BOOLEAN BY DEF IInv
<1> QED BY <1>8, <1>10, <1>11, <1>12 DEF IInv, Sound, Awake, SynIsFirst

LEMMA InitIInv == Init => IInv
<1>1. SUFFICES ASSUME Init PROVE IInv OBVIOUS
<1>2. Sound(NewStream) /\ Awake(NewStream) BY NewStreamSound
<1>3. NewStream \in StreamRecord BY <1>2 DEF Sound
<1>4. /\ streams = [s \in Streams |-> NewStream] /\ net = {}
      /\ acceptor \in BOOLEAN
  BY <1>1 DEF Init
<1> QED BY <1>2, <1>3, <1>4 DEF IInv, SynIsFirst

\* What the application does.
LEMMA ApplicationPreserves ==
  ASSUME IInv, NEW s \in Streams,
         \/ CreateNewOutgoingStream(s)
         \/ \E n \in SendSizes : Send(s, n) \/ AsyncSend(s, n)
         \/ AppClose(s) \/ ReadSome(s) \/ AsyncReceive(s) \/ Cancel(s)
         \/ ReceiveTimerExpires(s) \/ HandleReceiveTimer(s)
  PROVE  IInv'
<1> DEFINE st == streams[s]
<1>1. Sound(st) /\ Awake(st) BY DEF IInv
<1>2. st \in StreamRecord BY <1>1 DEF Sound
<1>a. ASSUME NEW new, Sound(new) /\ Awake(new), Update(s, new, {}), UNCHANGED acceptor
      PROVE  IInv'
  BY <1>a, UpdatePreserves
<1>3. CASE CreateNewOutgoingStream(s)
  BY <1>3, <1>a, NewStreamSound DEF CreateNewOutgoingStream
<1>4. ASSUME NEW n \in SendSizes, Send(s, n) PROVE IInv'
  <2>1. n \in Nat BY SizeConstants
  <2> HIDE DEF st
  <2> QED BY <1>1, <1>4, <1>a, <2>1, WriteSound DEF Send, st
<1>5. ASSUME NEW n \in SendSizes, AsyncSend(s, n) PROVE IInv'
  <2> DEFINE w == Write(st, n)
  <2>1. n \in Nat BY SizeConstants
  <2>2. Sound(w) /\ Awake(w) BY <1>1, <2>1, WriteSound
  <2>3. Update(s, [w EXCEPT !.m_SendHandler = TRUE], {}) /\ UNCHANGED acceptor
    BY <1>5 DEF AsyncSend
  <2> HIDE DEF w
  <2>4. LET new == [w EXCEPT !.m_SendHandler = TRUE] IN Sound(new) /\ Awake(new)
    BY <2>1, <2>2, BookkeepingSound
  <2> QED BY <1>a, <2>3, <2>4
<1>6. CASE AppClose(s)
  <2> DEFINE c == Close(s, st)
             n == c.closes + 1
             m == IF st.closes = 0 THEN st.written ELSE c.owed
  <2>1. Sound(c) /\ Awake(c) BY <1>1, CloseSound
  <2>2. n \in Nat /\ m \in Nat
    <3>1. c \in StreamRecord BY <2>1 DEF Sound
    <3> HIDE DEF c
    <3>2. c.closes \in Nat /\ c.owed \in Nat BY <3>1 DEF StreamRecord
    <3>3. st.written \in Nat BY <1>2 DEF StreamRecord
    <3> QED BY <3>2, <3>3
  <2>3. Update(s, [c EXCEPT !.closes = n, !.owed = m], {}) /\ UNCHANGED acceptor
    BY <1>6 DEF AppClose
  <2> HIDE DEF c, n, m
  <2>4. LET new == [c EXCEPT !.closes = n, !.owed = m] IN Sound(new) /\ Awake(new)
    BY <2>1, <2>2, BookkeepingSound
  <2> QED BY <1>a, <2>3, <2>4
<1>7. CASE ReadSome(s)
  <2>1. PICK new \in ConcatenatePackets(st) : Update(s, new, {}) BY <1>7 DEF ReadSome
  <2> HIDE DEF st
  <2> QED BY <1>1, <1>7, <1>a, <2>1, ReadSound DEF ReadSome
<1>8. CASE AsyncReceive(s)
  <2>1. CASE st.queued > 0 \/ st.m_Status = "Reset"
    <3>1. PICK new \in ConcatenatePackets(st) : Update(s, new, {})
      BY <1>8, <2>1 DEF AsyncReceive
    <3> HIDE DEF st
    <3> QED BY <1>1, <1>8, <1>a, <3>1, ReadSound DEF AsyncReceive
  <2>2. CASE ~(st.queued > 0 \/ st.m_Status = "Reset")
    <3>1. Update(s, [st EXCEPT !.reader = "waiting"], {}) /\ UNCHANGED acceptor
      BY <1>8, <2>2 DEF AsyncReceive
    <3>2. st.queued = 0 /\ st.m_Status # "Reset" BY <1>2, <2>2, MemberTypes
    <3> HIDE DEF st
    <3>3. LET new == [st EXCEPT !.reader = "waiting"] IN Sound(new) /\ Awake(new)
      BY <1>1, <3>2, ReaderSound
    <3> QED BY <1>a, <3>1, <3>3
  <2> QED BY <2>1, <2>2
<1>9. CASE Cancel(s)
  <2> DEFINE new == CancelReceiveTimer(st)
  <2>1. Update(s, new, {}) /\ UNCHANGED acceptor BY <1>9 DEF Cancel
  <2> HIDE DEF st
  <2>2. /\ Sound(new) /\ Same(st, new) /\ new.resendWait = st.resendWait
        /\ new.resendFired = st.resendFired /\ new.reader # "waiting"
    BY <1>1, CancelReceiveTimerSound
  <2> HIDE DEF new
  <2>3. Awake(new) BY <1>1, <2>2 DEF Awake, Same
  <2> QED BY <1>a, <2>1, <2>2, <2>3
<1>10. CASE ReceiveTimerExpires(s)
  <2>1. Update(s, [st EXCEPT !.reader = "expired"], {}) /\ UNCHANGED acceptor
    BY <1>10 DEF ReceiveTimerExpires
  <2> HIDE DEF st
  <2>2. LET new == [st EXCEPT !.reader = "expired"] IN Sound(new) /\ Awake(new)
    BY <1>1, ReaderSound
  <2> QED BY <1>a, <2>1, <2>2
<1>11. CASE HandleReceiveTimer(s)
  <2> DEFINE st1 == [st EXCEPT !.reader = "none"]
  <2>1. PICK new \in ConcatenatePackets(st1) : Update(s, new, {})
    BY <1>11 DEF HandleReceiveTimer
  <2> HIDE DEF st
  <2>2. Sound(st1) /\ Awake(st1) BY <1>1, ReaderSound
  <2> HIDE DEF st1
  <2> QED BY <1>11, <1>a, <2>1, <2>2, ReadSound DEF HandleReceiveTimer
<1> QED BY <1>3, <1>4, <1>5, <1>6, <1>7, <1>8, <1>9, <1>10, <1>11

\* What the io_service runs.
LEMMA HandlersPreserve ==
  ASSUME IInv, NEW s \in Streams,
         \/ RunSendBuffer(s) \/ RunSendPacket(s)
         \/ ResendTimerExpires(s) \/ RunResendTimer(s)
         \/ AckSendTimerExpires(s) \/ RunAckSendTimer(s)
  PROVE  IInv'
<1> DEFINE st == streams[s]
<1>1. Sound(st) /\ Awake(st) BY DEF IInv
<1>2. /\ st \in StreamRecord /\ st.posted \in Nat /\ st.ackFired \in Nat
      /\ st.ackAborted \in Nat /\ st.fins \in FinitePackets
  BY <1>1 DEF Sound, StreamRecord
<1>a. ASSUME NEW new, Sound(new) /\ Awake(new), Update(s, new, {}), UNCHANGED acceptor
      PROVE  IInv'
  BY <1>a, UpdatePreserves
<1>3. CASE RunSendBuffer(s)
  <2> DEFINE k == st.posted - 1
             st1 == [st EXCEPT !.posted = k]
  <2>1. k \in Nat BY <1>2, <1>3 DEF RunSendBuffer
  <2>2. Update(s, SendBuffer(s, st1), {}) /\ UNCHANGED acceptor
    BY <1>3 DEF RunSendBuffer
  <2> HIDE DEF st, k
  <2>3. Sound(st1) /\ Awake(st1) BY <1>1, <2>1, BookkeepingSound
  <2> HIDE DEF st1
  <2> QED BY <1>a, <2>2, <2>3, SendBufferSound
<1>4. CASE RunSendPacket(s)
  <2>1. PICK p \in st.fins : Update(s, SendPacket([st EXCEPT !.fins = @ \ {p}], p), {})
    BY <1>4 DEF RunSendPacket
  <2>2. UNCHANGED acceptor BY <1>4 DEF RunSendPacket
  <2> DEFINE st1 == [st EXCEPT !.fins = @ \ {p}]
  <2>3. p \in Packet /\ (IsSYN(p) => p.seqn = 0)
    BY <1>1, <1>2 DEF FinitePackets, Sound, SynIsFirst
  <2> HIDE DEF st
  <2>4. Sound(st1) /\ Awake(st1) BY <1>1, TakeFinSound
  <2> HIDE DEF st1
  <2>5. Sound(SendPacket(st1, p)) /\ Awake(SendPacket(st1, p))
    BY <2>3, <2>4, SendPacketSound
  <2> QED BY <1>a, <2>1, <2>2, <2>5 DEF st1
<1>5. CASE ResendTimerExpires(s)
  <2>1. /\ Update(s, [st EXCEPT !.resendWait = FALSE, !.resendFired = @ + 1], {})
        /\ UNCHANGED acceptor
    BY <1>5 DEF ResendTimerExpires
  <2> HIDE DEF st
  <2>2. LET new == [st EXCEPT !.resendWait = FALSE, !.resendFired = @ + 1]
        IN Sound(new) /\ Awake(new)
    BY <1>1, ResendFiresSound
  <2> QED BY <1>a, <2>1, <2>2
<1>6. CASE RunResendTimer(s)
  <2> DEFINE st1 == [st EXCEPT !.resendFired = @ - 1]
  <2>1. PICK due \in SUBSET st1.m_SentPackets :
          Update(s, HandleResendTimer(s, st1, due), {})
    BY <1>6 DEF RunResendTimer
  <2>2. UNCHANGED acceptor /\ st.resendFired > 0 BY <1>6 DEF RunResendTimer
  <2> HIDE DEF st
  <2>3. /\ Sound(st1)
        /\ st1.reader = "waiting" => (st1.queued = 0 /\ st1.m_Status # "Reset")
    BY <1>1, <2>2, ResendHandlerSound
  <2> HIDE DEF st1
  <2> QED BY <1>a, <2>1, <2>2, <2>3, HandleResendTimerSound
<1>7. CASE AckSendTimerExpires(s)
  <2> DEFINE k == st.ackFired + 1
  <2>1. k \in Nat BY <1>2
  <2>2. /\ Update(s, [st EXCEPT !.ackWait = FALSE, !.ackFired = k], {})
        /\ UNCHANGED acceptor
    BY <1>7 DEF AckSendTimerExpires
  <2> HIDE DEF st, k
  <2>3. LET new == [st EXCEPT !.ackWait = FALSE, !.ackFired = k]
        IN Sound(new) /\ Awake(new)
    BY <1>1, <2>1, BookkeepingSound
  <2> QED BY <1>a, <2>2, <2>3
<1>8. CASE RunAckSendTimer(s)
  <2>1. CASE st.ackFired > 0 /\ Update(s, HandleAckSendTimer(s,
               [st EXCEPT !.ackFired = @ - 1]), {})
    <3> DEFINE k == st.ackFired - 1
               st1 == [st EXCEPT !.ackFired = k]
    <3>1. k \in Nat BY <1>2, <2>1
    <3>2. Update(s, HandleAckSendTimer(s, st1), {}) /\ UNCHANGED acceptor
      BY <1>8, <2>1 DEF RunAckSendTimer
    <3> HIDE DEF st, k
    <3>3. Sound(st1) /\ Awake(st1) BY <1>1, <3>1, BookkeepingSound
    <3> HIDE DEF st1
    <3> QED BY <1>a, <3>2, <3>3, HandleAckSendTimerSound
  <2>2. CASE st.ackAborted > 0 /\ Update(s, HandleAckSendTimer(s,
               [st EXCEPT !.ackAborted = @ - 1]), {})
    <3> DEFINE k == st.ackAborted - 1
               st1 == [st EXCEPT !.ackAborted = k]
    <3>1. k \in Nat BY <1>2, <2>2
    <3>2. Update(s, HandleAckSendTimer(s, st1), {}) /\ UNCHANGED acceptor
      BY <1>8, <2>2 DEF RunAckSendTimer
    <3> HIDE DEF st, k
    <3>3. Sound(st1) /\ Awake(st1) BY <1>1, <3>1, BookkeepingSound
    <3> HIDE DEF st1
    <3> QED BY <1>a, <3>2, <3>3, HandleAckSendTimerSound
  <2> QED BY <1>8, <2>1, <2>2 DEF RunAckSendTimer
<1> QED BY <1>3, <1>4, <1>5, <1>6, <1>7, <1>8

\* What arrives.
LEMMA DeliveryPreserves ==
  ASSUME IInv, NEW p \in net,
         \/ DeliverToKnownStream(p)
         \/ DeliverFirstSYN(p)
         \/ DeliverByReceiveStreamID(p)
  PROVE  IInv'
<1>1. p \in Packet /\ (IsSYN(p) => p.seqn = 0) /\ p.rid \in Streams
  BY DEF IInv, SynIsFirst, Packet
<1>2. Remote(p.rid) \subseteq Streams BY DEF Remote, Streams
<1>3. ASSUME Drop(p), UNCHANGED acceptor PROVE IInv'
  BY <1>3 DEF Drop, IInv, SynIsFirst
<1>4. ASSUME NEW s \in Streams, ToStream(s, p), UNCHANGED acceptor PROVE IInv'
  <2> DEFINE st == streams[s]
  <2>1. Sound(st) /\ Awake(st) BY DEF IInv
  <2>2. PICK grow \in BOOLEAN : Update(s, HandleNextPacket(s, st, p, grow), {p})
    BY <1>4 DEF ToStream, MayGrow
  <2> DEFINE new == HandleNextPacket(s, st, p, grow)
  <2>3. Sound(new) /\ Awake(new)
    <3> HIDE DEF st
    <3> QED BY <1>1, <2>1, HandleNextPacketSound
  <2> HIDE DEF new
  <2> QED BY <1>4, <2>2, <2>3, UpdatePreserves DEF new
<1>5. CASE DeliverToKnownStream(p)
  <2>1. Registered(Remote(p.rid)) \subseteq Streams BY <1>2 DEF Registered
  <2> QED BY <1>3, <1>4, <1>5, <2>1 DEF DeliverToKnownStream
<1>6. CASE DeliverByReceiveStreamID(p)
  <2>1. Registered(Remote(p.rid)) \subseteq Streams BY <1>2 DEF Registered
  <2>2. \/ Drop(p)
        \/ \E s \in Streams : ToStream(s, p)
    BY <1>6, <2>1 DEF DeliverByReceiveStreamID
  <2>3. UNCHANGED acceptor BY <1>6 DEF DeliverByReceiveStreamID
  <2> QED BY <1>3, <1>4, <2>2, <2>3
<1>7. CASE DeliverFirstSYN(p)
  <2> DEFINE new == [NewStream EXCEPT !.m_Status = "New", !.registered = TRUE]
             St(s) == HandleNextPacket(s, new, p, FALSE)
  <2>1. PICK s \in Remote(p.rid) :
          Update(s, [St(s) EXCEPT !.registered = @ /\ acceptor], {p})
    BY <1>7 DEF DeliverFirstSYN
  <2>2. UNCHANGED acceptor /\ s \in Streams BY <1>2, <1>7, <2>1 DEF DeliverFirstSYN
  <2>3. Sound(new) /\ Awake(new) BY NewStreamSound
  <2> DEFINE st == St(s)
             b == st.registered /\ acceptor
             st1 == [st EXCEPT !.registered = b]
  <2>4. Update(s, st1, {p}) BY <2>1
  <2> HIDE DEF new
  <2>5. Sound(st) /\ Awake(st) BY <1>1, <2>2, <2>3, HandleNextPacketSound
  <2> HIDE DEF st
  <2>6. b \in BOOLEAN /\ 0 \in Nat OBVIOUS
  <2> HIDE DEF b
  <2>7. Sound(st1) /\ Awake(st1) BY <2>5, <2>6, BookkeepingSound
  <2> HIDE DEF st1
  <2> QED BY <2>2, <2>4, <2>7, UpdatePreserves
<1> QED BY <1>5, <1>6, <1>7

\* SetAcceptor and Stop.
LEMMA DestinationPreserves ==
  ASSUME IInv, SetAcceptor \/ \E D \in {Outgoing, Incoming} : Stop(D)
  PROVE  IInv'
<1>1. CASE SetAcceptor BY <1>1 DEF SetAcceptor, IInv, SynIsFirst
<1>2. CASE \E D \in {Outgoing, Incoming} : Stop(D)
  <2>1. PICK D : Stop(D) BY <1>2
  <2> DEFINE Off(s) == [streams[s] EXCEPT !.registered = FALSE]
  <2>2. ASSUME NEW s \in Streams PROVE Sound(Off(s)) /\ Awake(Off(s))
    <3> DEFINE st == streams[s]
    <3>1. Sound(st) /\ Awake(st) BY DEF IInv
    <3> HIDE DEF st
    <3>2. 0 \in Nat /\ FALSE \in BOOLEAN OBVIOUS
    <3>3. LET new == [st EXCEPT !.registered = FALSE] IN Sound(new) /\ Awake(new)
      BY <3>1, <3>2, BookkeepingSound
    <3> QED BY <3>3 DEF st
  <2>3. streams' = [s \in Streams |-> IF s \in D THEN Off(s) ELSE streams[s]]
    BY <2>1 DEF Stop
  <2>4. net' = net /\ acceptor' \in BOOLEAN BY <2>1 DEF Stop
  <2> HIDE DEF Off
  <2>5. \A s \in Streams : Sound(streams'[s]) /\ Awake(streams'[s])
    BY <2>2, <2>3 DEF IInv
  <2>6. \A s \in Streams : Off(s) \in StreamRecord BY <2>2 DEF Sound
  <2>7. streams' \in [Streams -> StreamRecord] BY <2>3, <2>6 DEF IInv
  <2> QED BY <2>4, <2>5, <2>7 DEF IInv, SynIsFirst, Sound, Awake
<1> QED BY <1>1, <1>2

LEMMA StepPreserves == IInv /\ [Next]_vars => IInv'
<1>1. SUFFICES ASSUME IInv, [Next]_vars PROVE IInv' OBVIOUS
<1>2. CASE UNCHANGED vars
  <2>1. streams' = streams /\ net' = net /\ acceptor' = acceptor BY <1>2 DEF vars
  <2>2. \A s \in Streams : Sound(streams'[s]) /\ Awake(streams'[s])
    BY <1>1, <2>1 DEF IInv
  <2>3. /\ streams' \in [Streams -> StreamRecord]
        /\ net' \subseteq Packet /\ SynIsFirst(net') /\ acceptor' \in BOOLEAN
    BY <1>1, <2>1 DEF IInv
  <2> QED BY <2>2, <2>3 DEF IInv, Sound, Awake, SynIsFirst
<1>3. CASE Next
  <2>1. ASSUME NEW s \in Streams,
               \/ CreateNewOutgoingStream(s)
               \/ \E n \in SendSizes : Send(s, n) \/ AsyncSend(s, n)
               \/ AppClose(s)
               \/ ReadSome(s) \/ AsyncReceive(s) \/ Cancel(s)
               \/ ReceiveTimerExpires(s) \/ HandleReceiveTimer(s)
        PROVE  IInv'
    BY <1>1, <2>1, ApplicationPreserves
  <2>2. ASSUME NEW s \in Streams,
               \/ RunSendBuffer(s) \/ RunSendPacket(s)
               \/ ResendTimerExpires(s) \/ RunResendTimer(s)
               \/ AckSendTimerExpires(s) \/ RunAckSendTimer(s)
        PROVE  IInv'
    BY <1>1, <2>2, HandlersPreserve
  <2>3. ASSUME NEW p \in net, \/ DeliverToKnownStream(p)
                              \/ DeliverFirstSYN(p)
                              \/ DeliverByReceiveStreamID(p)
        PROVE  IInv'
    BY <1>1, <2>3, DeliveryPreserves
  <2>4. ASSUME SetAcceptor \/ \E D \in {Outgoing, Incoming} : Stop(D) PROVE IInv'
    BY <1>1, <2>4, DestinationPreserves
  <2> QED BY <1>3, <2>1, <2>2, <2>3, <2>4, Zenon DEF Next
<1> QED BY <1>1, <1>2, <1>3

\* IInv holds in every reachable state of the streaming library.
THEOREM Invariance == Spec => []IInv
BY InitIInv, StepPreserves, PTL DEF Spec

\* Every member of a Stream, every packet and the window keep their types
\* and bounds, for any number of streams and any window sizes.
THEOREM TypeCorrect == Spec => []TypeOK
<1>1. IInv => TypeOK BY DEF IInv, TypeOK
<1> QED BY <1>1, Invariance, PTL

\* HandleNextPacket never strands a packet in m_SavedPackets: what is saved
\* lies beyond a gap.
THEOREM SavedPacketsWait == Spec => []SavedBeyondGap
<1>1. IInv => SavedBeyondGap BY DEF IInv, Sound, SavedBeyondGap
<1> QED BY <1>1, Invariance, PTL

\* As long as a stream is open or closing, ScheduleResend or a handler on
\* its way covers every unacknowledged packet.
THEOREM ResendIsPending == Spec => []UnackedWillBeResent
<1>1. IInv => UnackedWillBeResent BY DEF IInv, Awake, UnackedWillBeResent
<1> QED BY <1>1, Invariance, PTL

\* A reader never sleeps while data is queued or the stream is reset.
THEOREM ReadersWake == Spec => []NoLostWakeup
<1>1. IInv => NoLostWakeup BY DEF IInv, Awake, NoLostWakeup
<1> QED BY <1>1, Invariance, PTL
-----------------------------------------------------------------------------
(***************************************************************************)
(* A sequence number names one packet, a send handler is never stranded,   *)
(* and a deleted stream takes nothing in.                                  *)
(*                                                                         *)
(* Each operator of module Stream takes the numbers of new packets from    *)
(* m_SequenceNumber on and moves it past them (Advances); what it takes    *)
(* from Serves, that a send handler has something ahead of it which will   *)
(* call it, is given back by the end of the handler.  An action makes one  *)
(* such change to one stream (Change), and three properties follow from    *)
(* that.                                                                   *)
(***************************************************************************)
Alike(p, q) == p.off = q.off /\ p.len = q.len /\ p.flags = q.flags

\* The packets that a stream holds, has posted or has just handed out.
Own(st) == st.m_SentPackets \cup st.fins \cup st.out

TakenNumber(s, st, new, p) ==
  p.rid = s /\ st.m_SequenceNumber <= p.seqn /\ p.seqn < new.m_SequenceNumber

\* A new packet goes to the peer that its stream knows.
Addressed(s, st, new, p) ==
  /\ p.rid = s
  /\ IF p.sid = NoStream THEN st.m_SendStreamID = NoStream ELSE p.sid = new.m_SendStreamID

\* The payloads of new packets follow each other from st.taken to new.taken.
Continues(st, new) ==
  /\ new.m_SequenceNumber = st.m_SequenceNumber => new.taken = st.taken
  /\ \A p \in Own(new) \ Own(st) :
       ~IsPlainAck(p) =>
         /\ p.seqn = st.m_SequenceNumber => p.off = st.taken
         /\ p.seqn + 1 = new.m_SequenceNumber => p.off + p.len = new.taken
  /\ \A p, q \in Own(new) \ Own(st) :
       ~IsPlainAck(p) /\ ~IsPlainAck(q) /\ q.seqn = p.seqn + 1 =>
         q.off = p.off + p.len

\* Numbers are taken in order, each for one packet, and a stream and its peer
\* are there for good.
Advances(s, st, new) ==
  /\ st.m_SequenceNumber <= new.m_SequenceNumber
  /\ \A p \in Own(new) \ Own(st) : IsPlainAck(p) \/ TakenNumber(s, st, new, p)
  /\ \A p, q \in Own(new) \ Own(st) :
       ~IsPlainAck(p) /\ ~IsPlainAck(q) /\ p.seqn = q.seqn => Alike(p, q)
  /\ new.m_Status = "None" => st.m_Status = "None"
  /\ st.m_SendStreamID # NoStream => new.m_SendStreamID = st.m_SendStreamID
  /\ \A p \in Own(new) \ Own(st) : Addressed(s, st, new, p)
  /\ Continues(st, new)

\* A stream that knows no peer ID has its SYN in flight once it is open.
AwaitsPeer(st) ==
  st.m_SendStreamID = NoStream /\ st.m_Status \in {"Open", "Closing", "Closed"}
    => st.m_SentPackets # {}

HandlerServed(st) ==
  st.m_SendHandler /\ st.m_Status # "Reset" => st.posted > 0 \/ st.m_SentPackets # {}

Serves(st) == AwaitsPeer(st) /\ HandlerServed(st)

\* Nothing is taken in or handed to the reader.
Kept(st, new) ==
  /\ new.received = st.received /\ new.syns = st.syns
  /\ new.m_LastReceivedSequenceNumber = st.m_LastReceivedSequenceNumber
  /\ new.m_SavedPackets = st.m_SavedPackets
  /\ new.m_SendStreamID = st.m_SendStreamID

Unheard(st, new) == Kept(st, new) /\ (new.registered => st.registered)

\* The sender's members that timers do not touch.
Steady(st, new) ==
  /\ new.m_Status = st.m_Status /\ new.m_SendStreamID = st.m_SendStreamID
  /\ new.m_SequenceNumber = st.m_SequenceNumber /\ new.taken = st.taken
  /\ new.m_SentPackets = st.m_SentPackets
  /\ new.fins = st.fins /\ new.out = st.out /\ new.posted = st.posted
  /\ new.m_SendHandler => st.m_SendHandler

\* ... and the receiver's, with those that Shutdown ends.
Still(st, new) == Steady(st, new) /\ Unheard(st, new)

Orderly(s, st, new) == Advances(s, st, new) /\ (Serves(st) => Serves(new))
-----------------------------------------------------------------------------
(***************************************************************************)
(* The relations.                                                          *)
(***************************************************************************)
LEMMA OwnTyped ==
  ASSUME NEW st, Sound(st)
  PROVE  /\ st.m_SequenceNumber \in Nat /\ st.taken \in Nat /\ Own(st) \subseteq Packet
         /\ \A p \in Own(st) : p.seqn \in Nat /\ p.off \in Nat /\ p.len \in Nat
<1>1. st \in StreamRecord BY DEF Sound
<1>2. /\ st.m_SequenceNumber \in Nat /\ st.taken \in Nat
      /\ st.m_SentPackets \subseteq Packet
      /\ st.fins \subseteq Packet /\ st.out \subseteq Packet
  BY <1>1 DEF StreamRecord, FinitePackets
<1>3. Own(st) \subseteq Packet BY <1>2 DEF Own
<1>4. \A p \in Packet : p.seqn \in Nat /\ p.off \in Nat /\ p.len \in Nat BY DEF Packet
<1> QED BY <1>2, <1>3, <1>4

LEMMA SteadyOrderly ==
  ASSUME NEW s, NEW st, NEW new, Sound(st), Steady(st, new)
  PROVE  Orderly(s, st, new) /\ Own(new) = Own(st)
<1>1. st.m_SequenceNumber \in Nat BY OwnTyped
<1>2. Own(new) = Own(st) BY DEF Own, Steady
<1>3. Advances(s, st, new) BY <1>1, <1>2 DEF Advances, Continues, Steady
<1>4. Serves(st) => Serves(new) BY DEF Serves, AwaitsPeer, HandlerServed, Steady
<1> QED BY <1>2, <1>3, <1>4 DEF Orderly

LEMMA StillOrderly ==
  ASSUME NEW s, NEW st, NEW new, Sound(st), Still(st, new)
  PROVE  Orderly(s, st, new) /\ Own(new) = Own(st)
BY SteadyOrderly DEF Still

\* The payloads of two steps follow each other.
LEMMA ContinuesTransitive ==
  ASSUME NEW s, NEW a, NEW b, NEW c, Sound(a), Sound(b), Sound(c),
         Advances(s, a, b), Advances(s, b, c)
  PROVE  Continues(a, c)
<1>1. /\ a.m_SequenceNumber \in Nat /\ b.m_SequenceNumber \in Nat
      /\ c.m_SequenceNumber \in Nat
      /\ a.m_SequenceNumber <= b.m_SequenceNumber
      /\ b.m_SequenceNumber <= c.m_SequenceNumber
      /\ Continues(a, b) /\ Continues(b, c)
  BY OwnTyped DEF Advances
<1>2. \A p \in Own(b) \cup Own(c) : p.seqn \in Nat BY OwnTyped
<1>3. ASSUME NEW p \in Own(c) \ Own(a), ~IsPlainAck(p), p \in Own(b)
      PROVE  /\ p \in Own(b) \ Own(a) /\ p.seqn < b.m_SequenceNumber
             /\ a.m_SequenceNumber <= p.seqn
  BY <1>3 DEF Advances, TakenNumber
<1>4. ASSUME NEW p \in Own(c) \ Own(a), ~IsPlainAck(p), p \notin Own(b)
      PROVE  /\ p \in Own(c) \ Own(b) /\ p.seqn < c.m_SequenceNumber
             /\ b.m_SequenceNumber <= p.seqn
  BY <1>4 DEF Advances, TakenNumber
<1>5. a.m_SequenceNumber = c.m_SequenceNumber => c.taken = a.taken
  BY <1>1 DEF Continues
<1>6. ASSUME NEW p \in Own(c) \ Own(a), ~IsPlainAck(p)
      PROVE  /\ p.seqn = a.m_SequenceNumber => p.off = a.taken
             /\ p.seqn + 1 = c.m_SequenceNumber => p.off + p.len = c.taken
  <2>1. CASE p \in Own(b)
    <3>1. p.seqn = a.m_SequenceNumber => p.off = a.taken
      BY <1>1, <1>3, <1>6, <2>1 DEF Continues
    <3>2. ASSUME p.seqn + 1 = c.m_SequenceNumber PROVE p.off + p.len = c.taken
      <4>1. b.m_SequenceNumber = c.m_SequenceNumber
        BY <1>1, <1>2, <1>3, <1>6, <2>1, <3>2
      <4>2. c.taken = b.taken BY <1>1, <4>1 DEF Continues
      <4>3. p.off + p.len = b.taken BY <1>1, <1>3, <1>6, <2>1, <3>2, <4>1 DEF Continues
      <4> QED BY <4>2, <4>3
    <3> QED BY <3>1, <3>2
  <2>2. CASE p \notin Own(b)
    <3>1. p.seqn + 1 = c.m_SequenceNumber => p.off + p.len = c.taken
      BY <1>1, <1>4, <1>6, <2>2 DEF Continues
    <3>2. ASSUME p.seqn = a.m_SequenceNumber PROVE p.off = a.taken
      <4>1. b.m_SequenceNumber = a.m_SequenceNumber
        BY <1>1, <1>2, <1>4, <1>6, <2>2, <3>2
      <4>2. b.taken = a.taken BY <1>1, <4>1 DEF Continues
      <4>3. p.off = b.taken BY <1>1, <1>4, <1>6, <2>2, <3>2, <4>1 DEF Continues
      <4> QED BY <4>2, <4>3
    <3> QED BY <3>1, <3>2
  <2> QED BY <2>1, <2>2
<1>7. ASSUME NEW p \in Own(c) \ Own(a), NEW q \in Own(c) \ Own(a),
             ~IsPlainAck(p), ~IsPlainAck(q), q.seqn = p.seqn + 1
      PROVE  q.off = p.off + p.len
  <2>1. CASE p \in Own(b) /\ q \in Own(b)
    BY <1>1, <1>3, <1>7, <2>1 DEF Continues
  <2>2. CASE p \notin Own(b) /\ q \notin Own(b)
    BY <1>1, <1>4, <1>7, <2>2 DEF Continues
  <2>3. CASE p \in Own(b) /\ q \notin Own(b)
    <3>1. p.seqn + 1 = b.m_SequenceNumber /\ q.seqn = b.m_SequenceNumber
      BY <1>1, <1>2, <1>3, <1>4, <1>7, <2>3
    <3>2. p.off + p.len = b.taken BY <1>1, <1>3, <1>7, <2>3, <3>1 DEF Continues
    <3>3. q.off = b.taken BY <1>1, <1>4, <1>7, <2>3, <3>1 DEF Continues
    <3> QED BY <3>2, <3>3
  <2>4. CASE p \notin Own(b) /\ q \in Own(b)
    BY <1>1, <1>2, <1>3, <1>4, <1>7, <2>4
  <2> QED BY <2>1, <2>2, <2>3, <2>4
<1> QED BY <1>5, <1>6, <1>7 DEF Continues

LEMMA AdvancesTransitive ==
  ASSUME NEW s, NEW a, NEW b, NEW c, Sound(a), Sound(b), Sound(c),
         Advances(s, a, b), Advances(s, b, c)
  PROVE  Advances(s, a, c)
<1>1. /\ a.m_SequenceNumber \in Nat /\ b.m_SequenceNumber \in Nat
      /\ c.m_SequenceNumber \in Nat
      /\ a.m_SequenceNumber <= b.m_SequenceNumber
      /\ b.m_SequenceNumber <= c.m_SequenceNumber
  BY OwnTyped DEF Advances
<1>2. \A p \in Own(b) \cup Own(c) : p.seqn \in Nat BY OwnTyped
<1>3. ASSUME NEW p \in Own(c) \ Own(a), ~IsPlainAck(p)
      PROVE  /\ p \in Own(b) => TakenNumber(s, a, b, p)
             /\ p \notin Own(b) => TakenNumber(s, b, c, p)
  BY <1>3 DEF Advances
<1>4. ASSUME NEW p \in Own(c) \ Own(a), ~IsPlainAck(p)
      PROVE  TakenNumber(s, a, c, p)
  BY <1>1, <1>2, <1>3, <1>4 DEF TakenNumber
<1>5. ASSUME NEW p \in Own(c) \ Own(a), NEW q \in Own(c) \ Own(a),
             ~IsPlainAck(p), ~IsPlainAck(q), p.seqn = q.seqn
      PROVE  Alike(p, q)
  <2>1. p \in Own(b) <=> q \in Own(b)
    BY <1>1, <1>2, <1>3, <1>5 DEF TakenNumber
  <2>2. CASE p \in Own(b) BY <1>5, <2>1, <2>2 DEF Advances
  <2>3. CASE p \notin Own(b) BY <1>5, <2>1, <2>3 DEF Advances
  <2> QED BY <2>2, <2>3
<1>6. /\ c.m_Status = "None" => a.m_Status = "None"
      /\ a.m_SendStreamID # NoStream => c.m_SendStreamID = a.m_SendStreamID
  BY DEF Advances
<1>7. ASSUME NEW p \in Own(c) \ Own(a) PROVE Addressed(s, a, c, p)
  <2>1. CASE p \in Own(b)
    <3>1. Addressed(s, a, b, p) BY <1>7, <2>1 DEF Advances
    <3> QED BY <3>1 DEF Addressed, Advances
  <2>2. CASE p \notin Own(b)
    <3>1. Addressed(s, b, c, p) BY <1>7, <2>2 DEF Advances
    <3> QED BY <3>1 DEF Addressed, Advances
  <2> QED BY <2>1, <2>2
<1>8. a.m_SequenceNumber <= c.m_SequenceNumber BY <1>1
<1>9. Continues(a, c) BY ContinuesTransitive
<1> QED BY <1>4, <1>5, <1>6, <1>7, <1>8, <1>9, Zenon DEF Advances

LEMMA OrderlyTransitive ==
  ASSUME NEW s, NEW a, NEW b, NEW c, Sound(a), Sound(b), Sound(c),
         Orderly(s, a, b), Orderly(s, b, c)
  PROVE  Orderly(s, a, c)
BY AdvancesTransitive DEF Orderly

\* No new packet, and no number taken.
LEMMA NothingNew ==
  ASSUME NEW s, NEW st, NEW new, Sound(st),
         new.m_SequenceNumber = st.m_SequenceNumber, new.taken = st.taken,
         st.m_SendStreamID # NoStream => new.m_SendStreamID = st.m_SendStreamID,
         Own(new) \subseteq Own(st), new.m_Status = "None" => st.m_Status = "None"
  PROVE  Advances(s, st, new)
BY OwnTyped DEF Advances, Continues
-----------------------------------------------------------------------------
(***************************************************************************)
(* Timers and closing.                                                     *)
(***************************************************************************)
LEMMA TimersStill ==
  ASSUME NEW st, Sound(st)
  PROVE  /\ Still(st, CancelAckSendTimer(st))
         /\ Still(st, ScheduleAckSend(st))
         /\ Still(st, [CancelAckSendTimer(st) EXCEPT !.m_IsAckSendScheduled = FALSE])
         /\ Still(st, CancelReceiveTimer(st))
         /\ Still(st, ScheduleResend(st))
<1>1. st \in StreamRecord BY DEF Sound
<1> DEFINE c == CancelAckSendTimer(st)
<1>2. Still(st, c) BY <1>1 DEF CancelAckSendTimer, StreamRecord, Still, Steady, Unheard, Kept
<1>3. c \in StreamRecord BY CancelAckSendTimerSound DEF Sound
<1>4. ScheduleAckSend(st) = [c EXCEPT !.m_IsAckSendScheduled = TRUE, !.ackWait = TRUE]
  BY DEF ScheduleAckSend
<1> HIDE DEF c
<1>5. Still(st, ScheduleAckSend(st))
  BY <1>2, <1>3, <1>4 DEF StreamRecord, Still, Steady, Unheard, Kept
<1>6. Still(st, [c EXCEPT !.m_IsAckSendScheduled = FALSE])
  BY <1>2, <1>3 DEF StreamRecord, Still, Steady, Unheard, Kept
<1>7. Still(st, CancelReceiveTimer(st))
  BY <1>1 DEF CancelReceiveTimer, StreamRecord, Still, Steady, Unheard, Kept
<1>8. Still(st, ScheduleResend(st))
  BY <1>1 DEF ScheduleResend, StreamRecord, Still, Steady, Unheard, Kept
<1> QED BY <1>2, <1>5, <1>6, <1>7, <1>8 DEF c

LEMMA StillTransitive ==
  ASSUME NEW a, NEW b, NEW c, Still(a, b), Still(b, c)
  PROVE  Still(a, c)
BY DEF Still, Steady, Unheard, Kept

\* Shutdown ends a send handler with an error.
LEMMA ShutdownStill ==
  ASSUME NEW st, Sound(st)
  PROVE  Still(st, Shutdown(st)) /\ ~Shutdown(st).m_SendHandler
<1> DEFINE a == CancelAckSendTimer(st)
           b == CancelReceiveTimer(a)
           c == [b EXCEPT !.resendWait = FALSE, !.m_SendHandler = FALSE]
           d == [c EXCEPT !.registered = FALSE]
<1>1. Sound(a) /\ Still(st, a) BY CancelAckSendTimerSound, TimersStill
<1>2. Shutdown(st) = d BY DEF Shutdown, Terminate
<1> HIDE DEF a
<1>3. Sound(b) /\ Still(a, b) BY <1>1, CancelReceiveTimerSound, TimersStill
<1> HIDE DEF b
<1>4. b \in StreamRecord BY <1>3 DEF Sound
<1>5. Still(b, d) /\ ~d.m_SendHandler BY <1>4 DEF StreamRecord, Still, Steady, Unheard, Kept
<1> HIDE DEF d
<1> QED BY <1>1, <1>2, <1>3, <1>5, StillTransitive

LEMMA FinNames ==
  ASSUME NEW s, NEW st, NEW q, NEW n
  PROVE  LET p == Fin(s, st, q, n)
         IN /\ p.sid = st.m_SendStreamID /\ p.rid = s /\ p.seqn = q
            /\ p.off = st.taken /\ p.len = 0 /\ p.flags = {"CLOSE"}
BY DEF Fin

\* The FIN takes one number.
LEMMA SendCloseOrderly ==
  ASSUME NEW s \in Streams, NEW st, Sound(st)
  PROVE  /\ Orderly(s, st, SendClose(s, st)) /\ Unheard(st, SendClose(s, st))
         /\ SendClose(s, st).m_Status = st.m_Status
         /\ SendClose(s, st).m_SendStreamID = st.m_SendStreamID
         /\ SendClose(s, st).m_SentPackets = st.m_SentPackets
         /\ SendClose(s, st).m_SendHandler = st.m_SendHandler
<1> DEFINE p == Fin(s, st, st.m_SequenceNumber, st.m_LastReceivedSequenceNumber)
           F == st.fins \cup {p}
           n == st.m_SequenceNumber + 1
           new == [st EXCEPT !.m_SequenceNumber = n, !.fins = F]
<1>1. st \in StreamRecord BY DEF Sound
<1>2. SendClose(s, st) = new BY DEF SendClose
<1>3. /\ p.sid = st.m_SendStreamID /\ p.rid = s /\ p.seqn = st.m_SequenceNumber
      /\ p.off = st.taken /\ p.len = 0
  BY FinNames
<1> HIDE DEF p, F, n
<1>4. /\ new.m_Status = st.m_Status /\ new.m_SendStreamID = st.m_SendStreamID
      /\ new.m_SequenceNumber = n /\ new.taken = st.taken /\ new.m_SentPackets = st.m_SentPackets
      /\ new.fins = F /\ new.out = st.out /\ new.posted = st.posted
      /\ new.m_SendHandler = st.m_SendHandler
      /\ new.received = st.received /\ new.registered = st.registered
      /\ new.m_LastReceivedSequenceNumber = st.m_LastReceivedSequenceNumber
      /\ new.m_SavedPackets = st.m_SavedPackets /\ new.syns = st.syns
  BY <1>1 DEF StreamRecord
<1> HIDE DEF new
<1>5. st.m_SequenceNumber \in Nat /\ st.taken \in Nat BY OwnTyped
<1>6. Own(new) \subseteq Own(st) \cup {p} BY <1>4 DEF Own, F
<1>7. Advances(s, st, new)
  <2>1. st.m_SequenceNumber < new.m_SequenceNumber BY <1>4, <1>5 DEF n
  <2>2. \A x \in Own(new) \ Own(st) : x = p BY <1>6
  <2>3. TakenNumber(s, st, new, p) BY <1>3, <1>5, <2>1 DEF TakenNumber
  <2>4. \A x, y \in Own(new) \ Own(st) : Alike(x, y) BY <2>2 DEF Alike
  <2>5. \A x \in Own(new) \ Own(st) : TakenNumber(s, st, new, x)
    BY <2>2, <2>3, Zenon
  <2>6. /\ st.m_SequenceNumber <= new.m_SequenceNumber
        /\ new.m_Status = "None" => st.m_Status = "None"
        /\ st.m_SendStreamID # NoStream => new.m_SendStreamID = st.m_SendStreamID
    BY <1>4, <1>5 DEF n
  <2>7. \A x \in Own(new) \ Own(st) : Addressed(s, st, new, x)
    BY <1>3, <1>4, <2>2 DEF Addressed
  <2>8. Continues(st, new) BY <1>3, <1>4, <1>5, <2>1, <2>2 DEF Continues
  <2> QED BY <2>4, <2>5, <2>6, <2>7, <2>8, Zenon DEF Advances
<1>8. Serves(st) => Serves(new) BY <1>4 DEF Serves, AwaitsPeer, HandlerServed
<1> QED BY <1>2, <1>4, <1>7, <1>8 DEF Orderly, Unheard, Kept

\* A change of status and nothing else.
LEMMA StatusOrderly ==
  ASSUME NEW s, NEW st, Sound(st), NEW status \in {"Reset", "Closing", "Closed"}
  PROVE  LET new == [st EXCEPT !.m_Status = status]
         IN /\ Advances(s, st, new) /\ Unheard(st, new) /\ new.m_Status = status
            /\ new.m_SendStreamID = st.m_SendStreamID
            /\ new.m_SentPackets = st.m_SentPackets
            /\ new.m_SendHandler = st.m_SendHandler /\ new.posted = st.posted
<1> DEFINE new == [st EXCEPT !.m_Status = status]
<1>1. st \in StreamRecord BY DEF Sound
<1>2. /\ new.m_Status = status /\ new.m_SendStreamID = st.m_SendStreamID
      /\ new.m_SequenceNumber = st.m_SequenceNumber /\ new.taken = st.taken
      /\ new.m_SentPackets = st.m_SentPackets
      /\ new.fins = st.fins /\ new.out = st.out /\ new.posted = st.posted
      /\ new.m_SendHandler = st.m_SendHandler
      /\ new.received = st.received /\ new.registered = st.registered
      /\ new.m_LastReceivedSequenceNumber = st.m_LastReceivedSequenceNumber
      /\ new.m_SavedPackets = st.m_SavedPackets /\ new.syns = st.syns
  BY <1>1 DEF StreamRecord
<1> HIDE DEF new
<1>3. Own(new) \subseteq Own(st) BY <1>2 DEF Own
<1>4. Advances(s, st, new) BY <1>2, <1>3, NothingNew
<1>5. /\ Advances(s, st, new) /\ Unheard(st, new) /\ new.m_Status = status
      /\ new.m_SendStreamID = st.m_SendStreamID
      /\ new.m_SentPackets = st.m_SentPackets
      /\ new.m_SendHandler = st.m_SendHandler /\ new.posted = st.posted
  BY <1>2, <1>4 DEF Unheard, Kept
<1> QED BY <1>5 DEF new

\* The send handler is told of the end.
LEMMA ShutdownServes ==
  ASSUME NEW s, NEW st, Sound(st), st.m_Status = "Reset" \/ AwaitsPeer(st)
  PROVE  Orderly(s, st, Shutdown(st)) /\ Serves(Shutdown(st)) /\ Unheard(st, Shutdown(st))
BY ShutdownStill, StillOrderly DEF Serves, AwaitsPeer, HandlerServed, Still, Steady

LEMMA CloseOrderly ==
  ASSUME NEW s \in Streams, NEW st, Sound(st)
  PROVE  /\ Orderly(s, st, Close(s, st)) /\ Unheard(st, Close(s, st))
         /\ st.m_Status = "Reset" => Serves(Close(s, st))
<1>a. ASSUME NEW a, Sound(a), Advances(s, st, a), Unheard(st, a),
             a.m_Status \in {"Closed", "Reset"},
             a.m_Status = "Reset" \/ AwaitsPeer(a)
      PROVE  /\ Orderly(s, st, Shutdown(SendClose(s, a)))
             /\ Unheard(st, Shutdown(SendClose(s, a)))
             /\ Serves(Shutdown(SendClose(s, a)))
  <2> DEFINE b == SendClose(s, a)
             c == Shutdown(b)
  <2>1. /\ Sound(b) /\ Orderly(s, a, b) /\ Unheard(a, b) /\ b.m_Status = a.m_Status
        /\ b.m_SendStreamID = a.m_SendStreamID /\ b.m_SentPackets = a.m_SentPackets
    BY <1>a, SendCloseSound, SendCloseOrderly
  <2> HIDE DEF b
  <2>2. b.m_Status = "Reset" \/ AwaitsPeer(b) BY <1>a, <2>1 DEF AwaitsPeer
  <2>3. Sound(c) /\ Orderly(s, b, c) /\ Serves(c) /\ Unheard(b, c)
    BY <1>a, <2>1, <2>2, ShutdownSound, ShutdownServes
  <2> HIDE DEF c
  <2>4. Advances(s, a, c) BY <1>a, <2>1, <2>3, AdvancesTransitive DEF Orderly
  <2>5. Advances(s, st, c) BY <1>a, <2>3, <2>4, AdvancesTransitive
  <2>6. Unheard(st, c) BY <1>a, <2>1, <2>3 DEF Unheard, Kept
  <2> QED BY <2>3, <2>5, <2>6 DEF Orderly, c, b
<1>1. CASE st.m_Status \in {"Open", "Closing"} /\ NothingToSend(st)
  <2> DEFINE a == [st EXCEPT !.m_Status = "Closed"]
  <2>1. /\ Sound(a) /\ Advances(s, st, a) /\ Unheard(st, a) /\ a.m_Status = "Closed"
        /\ a.m_SendStreamID = st.m_SendStreamID
    BY SetStatusSound, StatusOrderly
  <2>2. Close(s, st) = Shutdown(SendClose(s, a)) BY <1>1 DEF Close
  <2>3. st.m_SentPackets = {} BY <1>1 DEF NothingToSend
  <2> HIDE DEF a
  <2>4. CASE st.m_SendStreamID # NoStream
    <3>1. AwaitsPeer(a) BY <2>1, <2>4 DEF AwaitsPeer
    <3> QED BY <1>1, <1>a, <2>1, <2>2, <3>1
  <2>5. CASE st.m_SendStreamID = NoStream
    <3>1. ~AwaitsPeer(st) BY <1>1, <2>3, <2>5 DEF AwaitsPeer
    <3> DEFINE b == SendClose(s, a)
               c == Shutdown(b)
    <3>2. /\ Sound(b) /\ Advances(s, a, b) /\ Unheard(a, b) /\ b.m_Status = a.m_Status
      BY <2>1, SendCloseSound, SendCloseOrderly DEF Orderly
    <3> HIDE DEF b
    <3>3. Sound(c) /\ Advances(s, b, c) /\ Unheard(b, c)
      BY <2>1, <3>2, ShutdownSound, ShutdownStill, StillOrderly DEF Orderly, Still, Steady
    <3> HIDE DEF c
    <3>4. Advances(s, st, c) BY <2>1, <3>2, <3>3, AdvancesTransitive
    <3>5. Unheard(st, c) BY <2>1, <3>2, <3>3 DEF Unheard, Kept
    <3>6. Orderly(s, st, c) BY <3>1, <3>4 DEF Orderly, Serves
    <3> QED BY <1>1, <2>2, <3>5, <3>6 DEF c, b
  <2> QED BY <2>4, <2>5
<1>2. CASE st.m_Status \in {"Open", "Closing"} /\ ~NothingToSend(st)
  <2> DEFINE a == [st EXCEPT !.m_Status = "Closing"]
  <2>1. /\ Advances(s, st, a) /\ Unheard(st, a) /\ a.m_Status = "Closing"
        /\ a.m_SendStreamID = st.m_SendStreamID /\ a.m_SentPackets = st.m_SentPackets
        /\ a.m_SendHandler = st.m_SendHandler /\ a.posted = st.posted
    BY StatusOrderly
  <2>2. Close(s, st) = a BY <1>2 DEF Close
  <2> HIDE DEF a
  <2>3. Serves(st) => Serves(a) BY <1>2, <2>1 DEF Serves, AwaitsPeer, HandlerServed
  <2> QED BY <1>2, <2>1, <2>2, <2>3 DEF Orderly
<1>3. CASE st.m_Status = "Reset"
  <2>1. Close(s, st) = Shutdown(SendClose(s, st)) BY <1>3 DEF Close
  <2>2. Advances(s, st, st) /\ Unheard(st, st) BY NothingNew DEF Unheard, Kept
  <2> QED BY <1>3, <1>a, <2>1, <2>2
<1>4. CASE st.m_Status = "Closed"
  BY <1>4, ShutdownStill, StillOrderly DEF Close, Still, Steady
<1>5. CASE st.m_Status \notin {"Open", "Closing", "Reset", "Closed"}
  <2>1. Close(s, st) = st BY <1>5 DEF Close
  <2>2. Advances(s, st, st) /\ Unheard(st, st) BY NothingNew DEF Unheard, Kept
  <2> QED BY <1>5, <2>1, <2>2 DEF Orderly
<1> QED BY <1>1, <1>2, <1>3, <1>4, <1>5

LEMMA ResetOrderly ==
  ASSUME NEW s \in Streams, NEW st, Sound(st)
  PROVE  Orderly(s, st, Reset(s, st)) /\ Unheard(st, Reset(s, st))
<1> DEFINE a == [st EXCEPT !.m_Status = "Reset"]
           b == Close(s, a)
<1>1. Sound(a) /\ Advances(s, st, a) /\ Unheard(st, a) /\ a.m_Status = "Reset"
  BY SetStatusSound, StatusOrderly
<1>2. Reset(s, st) = b BY DEF Reset
<1> HIDE DEF a
<1>3. /\ Sound(b) /\ Orderly(s, a, b) /\ Unheard(a, b) /\ Serves(b)
  BY <1>1, CloseSound, CloseOrderly
<1> HIDE DEF b
<1>4. Advances(s, st, b) BY <1>1, <1>3, AdvancesTransitive DEF Orderly
<1> QED BY <1>1, <1>2, <1>3, <1>4 DEF Orderly, Unheard, Kept
-----------------------------------------------------------------------------
(***************************************************************************)
(* Sending.                                                                *)
(***************************************************************************)
\* Packets that are sent again, and acks.
LEMMA SendPacketsOrderly ==
  ASSUME NEW s, NEW st, Sound(st), NEW P,
         \A p \in P :
           p \in Own(st) \/ (IsPlainAck(p) /\ p.rid = s /\ p.sid = st.m_SendStreamID)
  PROVE  /\ Orderly(s, st, SendPackets(st, P)) /\ Unheard(st, SendPackets(st, P))
         /\ Own(SendPackets(st, P)) = Own(st) \cup P
<1> DEFINE O == st.out \cup P
           new == [st EXCEPT !.out = O]
<1>1. st \in StreamRecord BY DEF Sound
<1>2. SendPackets(st, P) = new BY DEF SendPackets
<1> HIDE DEF O
<1>3. /\ new.m_Status = st.m_Status /\ new.m_SendStreamID = st.m_SendStreamID
      /\ new.m_SequenceNumber = st.m_SequenceNumber /\ new.taken = st.taken
      /\ new.m_SentPackets = st.m_SentPackets
      /\ new.fins = st.fins /\ new.out = O /\ new.posted = st.posted
      /\ new.m_SendHandler = st.m_SendHandler
      /\ new.received = st.received /\ new.registered = st.registered
      /\ new.m_LastReceivedSequenceNumber = st.m_LastReceivedSequenceNumber
      /\ new.m_SavedPackets = st.m_SavedPackets /\ new.syns = st.syns
  BY <1>1 DEF StreamRecord
<1> HIDE DEF new
<1>4. Own(new) = Own(st) \cup P BY <1>3 DEF Own, O
<1>5. \A p \in Own(new) \ Own(st) : IsPlainAck(p) /\ Addressed(s, st, new, p)
  BY <1>3, <1>4 DEF Addressed
<1>6. Advances(s, st, new) BY <1>3, <1>5, OwnTyped DEF Advances, Continues
<1>7. Serves(st) => Serves(new) BY <1>3 DEF Serves, AwaitsPeer, HandlerServed
<1> QED BY <1>2, <1>3, <1>4, <1>6, <1>7 DEF Orderly, Unheard, Kept

LEMMA SendQuickAckOrderly ==
  ASSUME NEW s \in Streams, NEW st, Sound(st)
  PROVE  Orderly(s, st, SendQuickAck(s, st)) /\ Unheard(st, SendQuickAck(s, st))
<1>1. \A a, n : /\ IsPlainAck(QuickAck(s, st, a, n))
                /\ QuickAck(s, st, a, n).rid = s
                /\ QuickAck(s, st, a, n).sid = st.m_SendStreamID
  BY DEF IsPlainAck, IsSYN, QuickAck
<1>2. Orderly(s, st, st) /\ Unheard(st, st) BY NothingNew DEF Orderly, Unheard, Kept
<1>3. \A a, n : /\ Orderly(s, st, SendPackets(st, {QuickAck(s, st, a, n)}))
                /\ Unheard(st, SendPackets(st, {QuickAck(s, st, a, n)}))
  <2> SUFFICES ASSUME NEW a, NEW n
               PROVE  /\ Orderly(s, st, SendPackets(st, {QuickAck(s, st, a, n)}))
                      /\ Unheard(st, SendPackets(st, {QuickAck(s, st, a, n)}))
    OBVIOUS
  <2> DEFINE p == QuickAck(s, st, a, n)
  <2>1. IsPlainAck(p) /\ p.rid = s /\ p.sid = st.m_SendStreamID BY <1>1
  <2> HIDE DEF p
  <2>2. Orderly(s, st, SendPackets(st, {p})) /\ Unheard(st, SendPackets(st, {p}))
    BY <2>1, SendPacketsOrderly
  <2> QED BY <2>2 DEF p
<1>4. \/ SendQuickAck(s, st) = st
      \/ \E a, n : SendQuickAck(s, st) = SendPackets(st, {QuickAck(s, st, a, n)})
  BY Zenon DEF SendQuickAck
<1> QED BY <1>2, <1>3, <1>4

\* Each packet of a batch has a number of its own, and all numbers of the batch
\* are its.  If nothing is read, the stream waits for its peer or has no more.
LEMMA BatchNumbers ==
  ASSUME NEW s \in Streams, NEW st, Sound(st), NEW room \in Int, room >= 1
  PROVE  LET b == Batch(s, st, room)
         IN /\ b.num \in Nat
            /\ \A p \in b.packets :
                 /\ p.rid = s /\ st.m_SequenceNumber <= p.seqn
                 /\ p.seqn < st.m_SequenceNumber + b.num
            /\ \A p, q \in b.packets : p.seqn = q.seqn => Alike(p, q)
            /\ b.packets = {} => st.m_SendStreamID = NoStream \/ b.eof
<1> DEFINE isNew  == st.m_Status = "New"
           avail  == st.written - st.taken
           synLen == IF isNew THEN AtMost(avail, SYN_MTU) ELSE 0
           synEof == IF isNew THEN avail < SYN_MTU ELSE st.eof
           rest   == avail - synLen
           toEof  == (rest \div STREAMING_MTU) + 1
           numSyn == IF isNew THEN 1 ELSE 0
           numFollowOn == IF st.m_SendStreamID # NoStream /\ ~synEof
                          THEN AtMost(toEof, room - numSyn) ELSE 0
           synFlags == {"SYN"} \cup (IF st.m_LastReceivedSequenceNumber < 0
                                     THEN {"NO_ACK"} ELSE {})
           SynPkt(i) == DataPacket(s, st, st.m_SequenceNumber, synFlags, st.taken, synLen)
           Follow(i) == DataPacket(s, st, st.m_SequenceNumber + numSyn + i, {},
                          st.taken + synLen + i * STREAMING_MTU,
                          AtMost(STREAMING_MTU, rest - i * STREAMING_MTU))
           S == {SynPkt(i) : i \in 1 .. numSyn}
           F == {Follow(i) : i \in 0 .. numFollowOn - 1}
           b == Batch(s, st, room)
           m == st.m_SequenceNumber
<1>1. /\ st \in StreamRecord /\ st.taken \in Nat /\ st.written \in Nat
      /\ st.eof \in BOOLEAN /\ m \in Nat /\ st.taken <= st.written
      /\ SYN_MTU \in Nat \ {0} /\ STREAMING_MTU \in Nat \ {0}
  BY SizeConstants DEF Sound, StreamRecord
<1>2. /\ b.num = numSyn + numFollowOn
      /\ b.eof = (synEof \/ numFollowOn = toEof)
      /\ b.packets = S \cup F
  BY DEF Batch
<1>3. avail \in Nat /\ synLen \in Nat /\ synLen <= avail /\ rest \in Nat
  BY <1>1 DEF AtMost
<1> HIDE DEF isNew, synEof
<1>4. numSyn \in {0, 1} /\ (isNew <=> numSyn = 1) OBVIOUS
<1>5. toEof \in Nat /\ toEof >= 1 BY <1>1, <1>3, Quotient
<1> HIDE DEF toEof, numSyn, avail, synLen, rest
<1>6. numFollowOn \in Nat /\ numFollowOn <= toEof BY <1>4, <1>5 DEF AtMost
<1>7. numSyn + numFollowOn = 0 => st.m_SendStreamID = NoStream \/ synEof
  BY <1>4, <1>5 DEF AtMost
<1> HIDE DEF numFollowOn
<1>8. \A i : SynPkt(i).rid = s /\ SynPkt(i).seqn = m BY DEF DataPacket
<1>9. \A i : Follow(i).rid = s /\ Follow(i).seqn = m + numSyn + i BY DEF DataPacket
<1>10. \A i, j : SynPkt(i) = SynPkt(j) OBVIOUS
<1>11. S \cup F = {} => numSyn = 0 /\ numFollowOn = 0
  <2>1. numSyn # 0 => SynPkt(1) \in S BY <1>4
  <2>2. numFollowOn # 0 => Follow(0) \in F BY <1>6
  <2> QED BY <2>1, <2>2
<1>12. \A p \in S : p = SynPkt(1) /\ numSyn = 1 BY <1>4
<1>13. \A p \in F : \E i \in 0 .. numFollowOn - 1 : p = Follow(i) OBVIOUS
<1> HIDE DEF S, F, b, SynPkt, Follow
<1>14. ASSUME NEW p \in S \cup F
       PROVE  p.rid = s /\ m <= p.seqn /\ p.seqn < m + (numSyn + numFollowOn)
  <2>1. CASE p \in S BY <1>1, <1>6, <1>8, <1>12, <2>1
  <2>2. CASE p \in F
    <3>1. PICK i \in 0 .. numFollowOn - 1 : p = Follow(i) BY <1>13, <2>2
    <3> QED BY <1>1, <1>4, <1>6, <1>9, <3>1
  <2> QED BY <2>1, <2>2
<1>15. ASSUME NEW p \in S \cup F, NEW q \in S \cup F, p.seqn = q.seqn
       PROVE  p = q
  <2>1. CASE p \in S /\ q \in S BY <1>12, <2>1
  <2>2. ASSUME NEW x \in S, NEW y \in F PROVE x.seqn # y.seqn
    <3>1. PICK i \in 0 .. numFollowOn - 1 : y = Follow(i) BY <1>13
    <3> QED BY <1>1, <1>6, <1>8, <1>9, <1>12, <3>1
  <2>3. CASE p \in F /\ q \in F
    <3>1. PICK i \in 0 .. numFollowOn - 1 : p = Follow(i) BY <1>13, <2>3
    <3>2. PICK j \in 0 .. numFollowOn - 1 : q = Follow(j) BY <1>13, <2>3
    <3>3. i = j BY <1>1, <1>4, <1>6, <1>9, <1>15, <3>1, <3>2
    <3> QED BY <3>1, <3>2, <3>3
  <2> QED BY <1>15, <2>1, <2>2, <2>3
<1>16. b.num \in Nat BY <1>2, <1>4, <1>6
<1>17. /\ \A p \in b.packets : p.rid = s /\ m <= p.seqn /\ p.seqn < m + b.num
       /\ \A p, q \in b.packets : p.seqn = q.seqn => Alike(p, q)
  BY <1>2, <1>14, <1>15 DEF Alike
<1>18. b.packets = {} => st.m_SendStreamID = NoStream \/ b.eof
  <2>1. SUFFICES ASSUME b.packets = {}, st.m_SendStreamID # NoStream PROVE b.eof
    OBVIOUS
  <2>2. numSyn = 0 /\ numFollowOn = 0 BY <1>2, <1>11, <2>1
  <2>3. synEof BY <1>7, <2>1, <2>2
  <2> QED BY <1>2, <2>3
<1> QED BY <1>16, <1>17, <1>18 DEF b

\* The payloads of a batch are consecutive ranges from what is taken before to what
\* is taken after.
LEMMA BatchContinues ==
  ASSUME NEW s \in Streams, NEW st, Sound(st), NEW room \in Int, room >= 1
  PROVE  LET b == Batch(s, st, room)
         IN /\ b.num = 0 => b.taken = st.taken
            /\ \A p \in b.packets :
                 /\ p.sid = st.m_SendStreamID
                 /\ p.seqn = st.m_SequenceNumber => p.off = st.taken
                 /\ p.seqn + 1 = st.m_SequenceNumber + b.num => p.off + p.len = b.taken
            /\ \A p, q \in b.packets : q.seqn = p.seqn + 1 => q.off = p.off + p.len
<1> DEFINE isNew  == st.m_Status = "New"
           avail  == st.written - st.taken
           synLen == IF isNew THEN AtMost(avail, SYN_MTU) ELSE 0
           synEof == IF isNew THEN avail < SYN_MTU ELSE st.eof
           rest   == avail - synLen
           toEof  == (rest \div STREAMING_MTU) + 1
           numSyn == IF isNew THEN 1 ELSE 0
           numFollowOn == IF st.m_SendStreamID # NoStream /\ ~synEof
                          THEN AtMost(toEof, room - numSyn) ELSE 0
           synFlags == {"SYN"} \cup (IF st.m_LastReceivedSequenceNumber < 0
                                     THEN {"NO_ACK"} ELSE {})
           SynPkt(i) == DataPacket(s, st, st.m_SequenceNumber, synFlags, st.taken, synLen)
           Follow(i) == DataPacket(s, st, st.m_SequenceNumber + numSyn + i, {},
                          st.taken + synLen + i * STREAMING_MTU,
                          AtMost(STREAMING_MTU, rest - i * STREAMING_MTU))
           S == {SynPkt(i) : i \in 1 .. numSyn}
           F == {Follow(i) : i \in 0 .. numFollowOn - 1}
           b == Batch(s, st, room)
           m == st.m_SequenceNumber
           t == st.taken
           at(i) == i * STREAMING_MTU
           ln(i) == AtMost(STREAMING_MTU, rest - at(i))
           all == AtMost(rest, at(numFollowOn))
<1>1. /\ st \in StreamRecord /\ t \in Nat /\ st.written \in Nat
      /\ st.eof \in BOOLEAN /\ m \in Nat /\ t <= st.written
      /\ SYN_MTU \in Nat \ {0} /\ STREAMING_MTU \in Nat \ {0}
  BY SizeConstants DEF Sound, StreamRecord
<1>2. /\ b.num = numSyn + numFollowOn
      /\ b.taken = t + synLen + all
      /\ b.packets = S \cup F
  BY DEF Batch
<1>3. avail \in Nat /\ synLen \in Nat /\ synLen <= avail /\ rest \in Nat
  BY <1>1 DEF AtMost
<1> HIDE DEF isNew, synEof
<1>4. numSyn \in {0, 1} /\ (numSyn = 0 => synLen = 0) OBVIOUS
<1>5. toEof \in Nat /\ toEof >= 1 /\ at(toEof - 1) <= rest
  <2> DEFINE d == rest \div STREAMING_MTU
  <2>1. d \in Nat /\ d * STREAMING_MTU <= rest BY <1>1, <1>3, Quotient
  <2> HIDE DEF d
  <2>2. toEof = d + 1 BY DEF d
  <2> HIDE DEF toEof
  <2>3. toEof - 1 = d BY <2>1, <2>2
  <2> QED BY <2>1, <2>2, <2>3
<1> HIDE DEF toEof, numSyn, avail, synLen, rest
<1>6. numFollowOn \in Nat /\ numFollowOn <= toEof BY <1>4, <1>5 DEF AtMost
<1> HIDE DEF numFollowOn
<1>7. \A i : /\ SynPkt(i).sid = st.m_SendStreamID /\ SynPkt(i).seqn = m
             /\ SynPkt(i).off = t /\ SynPkt(i).len = synLen
  BY DEF DataPacket
<1>8. \A i : /\ Follow(i).sid = st.m_SendStreamID /\ Follow(i).seqn = m + numSyn + i
             /\ Follow(i).off = t + synLen + at(i) /\ Follow(i).len = ln(i)
  BY DEF DataPacket
<1>9. \A p \in S : p = SynPkt(1) /\ numSyn = 1 BY <1>4
<1>10. \A p \in F : \E i \in 0 .. numFollowOn - 1 : p = Follow(i) OBVIOUS
<1> HIDE DEF S, F, b, SynPkt, Follow
<1>11. ASSUME NEW i \in Nat, i <= toEof - 1
       PROVE  at(i) \in Nat /\ at(i) <= rest
  <2>1. toEof - 1 \in Nat BY <1>5
  <2>2. at(i) \in Nat /\ at(i) <= at(toEof - 1) /\ at(toEof - 1) \in Nat
    BY <1>1, <1>11, <2>1, Product
  <2> HIDE DEF at
  <2> QED BY <1>3, <1>5, <2>2
<1>12. \A i \in Nat : at(i + 1) = at(i) + STREAMING_MTU BY <1>1, NextProduct
<1>13. at(0) = 0 BY <1>1
<1> HIDE DEF at
<1>14. ASSUME NEW i \in 0 .. numFollowOn - 1
       PROVE  /\ at(i) \in Nat /\ ln(i) \in Nat
              /\ i + 1 < numFollowOn => at(i) + ln(i) = at(i + 1)
              /\ i + 1 = numFollowOn => at(i) + ln(i) = all
  <2>1. at(i) \in Nat /\ at(i) <= rest BY <1>5, <1>6, <1>11
  <2>2. at(i + 1) = at(i) + STREAMING_MTU BY <1>12
  <2>3. i + 1 < numFollowOn => at(i + 1) <= rest
    <3>1. i + 1 < numFollowOn => i + 1 \in Nat /\ i + 1 <= toEof - 1 BY <1>5, <1>6
    <3> QED BY <1>11, <3>1
  <2>4. i + 1 = numFollowOn => all = AtMost(rest, at(i + 1)) OBVIOUS
  <2> HIDE DEF all
  <2> QED BY <1>1, <1>3, <2>1, <2>2, <2>3, <2>4 DEF AtMost
<1>15. numFollowOn = 0 => all = 0 BY <1>3, <1>13 DEF AtMost
<1> HIDE DEF ln, all
<1>16. ASSUME b.num = 0 PROVE b.taken = t
  <2>1. numSyn = 0 /\ numFollowOn = 0 BY <1>2, <1>4, <1>6, <1>16
  <2> QED BY <1>1, <1>2, <1>4, <1>15, <2>1
<1>17. ASSUME NEW p \in S
       PROVE  /\ p.sid = st.m_SendStreamID /\ p.seqn = m /\ p.off = t
              /\ p.seqn + 1 = m + b.num => p.off + p.len = b.taken
  <2>1. /\ p.sid = st.m_SendStreamID /\ p.seqn = m /\ p.off = t /\ p.len = synLen
        /\ numSyn = 1
    BY <1>7, <1>9
  <2>2. m + 1 = m + b.num => numFollowOn = 0 BY <1>1, <1>2, <1>6, <2>1
  <2> QED BY <1>1, <1>2, <1>3, <1>15, <2>1, <2>2
<1>18. ASSUME NEW p \in F
       PROVE  /\ p.sid = st.m_SendStreamID
              /\ p.seqn = m => p.off = t
              /\ p.seqn + 1 = m + b.num => p.off + p.len = b.taken
  <2>1. PICK i \in 0 .. numFollowOn - 1 : p = Follow(i) BY <1>10
  <2>2. /\ p.sid = st.m_SendStreamID /\ p.seqn = m + numSyn + i
        /\ p.off = t + synLen + at(i) /\ p.len = ln(i)
    BY <1>8, <2>1
  <2>3. at(i) \in Nat /\ ln(i) \in Nat /\ (i + 1 = numFollowOn => at(i) + ln(i) = all)
    BY <1>14
  <2>4. p.seqn = m => i = 0 /\ numSyn = 0 BY <1>1, <1>4, <1>6, <2>2
  <2>5. p.seqn + 1 = m + b.num => i + 1 = numFollowOn BY <1>1, <1>2, <1>4, <1>6, <2>2
  <2>6. p.seqn = m => p.off = t BY <1>1, <1>4, <1>13, <2>2, <2>4
  <2>7. p.seqn + 1 = m + b.num => p.off + p.len = b.taken
    BY <1>1, <1>2, <1>3, <2>2, <2>3, <2>5
  <2> QED BY <2>2, <2>6, <2>7
<1>19. ASSUME NEW p \in S \cup F, NEW q \in S \cup F, q.seqn = p.seqn + 1
       PROVE  q.off = p.off + p.len
  <2>1. q \in F
    <3>1. q \in S => FALSE
      <4>1. q \in S => q.seqn = m BY <1>17
      <4>2. p.seqn = m \/ \E i \in 0 .. numFollowOn - 1 : p.seqn = m + numSyn + i
        BY <1>8, <1>10, <1>17
      <4> QED BY <1>1, <1>4, <1>6, <1>19, <4>1, <4>2
    <3> QED BY <3>1
  <2>2. PICK j \in 0 .. numFollowOn - 1 : q = Follow(j) BY <1>10, <2>1
  <2>3. q.seqn = m + numSyn + j /\ q.off = t + synLen + at(j) BY <1>8, <2>2
  <2>4. CASE p \in S
    <3>1. p.seqn = m /\ p.off = t /\ p.len = synLen /\ numSyn = 1 BY <1>7, <1>9, <2>4
    <3>2. j = 0 BY <1>1, <1>6, <1>19, <2>3, <3>1
    <3> QED BY <1>1, <1>3, <1>13, <2>3, <3>1, <3>2
  <2>5. CASE p \in F
    <3>1. PICK i \in 0 .. numFollowOn - 1 : p = Follow(i) BY <1>10, <2>5
    <3>2. /\ p.seqn = m + numSyn + i /\ p.off = t + synLen + at(i) /\ p.len = ln(i)
      BY <1>8, <3>1
    <3>3. j = i + 1 BY <1>1, <1>4, <1>6, <1>19, <2>3, <3>2
    <3>4. at(i) \in Nat /\ ln(i) \in Nat /\ at(i) + ln(i) = at(j) BY <1>6, <1>14, <3>3
    <3> QED BY <1>1, <1>3, <2>3, <3>2, <3>4
  <2> QED BY <2>4, <2>5
<1>20. \A p, q \in b.packets : q.seqn = p.seqn + 1 => q.off = p.off + p.len
  BY <1>2, <1>19
<1>21. \A p \in b.packets :
         /\ p.sid = st.m_SendStreamID
         /\ p.seqn = m => p.off = t
         /\ p.seqn + 1 = m + b.num => p.off + p.len = b.taken
  BY <1>2, <1>17, <1>18
<1> QED BY <1>16, <1>20, <1>21 DEF b

\* SendBuffer sends, or has sent packets in flight, or has no more to send: the
\* send handler is served by it.
LEMMA SendBufferOrderly ==
  ASSUME NEW s \in Streams, NEW st, Sound(st), Awake(st),
         st.m_Status # "None", AwaitsPeer(st)
  PROVE  LET new == SendBuffer(s, st)
         IN /\ Advances(s, st, new) /\ Serves(new) /\ Unheard(st, new)
            /\ new.m_SendStreamID = st.m_SendStreamID
<1> DEFINE room == st.m_WindowSize - Cardinality(st.m_SentPackets)
           b    == Batch(s, st, room)
           status == IF st.m_Status = "New" THEN "Open" ELSE st.m_Status
           n    == st.m_SequenceNumber + b.num
           h    == st.m_SendHandler /\ ~b.eof
           read == [st EXCEPT !.m_Status = status, !.m_SequenceNumber = n,
                              !.taken = b.taken, !.eof = b.eof,
                              !.m_SendHandler = h]
           idle == [CancelAckSendTimer(read) EXCEPT !.m_IsAckSendScheduled = FALSE]
           Q    == st.m_SentPackets \cup b.packets
           full == [idle EXCEPT !.m_SentPackets = Q]
           sent == SendPackets(full, b.packets)
           fin  == IF sent.m_Status = "Closing" /\ sent.eof
                   THEN SendClose(s, sent) ELSE sent
           last == IF st.m_SentPackets = {} THEN ScheduleResend(fin) ELSE fin
<1>1. /\ st \in StreamRecord /\ st.m_SentPackets \in FinitePackets
      /\ st.m_WindowSize \in Nat /\ st.m_WindowSize >= 1 /\ st.m_SequenceNumber \in Nat
      /\ st.m_Status \in StreamStatus /\ st.m_SendHandler \in BOOLEAN
  <2>1. st \in StreamRecord BY DEF Sound
  <2>2. /\ st.m_SentPackets \in FinitePackets
        /\ st.m_WindowSize \in MIN_WINDOW_SIZE .. MAX_WINDOW_SIZE
        /\ st.m_SequenceNumber \in Nat
        /\ st.m_Status \in StreamStatus /\ st.m_SendHandler \in BOOLEAN
    BY <2>1 DEF StreamRecord
  <2>3. st.m_WindowSize \in Nat /\ st.m_WindowSize >= 1 BY <2>2, WindowConstants
  <2> QED BY <2>1, <2>2, <2>3
<1>2. room \in Int /\ Cardinality(st.m_SentPackets) \in Nat
  BY <1>1, FS_CardinalityType DEF FinitePackets
<1>3. CASE room <= 0
  <2>1. SendBuffer(s, st) = st BY <1>3 DEF SendBuffer
  <2>2. st.m_SentPackets # {} BY <1>1, <1>2, <1>3, FS_EmptySet
  <2>3. Advances(s, st, st) /\ Unheard(st, st) BY NothingNew DEF Unheard, Kept
  <2> QED BY <2>1, <2>2, <2>3 DEF Serves, HandlerServed
<1>4. CASE room >= 1
  <2>1. /\ b.num \in Nat /\ b.eof \in BOOLEAN
        /\ b.taken \in Nat /\ b.taken <= st.written
        /\ b.packets \in FinitePackets /\ SynIsFirst(b.packets)
        /\ b.packets = {} => b.num = 0 /\ st.m_Status # "New"
    BY <1>2, <1>4, BatchSound
  <2>2. /\ \A p \in b.packets :
             /\ p.rid = s /\ st.m_SequenceNumber <= p.seqn
             /\ p.seqn < st.m_SequenceNumber + b.num
        /\ \A p, q \in b.packets : p.seqn = q.seqn => Alike(p, q)
        /\ b.packets = {} => st.m_SendStreamID = NoStream \/ b.eof
    BY <1>2, <1>4, BatchNumbers
  <2>13. /\ b.num = 0 => b.taken = st.taken
         /\ \A p \in b.packets :
              /\ p.sid = st.m_SendStreamID
              /\ p.seqn = st.m_SequenceNumber => p.off = st.taken
              /\ p.seqn + 1 = st.m_SequenceNumber + b.num => p.off + p.len = b.taken
         /\ \A p, q \in b.packets : q.seqn = p.seqn + 1 => q.off = p.off + p.len
    BY <1>2, <1>4, BatchContinues
  <2>3. /\ status \in StreamStatus /\ n \in Nat /\ h \in BOOLEAN
        /\ status # "New" /\ status # "None" /\ st.m_SequenceNumber <= n
        /\ status # "Reset" /\ b.packets = {} => st.m_Status \in {"Open", "Closing", "Closed"}
    BY <1>1, <2>1 DEF StreamStatus
  <2>4. Q \in FinitePackets /\ SynIsFirst(Q)
    BY <1>1, <2>1, FS_Union DEF FinitePackets, Sound, SynIsFirst
  <2>5. SendBuffer(s, st) = IF b.packets = {} THEN read ELSE last
    <3>1. sent = SendPackets([CancelAckSendTimer(read)
                              EXCEPT !.m_IsAckSendScheduled = FALSE,
                                     !.m_SentPackets = @ \cup b.packets], b.packets)
      <4>1. CancelAckSendTimer(read).m_SentPackets = st.m_SentPackets
        BY <1>1 DEF CancelAckSendTimer, StreamRecord
      <4> QED BY <4>1
    <3> QED BY <1>2, <1>4, <3>1 DEF SendBuffer, SendBatch, SendCloseAtEof
  <2> HIDE DEF b, room, status
  <2>6. h => ~b.eof OBVIOUS
  <2>7. n = st.m_SequenceNumber + b.num OBVIOUS
  <2> HIDE DEF n, h
  <2>8. read \in StreamRecord BY <1>1, <2>1, <2>3, Zenon DEF StreamRecord
  <2>9. /\ read.m_Status = status /\ read.m_SequenceNumber = n
        /\ read.m_LastReceivedSequenceNumber = st.m_LastReceivedSequenceNumber
        /\ read.m_SavedPackets = st.m_SavedPackets
        /\ read.m_SentPackets = st.m_SentPackets
        /\ read.taken = b.taken /\ read.written = st.written
        /\ read.fins = st.fins /\ read.out = st.out
        /\ read.m_SendStreamID = st.m_SendStreamID /\ read.m_SendHandler = h
        /\ read.received = st.received /\ read.registered = st.registered
        /\ read.m_LastReceivedSequenceNumber = st.m_LastReceivedSequenceNumber
        /\ read.m_SavedPackets = st.m_SavedPackets /\ read.syns = st.syns
    BY <1>1 DEF StreamRecord
  <2> HIDE DEF read
  <2>10. Sound(read) BY <2>1, <2>3, <2>8, <2>9 DEF Sound
  <2>11. CASE b.packets = {}
    <3>1. Own(read) \subseteq Own(st) BY <2>9 DEF Own
    <3>2. n = st.m_SequenceNumber BY <1>1, <2>1, <2>7, <2>11
    <3>3. Advances(s, st, read)
      <4>1. read.taken = st.taken BY <2>1, <2>9, <2>11, <2>13
      <4> QED BY <2>3, <2>9, <3>1, <3>2, <4>1, NothingNew
    <3>4. Serves(read)
      <4>1. CASE status = "Reset" BY <2>9, <4>1 DEF Serves, AwaitsPeer, HandlerServed
      <4>2. CASE status # "Reset"
        <5>1. st.m_Status \in {"Open", "Closing", "Closed"} BY <2>3, <2>11, <4>2
        <5>2. st.m_SendStreamID = NoStream => st.m_SentPackets # {} BY <5>1 DEF AwaitsPeer
        <5>3. AwaitsPeer(read) BY <2>9, <5>2 DEF AwaitsPeer
        <5>4. h => st.m_SentPackets # {} BY <2>2, <2>6, <2>11, <5>2
        <5> QED BY <2>9, <5>3, <5>4 DEF Serves, HandlerServed
      <4> QED BY <4>1, <4>2
    <3> QED BY <2>5, <2>9, <2>11, <3>3, <3>4 DEF Unheard, Kept
  <2>12. CASE b.packets # {}
    <3>1. Sound(idle) /\ Still(read, idle) BY <2>10, UnscheduleAckSound, TimersStill
    <3> HIDE DEF idle, Q
    <3>2. idle \in StreamRecord BY <3>1 DEF Sound
    <3>3. full \in StreamRecord BY <2>4, <3>2, Zenon DEF StreamRecord
    <3>4. /\ full.m_Status = idle.m_Status
          /\ full.m_SequenceNumber = idle.m_SequenceNumber /\ full.taken = idle.taken
          /\ full.m_LastReceivedSequenceNumber = idle.m_LastReceivedSequenceNumber
          /\ full.m_SavedPackets = idle.m_SavedPackets
          /\ full.m_SentPackets = Q
          /\ full.taken = idle.taken /\ full.written = idle.written
          /\ full.fins = idle.fins /\ full.out = idle.out
          /\ full.m_SendStreamID = idle.m_SendStreamID
          /\ full.received = idle.received /\ full.registered = idle.registered
          /\ full.m_LastReceivedSequenceNumber = idle.m_LastReceivedSequenceNumber
          /\ full.m_SavedPackets = idle.m_SavedPackets /\ full.syns = idle.syns
      BY <3>2 DEF StreamRecord
    <3> HIDE DEF full
    <3>5. Sound(full) BY <2>3, <2>4, <2>9, <3>1, <3>3, <3>4 DEF Sound, Still, Steady
    <3>6. /\ full.m_Status = status /\ full.m_SequenceNumber = n
          /\ full.m_SentPackets = Q /\ full.fins = st.fins /\ full.out = st.out
          /\ full.m_SendStreamID = st.m_SendStreamID /\ full.taken = b.taken
          /\ Unheard(st, full)
      BY <2>9, <3>1, <3>4 DEF Still, Steady, Unheard, Kept
    <3>7. /\ \A p \in b.packets : TakenNumber(s, st, full, p)
          /\ Own(full) \subseteq Own(st) \cup b.packets
      BY <2>2, <2>7, <3>6 DEF TakenNumber, Own, Q
    <3>8. Advances(s, st, full)
      <4>1. Own(full) \ Own(st) \subseteq b.packets BY <3>7
      <4>2. \A p \in Own(full) \ Own(st) : Addressed(s, st, full, p)
        BY <2>2, <2>13, <3>6, <4>1 DEF Addressed
      <4>3. full.m_SequenceNumber = st.m_SequenceNumber => full.taken = st.taken
        BY <1>1, <2>1, <2>7, <2>13, <3>6
      <4>4. Continues(st, full)
        BY <2>7, <2>13, <3>6, <4>1, <4>3, Zenon DEF Continues
      <4> QED BY <2>2, <2>3, <3>6, <3>7, <4>2, <4>4, Zenon DEF Advances
    <3>9. /\ Sound(sent) /\ Orderly(s, full, sent) /\ Unheard(full, sent)
          /\ sent.m_SentPackets = Q /\ sent.m_SendStreamID = st.m_SendStreamID
      <4>1. b.packets \in SUBSET Packet BY <2>1 DEF FinitePackets
      <4>2. \A p \in b.packets :
              p \in Own(full) \/ (IsPlainAck(p) /\ p.rid = s /\ p.sid = full.m_SendStreamID)
        <5>1. \A p \in b.packets : p \in Own(full) BY <3>6 DEF Own, Q
        <5> QED BY <5>1, Zenon
      <4>3. /\ SendPackets(full, b.packets).m_SentPackets = full.m_SentPackets
            /\ SendPackets(full, b.packets).m_SendStreamID = full.m_SendStreamID
        BY <3>3 DEF SendPackets, StreamRecord
      <4> QED BY <2>1, <3>5, <3>6, <4>1, <4>2, <4>3, SendPacketsSound, SendPacketsOrderly
    <3> HIDE DEF sent
    <3>10. /\ Sound(fin) /\ Advances(s, sent, fin) /\ Unheard(sent, fin)
           /\ fin.m_SentPackets = Q /\ fin.m_SendStreamID = st.m_SendStreamID
      <4>1. Advances(s, sent, sent) /\ Unheard(sent, sent)
        BY <3>9, NothingNew DEF Unheard, Kept
      <4> QED BY <3>9, <4>1, SendCloseSound, SendCloseOrderly DEF Orderly
    <3> HIDE DEF fin
    <3>11. /\ Sound(last) /\ Advances(s, fin, last) /\ Unheard(fin, last)
           /\ last.m_SentPackets = Q /\ last.m_SendStreamID = st.m_SendStreamID
      <4>1. Advances(s, fin, fin) /\ Unheard(fin, fin)
        BY <3>10, NothingNew DEF Unheard, Kept
      <4>2. Still(fin, ScheduleResend(fin)) /\ Sound(ScheduleResend(fin))
        BY <3>10, TimersStill, ScheduleResendSound
      <4>3. Advances(s, fin, ScheduleResend(fin))
        BY <3>10, <4>2, StillOrderly DEF Orderly
      <4> QED BY <3>10, <4>1, <4>2, <4>3 DEF Still, Steady
    <3> HIDE DEF last
    <3>12. Advances(s, full, fin)
      BY <3>5, <3>9, <3>10, AdvancesTransitive DEF Orderly
    <3>13. Advances(s, full, last) BY <3>5, <3>10, <3>11, <3>12, AdvancesTransitive
    <3>14. Advances(s, st, last) BY <3>5, <3>8, <3>11, <3>13, AdvancesTransitive
    <3>15. last.m_SentPackets # {} BY <2>12, <3>11 DEF Q
    <3>16. Serves(last) BY <3>15 DEF Serves, AwaitsPeer, HandlerServed
    <3>17. Unheard(st, last) BY <3>6, <3>9, <3>10, <3>11 DEF Unheard, Kept
    <3> QED BY <2>5, <2>12, <3>11, <3>14, <3>16, <3>17
  <2> QED BY <2>11, <2>12
<1> QED BY <1>2, <1>3, <1>4
-----------------------------------------------------------------------------
(***************************************************************************)
(* Receiving.                                                              *)
(***************************************************************************)
LEMMA AcknowledgeOrderly ==
  ASSUME NEW s, NEW st, Sound(st), NEW p, NEW grow
  PROVE  LET new == Acknowledge(st, p, grow)
         IN /\ Advances(s, st, new) /\ Unheard(st, new)
            /\ new.m_Status = st.m_Status
            /\ new.m_SendStreamID = st.m_SendStreamID
            /\ Acked(st, p) = {} => (HandlerServed(st) => HandlerServed(new))
<1> DEFINE A    == Acked(st, p)
           left == st.m_SentPackets \ A
           w    == AckWindow(st, Cardinality(A), grow)
           wait == st.resendWait /\ left # {}
           acks == st.acked \cup Seqns(A)
           new  == [st EXCEPT !.m_SentPackets = left, !.m_WindowSize = w,
                              !.resendWait = wait, !.acked = acks]
<1>1. st \in StreamRecord BY DEF Sound
<1>2. Acknowledge(st, p, grow) = new BY DEF Acknowledge, A
<1> HIDE DEF A, left, w, wait, acks
<1>3. /\ new.m_Status = st.m_Status /\ new.m_SendStreamID = st.m_SendStreamID
      /\ new.m_SequenceNumber = st.m_SequenceNumber /\ new.taken = st.taken
      /\ new.m_SentPackets = left
      /\ new.fins = st.fins /\ new.out = st.out /\ new.posted = st.posted
      /\ new.m_SendHandler = st.m_SendHandler
      /\ new.received = st.received /\ new.registered = st.registered
      /\ new.m_LastReceivedSequenceNumber = st.m_LastReceivedSequenceNumber
      /\ new.m_SavedPackets = st.m_SavedPackets /\ new.syns = st.syns
  BY <1>1 DEF StreamRecord
<1> HIDE DEF new
<1>4. Own(new) \subseteq Own(st) BY <1>3 DEF Own, left
<1>5. Advances(s, st, new) BY <1>3, <1>4, NothingNew
<1>6. A = {} => left = st.m_SentPackets BY DEF left
<1>7. A = {} => (HandlerServed(st) => HandlerServed(new))
  BY <1>3, <1>6 DEF HandlerServed
<1> QED BY <1>2, <1>3, <1>5, <1>7 DEF Unheard, Kept, A

\* After an ack SendBuffer runs, which serves the send handler.
LEMMA ProcessAckOrderly ==
  ASSUME NEW s \in Streams, NEW st, Sound(st), Awake(st), st.m_Status # "None",
         st.m_SendStreamID # NoStream, HandlerServed(st),
         NEW p \in Packet, NEW grow \in BOOLEAN
  PROVE  LET new == ProcessAck(s, st, p, grow)
         IN Advances(s, st, new) /\ Serves(new) /\ Unheard(st, new)
<1> DEFINE st1 == Acknowledge(st, p, grow)
           zero == [st1 EXCEPT !.m_NumResendAttempts = 0]
           st2 == IF Acked(st, p) = {} THEN st1 ELSE SendBuffer(s, zero)
<1>1. Sound(st1) /\ Awake(st1) BY AcknowledgeSound
<1>2. /\ Advances(s, st, st1) /\ Unheard(st, st1)
      /\ st1.m_Status = st.m_Status /\ st1.m_SendStreamID = st.m_SendStreamID
      /\ Acked(st, p) = {} => HandlerServed(st1)
  BY AcknowledgeOrderly
<1>3. ProcessAck(s, st, p, grow) =
        IF st2.m_Status = "Closing" THEN Close(s, st2) ELSE st2
  BY DEF ProcessAck, CloseIfClosing
<1> HIDE DEF st1
<1>4. st1 \in StreamRecord BY <1>1 DEF Sound
<1>5. zero \in StreamRecord BY <1>4, Zenon DEF StreamRecord
<1>6. Same(st1, zero) /\ Still(st1, zero) /\ (Awake(st1) => Awake(zero))
  BY <1>4 DEF StreamRecord, Same, Still, Steady, Unheard, Kept, Awake
<1> HIDE DEF zero
<1>7. Sound(zero) /\ Awake(zero) BY <1>1, <1>5, <1>6 DEF Sound, Same
<1>8. Sound(st2) /\ Awake(st2) BY <1>1, <1>7, SendBufferSound
<1>9. Advances(s, st, st2) /\ Serves(st2) /\ Unheard(st, st2)
  <2>1. CASE Acked(st, p) = {}
    <3>1. AwaitsPeer(st1) BY <1>2 DEF AwaitsPeer
    <3> QED BY <1>2, <2>1, <3>1 DEF Serves
  <2>2. CASE Acked(st, p) # {}
    <3> DEFINE b == SendBuffer(s, zero)
    <3>1. /\ zero.m_Status = st.m_Status /\ zero.m_SendStreamID = st.m_SendStreamID
          /\ Unheard(st1, zero)
      BY <1>2, <1>6 DEF Still, Steady
    <3>2. AwaitsPeer(zero) BY <3>1 DEF AwaitsPeer
    <3>3. Sound(b) /\ Advances(s, zero, b) /\ Serves(b) /\ Unheard(zero, b)
      BY <1>7, <3>1, <3>2, SendBufferSound, SendBufferOrderly
    <3>4. st2 = b BY <2>2
    <3> HIDE DEF b
    <3>5. Advances(s, st1, zero) BY <1>1, <1>6, StillOrderly DEF Orderly
    <3>6. Advances(s, st1, b) BY <1>1, <1>7, <3>3, <3>5, AdvancesTransitive
    <3>7. Advances(s, st, b) BY <1>1, <1>2, <3>3, <3>6, AdvancesTransitive
    <3> QED BY <1>2, <3>1, <3>3, <3>4, <3>7 DEF Unheard, Kept
  <2> QED BY <2>1, <2>2
<1> HIDE DEF st2
<1>10. CASE st2.m_Status = "Closing"
  <2> DEFINE c == Close(s, st2)
  <2>1. Sound(c) /\ Orderly(s, st2, c) /\ Unheard(st2, c)
    BY <1>8, CloseSound, CloseOrderly
  <2> HIDE DEF c
  <2>2. Advances(s, st, c) BY <1>8, <1>9, <2>1, AdvancesTransitive DEF Orderly
  <2>3. ProcessAck(s, st, p, grow) = c BY <1>3, <1>10 DEF c
  <2> QED BY <1>9, <2>1, <2>2, <2>3 DEF Orderly, Unheard, Kept
<1>11. CASE st2.m_Status # "Closing" BY <1>3, <1>9, <1>11
<1> QED BY <1>10, <1>11

\* Each CLOSE takes one number for its answer.
LEMMA AnswerClosesOrderly ==
  ASSUME NEW s \in Streams, NEW st, Sound(st), NEW C \in FinitePackets
  PROVE  LET new == AnswerCloses(s, st, C)
         IN Advances(s, st, new) /\ Unheard(st, new) /\ new.m_Status = "Reset"
<1> DEFINE Rank(p) == Cardinality({q \in C : q.seqn < p.seqn})
           F == {Fin(s, st, st.m_SequenceNumber + Rank(p), p.seqn) : p \in C}
           k == st.m_SequenceNumber + Cardinality(C)
           G == st.fins \cup F
           new == [st EXCEPT !.m_Status = "Reset", !.m_SequenceNumber = k, !.fins = G]
<1>1. st \in StreamRecord /\ st.m_SequenceNumber \in Nat
  BY DEF Sound, StreamRecord
<1>2. Cardinality(C) \in Nat BY FS_CardinalityType DEF FinitePackets
<1>3. \A p \in C : Rank(p) \in Nat /\ Rank(p) < Cardinality(C) BY RankBound
<1>4. AnswerCloses(s, st, C) = new BY DEF AnswerCloses
<1>5. \A f \in F : \E p \in C :
         f = Fin(s, st, st.m_SequenceNumber + Rank(p), p.seqn)
  OBVIOUS
<1> HIDE DEF Rank, F
<1>6. ASSUME NEW f \in F
      PROVE  /\ f.sid = st.m_SendStreamID /\ f.rid = s
             /\ f.off = st.taken /\ f.len = 0 /\ f.flags = {"CLOSE"}
             /\ st.m_SequenceNumber <= f.seqn /\ f.seqn < k
  <2>1. PICK p \in C : f = Fin(s, st, st.m_SequenceNumber + Rank(p), p.seqn) BY <1>5
  <2>2. /\ f.sid = st.m_SendStreamID /\ f.rid = s
        /\ f.seqn = st.m_SequenceNumber + Rank(p) /\ f.off = st.taken /\ f.len = 0 /\ f.flags = {"CLOSE"}
    BY <2>1, FinNames
  <2> QED BY <1>1, <1>2, <1>3, <2>2
<1>7. st.m_SequenceNumber <= k BY <1>1, <1>2
<1> HIDE DEF k, G
<1>8. /\ new.m_Status = "Reset" /\ new.m_SequenceNumber = k /\ new.taken = st.taken
      /\ new.m_SendStreamID = st.m_SendStreamID
      /\ new.m_SentPackets = st.m_SentPackets /\ new.fins = G /\ new.out = st.out
      /\ new.received = st.received /\ new.registered = st.registered
      /\ new.m_LastReceivedSequenceNumber = st.m_LastReceivedSequenceNumber
      /\ new.m_SavedPackets = st.m_SavedPackets /\ new.syns = st.syns
  BY <1>1 DEF StreamRecord
<1> HIDE DEF new
<1>9. Own(new) \ Own(st) \subseteq F BY <1>8 DEF Own, G
<1>10. \A p \in Own(new) \ Own(st) : TakenNumber(s, st, new, p)
  BY <1>6, <1>8, <1>9 DEF TakenNumber
<1>11. \A p, q \in Own(new) \ Own(st) : Alike(p, q) BY <1>6, <1>9 DEF Alike
<1>12. \A p \in Own(new) \ Own(st) : Addressed(s, st, new, p)
  BY <1>6, <1>8, <1>9 DEF Addressed
<1>13. Continues(st, new)
  <2>1. st.taken \in Nat BY OwnTyped
  <2> QED BY <1>6, <1>8, <1>9, <2>1 DEF Continues
<1>14. Advances(s, st, new)
  BY <1>7, <1>8, <1>10, <1>11, <1>12, <1>13, Zenon DEF Advances
<1> QED BY <1>4, <1>8, <1>14 DEF Unheard, Kept

\* The peer's payloads disturb nothing that is sent.
LEMMA QueuePacketsOrderly ==
  ASSUME NEW s, NEW st, Sound(st), NEW P, NEW first, NEW last
  PROVE  Orderly(s, st, QueuePackets(st, P, first, last))
<1> DEFINE r == st.received \o
                  [i \in 1 .. last - first + 1 |->
                             [off |-> PacketAt(P, first + i - 1).off,
                              len |-> PacketAt(P, first + i - 1).len]]
           n == st.queued + Cardinality({p \in P : p.len > 0})
           seen == st.seen \cup (first .. last)
           queue == [st EXCEPT !.received = r, !.queued = n, !.seen = seen,
                               !.m_LastReceivedSequenceNumber = last]
           new == IF \E p \in P : p.len > 0 THEN CancelReceiveTimer(queue) ELSE queue
<1>1. st \in StreamRecord BY DEF Sound
<1>2. QueuePackets(st, P, first, last) = new BY DEF QueuePackets
<1> HIDE DEF r, n, seen
<1>3. /\ new.m_Status = st.m_Status /\ new.m_SendStreamID = st.m_SendStreamID
      /\ new.m_SequenceNumber = st.m_SequenceNumber /\ new.taken = st.taken
      /\ new.m_SentPackets = st.m_SentPackets
      /\ new.fins = st.fins /\ new.out = st.out /\ new.posted = st.posted
      /\ new.m_SendHandler = st.m_SendHandler
  BY <1>1 DEF CancelReceiveTimer, StreamRecord
<1> HIDE DEF new
<1>4. Own(new) = Own(st) BY <1>3 DEF Own
<1>5. Advances(s, st, new) BY <1>3, <1>4, NothingNew
<1>6. Serves(st) => Serves(new) BY <1>3 DEF Serves, AwaitsPeer, HandlerServed
<1> QED BY <1>2, <1>5, <1>6 DEF Orderly

LEMMA ProcessPacketsOrderly ==
  ASSUME NEW s \in Streams, NEW st, Sound(st), Awake(st),
         NEW P \in FinitePackets, NEW first \in Nat, NEW last \in Nat, first <= last,
         \A n \in first .. last : \E p \in P : p.seqn = n,
         \A q \in st.m_SavedPackets : q.seqn > last + 1
  PROVE  Orderly(s, st, ProcessPackets(s, st, P, first, last))
<1> DEFINE C == {p \in P : IsClose(p)}
           a == QueuePackets(st, P, first, last)
           b == AnswerCloses(s, a, C)
           c == Shutdown(b)
<1>1. ProcessPackets(s, st, P, first, last) = IF C = {} THEN a ELSE c
  BY DEF ProcessPackets
<1>2. C \in SUBSET P OBVIOUS
<1> HIDE DEF C
<1>3. C \in FinitePackets BY <1>2, FS_Subset DEF FinitePackets
<1>4. Sound(a) /\ Orderly(s, st, a) BY QueuePacketsSound, QueuePacketsOrderly
<1> HIDE DEF a
<1>5. Sound(b) /\ Advances(s, a, b) /\ b.m_Status = "Reset"
  BY <1>3, <1>4, AnswerClosesSound, AnswerClosesOrderly
<1> HIDE DEF b
<1>6. Sound(c) /\ Orderly(s, b, c) /\ Serves(c)
  BY <1>5, ShutdownSound, ShutdownServes
<1> HIDE DEF c
<1>7. Advances(s, a, c) BY <1>4, <1>5, <1>6, AdvancesTransitive DEF Orderly
<1>8. Advances(s, st, c) BY <1>4, <1>6, <1>7, AdvancesTransitive DEF Orderly
<1> QED BY <1>1, <1>4, <1>6, <1>8 DEF Orderly

LEMMA DropSavedSteady ==
  ASSUME NEW st, Sound(st), NEW S, NEW k
  PROVE  Steady(st, [st EXCEPT !.m_SavedPackets = S, !.syns = k])
<1>1. st \in StreamRecord BY DEF Sound
<1> QED BY <1>1 DEF StreamRecord, Steady

LEMMA NextInSequenceOrderly ==
  ASSUME NEW s \in Streams, NEW st, Sound(st), Awake(st), NEW p \in Packet,
         IsSYN(p) => p.seqn = 0,
         IsSYN(p) \/ p.seqn = st.m_LastReceivedSequenceNumber + 1,
         st.m_Status # "None", Serves(st)
  PROVE  LET new == NextInSequence(s, st, p)
         IN Advances(s, st, new) /\ Serves(new)
<1> DEFINE run  == SavedRun(st, p.seqn)
           last == Max({p.seqn} \cup Seqns(run))
           k    == st.syns + (IF IsSYN(p) THEN 1 ELSE 0)
           st0  == [st EXCEPT !.m_SavedPackets = st.m_SavedPackets \ run, !.syns = k]
           P    == {p} \cup run
           st1  == ProcessPackets(s, st0, P, p.seqn, last)
           new  == AnswerPacket(s, st1, p)
<1>1. /\ st \in StreamRecord /\ p.seqn \in Nat /\ st.m_SavedPackets \in FinitePackets
      /\ st.m_LastReceivedSequenceNumber \in Nat \cup {-1}
  BY DEF Sound, StreamRecord, Packet
<1>2. k \in Nat
  <2>1. st.syns \in Nat BY <1>1 DEF StreamRecord
  <2> QED BY <2>1
<1>3. \A q \in st.m_SavedPackets : q.seqn \in Nat /\ q.seqn > p.seqn
  <2>1. \A q \in st.m_SavedPackets : q.seqn \in Nat BY <1>1 DEF FinitePackets, Packet
  <2> QED BY <1>1, <2>1 DEF Sound
<1>4. run \in SUBSET st.m_SavedPackets BY DEF SavedRun
<1>5. NextInSequence(s, st, p) = new BY DEF NextInSequence
<1>6. /\ last \in Nat /\ p.seqn <= last
      /\ \A m \in p.seqn + 1 .. last : \E q \in run : q.seqn = m
      /\ \A q \in st.m_SavedPackets \ run : q.seqn > last + 1
  BY <1>1, <1>3, SavedRunIsRun
<1> HIDE DEF run, last, k
<1>7. Sound(st0) /\ Awake(st0) /\ st0.m_SavedPackets = st.m_SavedPackets \ run
  BY <1>2, <1>4, DropSavedSound
<1>8. Orderly(s, st, st0) /\ st0.m_Status = st.m_Status
  <2>1. Steady(st, st0) BY DropSavedSteady
  <2> HIDE DEF st0
  <2> QED BY <2>1, SteadyOrderly DEF Steady
<1> HIDE DEF st0
<1>9. P \in FinitePackets
  <2>1. IsFiniteSet(run) /\ run \in SUBSET Packet
    BY <1>1, <1>4, FS_Subset DEF FinitePackets
  <2> QED BY <2>1, FS_Singleton, FS_Union DEF FinitePackets
<1>10. \A m \in p.seqn .. last : \E q \in P : q.seqn = m
  BY <1>1, <1>6
<1> HIDE DEF P
<1>11. Sound(st1) /\ Awake(st1)
  BY <1>1, <1>6, <1>7, <1>9, <1>10, ProcessPacketsSound
<1>12. Orderly(s, st0, st1)
  BY <1>1, <1>6, <1>7, <1>9, <1>10, ProcessPacketsOrderly
<1> HIDE DEF st1
<1>13. Orderly(s, st, st1) BY <1>7, <1>8, <1>11, <1>12, OrderlyTransitive
<1>14. Serves(st1) /\ st1.m_Status # "None" /\ Advances(s, st, st1)
  BY <1>13 DEF Orderly, Advances
<1>15. \/ new = st1
       \/ new = ScheduleAckSend(st1)
       \/ new = SendBuffer(s, st1)
  BY DEF AnswerPacket
<1>16. CASE new = st1 BY <1>5, <1>14, <1>16
<1>17. CASE new = ScheduleAckSend(st1)
  <2>1. Sound(new) /\ Orderly(s, st1, new)
    BY <1>11, <1>17, ScheduleAckSendSound, TimersStill, StillOrderly
  <2> HIDE DEF new
  <2> QED BY <1>5, <1>11, <1>14, <2>1, AdvancesTransitive DEF Orderly
<1>18. CASE new = SendBuffer(s, st1)
  <2>1. Sound(new) /\ Advances(s, st1, new) /\ Serves(new)
    BY <1>11, <1>14, <1>18, SendBufferSound, SendBufferOrderly DEF Serves
  <2> HIDE DEF new
  <2> QED BY <1>5, <1>11, <1>14, <2>1, AdvancesTransitive
<1> QED BY <1>15, <1>16, <1>17, <1>18

LEMMA SavePacketSteady ==
  ASSUME NEW st, Sound(st), NEW p
  PROVE  Steady(st, SavePacket(st, p))
<1>1. st \in StreamRecord BY DEF Sound
<1> DEFINE S == st.m_SavedPackets \cup {p}
           seen == st.seen \cup {p.seqn}
           new == [st EXCEPT !.m_SavedPackets = S, !.seen = seen]
<1>2. SavePacket(st, p) = st \/ SavePacket(st, p) = new BY DEF SavePacket
<1> HIDE DEF S, seen
<1>3. Steady(st, new) BY <1>1 DEF StreamRecord, Steady
<1>4. Steady(st, st) BY DEF Steady
<1> QED BY <1>2, <1>3, <1>4

LEMMA OutOfSequenceOrderly ==
  ASSUME NEW s \in Streams, NEW st, Sound(st), Awake(st), NEW p \in Packet,
         p.seqn # st.m_LastReceivedSequenceNumber + 1
  PROVE  Orderly(s, st, OutOfSequence(s, st, p))
<1>1. CASE p.seqn <= st.m_LastReceivedSequenceNumber
  BY <1>1, SendQuickAckOrderly DEF OutOfSequence
<1>2. CASE ~(p.seqn <= st.m_LastReceivedSequenceNumber)
  <2> DEFINE saved == SavePacket(st, p)
             idle == [CancelAckSendTimer(saved) EXCEPT !.m_IsAckSendScheduled = FALSE]
             st1 == IF st.m_IsAckSendScheduled THEN idle ELSE saved
             q   == SendQuickAck(s, st1)
             t   == ScheduleAckSend(saved)
  <2>1. p.seqn \in Nat /\ st.m_LastReceivedSequenceNumber \in Nat \cup {-1}
    BY DEF Sound, StreamRecord, Packet
  <2>2. Sound(saved) BY <1>2, <2>1, SavePacketSound
  <2>3. OutOfSequence(s, st, p) = IF st.m_LastReceivedSequenceNumber < 0 THEN t ELSE q
    BY <1>2 DEF OutOfSequence
  <2>4. Steady(st, saved) BY SavePacketSteady
  <2> HIDE DEF saved
  <2>5. Sound(st1) /\ Steady(st, st1)
    BY <2>2, <2>4, UnscheduleAckSound, TimersStill DEF Still, Steady
  <2> HIDE DEF st1
  <2>6. Sound(q) /\ Orderly(s, st1, q) BY <2>5, SendQuickAckSound, SendQuickAckOrderly
  <2>7. Orderly(s, st, st1) BY <2>5, SteadyOrderly
  <2> HIDE DEF q
  <2>8. Orderly(s, st, q) BY <2>5, <2>6, <2>7, OrderlyTransitive
  <2>9. Orderly(s, st, t)
    <3>1. Steady(st, t) BY <2>2, <2>4, TimersStill DEF Still, Steady
    <3> QED BY <3>1, SteadyOrderly
  <2> QED BY <2>3, <2>8, <2>9
<1> QED BY <1>1, <1>2

\* HandleNextPacket, for a stream that exists.
LEMMA HandleNextPacketOrderly ==
  ASSUME NEW s \in Streams, NEW st, Sound(st), Awake(st), NEW p \in Packet,
         IsSYN(p) => p.seqn = 0, NEW grow \in BOOLEAN,
         st.m_Status # "None", HandlerServed(st)
  PROVE  LET new == HandleNextPacket(s, st, p, grow)
         IN Advances(s, st, new) /\ Serves(new)
<1> DEFINE id  == IF st.m_SendStreamID = NoStream THEN p.rid ELSE st.m_SendStreamID
           st1 == [st EXCEPT !.m_SendStreamID = id]
           st2 == IF IsNoAck(p) THEN st1 ELSE ProcessAck(s, st1, p, grow)
           new == DispatchPacket(s, st2, p)
<1>1. st \in StreamRecord BY DEF Sound
<1>2. id \in Streams \cup {NoStream} /\ id # NoStream
  <2>1. p.rid \in Streams BY DEF Packet
  <2>2. NoStream \notin Streams BY StreamIDs DEF Streams
  <2> QED BY <1>1, <2>1, <2>2 DEF StreamRecord
<1>3. HandleNextPacket(s, st, p, grow) = new BY DEF HandleNextPacket
<1> HIDE DEF id
<1>4. st1 \in StreamRecord BY <1>1, <1>2, Zenon DEF StreamRecord
<1>5. Same(st, st1) /\ (Awake(st) => Awake(st1)) BY <1>1 DEF StreamRecord, Same, Awake
<1>17. st.m_SendStreamID # NoStream => id = st.m_SendStreamID BY DEF id
<1>6. /\ st1.m_Status = st.m_Status /\ st1.m_SendStreamID = id
      /\ st1.m_SequenceNumber = st.m_SequenceNumber /\ st1.taken = st.taken
      /\ st1.m_SentPackets = st.m_SentPackets
      /\ st1.fins = st.fins /\ st1.out = st.out /\ st1.posted = st.posted
      /\ st1.m_SendHandler = st.m_SendHandler
  BY <1>1 DEF StreamRecord
<1> HIDE DEF st1
<1>7. Sound(st1) /\ Awake(st1) BY <1>4, <1>5 DEF Sound, Same
<1>8. Advances(s, st, st1) BY <1>6, <1>17, NothingNew DEF Own
<1>9. HandlerServed(st1) /\ AwaitsPeer(st1) BY <1>2, <1>6 DEF HandlerServed, AwaitsPeer
<1>10. Sound(st2) /\ Awake(st2) BY <1>7, ProcessAckSound
<1>11. Advances(s, st1, st2) /\ Serves(st2)
  <2>1. Advances(s, st1, st1) BY <1>7, NothingNew
  <2> QED BY <1>2, <1>6, <1>7, <1>9, <2>1, ProcessAckOrderly DEF Serves
<1> HIDE DEF st2
<1>12. st2.m_Status # "None" BY <1>6, <1>11 DEF Advances
<1>13. Sound(new) /\ Awake(new)
  BY <1>10, NextInSequenceSound, OutOfSequenceSound DEF DispatchPacket
<1>14. Advances(s, st2, new) /\ Serves(new)
  <2>1. Advances(s, st2, st2) BY <1>10, NothingNew
  <2>2. IsPlainAck(p) => new = st2 BY DEF DispatchPacket
  <2>3. ~IsPlainAck(p) /\ (IsSYN(p) \/ p.seqn = st2.m_LastReceivedSequenceNumber + 1)
          => new = NextInSequence(s, st2, p)
    BY DEF DispatchPacket
  <2>4. ~IsPlainAck(p) /\ ~(IsSYN(p) \/ p.seqn = st2.m_LastReceivedSequenceNumber + 1)
          => new = OutOfSequence(s, st2, p)
    BY DEF DispatchPacket
  <2> HIDE DEF new
  <2> QED BY <1>10, <1>11, <1>12, <2>1, <2>2, <2>3, <2>4, NextInSequenceOrderly,
             OutOfSequenceOrderly DEF Orderly
<1> HIDE DEF new
<1>15. Advances(s, st1, new) BY <1>7, <1>10, <1>11, <1>13, <1>14, AdvancesTransitive
<1>16. Advances(s, st, new) BY <1>7, <1>8, <1>13, <1>15, AdvancesTransitive
<1> QED BY <1>3, <1>14, <1>16
-----------------------------------------------------------------------------
(***************************************************************************)
(* What the reader gets.  A numbering f of the peer's stream gives each of *)
(* its packets its place in what the peer wrote; the stream saves and      *)
(* processes rows of it only (Heard).                                      *)
(***************************************************************************)
\* f[n] is the unit before the first one of the packet that a stream numbers n:
\* the packet's payload is the range from there to f[n + 1].
Row(p, f) == p.off = f[p.seqn] /\ p.off + p.len = f[p.seqn + 1]

\* What st has saved and processed are rows of f, of packets below n; a stream
\* that has processed one SYN has processed every number once.
Heard(st, f, n) ==
  /\ \A q \in st.m_SavedPackets : q.seqn < n /\ Row(q, f)
  /\ st.m_LastReceivedSequenceNumber < n
  /\ st.syns = 0 => st.m_LastReceivedSequenceNumber = -1
  /\ st.syns <= 1 =>
       /\ Len(st.received) = st.m_LastReceivedSequenceNumber + 1
       /\ \A i \in 1 .. Len(st.received) :
            /\ st.received[i].off = f[i - 1]
            /\ st.received[i].off + st.received[i].len = f[i]

Numbering == [Nat -> Nat]

LEMMA Concatenation ==
  ASSUME NEW a \in Seq([off: Nat, len: Nat]), NEW b \in Seq([off: Nat, len: Nat])
  PROVE  /\ Len(a) \in Nat /\ Len(b) \in Nat /\ Len(a \o b) = Len(a) + Len(b)
         /\ \A i \in 1 .. Len(a) : (a \o b)[i] = a[i]
         /\ \A i \in 1 .. Len(b) : (a \o b)[Len(a) + i] = b[i]
OBVIOUS

LEMMA KeptHeard ==
  ASSUME NEW st, NEW new, NEW f, NEW n, Kept(st, new), Heard(st, f, n)
  PROVE  Heard(new, f, n)
BY DEF Kept, Heard

LEMMA KeptTransitive ==
  ASSUME NEW a, NEW b, NEW c, Kept(a, b), Kept(b, c)
  PROVE  Kept(a, c)
BY DEF Kept

\* A CLOSE among the packets ends the stream and does not touch what is queued.
LEMMA ProcessPacketsKept ==
  ASSUME NEW s \in Streams, NEW st, Sound(st), Awake(st),
         NEW P \in FinitePackets, NEW first \in Nat, NEW last \in Nat, first <= last,
         \A n \in first .. last : \E p \in P : p.seqn = n,
         \A q \in st.m_SavedPackets : q.seqn > last + 1
  PROVE  Kept(QueuePackets(st, P, first, last), ProcessPackets(s, st, P, first, last))
<1> DEFINE C == {p \in P : IsClose(p)}
           a == QueuePackets(st, P, first, last)
           b == AnswerCloses(s, a, C)
           c == Shutdown(b)
<1>1. ProcessPackets(s, st, P, first, last) = IF C = {} THEN a ELSE c
  BY DEF ProcessPackets
<1>2. C \in SUBSET P OBVIOUS
<1> HIDE DEF C
<1>3. C \in FinitePackets BY <1>2, FS_Subset DEF FinitePackets
<1>4. Sound(a) BY QueuePacketsSound
<1> HIDE DEF a
<1>5. Sound(b) /\ Kept(a, b)
  BY <1>3, <1>4, AnswerClosesSound, AnswerClosesOrderly DEF Unheard
<1> HIDE DEF b
<1>6. Kept(b, c) BY <1>5, ShutdownStill DEF Still, Unheard
<1> HIDE DEF c
<1>7. Kept(a, c) /\ Kept(a, a) BY <1>5, <1>6 DEF Kept
<1> QED BY <1>1, <1>7 DEF a

LEMMA AnswerPacketKept ==
  ASSUME NEW s \in Streams, NEW st, Sound(st), Awake(st), st.m_Status # "None",
         AwaitsPeer(st), NEW p
  PROVE  Kept(st, AnswerPacket(s, st, p))
<1>1. Kept(st, SendBuffer(s, st)) BY SendBufferOrderly DEF Unheard
<1>2. Kept(st, ScheduleAckSend(st)) BY TimersStill DEF Still, Unheard
<1>3. Kept(st, st) BY DEF Kept
<1> QED BY <1>1, <1>2, <1>3 DEF AnswerPacket

\* The payloads of the packets first .. last follow what was processed.
LEMMA QueuePacketsHeard ==
  ASSUME NEW st, Sound(st), NEW P \in FinitePackets,
         NEW first \in Nat, NEW last \in Nat, first <= last,
         \A m \in first .. last : \E p \in P : p.seqn = m,
         NEW f \in Numbering, NEW n \in Nat, last < n,
         \A p \in P : Row(p, f),
         \A q \in st.m_SavedPackets : q.seqn < n /\ Row(q, f),
         st.syns # 0,
         st.syns <= 1 =>
           /\ first = Len(st.received)
           /\ \A i \in 1 .. Len(st.received) :
                /\ st.received[i].off = f[i - 1]
                /\ st.received[i].off + st.received[i].len = f[i]
  PROVE  LET new == QueuePackets(st, P, first, last)
         IN Heard(new, f, n) /\ new.m_SendStreamID = st.m_SendStreamID
<1> DEFINE add == [i \in 1 .. last - first + 1 |->
                     [off |-> PacketAt(P, first + i - 1).off,
                      len |-> PacketAt(P, first + i - 1).len]]
           r == st.received \o add
           k == st.queued + Cardinality({p \in P : p.len > 0})
           seen == st.seen \cup (first .. last)
           queue == [st EXCEPT !.received = r, !.queued = k, !.seen = seen,
                               !.m_LastReceivedSequenceNumber = last]
           new == IF \E p \in P : p.len > 0 THEN CancelReceiveTimer(queue) ELSE queue
<1>1. st \in StreamRecord /\ st.received \in Seq([off: Nat, len: Nat]) /\ st.syns \in Nat
  BY DEF Sound, StreamRecord
<1>2. \A p \in P : p.seqn \in Nat /\ p.off \in Nat /\ p.len \in Nat
  BY DEF FinitePackets, Packet
<1>3. ASSUME NEW m \in first .. last
      PROVE  /\ PacketAt(P, m).off \in Nat /\ PacketAt(P, m).len \in Nat
             /\ PacketAt(P, m).off = f[m]
             /\ PacketAt(P, m).off + PacketAt(P, m).len = f[m + 1]
  <2>1. PICK p \in P : p.seqn = m OBVIOUS
  <2>2. PacketAt(P, m) \in P /\ PacketAt(P, m).seqn = m BY <2>1 DEF PacketAt
  <2> QED BY <1>2, <2>2 DEF Row
<1>4. ASSUME NEW i \in 1 .. last - first + 1
      PROVE  /\ add[i] \in [off: Nat, len: Nat]
             /\ add[i].off = f[first + i - 1]
             /\ add[i].off + add[i].len = f[first + i]
  <2>1. first + i - 1 \in first .. last /\ (first + i - 1) + 1 = first + i OBVIOUS
  <2> QED BY <1>3, <2>1
<1>5. add \in Seq([off: Nat, len: Nat]) /\ Len(add) = last - first + 1
  <2>1. last - first + 1 \in Nat OBVIOUS
  <2>2. Len(add) = last - first + 1 BY <2>1
  <2>3. add \in Seq([off: Nat, len: Nat])
    <3>1. \A i \in 1 .. last - first + 1 :
            PacketAt(P, first + i - 1).off \in Nat /\ PacketAt(P, first + i - 1).len \in Nat
      <4>1. \A i \in 1 .. last - first + 1 : first + i - 1 \in first .. last OBVIOUS
      <4> QED BY <1>3, <4>1
    <3>2. \A i \in 1 .. last - first + 1 :
            [off |-> PacketAt(P, first + i - 1).off,
             len |-> PacketAt(P, first + i - 1).len] \in [off: Nat, len: Nat]
      BY <3>1
    <3> QED BY <2>1, <3>2
  <2> QED BY <2>2, <2>3
<1>6. QueuePackets(st, P, first, last) = new BY DEF QueuePackets
<1> HIDE DEF add
<1>7. ASSUME st.syns <= 1
      PROVE  /\ Len(r) = last + 1
             /\ \A i \in 1 .. Len(r) : r[i].off = f[i - 1] /\ r[i].off + r[i].len = f[i]
  <2>1. first = Len(st.received) BY <1>7
  <2>2. /\ Len(r) = first + Len(add)
        /\ \A i \in 1 .. first : r[i] = st.received[i]
        /\ \A i \in 1 .. Len(add) : r[first + i] = add[i]
    <3> DEFINE old == st.received
    <3>1. old \in Seq([off: Nat, len: Nat]) /\ add \in Seq([off: Nat, len: Nat])
      BY <1>1, <1>5
    <3>2. r = old \o add OBVIOUS
    <3>3. first = Len(old) BY <2>1
    <3> HIDE DEF r, old
    <3>4. /\ Len(old \o add) = Len(old) + Len(add)
          /\ \A i \in 1 .. Len(old) : (old \o add)[i] = old[i]
          /\ \A i \in 1 .. Len(add) : (old \o add)[Len(old) + i] = add[i]
      BY <3>1, Concatenation
    <3> QED BY <3>2, <3>3, <3>4, Zenon DEF old
  <2> HIDE DEF r
  <2>3. Len(r) = last + 1 BY <1>5, <2>2
  <2>4. ASSUME NEW i \in 1 .. Len(r)
        PROVE  r[i].off = f[i - 1] /\ r[i].off + r[i].len = f[i]
    <3>1. CASE i <= first
      <4>1. r[i] = st.received[i] BY <2>2, <2>3, <3>1
      <4> QED BY <1>7, <2>1, <2>3, <3>1, <4>1
    <3>2. CASE ~(i <= first)
      <4> DEFINE j == i - first
      <4>1. /\ j \in 1 .. last - first + 1 /\ first + j = i
            /\ first + j - 1 = i - 1
        BY <2>3, <3>2
      <4> HIDE DEF j
      <4>2. r[i] = add[j] BY <1>5, <2>2, <4>1
      <4>3. add[j].off = f[first + j - 1] /\ add[j].off + add[j].len = f[first + j]
        BY <1>4, <4>1
      <4> QED BY <4>1, <4>2, <4>3
    <3> QED BY <3>1, <3>2
  <2> QED BY <2>3, <2>4
<1> HIDE DEF r, k, seen
<1>8. /\ new.received = r /\ new.syns = st.syns
      /\ new.m_LastReceivedSequenceNumber = last
      /\ new.m_SavedPackets = st.m_SavedPackets
      /\ new.m_SendStreamID = st.m_SendStreamID
  BY <1>1 DEF CancelReceiveTimer, StreamRecord
<1> HIDE DEF new
<1>9. Heard(new, f, n) BY <1>7, <1>8 DEF Heard
<1> QED BY <1>6, <1>8, <1>9

\* A run of packets is processed: the next ones, or all from the SYN on.
LEMMA NextInSequenceHeard ==
  ASSUME NEW s \in Streams, NEW st, Sound(st), Awake(st), NEW p \in Packet,
         IsSYN(p) => p.seqn = 0, ~IsPlainAck(p),
         IsSYN(p) \/ p.seqn = st.m_LastReceivedSequenceNumber + 1,
         st.m_Status # "None", Serves(st),
         NEW f \in Numbering, NEW n \in Nat, Heard(st, f, n), p.seqn < n, Row(p, f)
  PROVE  LET new == NextInSequence(s, st, p)
         IN Heard(new, f, n) /\ new.m_SendStreamID = st.m_SendStreamID
<1> DEFINE run  == SavedRun(st, p.seqn)
           last == Max({p.seqn} \cup Seqns(run))
           k    == st.syns + (IF IsSYN(p) THEN 1 ELSE 0)
           left == st.m_SavedPackets \ run
           st0  == [st EXCEPT !.m_SavedPackets = left, !.syns = k]
           P    == {p} \cup run
           queue == QueuePackets(st0, P, p.seqn, last)
           st1  == ProcessPackets(s, st0, P, p.seqn, last)
           new  == AnswerPacket(s, st1, p)
<1>1. /\ st \in StreamRecord /\ p.seqn \in Nat /\ st.m_SavedPackets \in FinitePackets
      /\ st.m_LastReceivedSequenceNumber \in Nat \cup {-1} /\ st.syns \in Nat
  BY DEF Sound, StreamRecord, Packet
<1>2. k \in Nat BY <1>1
<1>3. \A q \in st.m_SavedPackets : q.seqn \in Nat /\ q.seqn > p.seqn
  <2>1. \A q \in st.m_SavedPackets : q.seqn \in Nat BY <1>1 DEF FinitePackets, Packet
  <2> QED BY <1>1, <2>1 DEF Sound
<1>4. run \in SUBSET st.m_SavedPackets BY DEF SavedRun
<1>5. NextInSequence(s, st, p) = new BY DEF NextInSequence
<1>6. /\ last \in Nat /\ p.seqn <= last
      /\ \A m \in p.seqn + 1 .. last : \E q \in run : q.seqn = m
      /\ \A q \in st.m_SavedPackets \ run : q.seqn > last + 1
  BY <1>1, <1>3, SavedRunIsRun
<1>7. k # 0 /\ (k <= 1 => p.seqn = Len(st.received) /\ st.syns <= 1)
  <2>1. CASE IsSYN(p) BY <1>1, <2>1 DEF Heard
  <2>2. CASE ~IsSYN(p) BY <1>1, <2>2 DEF Heard, IsPlainAck
  <2> QED BY <2>1, <2>2
<1> HIDE DEF run, last, k
<1>8. last < n
  <2>1. last = p.seqn \/ \E q \in run : q.seqn = last
    <3>1. last # p.seqn => last \in p.seqn + 1 .. last BY <1>1, <1>6
    <3> QED BY <1>6, <3>1
  <2> QED BY <1>4, <2>1 DEF Heard
<1>9. Sound(st0) /\ Awake(st0) BY <1>2, <1>4, DropSavedSound
<1>10. /\ st0.m_SavedPackets = left /\ st0.syns = k /\ st0.received = st.received
       /\ st0.m_SendStreamID = st.m_SendStreamID /\ st0.m_Status = st.m_Status
  BY <1>1 DEF StreamRecord
<1>11. Orderly(s, st, st0)
  <2>1. Steady(st, st0) BY DropSavedSteady
  <2> HIDE DEF st0
  <2> QED BY <2>1, SteadyOrderly
<1> HIDE DEF st0
<1>12. P \in FinitePackets
  <2>1. IsFiniteSet(run) /\ run \in SUBSET Packet
    BY <1>1, <1>4, FS_Subset DEF FinitePackets
  <2> QED BY <2>1, FS_Singleton, FS_Union DEF FinitePackets
<1>13. \A m \in p.seqn .. last : \E q \in P : q.seqn = m BY <1>1, <1>6
<1>14. \A q \in P : Row(q, f) BY <1>4 DEF Heard
<1>15. \A q \in st0.m_SavedPackets : q.seqn < n /\ Row(q, f) BY <1>10 DEF Heard
<1>16. \A q \in st0.m_SavedPackets : q.seqn > last + 1 BY <1>6, <1>10
<1> HIDE DEF P
<1>17. st0.syns <= 1 =>
         /\ p.seqn = Len(st0.received)
         /\ \A i \in 1 .. Len(st0.received) :
              /\ st0.received[i].off = f[i - 1]
              /\ st0.received[i].off + st0.received[i].len = f[i]
  BY <1>7, <1>10 DEF Heard
<1>18. Heard(queue, f, n) /\ queue.m_SendStreamID = st.m_SendStreamID
  <2>1. st0.syns # 0 BY <1>7, <1>10
  <2>2. Heard(queue, f, n) /\ queue.m_SendStreamID = st0.m_SendStreamID
    BY <1>1, <1>6, <1>8, <1>9, <1>12, <1>13, <1>14, <1>15, <1>17, <2>1,
       QueuePacketsHeard, ZenonT(60)
  <2> QED BY <1>10, <2>2
<1>19. Kept(queue, st1)
  BY <1>1, <1>6, <1>9, <1>12, <1>13, <1>16, ProcessPacketsKept
<1>20. Sound(st1) /\ Awake(st1)
  BY <1>1, <1>6, <1>9, <1>12, <1>13, <1>16, ProcessPacketsSound
<1>21. Orderly(s, st0, st1)
  BY <1>1, <1>6, <1>9, <1>12, <1>13, <1>16, ProcessPacketsOrderly
<1> HIDE DEF st1, queue
<1>22. AwaitsPeer(st1) /\ st1.m_Status # "None"
  <2>1. Serves(st0) /\ st0.m_Status # "None" BY <1>10, <1>11 DEF Orderly
  <2> QED BY <1>21, <2>1 DEF Orderly, Serves, Advances
<1>23. Kept(st1, new) BY <1>20, <1>22, AnswerPacketKept
<1> HIDE DEF new
<1> QED BY <1>5, <1>18, <1>19, <1>23, KeptHeard DEF Kept

LEMMA SavePacketHeard ==
  ASSUME NEW st, Sound(st), NEW p, NEW f, NEW n, Heard(st, f, n), p.seqn < n, Row(p, f)
  PROVE  LET new == SavePacket(st, p)
         IN Heard(new, f, n) /\ new.m_SendStreamID = st.m_SendStreamID
<1>1. st \in StreamRecord BY DEF Sound
<1> DEFINE S == st.m_SavedPackets \cup {p}
           seen == st.seen \cup {p.seqn}
           new == [st EXCEPT !.m_SavedPackets = S, !.seen = seen]
<1>2. SavePacket(st, p) = st \/ SavePacket(st, p) = new BY DEF SavePacket
<1>3. \A q \in S : q.seqn < n /\ Row(q, f) BY DEF Heard
<1> HIDE DEF S, seen
<1>4. /\ new.received = st.received /\ new.syns = st.syns /\ new.m_SavedPackets = S
      /\ new.m_LastReceivedSequenceNumber = st.m_LastReceivedSequenceNumber
      /\ new.m_SendStreamID = st.m_SendStreamID
  BY <1>1 DEF StreamRecord
<1> HIDE DEF new
<1>5. Heard(new, f, n) BY <1>3, <1>4 DEF Heard
<1> QED BY <1>2, <1>4, <1>5

LEMMA OutOfSequenceHeard ==
  ASSUME NEW s \in Streams, NEW st, Sound(st), Awake(st), NEW p \in Packet,
         p.seqn # st.m_LastReceivedSequenceNumber + 1,
         NEW f, NEW n, Heard(st, f, n), p.seqn < n, Row(p, f)
  PROVE  LET new == OutOfSequence(s, st, p)
         IN Heard(new, f, n) /\ new.m_SendStreamID = st.m_SendStreamID
<1>1. CASE p.seqn <= st.m_LastReceivedSequenceNumber
  <2>1. Kept(st, SendQuickAck(s, st)) BY SendQuickAckOrderly DEF Unheard
  <2>2. OutOfSequence(s, st, p) = SendQuickAck(s, st) BY <1>1 DEF OutOfSequence
  <2> QED BY <2>1, <2>2, KeptHeard DEF Kept
<1>2. CASE ~(p.seqn <= st.m_LastReceivedSequenceNumber)
  <2> DEFINE saved == SavePacket(st, p)
             idle == [CancelAckSendTimer(saved) EXCEPT !.m_IsAckSendScheduled = FALSE]
             st1 == IF st.m_IsAckSendScheduled THEN idle ELSE saved
             q   == SendQuickAck(s, st1)
             t   == ScheduleAckSend(saved)
  <2>1. p.seqn \in Nat /\ st.m_LastReceivedSequenceNumber \in Nat \cup {-1}
    BY DEF Sound, StreamRecord, Packet
  <2>2. Sound(saved) BY <1>2, <2>1, SavePacketSound
  <2>3. OutOfSequence(s, st, p) = IF st.m_LastReceivedSequenceNumber < 0 THEN t ELSE q
    BY <1>2 DEF OutOfSequence
  <2>4. Heard(saved, f, n) /\ saved.m_SendStreamID = st.m_SendStreamID
    BY SavePacketHeard
  <2> HIDE DEF saved
  <2>5. Sound(st1) /\ Kept(saved, st1)
    BY <2>2, UnscheduleAckSound, TimersStill DEF Still, Unheard, Kept
  <2> HIDE DEF st1
  <2>6. Kept(st1, q) BY <2>5, SendQuickAckOrderly DEF Unheard
  <2> HIDE DEF q
  <2>7. Kept(saved, q) BY <2>5, <2>6 DEF Kept
  <2>8. Kept(saved, t) BY <2>2, TimersStill DEF Still, Unheard
  <2> HIDE DEF t
  <2> QED BY <2>3, <2>4, <2>7, <2>8, KeptHeard DEF Kept
<1> QED BY <1>1, <1>2

\* A packet of the peer that is a row of f, or a plain ack, leaves the stream
\* with rows of f; it makes the peer known, and is answered to it.
LEMMA HandleNextPacketHeard ==
  ASSUME NEW s \in Streams, NEW st, Sound(st), Awake(st), NEW p \in Packet,
         IsSYN(p) => p.seqn = 0, NEW grow \in BOOLEAN,
         st.m_Status # "None", HandlerServed(st)
  PROVE  LET new == HandleNextPacket(s, st, p, grow)
         IN /\ new.m_SendStreamID = IF st.m_SendStreamID = NoStream
                                    THEN p.rid ELSE st.m_SendStreamID
            /\ \A q \in Own(new) \ Own(st) : q.sid # NoStream
            /\ \A f \in Numbering : \A n \in Nat :
                 Heard(st, f, n) /\ (~IsPlainAck(p) => p.seqn < n /\ Row(p, f))
                   => Heard(new, f, n)
<1> DEFINE id  == IF st.m_SendStreamID = NoStream THEN p.rid ELSE st.m_SendStreamID
           st1 == [st EXCEPT !.m_SendStreamID = id]
           st2 == IF IsNoAck(p) THEN st1 ELSE ProcessAck(s, st1, p, grow)
           new == DispatchPacket(s, st2, p)
<1>1. st \in StreamRecord BY DEF Sound
<1>2. id \in Streams \cup {NoStream} /\ id # NoStream
  <2>1. p.rid \in Streams BY DEF Packet
  <2>2. NoStream \notin Streams BY StreamIDs DEF Streams
  <2> QED BY <1>1, <2>1, <2>2 DEF StreamRecord
<1>3. HandleNextPacket(s, st, p, grow) = new BY DEF HandleNextPacket
<1> HIDE DEF id
<1>4. st1 \in StreamRecord BY <1>1, <1>2, Zenon DEF StreamRecord
<1>5. Same(st, st1) /\ (Awake(st) => Awake(st1)) BY <1>1 DEF StreamRecord, Same, Awake
<1>6. /\ st1.m_Status = st.m_Status /\ st1.m_SendStreamID = id
      /\ st1.m_SequenceNumber = st.m_SequenceNumber /\ st1.taken = st.taken
      /\ st1.m_SentPackets = st.m_SentPackets
      /\ st1.fins = st.fins /\ st1.out = st.out /\ st1.posted = st.posted
      /\ st1.m_SendHandler = st.m_SendHandler
      /\ st1.received = st.received /\ st1.syns = st.syns
      /\ st1.m_LastReceivedSequenceNumber = st.m_LastReceivedSequenceNumber
      /\ st1.m_SavedPackets = st.m_SavedPackets
  BY <1>1 DEF StreamRecord
<1> HIDE DEF st1
<1>7. Sound(st1) /\ Awake(st1) BY <1>4, <1>5 DEF Sound, Same
<1>8. HandlerServed(st1) /\ AwaitsPeer(st1) BY <1>2, <1>6 DEF HandlerServed, AwaitsPeer
<1>9. Sound(st2) /\ Awake(st2) BY <1>7, ProcessAckSound
<1>10. Advances(s, st1, st2) /\ Serves(st2) /\ Kept(st1, st2)
  <2>1. Advances(s, st1, st1) BY <1>7, NothingNew
  <2>2. Kept(st1, st1) BY DEF Kept
  <2> QED BY <1>2, <1>6, <1>7, <1>8, <2>1, <2>2, ProcessAckOrderly DEF Serves, Unheard
<1> HIDE DEF st2
<1>11. st2.m_Status # "None" /\ st2.m_SendStreamID = id BY <1>6, <1>10 DEF Advances, Kept
<1>12. Sound(new) /\ Awake(new)
  BY <1>9, NextInSequenceSound, OutOfSequenceSound DEF DispatchPacket
<1>13. IsPlainAck(p) => new = st2 BY DEF DispatchPacket
<1>14. ~IsPlainAck(p) /\ (IsSYN(p) \/ p.seqn = st2.m_LastReceivedSequenceNumber + 1)
         => new = NextInSequence(s, st2, p)
  BY DEF DispatchPacket
<1>15. ~IsPlainAck(p) /\ ~(IsSYN(p) \/ p.seqn = st2.m_LastReceivedSequenceNumber + 1)
         => new = OutOfSequence(s, st2, p)
  BY DEF DispatchPacket
<1> HIDE DEF new
<1>16. Advances(s, st2, new)
  <2>1. Advances(s, st2, st2) BY <1>9, NothingNew
  <2> QED BY <1>9, <1>10, <1>11, <1>13, <1>14, <1>15, <2>1, NextInSequenceOrderly,
             OutOfSequenceOrderly DEF Orderly
<1>17. new.m_SendStreamID = id BY <1>2, <1>11, <1>16 DEF Advances
<1>18. ASSUME NEW q \in Own(new) \ Own(st) PROVE q.sid # NoStream
  <2>1. Own(st1) = Own(st) BY <1>6 DEF Own
  <2>2. Advances(s, st1, new) BY <1>7, <1>9, <1>10, <1>12, <1>16, AdvancesTransitive
  <2>3. Addressed(s, st1, new, q) BY <2>1, <2>2 DEF Advances
  <2> QED BY <1>2, <1>6, <2>3 DEF Addressed
<1>19. ASSUME NEW f \in Numbering, NEW n \in Nat, Heard(st, f, n),
              ~IsPlainAck(p) => p.seqn < n /\ Row(p, f)
       PROVE  Heard(new, f, n)
  <2>1. Heard(st1, f, n) BY <1>6, <1>19 DEF Heard
  <2>2. Heard(st2, f, n) BY <1>10, <2>1, KeptHeard
  <2> QED BY <1>9, <1>10, <1>11, <1>13, <1>14, <1>15, <1>19, <2>2,
             NextInSequenceHeard, OutOfSequenceHeard
<1> QED BY <1>3, <1>17, <1>18, <1>19 DEF id
-----------------------------------------------------------------------------
(***************************************************************************)
(* Timer handlers.                                                         *)
(***************************************************************************)
LEMMA HandleResendTimerOrderly ==
  ASSUME NEW s \in Streams, NEW st, Sound(st), NEW due \in SUBSET st.m_SentPackets
  PROVE  LET new == HandleResendTimer(s, st, due)
         IN Orderly(s, st, new) /\ Unheard(st, new)
<1> DEFINE k == st.m_NumResendAttempts + 1
           w == IF k = 1 THEN AtLeast(st.m_WindowSize \div 2, MIN_WINDOW_SIZE)
                ELSE st.m_WindowSize
           st1 == [st EXCEPT !.m_NumResendAttempts = k, !.m_WindowSize = w]
           st2 == SendPackets(st1, due)
           st3 == ScheduleResend(st2)
<1>1. /\ st \in StreamRecord /\ k \in Nat
      /\ st.m_WindowSize \in MIN_WINDOW_SIZE .. MAX_WINDOW_SIZE
      /\ st.m_SentPackets \in FinitePackets
  <2>1. st \in StreamRecord BY DEF Sound
  <2>2. /\ st.m_NumResendAttempts \in Nat
        /\ st.m_WindowSize \in MIN_WINDOW_SIZE .. MAX_WINDOW_SIZE
        /\ st.m_SentPackets \in FinitePackets
    BY <2>1 DEF StreamRecord
  <2>3. k \in Nat BY <2>2
  <2> QED BY <2>1, <2>2, <2>3
<1>2. w \in MIN_WINDOW_SIZE .. MAX_WINDOW_SIZE
  BY <1>1, WindowConstants DEF AtLeast
<1>3. HandleResendTimer(s, st, due) =
        IF st.m_NumResendAttempts >= MAX_NUM_RESEND_ATTEMPTS THEN Reset(s, st)
        ELSE IF due = {} THEN ScheduleResend(st) ELSE st3
  BY DEF HandleResendTimer
<1> HIDE DEF k, w
<1>4. st1 \in StreamRecord BY <1>1, <1>2, Zenon DEF StreamRecord
<1>5. Same(st, st1) /\ Still(st, st1) BY <1>1 DEF StreamRecord, Same, Still, Steady, Unheard, Kept
<1> HIDE DEF st1
<1>6. Sound(st1) BY <1>4, <1>5 DEF Sound, Same
<1>7. due \in SUBSET Packet /\ SynIsFirst(due)
  BY <1>1 DEF FinitePackets, Sound, SynIsFirst
<1>8. \A p \in due :
        p \in Own(st1) \/ (IsPlainAck(p) /\ p.rid = s /\ p.sid = st1.m_SendStreamID)
  <2>1. st1.m_SentPackets = st.m_SentPackets BY <1>5 DEF Still, Steady
  <2>2. \A p \in due : p \in Own(st1) BY <2>1 DEF Own
  <2> QED BY <2>2, Zenon
<1>9. Sound(st2) /\ Orderly(s, st1, st2) /\ Unheard(st1, st2)
  BY <1>6, <1>7, <1>8, SendPacketsSound, SendPacketsOrderly
<1> HIDE DEF st2
<1>10. Orderly(s, st2, st3) /\ Unheard(st2, st3) /\ Sound(st3)
  BY <1>9, TimersStill, StillOrderly, ScheduleResendSound DEF Still, Steady
<1> HIDE DEF st3
<1>11. Orderly(s, st, st1) BY <1>5, StillOrderly
<1>12. Orderly(s, st, st2) BY <1>6, <1>9, <1>11, OrderlyTransitive
<1>13. Orderly(s, st, st3) BY <1>9, <1>10, <1>12, OrderlyTransitive
<1>14. Unheard(st, st3) BY <1>5, <1>9, <1>10 DEF Still, Steady, Unheard, Kept
<1>15. Orderly(s, st, ScheduleResend(st)) /\ Unheard(st, ScheduleResend(st))
  BY TimersStill, StillOrderly DEF Still, Steady
<1> QED BY <1>3, <1>13, <1>14, <1>15, ResetOrderly

LEMMA HandleAckSendTimerOrderly ==
  ASSUME NEW s \in Streams, NEW st, Sound(st)
  PROVE  LET new == HandleAckSendTimer(s, st)
         IN Orderly(s, st, new) /\ Unheard(st, new)
<1> DEFINE st1 == IF st.m_Status = "Open" THEN SendQuickAck(s, st) ELSE st
           new == [st1 EXCEPT !.m_IsAckSendScheduled = FALSE]
<1>1. Orderly(s, st, st) /\ Unheard(st, st) BY NothingNew DEF Orderly, Unheard, Kept
<1>2. Sound(st1) BY SendQuickAckSound
<1>3. Orderly(s, st, st1) /\ Unheard(st, st1) BY <1>1, SendQuickAckOrderly
<1>4. HandleAckSendTimer(s, st) =
        IF ~st.m_IsAckSendScheduled THEN st
        ELSE IF st.m_LastReceivedSequenceNumber < 0 THEN Reset(s, st) ELSE new
  BY DEF HandleAckSendTimer
<1> HIDE DEF st1
<1>5. st1 \in StreamRecord BY <1>2 DEF Sound
<1>6. new \in StreamRecord BY <1>5, Zenon DEF StreamRecord
<1>7. Same(st1, new) /\ Still(st1, new) BY <1>5 DEF StreamRecord, Same, Still, Steady, Unheard, Kept
<1> HIDE DEF new
<1>8. Sound(new) BY <1>2, <1>6, <1>7 DEF Sound, Same
<1>9. Orderly(s, st1, new) BY <1>2, <1>7, StillOrderly
<1>10. Orderly(s, st, new) BY <1>2, <1>3, <1>8, <1>9, OrderlyTransitive
<1>11. Unheard(st, new) BY <1>3, <1>7 DEF Still, Steady, Unheard, Kept
<1> QED BY <1>1, <1>4, <1>10, <1>11, ResetOrderly
-----------------------------------------------------------------------------
(***************************************************************************)
(* The changes that actions of Streaming make to a stream themselves.      *)
(***************************************************************************)
LEMMA BookkeepingStill ==
  ASSUME NEW st, Sound(st), NEW n, NEW m, NEW w
  PROVE  /\ Still(st, [st EXCEPT !.closes = n, !.owed = m])
         /\ Still(st, [st EXCEPT !.queued = n])
         /\ Still(st, [st EXCEPT !.reader = n])
         /\ Still(st, [st EXCEPT !.ackWait = w, !.ackFired = n])
         /\ Still(st, [st EXCEPT !.ackFired = n])
         /\ Still(st, [st EXCEPT !.ackAborted = n])
         /\ Still(st, [st EXCEPT !.resendWait = w, !.resendFired = n])
         /\ Still(st, [st EXCEPT !.resendFired = n])
         /\ Still(st, [st EXCEPT !.registered = FALSE])
<1>1. st \in StreamRecord BY DEF Sound
<1>2. Still(st, [st EXCEPT !.closes = n, !.owed = m])
  BY <1>1 DEF StreamRecord, Still, Steady, Unheard, Kept
<1>3. Still(st, [st EXCEPT !.queued = n])
  BY <1>1 DEF StreamRecord, Still, Steady, Unheard, Kept
<1>4. Still(st, [st EXCEPT !.reader = n])
  BY <1>1 DEF StreamRecord, Still, Steady, Unheard, Kept
<1>5. Still(st, [st EXCEPT !.ackWait = w, !.ackFired = n])
  BY <1>1 DEF StreamRecord, Still, Steady, Unheard, Kept
<1>6. Still(st, [st EXCEPT !.ackFired = n])
  BY <1>1 DEF StreamRecord, Still, Steady, Unheard, Kept
<1>7. Still(st, [st EXCEPT !.ackAborted = n])
  BY <1>1 DEF StreamRecord, Still, Steady, Unheard, Kept
<1>8. Still(st, [st EXCEPT !.resendWait = w, !.resendFired = n])
  BY <1>1 DEF StreamRecord, Still, Steady, Unheard, Kept
<1>9. Still(st, [st EXCEPT !.resendFired = n])
  BY <1>1 DEF StreamRecord, Still, Steady, Unheard, Kept
<1>10. Still(st, [st EXCEPT !.registered = FALSE])
  BY <1>1 DEF StreamRecord, Still, Steady, Unheard, Kept
<1> QED BY <1>2, <1>3, <1>4, <1>5, <1>6, <1>7, <1>8, <1>9, <1>10

\* The SendBuffer that Send posts serves the send handler.
LEMMA WriteOrderly ==
  ASSUME NEW s, NEW st, Sound(st), NEW n
  PROVE  /\ Orderly(s, st, Write(st, n)) /\ Unheard(st, Write(st, n))
         /\ LET new == [Write(st, n) EXCEPT !.m_SendHandler = TRUE]
            IN Orderly(s, st, new) /\ Unheard(st, new)
<1> DEFINE w == st.written + n
           e == st.eof /\ n = 0
           k == st.posted + 1
           a == [st EXCEPT !.written = w, !.eof = e, !.posted = k]
           b == [a EXCEPT !.m_SendHandler = TRUE]
<1>1. st \in StreamRecord /\ st.posted \in Nat BY DEF Sound, StreamRecord
<1>2. k > 0 BY <1>1
<1>3. Write(st, n) = a BY DEF Write
<1> HIDE DEF w, e, k
<1>4. /\ a.m_Status = st.m_Status /\ a.m_SendStreamID = st.m_SendStreamID
      /\ a.m_SequenceNumber = st.m_SequenceNumber /\ a.taken = st.taken
      /\ a.m_SentPackets = st.m_SentPackets
      /\ a.fins = st.fins /\ a.out = st.out /\ a.posted = k
      /\ Unheard(st, a)
  BY <1>1 DEF StreamRecord, Unheard, Kept
<1>5. /\ b.m_Status = st.m_Status /\ b.m_SendStreamID = st.m_SendStreamID
      /\ b.m_SequenceNumber = st.m_SequenceNumber /\ b.taken = st.taken
      /\ b.m_SentPackets = st.m_SentPackets
      /\ b.fins = st.fins /\ b.out = st.out /\ b.posted = k
      /\ Unheard(st, b)
  BY <1>1 DEF StreamRecord, Unheard, Kept
<1> HIDE DEF b
<1>6. Orderly(s, st, b) /\ Unheard(st, b)
  <2>1. Own(b) = Own(st) BY <1>5 DEF Own
  <2>2. Advances(s, st, b) BY <1>5, <2>1, NothingNew
  <2>3. Serves(st) => Serves(b) BY <1>2, <1>5 DEF Serves, AwaitsPeer, HandlerServed
  <2> QED BY <1>5, <2>2, <2>3 DEF Orderly
<1>7. Orderly(s, st, a) /\ Unheard(st, a)
  <2> HIDE DEF a
  <2>1. Own(a) = Own(st) BY <1>4 DEF Own
  <2>2. Advances(s, st, a) BY <1>4, <2>1, NothingNew
  <2>3. Serves(st) => Serves(a) BY <1>2, <1>4 DEF Serves, AwaitsPeer, HandlerServed
  <2> QED BY <1>4, <2>2, <2>3 DEF Orderly
<1> QED BY <1>3, <1>6, <1>7 DEF b

\* A posted SendBuffer leaves the queue; it is about to run.
LEMMA TakePosted ==
  ASSUME NEW s, NEW st, Sound(st), Serves(st), NEW k
  PROVE  LET new == [st EXCEPT !.posted = k]
         IN /\ Advances(s, st, new) /\ AwaitsPeer(new) /\ Unheard(st, new)
            /\ new.m_Status = st.m_Status
<1> DEFINE new == [st EXCEPT !.posted = k]
<1>1. st \in StreamRecord BY DEF Sound
<1>2. /\ new.m_Status = st.m_Status /\ new.m_SendStreamID = st.m_SendStreamID
      /\ new.m_SequenceNumber = st.m_SequenceNumber /\ new.taken = st.taken
      /\ new.m_SentPackets = st.m_SentPackets
      /\ new.fins = st.fins /\ new.out = st.out /\ Unheard(st, new)
  BY <1>1 DEF StreamRecord, Unheard, Kept
<1> HIDE DEF new
<1>3. Advances(s, st, new) BY <1>2, NothingNew DEF Own
<1>4. AwaitsPeer(new) BY <1>2 DEF Serves, AwaitsPeer
<1> QED BY <1>2, <1>3, <1>4 DEF new

\* A posted FIN is sent.
LEMMA SendPacketOrderly ==
  ASSUME NEW s, NEW st, Sound(st), NEW p \in st.fins
  PROVE  LET new == SendPacket([st EXCEPT !.fins = @ \ {p}], p)
         IN Orderly(s, st, new) /\ Unheard(st, new)
<1> DEFINE L == st.fins \ {p}
           st0 == [st EXCEPT !.fins = L]
           n == st0.ackAborted + (IF st0.ackWait THEN 1 ELSE 0)
           idle == [st0 EXCEPT !.ackWait = FALSE, !.ackAborted = n,
                               !.m_IsAckSendScheduled = FALSE]
           st1 == IF st0.m_IsAckSendScheduled THEN idle ELSE st0
           O == st1.out \cup {p}
           st2 == [st1 EXCEPT !.out = O]
           Q == st2.m_SentPackets \cup {p}
           w == st2.resendWait \/ st0.m_SentPackets = {}
           st3 == [st2 EXCEPT !.m_SentPackets = Q, !.resendWait = w]
           new == IF st0.m_Status # "Open" THEN st2 ELSE st3
<1>1. st \in StreamRecord BY DEF Sound
<1>2. SendPacket([st EXCEPT !.fins = @ \ {p}], p) = new
  BY <1>1, Zenon DEF SendPacket, SendPackets, CancelAckSendTimer
<1> HIDE DEF n, L
<1>3. /\ st1.m_Status = st.m_Status /\ st1.m_SendStreamID = st.m_SendStreamID
      /\ st1.m_SequenceNumber = st.m_SequenceNumber /\ st1.taken = st.taken
      /\ st1.m_SentPackets = st.m_SentPackets
      /\ st1.fins = L /\ st1.out = st.out /\ st1.posted = st.posted
      /\ st1.m_SendHandler = st.m_SendHandler /\ Unheard(st, st1)
      /\ st0.m_Status = st.m_Status
      /\ DOMAIN st1 = DOMAIN st
  BY <1>1 DEF StreamRecord, Unheard, Kept
<1> HIDE DEF st0, st1, O
<1>4. /\ st2.m_Status = st.m_Status /\ st2.m_SendStreamID = st.m_SendStreamID
      /\ st2.m_SequenceNumber = st.m_SequenceNumber /\ st2.taken = st.taken
      /\ st2.m_SentPackets = st.m_SentPackets
      /\ st2.fins = L /\ st2.out = O /\ st2.posted = st.posted
      /\ st2.m_SendHandler = st.m_SendHandler /\ Unheard(st, st2)
      /\ DOMAIN st2 = DOMAIN st
  BY <1>1, <1>3 DEF StreamRecord, Unheard, Kept
<1> HIDE DEF st2, Q, w
<1>5. /\ st3.m_Status = st.m_Status /\ st3.m_SendStreamID = st.m_SendStreamID
      /\ st3.m_SequenceNumber = st.m_SequenceNumber /\ st3.taken = st.taken
      /\ st3.m_SentPackets = Q
      /\ st3.fins = L /\ st3.out = O /\ st3.posted = st.posted
      /\ st3.m_SendHandler = st.m_SendHandler /\ Unheard(st, st3)
  BY <1>1, <1>4 DEF StreamRecord, Unheard, Kept
<1> HIDE DEF st3
<1>6. /\ new.m_Status = st.m_Status /\ new.m_SendStreamID = st.m_SendStreamID
      /\ new.m_SequenceNumber = st.m_SequenceNumber /\ new.taken = st.taken
      /\ new.m_SentPackets \in {st.m_SentPackets, st.m_SentPackets \cup {p}}
      /\ new.fins = L /\ new.out = st.out \cup {p} /\ new.posted = st.posted
      /\ new.m_SendHandler = st.m_SendHandler /\ Unheard(st, new)
  BY <1>3, <1>4, <1>5 DEF O, Q
<1> HIDE DEF new
<1>7. Own(new) \subseteq Own(st) BY <1>6 DEF Own, L
<1>8. Advances(s, st, new) BY <1>6, <1>7, NothingNew
<1>9. Serves(st) => Serves(new) BY <1>6 DEF Serves, AwaitsPeer, HandlerServed
<1> QED BY <1>2, <1>6, <1>8, <1>9 DEF Orderly
-----------------------------------------------------------------------------
(***************************************************************************)
(* The inductive invariant, on top of IInv.                                *)
(***************************************************************************)
\* The packets of stream s, in flight or with the stream, that have a number.
Named(s) == {p \in net \cup Own(streams[s]) : p.rid = s /\ ~IsPlainAck(p)}

\* The numbers of a stream are below its counter, and each names one packet.
Ordered(s) ==
  /\ \A p \in Own(streams[s]) : IsPlainAck(p) \/ p.rid = s
  /\ \A p \in Named(s) : p.seqn < streams[s].m_SequenceNumber
  /\ \A p, q \in Named(s) : p.seqn = q.seqn => Alike(p, q)

OInv ==
  \A s \in Streams :
    /\ Ordered(s)
    /\ Serves(streams[s])
    /\ ~Exists(s) => streams[s] = NewStream

\* The stream old takes the packet p of its peer in and becomes st.
Listens(s, old, st, p) ==
  /\ p \in net /\ s \in Remote(p.rid)
  /\ p.sid = s \/ (p.sid = NoStream /\ old.m_SendStreamID \in {NoStream, p.rid})
  /\ st.m_SendStreamID = IF old.m_SendStreamID = NoStream
                         THEN p.rid ELSE old.m_SendStreamID
  /\ \A q \in Own(st) \ Own(old) : q.sid # NoStream
  /\ \A f \in Numbering : \A n \in Nat :
       Heard(old, f, n) /\ (~IsPlainAck(p) => p.seqn < n /\ Row(p, f))
         => Heard(st, f, n)

\* What a step does to the stream s, when it does something to a stream.
Change(s, st, A) ==
  /\ Update(s, st, A) /\ Sound(st)
  /\ Advances(s, streams[s], st) /\ Serves(st)
  /\ st.m_Status # "None"
  /\ (Exists(s) /\ ~streams[s].registered) => Unheard(streams[s], st)
  /\ \/ Kept(streams[s], st) /\ (Exists(s) \/ s \in Outgoing)
     \/ \E p \in net : Listens(s, streams[s], st, p)

\* Any other step: packets are lost, streams are no longer registered.
Quiet ==
  /\ net' \subseteq net
  /\ \A s \in Streams :
       /\ Still(streams[s], streams'[s])
       /\ streams[s] = NewStream => streams'[s] = NewStream

LEMMA NewStreamMembers ==
  /\ NewStream.m_Status = "None" /\ NewStream.m_SequenceNumber = 0
  /\ NewStream.m_SentPackets = {} /\ NewStream.fins = {} /\ NewStream.out = {}
  /\ NewStream.m_SendHandler = FALSE /\ NewStream.posted = 0
  /\ NewStream.resendFired = 0 /\ NewStream.resendWait = FALSE
  /\ NewStream.ackFired = 0 /\ NewStream.ackAborted = 0 /\ NewStream.ackWait = FALSE
  /\ NewStream.reader = "none" /\ NewStream.queued = 0
  /\ NewStream.m_SendStreamID = NoStream /\ NewStream.taken = 0
BY DEF NewStream

LEMMA InitOInv == Init => OInv
<1> SUFFICES ASSUME Init, NEW s \in Streams
             PROVE  Ordered(s) /\ Serves(streams[s]) /\ (~Exists(s) => streams[s] = NewStream)
  BY DEF OInv
<1>1. streams[s] = NewStream /\ net = {} BY DEF Init
<1>2. Own(streams[s]) = {} BY <1>1, NewStreamMembers DEF Own
<1>3. Named(s) = {} BY <1>1, <1>2 DEF Named
<1>4. Serves(streams[s]) BY <1>1, NewStreamMembers DEF Serves, AwaitsPeer, HandlerServed
<1> QED BY <1>1, <1>2, <1>3, <1>4 DEF Ordered

\* The stream after Update has handed over what it sent.
LEMMA UpdateOutcome ==
  ASSUME IInv, NEW s \in Streams, NEW st, Sound(st), NEW A, Update(s, st, A)
  PROVE  LET new == streams'[s]
         IN /\ new.m_Status = st.m_Status /\ new.m_SendStreamID = st.m_SendStreamID
            /\ new.m_SequenceNumber = st.m_SequenceNumber /\ new.taken = st.taken
            /\ new.m_SentPackets = st.m_SentPackets /\ new.fins = st.fins
            /\ new.out = {} /\ new.posted = st.posted
            /\ new.m_SendHandler = st.m_SendHandler
            /\ new.received = st.received /\ new.registered = st.registered
            /\ new.m_LastReceivedSequenceNumber = st.m_LastReceivedSequenceNumber
            /\ new.m_SavedPackets = st.m_SavedPackets /\ new.syns = st.syns
            /\ \A t \in Streams : t # s => streams'[t] = streams[t]
            /\ net' \subseteq net \cup st.out
<1> DEFINE new == [st EXCEPT !.out = {}]
<1>1. streams' = [streams EXCEPT ![s] = new] /\ net' = (net \ A) \cup st.out
  BY DEF Update
<1>2. st \in StreamRecord BY DEF Sound
<1>3. /\ new.m_Status = st.m_Status /\ new.m_SendStreamID = st.m_SendStreamID
      /\ new.m_SequenceNumber = st.m_SequenceNumber /\ new.taken = st.taken
      /\ new.m_SentPackets = st.m_SentPackets /\ new.fins = st.fins
      /\ new.out = {} /\ new.posted = st.posted
      /\ new.m_SendHandler = st.m_SendHandler
      /\ new.received = st.received /\ new.registered = st.registered
      /\ new.m_LastReceivedSequenceNumber = st.m_LastReceivedSequenceNumber
      /\ new.m_SavedPackets = st.m_SavedPackets /\ new.syns = st.syns
  BY <1>2 DEF StreamRecord
<1> HIDE DEF new
<1>4. /\ streams'[s] = new
      /\ \A t \in Streams : t # s => streams'[t] = streams[t]
  BY <1>1 DEF IInv
<1> QED BY <1>1, <1>3, <1>4

LEMMA ChangePreserves ==
  ASSUME IInv, OInv, NEW s \in Streams, NEW st, NEW A, Change(s, st, A)
  PROVE  OInv'
<1> DEFINE old == streams[s]
           new == streams'[s]
<1>1. /\ Update(s, st, A) /\ Sound(st) /\ Sound(old)
      /\ Advances(s, old, st) /\ Serves(st) /\ st.m_Status # "None"
  BY DEF Change, IInv
<1>2. /\ new.m_Status = st.m_Status /\ new.m_SendStreamID = st.m_SendStreamID
      /\ new.m_SequenceNumber = st.m_SequenceNumber /\ new.taken = st.taken
      /\ new.m_SentPackets = st.m_SentPackets /\ new.fins = st.fins
      /\ new.out = {} /\ new.posted = st.posted
      /\ new.m_SendHandler = st.m_SendHandler
      /\ \A t \in Streams : t # s => streams'[t] = streams[t]
      /\ net' \subseteq net \cup st.out
  BY <1>1, UpdateOutcome
<1>3. /\ \A p \in Own(old) : IsPlainAck(p) \/ p.rid = s
      /\ \A p \in Named(s) : p.seqn < old.m_SequenceNumber
      /\ \A p, q \in Named(s) : p.seqn = q.seqn => Alike(p, q)
  BY DEF OInv, Ordered
<1>4. /\ old.m_SequenceNumber \in Nat /\ st.m_SequenceNumber \in Nat
      /\ old.m_SequenceNumber <= st.m_SequenceNumber
      /\ \A p \in Own(old) \cup Own(st) : p.seqn \in Nat
      /\ \A p \in net : p.seqn \in Nat
  BY <1>1, OwnTyped DEF Advances, IInv, Packet
<1>5. Own(new) \subseteq Own(st) /\ net' \subseteq net \cup Own(st) BY <1>2 DEF Own
<1>6. Named(s)' \subseteq Named(s) \cup {p \in Own(st) \ Own(old) : ~IsPlainAck(p)}
  BY <1>5 DEF Named
<1>7. \A p \in Own(st) \ Own(old) : ~IsPlainAck(p) => TakenNumber(s, old, st, p)
  BY <1>1 DEF Advances
<1>8. Ordered(s)'
  <2>1. \A p \in Own(new) : IsPlainAck(p) \/ p.rid = s
    BY <1>3, <1>5, <1>7 DEF TakenNumber
  <2>2. ASSUME NEW p \in Named(s)' PROVE p.seqn < new.m_SequenceNumber
    <3>1. CASE p \in Named(s)
      <4>1. p.seqn \in Nat BY <1>4, <3>1 DEF Named
      <4> QED BY <1>2, <1>3, <1>4, <3>1, <4>1
    <3>2. CASE p \notin Named(s) BY <1>2, <1>6, <1>7, <3>2 DEF TakenNumber
    <3> QED BY <3>1, <3>2
  <2>3. ASSUME NEW p \in Named(s), NEW q \in Own(st) \ Own(old), ~IsPlainAck(q)
        PROVE  p.seqn # q.seqn
    <3>1. p.seqn \in Nat /\ q.seqn \in Nat BY <1>4 DEF Named
    <3>2. p.seqn < old.m_SequenceNumber /\ old.m_SequenceNumber <= q.seqn
      BY <1>3, <1>7, <2>3 DEF TakenNumber
    <3> QED BY <1>4, <3>1, <3>2
  <2>4. ASSUME NEW p \in Own(st) \ Own(old), NEW q \in Own(st) \ Own(old),
               ~IsPlainAck(p), ~IsPlainAck(q), p.seqn = q.seqn
        PROVE  Alike(p, q)
    BY <1>1, <2>4 DEF Advances
  <2>5. ASSUME NEW p \in Named(s)', NEW q \in Named(s)', p.seqn = q.seqn
        PROVE  Alike(p, q)
    <3>1. CASE p \in Named(s) /\ q \in Named(s) BY <1>3, <2>5, <3>1
    <3>2. CASE p \notin Named(s) /\ q \notin Named(s) BY <1>6, <2>4, <2>5, <3>2
    <3> QED BY <1>6, <2>3, <2>5, <3>1, <3>2
  <2> QED BY <2>1, <2>2, <2>5 DEF Ordered, Alike
<1>9. ASSUME NEW t \in Streams, t # s PROVE Ordered(t)'
  <2>1. streams'[t] = streams[t] BY <1>2, <1>9
  <2>2. \A p \in Own(st) : IsPlainAck(p) \/ p.rid = s
    BY <1>3, <1>7 DEF TakenNumber
  <2>3. Named(t)' \subseteq Named(t) BY <1>5, <1>9, <2>1, <2>2 DEF Named
  <2> QED BY <2>1, <2>3 DEF OInv, Ordered, Alike
<1>10. Serves(new) BY <1>1, <1>2 DEF Serves, AwaitsPeer, HandlerServed
<1>11. ASSUME NEW t \in Streams
       PROVE  Ordered(t)' /\ Serves(streams'[t])
              /\ (~Exists(t) => streams[t] = NewStream)'
  <2>1. CASE t = s BY <1>1, <1>2, <1>8, <1>10, <2>1 DEF Exists
  <2>2. CASE t # s BY <1>2, <1>9, <2>2 DEF OInv, Exists
  <2> QED BY <2>1, <2>2
<1> QED BY <1>11 DEF OInv, Serves, AwaitsPeer, HandlerServed

LEMMA QuietPreserves ==
  ASSUME IInv, OInv, Quiet
  PROVE  OInv'
<1> SUFFICES ASSUME NEW s \in Streams
             PROVE  Ordered(s)' /\ Serves(streams'[s])
                    /\ (~Exists(s) => streams[s] = NewStream)'
  BY DEF OInv, Serves, AwaitsPeer, HandlerServed
<1>1. Still(streams[s], streams'[s]) /\ net' \subseteq net BY DEF Quiet
<1>2. Sound(streams[s]) BY DEF IInv
<1>3. Own(streams'[s]) = Own(streams[s]) /\ Serves(streams'[s])
  BY <1>1, <1>2, StillOrderly DEF Orderly, OInv
<1>4. Named(s)' \subseteq Named(s) BY <1>1, <1>3 DEF Named
<1>5. streams'[s].m_SequenceNumber = streams[s].m_SequenceNumber BY <1>1 DEF Still, Steady
<1>6. Ordered(s)' BY <1>3, <1>4, <1>5 DEF OInv, Ordered, Alike
<1>7. (~Exists(s) => streams[s] = NewStream)'
  BY <1>1 DEF Still, Steady, Exists, Quiet, OInv
<1> QED BY <1>3, <1>6, <1>7
-----------------------------------------------------------------------------
(***************************************************************************)
(* What each action does.                                                  *)
(***************************************************************************)
\* A call or a handler of a stream that exists.
LEMMA CallChanges ==
  ASSUME IInv, OInv, NEW s \in Streams, Exists(s), NEW st, Sound(st),
         Orderly(s, streams[s], st), Unheard(streams[s], st), Update(s, st, {})
  PROVE  \E new, A : Change(s, new, A)
<1>1. Serves(st) BY DEF Orderly, OInv
<1>2. Advances(s, streams[s], st) /\ st.m_Status # "None"
  BY DEF Orderly, Advances, Exists
<1>3. Kept(streams[s], st) BY DEF Unheard
<1>4. Change(s, st, {}) BY <1>1, <1>2, <1>3 DEF Change
<1> QED BY <1>4

LEMMA ApplicationChanges ==
  ASSUME IInv, OInv, NEW s \in Streams,
         \/ CreateNewOutgoingStream(s)
         \/ \E n \in SendSizes : Send(s, n) \/ AsyncSend(s, n)
         \/ AppClose(s) \/ ReadSome(s) \/ AsyncReceive(s) \/ Cancel(s)
         \/ ReceiveTimerExpires(s) \/ HandleReceiveTimer(s)
  PROVE  \E st, A : Change(s, st, A)
<1> DEFINE st == streams[s]
           goal == \E new, A : Change(s, new, A)
<1>1. Sound(st) /\ Awake(st) BY DEF IInv
<1>2. st \in StreamRecord BY <1>1 DEF Sound
<1>3. ~Exists(s) => st = NewStream BY DEF OInv
<1>a. ASSUME NEW new, Exists(s), Sound(new), Orderly(s, st, new), Unheard(st, new),
             Update(s, new, {})
      PROVE  goal
  BY <1>a, CallChanges
<1>b. ASSUME NEW new, Exists(s), Sound(new), Still(st, new), Update(s, new, {})
      PROVE  goal
  <2>1. Orderly(s, st, new) /\ Unheard(st, new) BY <1>1, <1>b, StillOrderly DEF Still, Steady
  <2> QED BY <1>a, <1>b, <2>1
<1>c. ASSUME NEW new \in ConcatenatePackets(st) PROVE Sound(new) /\ Still(st, new)
  <2>1. PICK n : new = [st EXCEPT !.queued = n] BY <1>c DEF ConcatenatePackets
  <2>2. Sound(new) BY <1>1, <1>c, ReadSound
  <2> HIDE DEF st
  <2>3. Still(st, [st EXCEPT !.queued = n]) BY <1>1, BookkeepingStill
  <2> QED BY <2>1, <2>2, <2>3
<1>4. CASE CreateNewOutgoingStream(s)
  <2> DEFINE new == [NewStream EXCEPT !.m_Status = "New", !.registered = TRUE]
  <2>1. Update(s, new, {}) /\ ~Exists(s) BY <1>4 DEF CreateNewOutgoingStream
  <2>2. Sound(new) BY NewStreamSound
  <2>3. st = NewStream BY <1>3, <2>1
  <2>4. /\ new.m_Status = "New" /\ new.m_SequenceNumber = 0 /\ Own(new) = {}
        /\ new.m_SendHandler = FALSE /\ new.taken = 0
    BY DEF NewStream, Own
  <2> HIDE DEF new
  <2>5. Advances(s, st, new)
    <3>1. /\ st.m_SequenceNumber = 0 /\ st.m_Status = "None" /\ st.taken = 0
          /\ st.m_SendStreamID = NoStream
      BY <2>3, NewStreamMembers
    <3> QED BY <2>4, <3>1, <1>1, NothingNew
  <2>6. Serves(new) BY <2>4 DEF Serves, AwaitsPeer, HandlerServed
  <2>7. Kept(st, new) /\ s \in Outgoing
    <3>1. /\ new.received = NewStream.received /\ new.syns = NewStream.syns
          /\ new.m_LastReceivedSequenceNumber = NewStream.m_LastReceivedSequenceNumber
          /\ new.m_SavedPackets = NewStream.m_SavedPackets
          /\ new.m_SendStreamID = NewStream.m_SendStreamID
      BY DEF new, NewStream
    <3> QED BY <1>4, <2>3, <3>1 DEF Kept, CreateNewOutgoingStream
  <2>8. Change(s, new, {}) BY <2>1, <2>2, <2>4, <2>5, <2>6, <2>7 DEF Change
  <2> QED BY <2>8
<1>5. ASSUME NEW n \in SendSizes, Send(s, n) PROVE goal
  <2> DEFINE w == Write(st, n)
  <2>1. n \in Nat BY SizeConstants
  <2>2. Sound(w) BY <1>1, <2>1, WriteSound
  <2>3. Orderly(s, st, w) /\ Unheard(st, w) BY <1>1, WriteOrderly
  <2>4. Update(s, w, {}) /\ Exists(s) BY <1>5 DEF Send, CanWrite
  <2> HIDE DEF w, st
  <2> QED BY <1>a, <2>2, <2>3, <2>4
<1>6. ASSUME NEW n \in SendSizes, AsyncSend(s, n) PROVE goal
  <2> DEFINE w == Write(st, n)
             new == [w EXCEPT !.m_SendHandler = TRUE]
  <2>1. n \in Nat BY SizeConstants
  <2>2. Sound(w) /\ Awake(w) BY <1>1, <2>1, WriteSound
  <2>3. Orderly(s, st, new) /\ Unheard(st, new) BY <1>1, WriteOrderly
  <2>4. Update(s, new, {}) /\ Exists(s) BY <1>6 DEF AsyncSend, CanWrite
  <2> HIDE DEF w
  <2>5. Sound(new) BY <2>1, <2>2, BookkeepingSound
  <2> HIDE DEF new, st
  <2> QED BY <1>a, <2>3, <2>4, <2>5
<1>7. CASE AppClose(s)
  <2> DEFINE c == Close(s, st)
             n == c.closes + 1
             m == IF st.closes = 0 THEN st.written ELSE c.owed
             new == [c EXCEPT !.closes = n, !.owed = m]
  <2>1. Sound(c) /\ Awake(c) BY <1>1, CloseSound
  <2>2. Orderly(s, st, c) /\ Unheard(st, c) BY <1>1, CloseOrderly
  <2>3. n \in Nat /\ m \in Nat
    <3>1. c \in StreamRecord BY <2>1 DEF Sound
    <3> HIDE DEF c
    <3>2. c.closes \in Nat /\ c.owed \in Nat BY <3>1 DEF StreamRecord
    <3>3. st.written \in Nat BY <1>2 DEF StreamRecord
    <3> QED BY <3>2, <3>3
  <2>4. Update(s, new, {}) /\ Exists(s) BY <1>7 DEF AppClose
  <2> HIDE DEF c, n, m
  <2>5. Sound(new) BY <2>1, <2>3, BookkeepingSound
  <2>6. Still(c, new) BY <2>1, BookkeepingStill
  <2> HIDE DEF new, st
  <2>7. Orderly(s, c, new) BY <2>1, <2>6, StillOrderly
  <2>8. Orderly(s, st, new) BY <1>1, <2>1, <2>2, <2>5, <2>7, OrderlyTransitive
  <2>9. Unheard(st, new) BY <2>2, <2>6 DEF Still, Steady, Unheard, Kept
  <2> QED BY <1>a, <2>4, <2>5, <2>8, <2>9
<1>8. CASE ReadSome(s)
  <2>1. PICK new \in ConcatenatePackets(st) : Update(s, new, {}) BY <1>8 DEF ReadSome
  <2>2. Exists(s)
    <3>1. st.queued > 0 BY <1>8 DEF ReadSome
    <3> QED BY <1>3, <3>1, NewStreamMembers
  <2> HIDE DEF st
  <2> QED BY <1>b, <1>c, <2>1, <2>2
<1>9. CASE AsyncReceive(s)
  <2>1. Exists(s) BY <1>9 DEF AsyncReceive
  <2>2. CASE st.queued > 0 \/ st.m_Status = "Reset"
    <3>1. PICK new \in ConcatenatePackets(st) : Update(s, new, {})
      BY <1>9, <2>2 DEF AsyncReceive
    <3> HIDE DEF st
    <3> QED BY <1>b, <1>c, <2>1, <3>1
  <2>3. CASE ~(st.queued > 0 \/ st.m_Status = "Reset")
    <3> DEFINE new == [st EXCEPT !.reader = "waiting"]
    <3>1. Update(s, new, {}) BY <1>9, <2>3 DEF AsyncReceive
    <3>2. st.queued = 0 /\ st.m_Status # "Reset" BY <1>2, <2>3, MemberTypes
    <3> HIDE DEF st
    <3>3. Sound(new) BY <1>1, <3>2, ReaderSound
    <3>4. Still(st, new) BY <1>1, BookkeepingStill
    <3> HIDE DEF new
    <3> QED BY <1>b, <2>1, <3>1, <3>3, <3>4
  <2> QED BY <2>2, <2>3
<1>10. CASE Cancel(s)
  <2> DEFINE new == CancelReceiveTimer(st)
  <2>1. Update(s, new, {}) BY <1>10 DEF Cancel
  <2>2. Exists(s)
    <3>1. st.reader = "waiting" BY <1>10 DEF Cancel
    <3> QED BY <1>3, <3>1, NewStreamMembers
  <2>3. Sound(new) /\ Still(st, new) BY <1>1, CancelReceiveTimerSound, TimersStill
  <2> HIDE DEF new, st
  <2> QED BY <1>b, <2>1, <2>2, <2>3
<1>11. CASE ReceiveTimerExpires(s)
  <2> DEFINE new == [st EXCEPT !.reader = "expired"]
  <2>1. Update(s, new, {}) BY <1>11 DEF ReceiveTimerExpires
  <2>2. Exists(s)
    <3>1. st.reader = "waiting" BY <1>11 DEF ReceiveTimerExpires
    <3> QED BY <1>3, <3>1, NewStreamMembers
  <2> HIDE DEF st
  <2>3. Sound(new) BY <1>1, ReaderSound
  <2>4. Still(st, new) BY <1>1, BookkeepingStill
  <2> HIDE DEF new
  <2> QED BY <1>b, <2>1, <2>2, <2>3, <2>4
<1>12. CASE HandleReceiveTimer(s)
  <2> DEFINE st1 == [st EXCEPT !.reader = "none"]
  <2>1. PICK new \in ConcatenatePackets(st1) : Update(s, new, {})
    BY <1>12 DEF HandleReceiveTimer
  <2>2. Exists(s)
    <3>1. st.reader \in {"aborted", "expired"} BY <1>12 DEF HandleReceiveTimer
    <3> QED BY <1>3, <3>1, NewStreamMembers
  <2>3. PICK n : new = [st1 EXCEPT !.queued = n] BY <2>1 DEF ConcatenatePackets
  <2> HIDE DEF st
  <2>4. Sound(st1) /\ Awake(st1) BY <1>1, ReaderSound
  <2>5. Still(st, st1) BY <1>1, BookkeepingStill
  <2> HIDE DEF st1
  <2>6. Sound(new) BY <2>1, <2>4, ReadSound
  <2>7. Still(st1, new) BY <2>3, <2>4, BookkeepingStill
  <2>8. Still(st, new) BY <2>5, <2>7, StillTransitive
  <2> QED BY <1>b, <2>1, <2>2, <2>6, <2>8
<1> QED BY <1>4, <1>5, <1>6, <1>7, <1>8, <1>9, <1>10, <1>11, <1>12

LEMMA HandlersChange ==
  ASSUME IInv, OInv, NEW s \in Streams,
         \/ RunSendBuffer(s) \/ RunSendPacket(s)
         \/ ResendTimerExpires(s) \/ RunResendTimer(s)
         \/ AckSendTimerExpires(s) \/ RunAckSendTimer(s)
  PROVE  \E st, A : Change(s, st, A)
<1> DEFINE st == streams[s]
           goal == \E new, A : Change(s, new, A)
<1>1. Sound(st) /\ Awake(st) /\ Serves(st) BY DEF IInv, OInv
<1>2. /\ st \in StreamRecord /\ st.posted \in Nat /\ st.ackFired \in Nat
      /\ st.ackAborted \in Nat /\ st.resendFired \in Nat /\ st.fins \in FinitePackets
  BY <1>1 DEF Sound, StreamRecord
<1>3. ~Exists(s) => st = NewStream BY DEF OInv
<1>a. ASSUME NEW new, Exists(s), Sound(new), Orderly(s, st, new), Unheard(st, new),
             Update(s, new, {})
      PROVE  goal
  BY <1>a, CallChanges
<1>b. ASSUME NEW mid, NEW new, Exists(s), Sound(mid), Still(st, mid), Sound(new),
             Orderly(s, mid, new), Unheard(mid, new), Update(s, new, {})
      PROVE  goal
  <2>1. Orderly(s, st, mid) BY <1>1, <1>b, StillOrderly
  <2>2. Orderly(s, st, new) BY <1>1, <1>b, <2>1, OrderlyTransitive
  <2>3. Unheard(st, new) BY <1>b DEF Still, Steady, Unheard, Kept
  <2> QED BY <1>a, <1>b, <2>2, <2>3
<1>c. ASSUME NEW new, Exists(s), Sound(new), Still(st, new), Update(s, new, {})
      PROVE  goal
  <2>1. Orderly(s, st, new) /\ Unheard(st, new) BY <1>1, <1>c, StillOrderly DEF Still, Steady
  <2> QED BY <1>a, <1>c, <2>1
<1>4. CASE RunSendBuffer(s)
  <2> DEFINE k == st.posted - 1
             st1 == [st EXCEPT !.posted = k]
             new == SendBuffer(s, st1)
  <2>1. k \in Nat BY <1>2, <1>4 DEF RunSendBuffer
  <2>2. Update(s, new, {}) BY <1>4 DEF RunSendBuffer
  <2>3. Exists(s)
    <3>1. st.posted > 0 BY <1>4 DEF RunSendBuffer
    <3> QED BY <1>3, <3>1, NewStreamMembers
  <2>4. st.m_Status # "None" BY <2>3 DEF Exists
  <2> HIDE DEF st, k
  <2>5. Sound(st1) /\ Awake(st1) BY <1>1, <2>1, BookkeepingSound
  <2>6. /\ Advances(s, st, st1) /\ AwaitsPeer(st1) /\ Unheard(st, st1)
        /\ st1.m_Status = st.m_Status
    BY <1>1, TakePosted
  <2> HIDE DEF st1
  <2>7. /\ Sound(new) /\ Advances(s, st1, new) /\ Serves(new) /\ Unheard(st1, new)
    BY <2>4, <2>5, <2>6, SendBufferSound, SendBufferOrderly
  <2> HIDE DEF new
  <2>8. Advances(s, st, new) BY <1>1, <2>5, <2>6, <2>7, AdvancesTransitive
  <2>9. Unheard(st, new) BY <2>6, <2>7 DEF Unheard, Kept
  <2>10. Orderly(s, st, new) BY <2>7, <2>8 DEF Orderly
  <2> QED BY <1>a, <2>2, <2>3, <2>7, <2>9, <2>10
<1>5. CASE RunSendPacket(s)
  <2>1. PICK p \in st.fins : Update(s, SendPacket([st EXCEPT !.fins = @ \ {p}], p), {})
    BY <1>5 DEF RunSendPacket
  <2> DEFINE st1 == [st EXCEPT !.fins = @ \ {p}]
             new == SendPacket(st1, p)
  <2>2. Exists(s) BY <1>3, NewStreamMembers
  <2>3. p \in Packet /\ (IsSYN(p) => p.seqn = 0)
    BY <1>1, <1>2 DEF FinitePackets, Sound, SynIsFirst
  <2> HIDE DEF st
  <2>4. Orderly(s, st, new) /\ Unheard(st, new) BY <1>1, SendPacketOrderly
  <2>5. Sound(st1) /\ Awake(st1) BY <1>1, TakeFinSound
  <2>6. Update(s, new, {}) BY <2>1
  <2> HIDE DEF st1
  <2>7. Sound(new) BY <2>3, <2>5, SendPacketSound
  <2> HIDE DEF new
  <2> QED BY <1>a, <2>2, <2>4, <2>6, <2>7
<1>6. CASE ResendTimerExpires(s)
  <2> DEFINE new == [st EXCEPT !.resendWait = FALSE, !.resendFired = @ + 1]
  <2>1. Update(s, new, {}) BY <1>6 DEF ResendTimerExpires
  <2>2. Exists(s)
    <3>1. st.resendWait BY <1>6 DEF ResendTimerExpires
    <3> QED BY <1>3, <3>1, NewStreamMembers
  <2> HIDE DEF st
  <2>3. Sound(new) BY <1>1, ResendFiresSound
  <2>4. Still(st, new) BY <1>1, BookkeepingStill
  <2> HIDE DEF new
  <2> QED BY <1>c, <2>1, <2>2, <2>3, <2>4
<1>7. CASE RunResendTimer(s)
  <2> DEFINE st1 == [st EXCEPT !.resendFired = @ - 1]
  <2>1. PICK due \in SUBSET st1.m_SentPackets :
          Update(s, HandleResendTimer(s, st1, due), {})
    BY <1>7 DEF RunResendTimer
  <2> DEFINE new == HandleResendTimer(s, st1, due)
  <2>2. st.resendFired > 0 BY <1>7 DEF RunResendTimer
  <2>3. Exists(s) BY <1>3, <2>2, NewStreamMembers
  <2> HIDE DEF st
  <2>4. /\ Sound(st1)
        /\ st1.reader = "waiting" => (st1.queued = 0 /\ st1.m_Status # "Reset")
    BY <1>1, <2>2, ResendHandlerSound
  <2>5. Still(st, st1) BY <1>1, BookkeepingStill
  <2> HIDE DEF st1
  <2>6. Sound(new) /\ Orderly(s, st1, new) /\ Unheard(st1, new)
    BY <2>4, HandleResendTimerSound, HandleResendTimerOrderly
  <2>7. Update(s, new, {}) BY <2>1
  <2> HIDE DEF new
  <2> QED BY <1>b, <2>3, <2>4, <2>5, <2>6, <2>7
<1>8. CASE AckSendTimerExpires(s)
  <2> DEFINE k == st.ackFired + 1
             new == [st EXCEPT !.ackWait = FALSE, !.ackFired = k]
  <2>1. k \in Nat BY <1>2
  <2>2. Update(s, new, {}) BY <1>8 DEF AckSendTimerExpires
  <2>3. Exists(s)
    <3>1. st.ackWait BY <1>8 DEF AckSendTimerExpires
    <3> QED BY <1>3, <3>1, NewStreamMembers
  <2> HIDE DEF st, k
  <2>4. Sound(new) BY <1>1, <2>1, BookkeepingSound
  <2>5. Still(st, new) BY <1>1, BookkeepingStill
  <2> HIDE DEF new
  <2> QED BY <1>c, <2>2, <2>3, <2>4, <2>5
<1>d. ASSUME NEW mid, Exists(s), Sound(mid), Awake(mid), Still(st, mid),
             Update(s, HandleAckSendTimer(s, mid), {})
      PROVE  goal
  <2> DEFINE new == HandleAckSendTimer(s, mid)
  <2>1. Sound(new) /\ Orderly(s, mid, new) /\ Unheard(mid, new)
    BY <1>d, HandleAckSendTimerSound, HandleAckSendTimerOrderly
  <2>2. Update(s, new, {}) BY <1>d
  <2> HIDE DEF new
  <2> QED BY <1>b, <1>d, <2>1, <2>2
<1>9. CASE st.ackFired > 0 /\ Update(s, HandleAckSendTimer(s,
             [st EXCEPT !.ackFired = @ - 1]), {})
  <2> DEFINE k == st.ackFired - 1
             mid == [st EXCEPT !.ackFired = k]
  <2>1. k \in Nat /\ Exists(s) BY <1>2, <1>3, <1>9, NewStreamMembers
  <2>2. Update(s, HandleAckSendTimer(s, mid), {}) BY <1>9
  <2> HIDE DEF st, k
  <2>3. Sound(mid) /\ Awake(mid) BY <1>1, <2>1, BookkeepingSound
  <2>4. Still(st, mid) BY <1>1, BookkeepingStill
  <2> HIDE DEF mid
  <2> QED BY <1>d, <2>1, <2>2, <2>3, <2>4
<1>10. CASE st.ackAborted > 0 /\ Update(s, HandleAckSendTimer(s,
             [st EXCEPT !.ackAborted = @ - 1]), {})
  <2> DEFINE k == st.ackAborted - 1
             mid == [st EXCEPT !.ackAborted = k]
  <2>1. k \in Nat /\ Exists(s) BY <1>2, <1>3, <1>10, NewStreamMembers
  <2>2. Update(s, HandleAckSendTimer(s, mid), {}) BY <1>10
  <2> HIDE DEF st, k
  <2>3. Sound(mid) /\ Awake(mid) BY <1>1, <2>1, BookkeepingSound
  <2>4. Still(st, mid) BY <1>1, BookkeepingStill
  <2> HIDE DEF mid
  <2> QED BY <1>d, <2>1, <2>2, <2>3, <2>4
<1>11. CASE RunAckSendTimer(s) BY <1>9, <1>10, <1>11 DEF RunAckSendTimer
<1> QED BY <1>4, <1>5, <1>6, <1>7, <1>8, <1>11

\* A packet reaches a registered stream, makes one, or is dropped.
LEMMA DeliveryChanges ==
  ASSUME IInv, OInv, NEW p \in net,
         \/ DeliverToKnownStream(p)
         \/ DeliverFirstSYN(p)
         \/ DeliverByReceiveStreamID(p)
  PROVE  Drop(p) \/ \E s \in Streams : \E st, A : Change(s, st, A)
<1> DEFINE goal == \E s \in Streams : \E st, A : Change(s, st, A)
<1>1. p \in Packet /\ (IsSYN(p) => p.seqn = 0) /\ p.rid \in Streams
  BY DEF IInv, SynIsFirst, Packet
<1>2. Remote(p.rid) \subseteq Streams BY DEF Remote, Streams
<1>4. ASSUME NEW s \in Remote(p.rid), s \in Streams, streams[s].registered,
             p.sid = s \/ (p.sid = NoStream /\ streams[s].m_SendStreamID = p.rid),
             ToStream(s, p)
      PROVE  goal
  <2> DEFINE st == streams[s]
  <2>1. s \in Streams /\ Sound(st) /\ Awake(st) /\ Serves(st) BY <1>4 DEF IInv, OInv
  <2>2. PICK grow \in BOOLEAN : Update(s, HandleNextPacket(s, st, p, grow), {p})
    BY <1>4 DEF ToStream, MayGrow
  <2> DEFINE new == HandleNextPacket(s, st, p, grow)
  <2>3. Exists(s)
    <3>1. NewStream.registered = FALSE BY DEF NewStream
    <3> QED BY <1>4, <3>1 DEF OInv
  <2>4. st.m_Status # "None" BY <2>3 DEF Exists
  <2> HIDE DEF st
  <2>5. Sound(new) BY <1>1, <2>1, HandleNextPacketSound
  <2>6. Advances(s, st, new) /\ Serves(new)
    BY <1>1, <2>1, <2>4, HandleNextPacketOrderly DEF Serves
  <2>7. Update(s, new, {p}) BY <2>2
  <2> HIDE DEF new
  <2>8. new.m_Status # "None" BY <2>4, <2>6 DEF Advances
  <2>9. Listens(s, st, new, p)
    <3>1. /\ new.m_SendStreamID = IF st.m_SendStreamID = NoStream
                                  THEN p.rid ELSE st.m_SendStreamID
          /\ \A q \in Own(new) \ Own(st) : q.sid # NoStream
          /\ \A f \in Numbering : \A n \in Nat :
               Heard(st, f, n) /\ (~IsPlainAck(p) => p.seqn < n /\ Row(p, f))
                 => Heard(new, f, n)
      BY <1>1, <1>4, <2>1, <2>4, HandleNextPacketHeard DEF new, Serves
    <3>2. p.sid = s \/ (p.sid = NoStream /\ st.m_SendStreamID \in {NoStream, p.rid})
      BY <1>4 DEF st
    <3> QED BY <1>4, <3>1, <3>2 DEF Listens
  <2>10. Change(s, new, {p}) BY <1>4, <2>5, <2>6, <2>7, <2>8, <2>9 DEF Change, st
  <2> QED BY <1>4, <2>10
<1>5. CASE DeliverToKnownStream(p)
  <2>1. \/ Drop(p)
        \/ p.sid \in Registered(Remote(p.rid)) /\ ToStream(p.sid, p)
    BY <1>5 DEF DeliverToKnownStream
  <2>2. p.sid \in Registered(Remote(p.rid)) =>
          p.sid \in Remote(p.rid) /\ p.sid \in Streams /\ streams[p.sid].registered
    BY <1>2 DEF Registered
  <2> QED BY <1>4, <2>1, <2>2
<1>6. CASE DeliverByReceiveStreamID(p)
  <2>1. \/ Drop(p)
        \/ \E s \in Remote(p.rid) :
             /\ s \in Streams /\ streams[s].registered /\ ToStream(s, p)
             /\ p.sid = NoStream /\ streams[s].m_SendStreamID = p.rid
    BY <1>2, <1>6 DEF DeliverByReceiveStreamID, Registered
  <2> QED BY <1>4, <2>1
<1>7. CASE DeliverFirstSYN(p)
  <2> DEFINE new == [NewStream EXCEPT !.m_Status = "New", !.registered = TRUE]
             St(s) == HandleNextPacket(s, new, p, FALSE)
  <2>1. PICK s \in Remote(p.rid) :
          ~Exists(s) /\ Update(s, [St(s) EXCEPT !.registered = @ /\ acceptor], {p})
    BY <1>7 DEF DeliverFirstSYN
  <2>22. p.sid = NoStream BY <1>7 DEF DeliverFirstSYN
  <2>2. s \in Streams BY <1>2, <2>1
  <2>3. Sound(new) /\ Awake(new) BY NewStreamSound
  <2>4. /\ new.m_Status = "New" /\ new.m_SequenceNumber = 0 /\ Own(new) = {}
        /\ new.m_SendHandler = FALSE /\ new.taken = 0
    BY DEF NewStream, Own
  <2> DEFINE st == St(s)
             b == st.registered /\ acceptor
             st1 == [st EXCEPT !.registered = b]
             old == streams[s]
  <2>5. Update(s, st1, {p}) BY <2>1
  <2>6. old = NewStream /\ Sound(old) BY <2>1, <2>2 DEF OInv, IInv
  <2>7. /\ old.m_SequenceNumber = 0 /\ old.m_Status = "None" /\ old.taken = 0
        /\ old.m_SendStreamID = NoStream
    BY <2>6, NewStreamMembers
  <2> HIDE DEF new
  <2>8. Advances(s, old, new) BY <2>4, <2>6, <2>7, NothingNew
  <2>9. HandlerServed(new) BY <2>4 DEF HandlerServed
  <2>23. /\ st.m_SendStreamID = p.rid
         /\ \A q \in Own(st) \ Own(new) : q.sid # NoStream
         /\ \A f \in Numbering : \A n \in Nat :
              Heard(new, f, n) /\ (~IsPlainAck(p) => p.seqn < n /\ Row(p, f))
                => Heard(st, f, n)
    <3>1. FALSE \in BOOLEAN OBVIOUS
    <3>2. new.m_SendStreamID = NoStream BY DEF new, NewStream
    <3> QED BY <1>1, <2>2, <2>3, <2>4, <2>9, <3>1, <3>2, HandleNextPacketHeard
  <2>24. /\ new.received = old.received /\ new.syns = old.syns
         /\ new.m_LastReceivedSequenceNumber = old.m_LastReceivedSequenceNumber
         /\ new.m_SavedPackets = old.m_SavedPackets
    BY <2>6 DEF new, NewStream
  <2>10. Sound(st) /\ Awake(st) BY <1>1, <2>2, <2>3, HandleNextPacketSound
  <2>11. Advances(s, new, st) /\ Serves(st)
    <3>1. FALSE \in BOOLEAN OBVIOUS
    <3> QED BY <1>1, <2>2, <2>3, <2>4, <2>9, <3>1, HandleNextPacketOrderly
  <2> HIDE DEF st
  <2>12. b \in BOOLEAN /\ 0 \in Nat OBVIOUS
  <2>13. b => st.registered
    <3>1. st \in StreamRecord BY <2>10 DEF Sound
    <3>2. st.registered \in BOOLEAN /\ acceptor \in BOOLEAN
      BY <3>1 DEF StreamRecord, IInv
    <3> QED BY <3>2
  <2> HIDE DEF b
  <2>14. Sound(st1) BY <2>10, <2>12, BookkeepingSound
  <2>15. Still(st, st1)
    <3>1. st \in StreamRecord BY <2>10 DEF Sound
    <3> QED BY <2>13, <3>1 DEF StreamRecord, Still, Steady, Unheard, Kept
  <2> HIDE DEF st1
  <2>16. Orderly(s, st, st1) BY <2>10, <2>15, StillOrderly
  <2>17. Advances(s, new, st1)
    BY <2>3, <2>10, <2>11, <2>14, <2>16, AdvancesTransitive DEF Orderly
  <2>18. Advances(s, old, st1) BY <2>3, <2>6, <2>8, <2>14, <2>17, AdvancesTransitive
  <2>19. Serves(st1) BY <2>11, <2>16 DEF Orderly
  <2>20. st1.m_Status # "None" BY <2>4, <2>17 DEF Advances
  <2>25. Listens(s, old, st1, p)
    <3>1. Own(old) = {} BY <2>6, NewStreamMembers DEF Own
    <3>2. Own(st1) = Own(st) /\ Kept(st, st1)
      BY <2>10, <2>15, StillOrderly DEF Still, Unheard
    <3>3. \A q \in Own(st1) \ Own(old) : q.sid # NoStream
      BY <2>4, <2>23, <3>1, <3>2
    <3>4. ASSUME NEW f \in Numbering, NEW n \in Nat, Heard(old, f, n),
                 ~IsPlainAck(p) => p.seqn < n /\ Row(p, f)
          PROVE  Heard(st1, f, n)
      <4>1. Heard(new, f, n) BY <2>24, <3>4 DEF Heard
      <4>2. Heard(st, f, n) BY <2>23, <3>4, <4>1
      <4> QED BY <3>2, <4>2, KeptHeard
    <3>5. st1.m_SendStreamID = p.rid BY <2>23, <3>2 DEF Kept
    <3> HIDE DEF old
    <3> QED BY <2>1, <2>7, <2>22, <3>3, <3>4, <3>5 DEF Listens
  <2>21. Change(s, st1, {p}) BY <2>1, <2>5, <2>14, <2>18, <2>19, <2>20, <2>25 DEF Change
  <2> QED BY <2>2, <2>21
<1> QED BY <1>5, <1>6, <1>7

LEMMA QuietSteps ==
  ASSUME IInv,
         \/ \E p \in net : Drop(p)
         \/ SetAcceptor
         \/ \E D \in {Outgoing, Incoming} : Stop(D)
         \/ UNCHANGED vars
  PROVE  Quiet
<1>a. ASSUME net' \subseteq net, streams' = streams PROVE Quiet
  BY <1>a DEF Quiet, Still, Steady, Unheard, Kept
<1>1. CASE \E p \in net : Drop(p) BY <1>1, <1>a DEF Drop
<1>2. CASE SetAcceptor BY <1>2, <1>a DEF SetAcceptor
<1>3. CASE UNCHANGED vars BY <1>3, <1>a DEF vars
<1>4. CASE \E D \in {Outgoing, Incoming} : Stop(D)
  <2>1. PICK D : Stop(D) BY <1>4
  <2>2. net' = net BY <2>1 DEF Stop
  <2> SUFFICES ASSUME NEW s \in Streams
               PROVE  /\ Still(streams[s], streams'[s])
                      /\ streams[s] = NewStream => streams'[s] = NewStream
    BY <2>2 DEF Quiet
  <2> DEFINE off == [streams[s] EXCEPT !.registered = FALSE]
  <2>3. streams'[s] = IF s \in D THEN off ELSE streams[s] BY <2>1 DEF Stop
  <2>4. Still(streams[s], off) BY BookkeepingStill DEF IInv
  <2>5. Still(streams[s], streams[s]) BY DEF Still, Steady, Unheard, Kept
  <2>6. streams[s] = NewStream => off = NewStream
    <3>1. NewStream.registered = FALSE BY DEF NewStream
    <3>2. ASSUME NEW st \in StreamRecord, st.registered = FALSE
          PROVE  [st EXCEPT !.registered = FALSE] = st
      BY <3>2 DEF StreamRecord
    <3>3. streams[s] \in StreamRecord BY DEF IInv
    <3> QED BY <3>1, <3>2, <3>3
  <2> HIDE DEF off
  <2> QED BY <2>3, <2>4, <2>5, <2>6
<1> QED BY <1>1, <1>2, <1>3, <1>4

\* Every step changes one stream or is quiet.
LEMMA Steps ==
  ASSUME IInv, OInv, [Next]_vars
  PROVE  Quiet \/ \E s \in Streams : \E st, A : Change(s, st, A)
<1>1. CASE UNCHANGED vars BY <1>1, QuietSteps
<1>2. CASE Next
  <2>1. ASSUME NEW s \in Streams,
               \/ CreateNewOutgoingStream(s)
               \/ \E n \in SendSizes : Send(s, n) \/ AsyncSend(s, n)
               \/ AppClose(s)
               \/ ReadSome(s) \/ AsyncReceive(s) \/ Cancel(s)
               \/ ReceiveTimerExpires(s) \/ HandleReceiveTimer(s)
        PROVE  \E st, A : Change(s, st, A)
    BY <2>1, ApplicationChanges
  <2>2. ASSUME NEW s \in Streams,
               \/ RunSendBuffer(s) \/ RunSendPacket(s)
               \/ ResendTimerExpires(s) \/ RunResendTimer(s)
               \/ AckSendTimerExpires(s) \/ RunAckSendTimer(s)
        PROVE  \E st, A : Change(s, st, A)
    BY <2>2, HandlersChange
  <2>3. ASSUME NEW p \in net, \/ DeliverToKnownStream(p)
                              \/ DeliverFirstSYN(p)
                              \/ DeliverByReceiveStreamID(p)
        PROVE  Quiet \/ \E s \in Streams : \E st, A : Change(s, st, A)
    BY <2>3, DeliveryChanges, QuietSteps
  <2>4. ASSUME SetAcceptor \/ \E D \in {Outgoing, Incoming} : Stop(D) PROVE Quiet
    BY <2>4, QuietSteps
  <2> QED BY <1>2, <2>1, <2>2, <2>3, <2>4, Zenon DEF Next
<1> QED BY <1>1, <1>2

LEMMA StepPreservesOInv == IInv /\ OInv /\ [Next]_vars => OInv'
BY Steps, ChangePreserves, QuietPreserves

\* OInv holds in every reachable state of the streaming library.
THEOREM OrderInvariance == Spec => []OInv
<1>1. IInv /\ OInv /\ [Next]_vars => IInv' /\ OInv' BY StepPreserves, StepPreservesOInv
<1> QED BY <1>1, InitIInv, InitOInv, PTL DEF Spec

\* SendBuffer, SendClose and the answers to CLOSE draw from one counter: a
\* sequence number of a stream never names two different packets.
THEOREM NumbersNameOnePacket == Spec => []SequenceNumberNamesOnePacket
<1>1. IInv /\ OInv => SequenceNumberNamesOnePacket
  <2> SUFFICES ASSUME IInv, OInv PROVE SequenceNumberNamesOnePacket OBVIOUS
  <2> DEFINE all == net \cup UNION {streams[s].m_SentPackets \cup streams[s].fins :
                                      s \in Streams}
  <2>1. ASSUME NEW p \in all, ~IsPlainAck(p)
        PROVE  p.rid \in Streams /\ p \in Named(p.rid)
    <3>1. CASE p \in net BY <2>1, <3>1 DEF IInv, Packet, Named
    <3>2. CASE p \notin net
      <4>1. PICK s \in Streams : p \in streams[s].m_SentPackets \cup streams[s].fins
        BY <2>1, <3>2
      <4>2. p \in Own(streams[s]) BY <4>1 DEF Own
      <4>3. p.rid = s BY <2>1, <4>2 DEF OInv, Ordered
      <4> QED BY <2>1, <4>2, <4>3 DEF Named
    <3> QED BY <3>1, <3>2
  <2>2. ASSUME NEW p \in all, NEW q \in all, ~IsPlainAck(p), ~IsPlainAck(q),
               p.rid = q.rid, p.seqn = q.seqn
        PROVE  Alike(p, q)
    BY <2>1, <2>2 DEF OInv, Ordered
  <2> HIDE DEF all
  <2>3. \A p, q \in {r \in all : ~IsPlainAck(r)} :
          (p.rid = q.rid /\ p.seqn = q.seqn) => Alike(p, q)
    BY <2>2
  <2> QED BY <2>3, Zenon DEF SequenceNumberNamesOnePacket, Alike, all
<1> QED BY <1>1, Invariance, OrderInvariance, PTL

\* A send handler that AsyncSend took is never left with nothing ahead of it:
\* a SendBuffer is posted or packets are in flight, until the stream is reset.
THEOREM HandlersAreServed == Spec => []SendHandlerNotStranded
<1>1. OInv => SendHandlerNotStranded
  BY DEF OInv, Serves, HandlerServed, SendHandlerNotStranded
<1> QED BY <1>1, OrderInvariance, PTL

-----------------------------------------------------------------------------
(***************************************************************************)
(* A reader gets a prefix of what the peer wrote.                          *)
(*                                                                         *)
(* A numbering of a stream (RInv) is the plan of what it has sent: the     *)
(* place of each packet in its application's data, by sequence number.     *)
(* Every packet in flight agrees with it, new packets continue it, and     *)
(* what a stream saves and processes is part of the numbering of the       *)
(* stream that sends to it.  Who that is follows from the IDs that streams *)
(* learn and packets carry (AInv).                                         *)
(***************************************************************************)
\* The stream v of the peer sends to s.
Feeds(v, s) ==
  IF s \in Incoming THEN streams[s].m_SendStreamID = v
                    ELSE v \in Incoming /\ streams[v].m_SendStreamID = s

\* Nothing has reached the stream.
Blank(st) ==
  /\ st.received = <<>> /\ st.m_SavedPackets = {} /\ st.syns = 0
  /\ st.m_LastReceivedSequenceNumber = -1

\* A packet carries its stream's ID and the peer's, as far as it is known.
FromOwner(s, p) ==
  /\ p.rid = s
  /\ IF p.sid = NoStream THEN s \in Outgoing ELSE p.sid = streams[s].m_SendStreamID

\* The IDs that streams know, and packets carry, belong together.
Paired(s) ==
  /\ \A p \in Own(streams[s]) : FromOwner(s, p)
  /\ \A p \in net : p.rid = s => FromOwner(s, p)
  /\ s \in Incoming /\ Exists(s) => streams[s].m_SendStreamID \in Outgoing
  /\ s \in Outgoing /\ streams[s].m_SendStreamID # NoStream =>
       /\ streams[s].m_SendStreamID \in Incoming
       /\ streams[streams[s].m_SendStreamID].m_SendStreamID = s
  /\ (\A v \in Streams : ~Feeds(v, s)) => Blank(streams[s])

AInv == \A s \in Streams : Paired(s)

\* The rows of f are the packets of stream s, from the first unit on to what
\* it has read from m_SendBuffer.
Numbers(s, f) ==
  /\ f[0] = 0 /\ f[streams[s].m_SequenceNumber] = streams[s].taken
  /\ \A p \in Named(s) : Row(p, f)

\* There is one numbering of each stream that its packets, and all that came
\* out of them at the peer, agree with.
Numbered(F) ==
  /\ \A s \in Streams : Numbers(s, F[s])
  /\ \A s, v \in Streams :
       Feeds(v, s) /\ OnePeer(s) =>
         Heard(streams[s], F[v], streams[v].m_SequenceNumber)

RInv == \E F \in [Streams -> Numbering] : Numbered(F)
-----------------------------------------------------------------------------
LEMMA StreamSets ==
  /\ \A s \in Streams : (s \in Outgoing <=> s \notin Incoming)
  /\ NoStream \notin Streams /\ Outgoing \subseteq Streams /\ Incoming \subseteq Streams
  /\ \A s \in Outgoing : Remote(s) = Incoming
  /\ \A s \in Incoming : Remote(s) = Outgoing
BY StreamIDs DEF Streams, Remote

LEMMA BlankHeard ==
  ASSUME NEW st, Blank(st), NEW f, NEW n \in Nat
  PROVE  Heard(st, f, n)
BY DEF Blank, Heard

LEMMA InitAInv == Init => AInv /\ RInv
<1> SUFFICES ASSUME Init PROVE AInv /\ RInv OBVIOUS
<1>1. net = {} /\ \A s \in Streams : streams[s] = NewStream BY DEF Init
<1>2. \A s \in Streams : Own(streams[s]) = {} /\ Named(s) = {}
  BY <1>1, NewStreamMembers DEF Own, Named
<1>3. Blank(NewStream) BY DEF Blank, NewStream
<1>4. \A s \in Streams : streams[s].m_SendStreamID = NoStream /\ ~Exists(s)
  BY <1>1, NewStreamMembers DEF Exists
<1>5. AInv
  <2> SUFFICES ASSUME NEW s \in Streams PROVE Paired(s) BY DEF AInv
  <2> QED BY <1>1, <1>2, <1>3, <1>4 DEF Paired
<1>6. RInv
  <2> DEFINE f == [n \in Nat |-> 0]
             F == [s \in Streams |-> f]
  <2>1. F \in [Streams -> Numbering] BY DEF Numbering
  <2>2. \A s \in Streams : Numbers(s, F[s])
    BY <1>1, <1>2, NewStreamMembers DEF Numbers
  <2>3. \A s, v \in Streams : ~Feeds(v, s) BY <1>4, StreamSets DEF Feeds
  <2>4. Numbered(F) BY <2>2, <2>3 DEF Numbered
  <2> QED BY <2>1, <2>4 DEF RInv
<1> QED BY <1>5, <1>6
-----------------------------------------------------------------------------
\* New packets of a stream continue its numbering.
LEMMA ExtendNumbering ==
  ASSUME NEW s \in Streams, NEW st, NEW new, Sound(st), Sound(new),
         Advances(s, st, new), NEW f \in Numbering, f[st.m_SequenceNumber] = st.taken
  PROVE  \E g \in Numbering :
           /\ \A n \in 0 .. st.m_SequenceNumber : g[n] = f[n]
           /\ g[new.m_SequenceNumber] = new.taken
           /\ \A p \in Own(new) \ Own(st) : IsPlainAck(p) \/ Row(p, g)
<1> DEFINE N == {p \in Own(new) \ Own(st) : ~IsPlainAck(p)}
           a == st.m_SequenceNumber
           b == new.m_SequenceNumber
           At(n) == CHOOSE p \in N : p.seqn = n
           After(n) == CHOOSE p \in N : p.seqn + 1 = n
           G(n) == IF n <= a THEN f[n]
                   ELSE IF n = b THEN new.taken
                   ELSE IF \E p \in N : p.seqn = n THEN At(n).off
                   ELSE IF \E p \in N : p.seqn + 1 = n THEN After(n).off + After(n).len
                   ELSE 0
           g == [n \in Nat |-> G(n)]
<1>1. a \in Nat /\ b \in Nat /\ a <= b /\ st.taken \in Nat /\ new.taken \in Nat
  BY OwnTyped DEF Advances
<1>2. \A p \in N : p.seqn \in Nat /\ p.off \in Nat /\ p.len \in Nat
  BY OwnTyped
<1>3. \A p \in N : a <= p.seqn /\ p.seqn < b BY DEF Advances, TakenNumber
<1>4. \A p, q \in N : p.seqn = q.seqn => p.off = q.off /\ p.len = q.len
  BY DEF Advances, Alike
<1>5. /\ b = a => new.taken = st.taken
      /\ \A p \in N : p.seqn = a => p.off = st.taken
      /\ \A p \in N : p.seqn + 1 = b => p.off + p.len = new.taken
      /\ \A p, q \in N : q.seqn = p.seqn + 1 => q.off = p.off + p.len
  BY DEF Advances, Continues
<1> HIDE DEF N, a, b
<1>6. \A n \in Nat : (\E p \in N : p.seqn = n) => At(n) \in N /\ At(n).seqn = n
  OBVIOUS
<1>7. \A n \in Nat : (\E p \in N : p.seqn + 1 = n) => After(n) \in N /\ After(n).seqn + 1 = n
  OBVIOUS
<1> HIDE DEF At, After
<1>8. \A n \in Nat : G(n) \in Nat BY <1>1, <1>2, <1>6, <1>7 DEF Numbering
<1>9. g \in Numbering /\ \A n \in Nat : g[n] = G(n) BY <1>8 DEF Numbering
<1>10. \A n \in 0 .. a : g[n] = f[n] BY <1>1, <1>9
<1>11. g[b] = new.taken
  <2>1. CASE b = a BY <1>1, <1>5, <1>9, <2>1 DEF a
  <2>2. CASE b # a BY <1>1, <1>9, <2>2
  <2> QED BY <2>1, <2>2
<1>12. ASSUME NEW p \in N PROVE p.off = g[p.seqn] /\ p.off + p.len = g[p.seqn + 1]
  <2>1. p.seqn \in Nat /\ a <= p.seqn /\ p.seqn < b BY <1>2, <1>3
  <2>2. p.off = g[p.seqn]
    <3>1. CASE p.seqn = a
      <4>1. g[a] = st.taken BY <1>1, <1>10 DEF a
      <4> QED BY <1>5, <3>1, <4>1
    <3>2. CASE p.seqn # a
      <4>1. At(p.seqn) \in N /\ At(p.seqn).seqn = p.seqn BY <1>6, <2>1
      <4>2. g[p.seqn] = At(p.seqn).off BY <1>1, <1>9, <2>1, <3>2
      <4> QED BY <1>4, <4>1, <4>2
    <3> QED BY <3>1, <3>2
  <2>3. p.off + p.len = g[p.seqn + 1]
    <3>1. CASE p.seqn + 1 = b BY <1>5, <1>11, <3>1
    <3>2. CASE p.seqn + 1 # b /\ \E q \in N : q.seqn = p.seqn + 1
      <4>1. At(p.seqn + 1) \in N /\ At(p.seqn + 1).seqn = p.seqn + 1
        BY <1>6, <2>1, <3>2
      <4>2. g[p.seqn + 1] = At(p.seqn + 1).off BY <1>1, <1>9, <2>1, <3>2
      <4> QED BY <1>5, <4>1, <4>2
    <3>3. CASE p.seqn + 1 # b /\ ~ \E q \in N : q.seqn = p.seqn + 1
      <4> DEFINE r == After(p.seqn + 1)
      <4>1. r \in N /\ r.seqn + 1 = p.seqn + 1 BY <1>7, <2>1
      <4>2. g[p.seqn + 1] = r.off + r.len BY <1>1, <1>9, <2>1, <3>3
      <4>3. r.seqn = p.seqn BY <1>2, <4>1
      <4> HIDE DEF r
      <4> QED BY <1>4, <4>1, <4>2, <4>3
    <3> QED BY <3>1, <3>2, <3>3
  <2> QED BY <2>2, <2>3
<1> HIDE DEF g
<1> QED BY <1>9, <1>10, <1>11, <1>12 DEF Row, N, a, b
-----------------------------------------------------------------------------
\* An ID that is known stays, and with it who sends to whom.
LEMMA FeedsStay ==
  ASSUME IInv, NEW s \in Streams, NEW st, NEW A, Change(s, st, A)
  PROVE  /\ streams'[s].m_SendStreamID = st.m_SendStreamID
         /\ \A t \in Streams : t # s => streams'[t] = streams[t]
         /\ \A t \in Streams : streams[t].m_SendStreamID # NoStream =>
              streams'[t].m_SendStreamID = streams[t].m_SendStreamID
         /\ \A v, t \in Streams : Feeds(v, t) => Feeds(v, t)'
         /\ \A t \in Streams : OnePeer(t)' => OnePeer(t)
<1>1. Update(s, st, A) /\ Sound(st) /\ Advances(s, streams[s], st) BY DEF Change
<1>2. /\ streams'[s].m_SendStreamID = st.m_SendStreamID
      /\ \A t \in Streams : t # s => streams'[t] = streams[t]
  BY <1>1, UpdateOutcome
<1>3. \A t \in Streams : streams[t].m_SendStreamID # NoStream =>
        streams'[t].m_SendStreamID = streams[t].m_SendStreamID
  BY <1>1, <1>2 DEF Advances
<1>4. \A v, t \in Streams : Feeds(v, t) => Feeds(v, t)'
  BY <1>3, StreamSets DEF Feeds
<1>5. ASSUME NEW t \in Streams, OnePeer(t)' PROVE OnePeer(t)
  <2> SUFFICES ASSUME NEW v \in Incoming, NEW w \in Incoming,
                      streams[v].m_SendStreamID = t, streams[w].m_SendStreamID = t
               PROVE  v = w
    BY DEF OnePeer
  <2>1. v \in Streams /\ w \in Streams /\ t # NoStream BY StreamSets
  <2>2. streams'[v].m_SendStreamID = t /\ streams'[w].m_SendStreamID = t BY <1>3, <2>1
  <2> QED BY <1>5, <2>2 DEF OnePeer
<1> QED BY <1>2, <1>3, <1>4, <1>5

\* A packet that a stream takes in comes from the stream that sends to it.
LEMMA ListensToFeeder ==
  ASSUME IInv, OInv, AInv, NEW s \in Streams, NEW st, NEW p \in net,
         Listens(s, streams[s], st, p)
  PROVE  LET v == p.rid
         IN /\ v \in Streams /\ v # s /\ st.m_SendStreamID # NoStream
            /\ s \in Incoming => v \in Outgoing /\ st.m_SendStreamID = v
            /\ s \in Outgoing =>
                 /\ v \in Incoming /\ streams[v].m_SendStreamID = s
                 /\ streams[s].m_SendStreamID = NoStream => st.m_SendStreamID = v
            /\ Feeds(v, s) \/ Blank(streams[s])
<1> DEFINE v == p.rid
           old == streams[s]
<1>1. v \in Streams BY DEF IInv, Packet
<1>2. FromOwner(v, p) BY <1>1 DEF AInv, Paired
<1>3. s \in Remote(v) BY DEF Listens
<1>4. /\ s \in Incoming => v \in Outgoing
      /\ s \in Outgoing => v \in Incoming
      /\ v # s
  BY <1>1, <1>3, StreamSets
<1>5. st.m_SendStreamID = IF old.m_SendStreamID = NoStream THEN v ELSE old.m_SendStreamID
  BY DEF Listens
<1>6. st.m_SendStreamID # NoStream BY <1>1, <1>5, StreamSets
<1>7. CASE s \in Outgoing
  <2>1. v \in Incoming BY <1>4, <1>7
  <2>2. p.sid = s /\ s # NoStream
    BY <1>2, <2>1, StreamSets DEF FromOwner, Listens
  <2>3. streams[v].m_SendStreamID = s BY <1>2, <2>2 DEF FromOwner
  <2>4. Feeds(v, s) BY <1>7, <2>1, <2>3, StreamSets DEF Feeds
  <2>5. s \notin Incoming BY <1>7, StreamSets
  <2> QED BY <1>1, <1>4, <1>5, <1>6, <1>7, <2>1, <2>3, <2>4, <2>5
<1>8. CASE s \in Incoming
  <2>1. v \in Outgoing /\ s \notin Outgoing BY <1>4, <1>8, StreamSets
  <2>2. CASE p.sid = s
    <3>1. streams[v].m_SendStreamID = s /\ s # NoStream
      BY <1>2, <2>2, StreamSets DEF FromOwner
    <3>2. Paired(v) BY <1>1 DEF AInv
    <3>3. old.m_SendStreamID = v BY <2>1, <3>1, <3>2 DEF Paired
    <3>4. v # NoStream BY <1>1, StreamSets
    <3>5. Feeds(v, s) BY <1>8, <3>3 DEF Feeds
    <3> QED BY <1>1, <1>4, <1>5, <1>6, <2>1, <3>3, <3>4, <3>5
  <2>3. CASE p.sid # s
    <3>1. old.m_SendStreamID \in {NoStream, v} BY <2>3 DEF Listens
    <3>2. CASE old.m_SendStreamID = v
      <4>1. Feeds(v, s) BY <1>8, <3>2 DEF Feeds
      <4> QED BY <1>1, <1>4, <1>5, <1>6, <2>1, <3>2, <4>1
    <3>3. CASE old.m_SendStreamID = NoStream
      <4>1. Paired(s) BY DEF AInv
      <4>2. \A w \in Streams : ~Feeds(w, s) BY <1>8, <3>3, StreamSets DEF Feeds
      <4>3. Blank(old) BY <4>1, <4>2 DEF Paired
      <4> QED BY <1>1, <1>4, <1>5, <1>6, <2>1, <3>3, <4>3
    <3> QED BY <3>1, <3>2, <3>3
  <2> QED BY <2>2, <2>3
<1> QED BY <1>7, <1>8 DEF Streams

LEMMA ChangePairs ==
  ASSUME IInv, OInv, AInv, NEW s \in Streams, NEW st, NEW A, Change(s, st, A)
  PROVE  AInv'
<1> DEFINE old == streams[s]
           new == streams'[s]
<1>1. /\ Update(s, st, A) /\ Sound(st) /\ Advances(s, old, st)
      /\ \/ Kept(old, st) /\ (Exists(s) \/ s \in Outgoing)
         \/ \E p \in net : Listens(s, old, st, p)
  BY DEF Change
<1>2. /\ new.m_SendStreamID = st.m_SendStreamID
      /\ new.m_SentPackets = st.m_SentPackets /\ new.fins = st.fins /\ new.out = {}
      /\ net' \subseteq net \cup st.out
  BY <1>1, UpdateOutcome
<1>3. /\ \A t \in Streams : t # s => streams'[t] = streams[t]
      /\ \A t \in Streams : streams[t].m_SendStreamID # NoStream =>
           streams'[t].m_SendStreamID = streams[t].m_SendStreamID
      /\ \A v, t \in Streams : Feeds(v, t) => Feeds(v, t)'
  BY FeedsStay
<1>4. Own(new) \subseteq Own(st) /\ net' \subseteq net \cup Own(st) BY <1>2 DEF Own
<1>5. Paired(s) BY DEF AInv
<1>6. ASSUME NEW p \in net, Listens(s, old, st, p)
      PROVE  /\ st.m_SendStreamID # NoStream
             /\ s \in Incoming => st.m_SendStreamID \in Outgoing
             /\ s \in Outgoing /\ old.m_SendStreamID = NoStream =>
                  /\ st.m_SendStreamID \in Incoming
                  /\ streams[st.m_SendStreamID].m_SendStreamID = s
             /\ \E v \in Streams : v # s /\ Feeds(v, s)'
             /\ \A q \in Own(st) \ Own(old) : q.sid # NoStream
  <2> DEFINE v == p.rid
  <2>1. /\ v \in Streams /\ v # s /\ st.m_SendStreamID # NoStream
        /\ s \in Incoming => v \in Outgoing /\ st.m_SendStreamID = v
        /\ s \in Outgoing =>
             /\ v \in Incoming /\ streams[v].m_SendStreamID = s
             /\ streams[s].m_SendStreamID = NoStream => st.m_SendStreamID = v
    BY <1>6, ListensToFeeder
  <2>2. \A q \in Own(st) \ Own(old) : q.sid # NoStream BY <1>6 DEF Listens
  <2> HIDE DEF v
  <2>3. Feeds(v, s)'
    <3>1. CASE s \in Incoming BY <1>2, <2>1, <3>1 DEF Feeds
    <3>2. CASE s \notin Incoming
      <4>1. s \in Outgoing BY <3>2, StreamSets
      <4>2. streams'[v].m_SendStreamID = s BY <1>3, <2>1, <4>1
      <4> QED BY <2>1, <3>2, <4>1, <4>2 DEF Feeds
    <3> QED BY <3>1, <3>2
  <2> QED BY <2>1, <2>2, <2>3
<1>7. /\ s \in Incoming => st.m_SendStreamID \in Outgoing
      /\ s \in Outgoing /\ st.m_SendStreamID # NoStream =>
           /\ st.m_SendStreamID \in Incoming
           /\ streams[st.m_SendStreamID].m_SendStreamID = s
  <2>1. CASE Kept(old, st) /\ (Exists(s) \/ s \in Outgoing)
    BY <1>5, <2>1, StreamSets DEF Paired, Kept
  <2>2. CASE \E p \in net : Listens(s, old, st, p)
    <3>1. old.m_SendStreamID # NoStream => st.m_SendStreamID = old.m_SendStreamID
      BY <1>1 DEF Advances
    <3> QED BY <1>5, <1>6, <2>2, <3>1 DEF Paired
  <2> QED BY <1>1, <2>1, <2>2
<1>8. ASSUME NEW p \in Own(st)
      PROVE  /\ p.rid = s
             /\ IF p.sid = NoStream THEN s \in Outgoing ELSE p.sid = st.m_SendStreamID
  <2>1. CASE p \in Own(old)
    <3>1. FromOwner(s, p) BY <1>5, <2>1 DEF Paired
    <3>2. p.sid # NoStream => st.m_SendStreamID = p.sid
      BY <1>1, <3>1 DEF FromOwner, Advances
    <3> QED BY <3>1, <3>2 DEF FromOwner
  <2>2. CASE p \notin Own(old)
    <3>1. Addressed(s, old, st, p) BY <1>1, <2>2 DEF Advances
    <3>2. ASSUME p.sid = NoStream PROVE s \in Outgoing
      <4>1. Kept(old, st) /\ (Exists(s) \/ s \in Outgoing) BY <1>1, <1>6, <2>2, <3>2
      <4>2. old.m_SendStreamID = NoStream BY <3>1, <3>2 DEF Addressed
      <4> QED BY <1>5, <4>1, <4>2, StreamSets DEF Paired
    <3> QED BY <3>1, <3>2 DEF Addressed
  <2> QED BY <2>1, <2>2
<1>9. ASSUME NEW p \in net, p.rid = s
      PROVE  IF p.sid = NoStream THEN s \in Outgoing ELSE p.sid = st.m_SendStreamID
  <2>1. FromOwner(s, p) BY <1>5, <1>9 DEF Paired
  <2>2. p.sid # NoStream => st.m_SendStreamID = p.sid
    BY <1>1, <2>1 DEF FromOwner, Advances
  <2> QED BY <2>1, <2>2 DEF FromOwner
<1>10. Paired(s)'
  <2>1. \A p \in Own(new) : FromOwner(s, p)' BY <1>2, <1>4, <1>8 DEF FromOwner
  <2>2. \A p \in net' : p.rid = s => FromOwner(s, p)'
    BY <1>2, <1>4, <1>8, <1>9 DEF FromOwner
  <2>3. s \in Incoming => new.m_SendStreamID \in Outgoing BY <1>2, <1>7
  <2>4. s \in Outgoing /\ new.m_SendStreamID # NoStream =>
          /\ new.m_SendStreamID \in Incoming
          /\ streams'[new.m_SendStreamID].m_SendStreamID = s
    <3>1. SUFFICES ASSUME s \in Outgoing, new.m_SendStreamID # NoStream
                   PROVE  /\ new.m_SendStreamID \in Incoming
                          /\ streams'[new.m_SendStreamID].m_SendStreamID = s
      OBVIOUS
    <3> DEFINE w == new.m_SendStreamID
    <3>2. w \in Incoming /\ streams[w].m_SendStreamID = s /\ s # NoStream
      BY <1>2, <1>7, <3>1, StreamSets
    <3>3. w \in Streams BY <3>2, StreamSets
    <3> HIDE DEF w
    <3>4. streams'[w].m_SendStreamID = s BY <1>3, <3>2, <3>3
    <3> QED BY <3>2, <3>4 DEF w
  <2>5. ASSUME \A v \in Streams : ~Feeds(v, s)' PROVE Blank(new)
    <3>1. Kept(old, st) BY <1>1, <1>6, <2>5
    <3>2. Blank(old) BY <1>3, <1>5, <2>5 DEF Paired
    <3>3. /\ new.received = st.received /\ new.m_SavedPackets = st.m_SavedPackets
          /\ new.m_LastReceivedSequenceNumber = st.m_LastReceivedSequenceNumber
          /\ new.syns = st.syns
      BY <1>1, UpdateOutcome
    <3> QED BY <3>1, <3>2, <3>3 DEF Blank, Kept
  <2> QED BY <2>1, <2>2, <2>3, <2>4, <2>5 DEF Paired, Own, Blank
<1>11. ASSUME NEW t \in Streams, t # s PROVE Paired(t)'
  <2>1. streams'[t] = streams[t] /\ Paired(t) BY <1>3, <1>11 DEF AInv
  <2>2. \A p \in Own(streams'[t]) : FromOwner(t, p)' BY <2>1 DEF Paired, FromOwner
  <2>3. \A p \in net' : p.rid = t => FromOwner(t, p)'
    <3>1. \A p \in net' : p.rid = t => p \in net BY <1>4, <1>8, <1>11
    <3> QED BY <2>1, <3>1 DEF Paired, FromOwner
  <2>4. t \in Incoming /\ Exists(t)' => streams'[t].m_SendStreamID \in Outgoing
    BY <2>1 DEF Paired, Exists
  <2>5. t \in Outgoing /\ streams'[t].m_SendStreamID # NoStream =>
          /\ streams'[t].m_SendStreamID \in Incoming
          /\ streams'[streams'[t].m_SendStreamID].m_SendStreamID = t
    <3>1. SUFFICES ASSUME t \in Outgoing, streams[t].m_SendStreamID # NoStream
                   PROVE  /\ streams[t].m_SendStreamID \in Incoming
                          /\ streams'[streams[t].m_SendStreamID].m_SendStreamID = t
      BY <2>1
    <3> DEFINE w == streams[t].m_SendStreamID
    <3>2. w \in Incoming /\ streams[w].m_SendStreamID = t /\ t # NoStream
      BY <2>1, <3>1, StreamSets DEF Paired
    <3>3. w \in Streams BY <3>2, StreamSets
    <3> HIDE DEF w
    <3>4. streams'[w].m_SendStreamID = t BY <1>3, <3>2, <3>3
    <3> QED BY <3>2, <3>4 DEF w
  <2>6. (\A v \in Streams : ~Feeds(v, t)') => Blank(streams'[t])
    BY <1>3, <2>1 DEF Paired
  <2> QED BY <2>2, <2>3, <2>4, <2>5, <2>6 DEF Paired, Own, Blank
<1> QED BY <1>10, <1>11 DEF AInv, Paired, FromOwner, Feeds, Blank, Own, Exists

\* What is heard of a numbering depends on its beginning only.
LEMMA HeardExtends ==
  ASSUME NEW st, Sound(st), NEW f, NEW g, NEW n \in Nat, NEW m \in Nat, n <= m,
         \A i \in 0 .. n : g[i] = f[i], Heard(st, f, n)
  PROVE  Heard(st, g, m)
<1>1. /\ st.m_LastReceivedSequenceNumber \in Nat \cup {-1}
      /\ st.m_SavedPackets \subseteq Packet
  BY DEF Sound, StreamRecord, FinitePackets
<1>2. ASSUME NEW q \in st.m_SavedPackets PROVE q.seqn < m /\ Row(q, g)
  <2>1. q.seqn \in Nat /\ q.seqn < n /\ Row(q, f) BY <1>1 DEF Packet, Heard
  <2>2. g[q.seqn] = f[q.seqn] /\ g[q.seqn + 1] = f[q.seqn + 1] BY <2>1
  <2> QED BY <2>1, <2>2 DEF Row
<1>3. st.m_LastReceivedSequenceNumber < m BY <1>1 DEF Heard
<1>4. ASSUME st.syns <= 1, NEW i \in 1 .. Len(st.received)
      PROVE  st.received[i].off = g[i - 1] /\ st.received[i].off + st.received[i].len = g[i]
  <2>1. /\ Len(st.received) = st.m_LastReceivedSequenceNumber + 1
        /\ st.m_LastReceivedSequenceNumber < n
        /\ st.received[i].off = f[i - 1]
        /\ st.received[i].off + st.received[i].len = f[i]
    BY <1>4 DEF Heard
  <2>2. i - 1 \in 0 .. n /\ i \in 0 .. n BY <1>1, <2>1
  <2> QED BY <2>1, <2>2
<1> QED BY <1>2, <1>3, <1>4 DEF Heard

LEMMA ChangeNumbers ==
  ASSUME IInv, OInv, AInv, RInv, NEW s \in Streams, NEW st, NEW A, Change(s, st, A)
  PROVE  RInv'
<1> DEFINE old == streams[s]
           new == streams'[s]
<1>1. /\ Update(s, st, A) /\ Sound(st) /\ Sound(old) /\ Advances(s, old, st)
      /\ \/ Kept(old, st) /\ (Exists(s) \/ s \in Outgoing)
         \/ \E p \in net : Listens(s, old, st, p)
  BY DEF Change, IInv
<1>2. /\ new.m_SequenceNumber = st.m_SequenceNumber /\ new.taken = st.taken
      /\ new.m_SendStreamID = st.m_SendStreamID
      /\ new.m_SentPackets = st.m_SentPackets /\ new.fins = st.fins /\ new.out = {}
      /\ net' \subseteq net \cup st.out
      /\ Kept(st, new)
  BY <1>1, UpdateOutcome DEF Kept
<1>3. /\ \A t \in Streams : t # s => streams'[t] = streams[t]
      /\ \A v, t \in Streams : Feeds(v, t) => Feeds(v, t)'
      /\ \A t \in Streams : OnePeer(t)' => OnePeer(t)
  BY FeedsStay
<1>4. AInv' BY ChangePairs
<1>5. PICK F \in [Streams -> Numbering] : Numbered(F) BY DEF RInv
<1>6. /\ F[s] \in Numbering /\ Numbers(s, F[s])
      /\ \A t \in Streams : streams[t].m_SequenceNumber \in Nat /\ Sound(streams[t])
      /\ st.m_SequenceNumber \in Nat /\ old.m_SequenceNumber <= st.m_SequenceNumber
  BY <1>1, <1>5, OwnTyped DEF Numbered, IInv, Advances
<1>7. PICK g \in Numbering :
        /\ \A n \in 0 .. old.m_SequenceNumber : g[n] = F[s][n]
        /\ g[st.m_SequenceNumber] = st.taken
        /\ \A p \in Own(st) \ Own(old) : IsPlainAck(p) \/ Row(p, g)
  BY <1>1, <1>6, ExtendNumbering DEF Numbers
<1> DEFINE G == [F EXCEPT ![s] = g]
<1>8. /\ G \in [Streams -> Numbering] /\ G[s] = g
      /\ \A t \in Streams : t # s => G[t] = F[t]
  BY <1>5
<1> HIDE DEF G
<1>9. Own(new) \subseteq Own(st) /\ net' \subseteq net \cup Own(st) BY <1>2 DEF Own
<1>10. \A p \in Own(st) : p.rid = s
  <2>1. \A p \in Own(old) : p.rid = s BY DEF AInv, Paired, FromOwner
  <2> QED BY <1>1, <2>1 DEF Advances, Addressed
<1>11. Numbers(s, g)'
  <2>1. g[0] = 0
    <3>1. 0 \in 0 .. old.m_SequenceNumber BY <1>6
    <3> QED BY <1>6, <1>7, <3>1 DEF Numbers
  <2>2. g[new.m_SequenceNumber] = new.taken BY <1>2, <1>7
  <2>3. ASSUME NEW p \in Named(s)' PROVE Row(p, g)
    <3>1. CASE p \in Named(s)
      <4>1. Row(p, F[s]) BY <1>6, <3>1 DEF Numbers
      <4>2. p.seqn \in Nat /\ p.seqn < old.m_SequenceNumber
        <5>1. p \in Packet BY <1>1, <3>1, OwnTyped DEF Named, IInv
        <5> QED BY <3>1, <5>1 DEF Packet, OInv, Ordered
      <4>3. g[p.seqn] = F[s][p.seqn] /\ g[p.seqn + 1] = F[s][p.seqn + 1]
        BY <1>6, <1>7, <4>2
      <4> QED BY <4>1, <4>3 DEF Row
    <3>2. CASE p \notin Named(s)
      <4>1. p \in Own(st) \ Own(old) /\ ~IsPlainAck(p) BY <1>9, <3>2 DEF Named
      <4> QED BY <1>7, <4>1
    <3> QED BY <3>1, <3>2
  <2> QED BY <2>1, <2>2, <2>3 DEF Numbers, Row
<1>12. ASSUME NEW t \in Streams, t # s PROVE Numbers(t, F[t])'
  <2>1. streams'[t] = streams[t] BY <1>3, <1>12
  <2>2. Named(t)' \subseteq Named(t) BY <1>9, <1>10, <1>12, <2>1 DEF Named
  <2> QED BY <1>5, <2>1, <2>2 DEF Numbered, Numbers, Row
<1>13. ASSUME NEW t \in Streams, NEW v \in Streams, Feeds(v, t)', OnePeer(t)'
       PROVE  Heard(streams'[t], G[v], streams'[v].m_SequenceNumber)
  <2>1. \A u \in Streams : Feeds(u, t)' => u = v
    <3>1. CASE t \in Incoming BY <1>13, <3>1 DEF Feeds
    <3>2. CASE t \notin Incoming BY <1>13, <3>2 DEF Feeds, OnePeer
    <3> QED BY <3>1, <3>2
  <2>2. \/ Blank(streams[t])
        \/ Feeds(v, t) /\ Heard(streams[t], F[v], streams[v].m_SequenceNumber)
    <3>1. CASE \E u \in Streams : Feeds(u, t)
      <4>1. Feeds(v, t) BY <1>3, <2>1, <3>1
      <4>2. OnePeer(t) BY <1>3, <1>13
      <4> QED BY <1>5, <4>1, <4>2 DEF Numbered
    <3>2. CASE ~ \E u \in Streams : Feeds(u, t) BY <3>2 DEF AInv, Paired
    <3> QED BY <3>1, <3>2
  <2>3. Heard(streams[t], F[v], streams[v].m_SequenceNumber)
    BY <1>6, <2>2, BlankHeard
  <2>4. /\ G[v] \in Numbering /\ streams'[v].m_SequenceNumber \in Nat
        /\ streams[v].m_SequenceNumber <= streams'[v].m_SequenceNumber
        /\ \A n \in 0 .. streams[v].m_SequenceNumber : G[v][n] = F[v][n]
    <3>1. CASE v = s BY <1>2, <1>6, <1>7, <1>8, <3>1
    <3>2. CASE v # s BY <1>3, <1>5, <1>6, <1>8, <3>2
    <3> QED BY <3>1, <3>2
  <2>5. Heard(streams[t], G[v], streams'[v].m_SequenceNumber)
    BY <1>6, <2>3, <2>4, HeardExtends
  <2>6. CASE t # s BY <1>3, <2>5, <2>6
  <2>7. CASE t = s
    <3>1. CASE Kept(old, st) BY <1>2, <2>5, <2>7, <3>1, KeptHeard
    <3>2. CASE \E p \in net : Listens(s, old, st, p)
      <4>1. PICK p \in net : Listens(s, old, st, p) BY <3>2
      <4> DEFINE u == p.rid
      <4>2. /\ u \in Streams /\ u # s
            /\ s \in Incoming => st.m_SendStreamID = u
            /\ s \in Outgoing => u \in Incoming /\ streams[u].m_SendStreamID = s
        BY <4>1, ListensToFeeder
      <4>3. Feeds(u, s)'
        <5>1. CASE s \in Incoming BY <1>2, <4>2, <5>1 DEF Feeds
        <5>2. CASE s \notin Incoming
          <6>1. s \in Outgoing BY <5>2, StreamSets
          <6>2. streams'[u].m_SendStreamID = s BY <1>3, <4>2, <6>1
          <6> QED BY <4>2, <5>2, <6>1, <6>2 DEF Feeds
        <5> QED BY <5>1, <5>2
      <4>4. u = v BY <2>1, <2>7, <4>2, <4>3
      <4>5. ASSUME ~IsPlainAck(p)
            PROVE  p.seqn < streams'[v].m_SequenceNumber /\ Row(p, G[v])
        <5>1. p \in Named(u) BY <4>2, <4>5 DEF Named
        <5>2. Numbers(u, F[u]) /\ streams'[u] = streams[u] /\ G[u] = F[u]
          BY <1>3, <1>5, <1>8, <4>2 DEF Numbered
        <5>3. p.seqn < streams[u].m_SequenceNumber BY <4>2, <5>1 DEF OInv, Ordered
        <5> QED BY <4>4, <5>1, <5>2, <5>3 DEF Numbers
      <4>6. Heard(st, G[v], streams'[v].m_SequenceNumber)
        BY <2>4, <2>5, <2>7, <4>1, <4>5 DEF Listens
      <4> QED BY <1>2, <2>7, <4>6, KeptHeard
    <3> QED BY <1>1, <3>1, <3>2
  <2> QED BY <2>6, <2>7
<1>14. Numbered(G)'
  <2>1. \A t \in Streams : Numbers(t, G[t])' BY <1>8, <1>11, <1>12 DEF Numbers
  <2> QED BY <1>13, <2>1 DEF Numbered
<1> QED BY <1>8, <1>14 DEF RInv

LEMMA QuietPairsAndNumbers ==
  ASSUME IInv, OInv, AInv, RInv, Quiet
  PROVE  AInv' /\ RInv'
<1>1. /\ net' \subseteq net
      /\ \A s \in Streams : Still(streams[s], streams'[s]) /\ Sound(streams[s])
  BY DEF Quiet, IInv
<1>2. \A s \in Streams :
        /\ Own(streams'[s]) = Own(streams[s]) /\ Kept(streams[s], streams'[s])
        /\ streams'[s].m_SendStreamID = streams[s].m_SendStreamID
        /\ streams'[s].m_Status = streams[s].m_Status
        /\ streams'[s].m_SequenceNumber = streams[s].m_SequenceNumber
        /\ streams'[s].taken = streams[s].taken
  BY <1>1, StillOrderly DEF Still, Steady, Unheard
<1>3. \A v, s \in Streams : Feeds(v, s)' <=> Feeds(v, s)
  BY <1>2, StreamSets DEF Feeds
<1>4. ASSUME NEW s \in Streams PROVE Paired(s)'
  <2>1. Paired(s) BY DEF AInv
  <2>2. /\ \A p \in Own(streams'[s]) : FromOwner(s, p)'
        /\ \A p \in net' : p.rid = s => FromOwner(s, p)'
    BY <1>1, <1>2, <2>1 DEF Paired, FromOwner
  <2>3. s \in Incoming /\ Exists(s)' => streams'[s].m_SendStreamID \in Outgoing
    BY <1>2, <2>1 DEF Paired, Exists
  <2>4. s \in Outgoing /\ streams'[s].m_SendStreamID # NoStream =>
          /\ streams'[s].m_SendStreamID \in Incoming
          /\ streams'[streams'[s].m_SendStreamID].m_SendStreamID = s
    BY <1>2, <2>1, StreamSets DEF Paired
  <2>5. (\A v \in Streams : ~Feeds(v, s)') => Blank(streams'[s])
    BY <1>2, <1>3, <2>1 DEF Paired, Blank, Kept
  <2> QED BY <2>2, <2>3, <2>4, <2>5 DEF Paired, Own, Blank
<1>5. AInv' BY <1>4 DEF AInv, Paired, FromOwner, Feeds, Blank, Own, Exists
<1>6. PICK F \in [Streams -> Numbering] : Numbered(F) BY DEF RInv
<1>7. ASSUME NEW s \in Streams PROVE Numbers(s, F[s])'
  <2>1. Named(s)' \subseteq Named(s) BY <1>1, <1>2 DEF Named
  <2> QED BY <1>2, <1>6, <2>1 DEF Numbered, Numbers, Row
<1>8. ASSUME NEW s \in Streams, NEW v \in Streams, Feeds(v, s)', OnePeer(s)'
      PROVE  Heard(streams'[s], F[v], streams'[v].m_SequenceNumber)
  <2>1. Feeds(v, s) BY <1>3, <1>8
  <2>2. OnePeer(s) BY <1>2, <1>8, StreamSets DEF OnePeer
  <2>3. Heard(streams[s], F[v], streams[v].m_SequenceNumber)
    BY <1>6, <2>1, <2>2 DEF Numbered
  <2> QED BY <1>2, <2>3, KeptHeard
<1>9. Numbered(F)' BY <1>7, <1>8 DEF Numbered
<1> QED BY <1>5, <1>6, <1>9 DEF RInv

\* IInv, OInv, AInv and RInv hold in every reachable state.
THEOREM NumberingInvariance == Spec => [](AInv /\ RInv)
<1>1. IInv /\ OInv /\ AInv /\ RInv /\ [Next]_vars => AInv' /\ RInv'
  BY Steps, ChangePairs, ChangeNumbers, QuietPairsAndNumbers
<1>2. Init => AInv /\ RInv BY InitAInv
<1> QED BY <1>1, <1>2, Invariance, OrderInvariance, PTL DEF Spec

\* As long as one stream of the peer sends to it and it has processed one SYN,
\* what a stream hands to its reader is a prefix of what the peer wrote.
THEOREM ReadersGetThePrefix == Spec => []DeliveredInOrder
<1>1. IInv /\ OInv /\ AInv /\ RInv => DeliveredInOrder
  <2> SUFFICES ASSUME IInv, AInv, RInv, NEW s \in Streams,
                      OnePeer(s), streams[s].syns <= 1
               PROVE  InOrder(streams[s].received)
    BY DEF DeliveredInOrder
  <2> DEFINE r == streams[s].received
  <2>1. PICK F \in [Streams -> Numbering] : Numbered(F) BY DEF RInv
  <2>2. r \in Seq([off: Nat, len: Nat]) BY DEF IInv, Sound, StreamRecord
  <2>3. CASE Blank(streams[s])
    <3>1. r = <<>> BY <2>3 DEF Blank
    <3> HIDE DEF r
    <3> QED BY <3>1 DEF InOrder, r
  <2>4. CASE \E v \in Streams : Feeds(v, s)
    <3>1. PICK v \in Streams : Feeds(v, s) BY <2>4
    <3> DEFINE f == F[v]
    <3>2. \A i \in 1 .. Len(r) : r[i].off = f[i - 1] /\ r[i].off + r[i].len = f[i]
      BY <2>1, <3>1 DEF Numbered, Heard
    <3>3. f[0] = 0 BY <2>1, <3>1 DEF Numbered, Numbers
    <3> HIDE DEF f, r
    <3>4. Len(r) \in Nat BY <2>2
    <3>5. Len(r) > 0 => r[1].off = 0
      <4>1. ASSUME Len(r) > 0 PROVE r[1].off = f[0]
        <5>1. 1 \in 1 .. Len(r) /\ 1 - 1 = 0 BY <3>4, <4>1
        <5> QED BY <3>2, <5>1
      <4> QED BY <3>3, <4>1
    <3>6. ASSUME NEW i \in 1 .. Len(r) - 1 PROVE r[i + 1].off = r[i].off + r[i].len
      <4>1. i \in 1 .. Len(r) /\ i + 1 \in 1 .. Len(r) /\ (i + 1) - 1 = i BY <3>4
      <4> QED BY <3>2, <4>1
    <3> QED BY <3>5, <3>6 DEF InOrder, r
  <2>5. Blank(streams[s]) \/ \E v \in Streams : Feeds(v, s) BY DEF AInv, Paired
  <2> QED BY <2>3, <2>4, <2>5
<1> QED BY <1>1, Invariance, OrderInvariance, NumberingInvariance, PTL
=============================================================================
