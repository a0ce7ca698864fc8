---------------------------- MODULE NTCPSession ----------------------------
(***************************************************************************)
(* NTCP sessions (core/transport/NTCPSession.cpp): the four phases of the  *)
(* handshake, messages as AES blocks over TCP, the send queue, what ends a *)
(* session.  NTCPServer is not in the repository: its table of sessions is *)
(* modelled from its use.                                                  *)
(*                                                                         *)
(* A connection has a client end and a server end, all clients being the   *)
(* same router.  An asynchronous operation is pending, then done with "ok" *)
(* or "error", or "aborted" by the close of its own socket while pending;  *)
(* then its handler runs.                                                  *)
(***************************************************************************)
EXTENDS Integers, FiniteSets, Sequences

CONSTANTS
  NTCPConns,
  NTCPCases,           \* records of the connections made (conns), those to the
                       \* wrong router (wrongIdent), those by a client with a long
                       \* identity (longIdentity), the messages posted and the faults
  NTCP_MAX_MESSAGE_SIZE

ASSUME NTCPAssumption ==
  /\ NTCP_MAX_MESSAGE_SIZE \in Nat
  /\ \A k \in NTCPCases :
       /\ k.conns \cup k.wrongIdent \cup k.longIdentity \subseteq NTCPConns
       /\ \A m \in k.posts : m.conn \in NTCPConns /\ m.len \in Nat \ {0}
       /\ k.faults \subseteq {"cut", "done", "timer", "check"}

Sides == {"client", "server"}
OtherSide(s) == IF s = "client" THEN "server" ELSE "client"

VARIABLES
  ntcp,        \* per connection and side, see NewEnd
  wire,        \* per connection and side: what was written and is not read yet
  broken,      \* connections that the network has cut
  registered,  \* NTCPServer's table: the connections listed for the client's ident
  setUnreachable,  \* connections whose client reported the router to netdb
  ntcpCase         \* the bounds of this behaviour

ntcpVars == <<ntcp, wire, broken, registered, setUnreachable, ntcpCase>>

\* phase 0: not begun; 1 to 4: in that phase; 5: Connected has run.
\* read: state of the read.  writes: what each outstanding write holds; write:
\* state of the first of them.  m_NextMessage: the blocks of it read so far.
\* events: what transports was told.
NewEnd ==
  [phase |-> 0, open |-> FALSE, m_IsTerminated |-> FALSE, m_IsEstablished |-> FALSE,
   timer |-> FALSE, read |-> "none", write |-> "none", writes |-> <<>>,
   m_IsSending |-> FALSE, m_SendQueue |-> <<>>, m_NextMessage |-> <<>>,
   m_ReceiveBuffer |-> <<>>, m_Handler |-> <<>>, posted |-> <<>>, events |-> <<>>]

NTCPInitWith(k) ==
  /\ ntcpCase = k
  /\ ntcp = [c \in NTCPConns |-> [s \in Sides |-> NewEnd]]
  /\ wire = [c \in NTCPConns |-> [s \in Sides |-> <<>>]]
  /\ broken = {} /\ registered = {} /\ setUnreachable = {}
NTCPInit == \E k \in NTCPCases : NTCPInitWith(k)

NTCPMessage(id, len) == [id |-> id, len |-> len]
Phase(n)      == NTCPMessage(n, 0)
TimeSync      == NTCPMessage("timestamp", 0)
DatabaseStore == NTCPMessage("store", 10)
-----------------------------------------------------------------------------
(***************************************************************************)
(* One end e.                                                              *)
(***************************************************************************)
StartRead(e) == [e EXCEPT !.read = IF e.open THEN "pending" ELSE "error"]
Write(e, items) ==
  [e EXCEPT !.writes = Append(@, items),
            !.write = IF e.writes # <<>> THEN @ ELSE IF e.open THEN "pending" ELSE "error"]
ScheduleTerminationNTCP(e) == [e EXCEPT !.timer = TRUE]

CloseSocket(e) ==
  [e EXCEPT !.open = FALSE,
            !.read = IF @ = "pending" THEN "aborted" ELSE @,
            !.write = IF @ = "pending" THEN "aborted" ELSE @]

Terminate(e) ==
  IF e.m_IsTerminated THEN e
  ELSE [CloseSocket(e) EXCEPT
          !.m_IsTerminated = TRUE, !.m_IsEstablished = FALSE, !.timer = FALSE,
          !.m_SendQueue = <<>>, !.m_NextMessage = <<>>,
          !.events = Append(@, "PeerDisconnected")]

SendMessages(e, msgs) == Write([e EXCEPT !.m_IsSending = TRUE], msgs)

\* The time goes out at once, our own RouterInfo waits for that.
Connected(e) ==
  LET w == SendMessages([e EXCEPT !.phase = 5, !.m_IsEstablished = TRUE], <<TimeSync>>)
  IN StartRead([w EXCEPT !.m_SendQueue = Append(@, DatabaseStore),
                         !.events = Append(@, "PeerConnected"), !.m_NextMessage = <<>>])

\* CreateMsgBuffer: size, message, padding and checksum fill blocks of 16 bytes;
\* a timestamp is one block (and so is, here, what a phase of the handshake sends).
CreateMsgBuffer(m) ==
  LET len == IF m.len = 0 THEN 4 ELSE m.len
      n   == (len + 6 + 15) \div 16
  IN [i \in 1 .. n |-> [msg |-> m, num |-> i]]

\* DecryptNextBlock on the blocks of a chunk, one after the other: a message is
\* complete with the block that reaches its length, its size and its checksum.
\* After Terminate has dropped m_NextMessage the rest of it makes no header: what
\* comes of it fails its checksum.
DecryptNextBlock(e, b) ==
  LET size == (Append(e.m_NextMessage, b))[1].msg.len
      next == Append(e.m_NextMessage, b)
  IN IF e.m_NextMessage = <<>> /\ (size = 0 \/ b.num # 1) THEN e
     ELSE IF 16 * Len(next) >= size + 2 + 4
     THEN [e EXCEPT !.m_Handler = Append(@, next), !.m_NextMessage = <<>>]
     ELSE [e EXCEPT !.m_NextMessage = next]

\* The header of a message that is refused.
TooLong(b) == b.num = 1 /\ b.msg.len > NTCP_MAX_MESSAGE_SIZE
-----------------------------------------------------------------------------
(***************************************************************************)
(* Steps.  PutEnd replaces one end.                                           *)
(***************************************************************************)
PutEnd(c, s, e) == ntcp' = [ntcp EXCEPT ![c][s] = e]
NTCPRest == <<wire, broken, registered, setUnreachable, ntcpCase>>

\* What a side sends in each phase.
ClientLogin(e) == Write(e, <<Phase("phase1")>>)
ServerLogin(e) == StartRead(e)
SendPhase2(e) == Write([e EXCEPT !.phase = 2], <<Phase("phase2")>>)
SendPhase3(e) == Write([e EXCEPT !.phase = 3], <<Phase("phase3")>>)
SendPhase4(e) == Write([e EXCEPT !.phase = 4], <<Phase("phase4")>>)

\* NTCPServer::Connect and its acceptor, then ClientLogin and ServerLogin.
Login(c) ==
  /\ c \in ntcpCase.conns /\ ntcp[c]["client"].phase = 0
  /\ LET up == [NewEnd EXCEPT !.phase = 1, !.open = TRUE, !.timer = TRUE]
     IN ntcp' = [ntcp EXCEPT ![c] =
          [s \in Sides |-> IF s = "client" THEN ClientLogin(up) ELSE ServerLogin(up)]]
  /\ UNCHANGED NTCPRest

\* The network cuts the connection, or an operation is done.
Cut(c) ==
  /\ "cut" \in ntcpCase.faults
  /\ ntcp[c]["client"].phase > 0 /\ broken' = broken \cup {c} /\ c \notin broken
  /\ wire' = [wire EXCEPT ![c] = [s \in Sides |-> <<>>]]
  /\ UNCHANGED <<ntcp, registered, setUnreachable, ntcpCase>>

Hangup(c, s) == c \in broken \/ (~ntcp[c][OtherSide(s)].open /\ wire[c][OtherSide(s)] = <<>>)

\* A read of the handshake is for one phase, a later one takes what is there.
ReadDone(c, s) ==
  LET in == wire[c][OtherSide(s)] IN
  /\ ntcp[c][s].read = "pending"
  /\ \/ \E n \in 1 .. Len(in) :
          /\ ntcp[c][s].phase < 5 => n = 1
          /\ wire' = [wire EXCEPT ![c][OtherSide(s)] = SubSeq(in, n + 1, Len(in))]
          /\ PutEnd(c, s, [ntcp[c][s] EXCEPT !.read = "ok", !.m_ReceiveBuffer = SubSeq(in, 1, n)])
     \/ /\ Hangup(c, s) /\ PutEnd(c, s, [ntcp[c][s] EXCEPT !.read = "error"])
        /\ UNCHANGED wire
  /\ UNCHANGED <<broken, registered, setUnreachable, ntcpCase>>

Encoded(items) ==
  LET upto[n \in 0 .. Len(items)] ==
        IF n = 0 THEN <<>> ELSE upto[n - 1] \o CreateMsgBuffer(items[n])
  IN upto[Len(items)]

WriteDone(c, s) ==
  /\ ntcp[c][s].write = "pending"
  /\ PutEnd(c, s, [ntcp[c][s] EXCEPT !.write = IF c \in broken THEN "error" ELSE "ok"])
  /\ wire' = IF c \in broken THEN wire
             ELSE [wire EXCEPT ![c][s] = @ \o Encoded(Head(ntcp[c][s].writes))]
  /\ UNCHANGED <<broken, registered, setUnreachable, ntcpCase>>

\* The end whose handler runs, its operation taken off.
Took(e, op) ==
  IF op = "read" THEN [e EXCEPT !.read = "none", !.m_ReceiveBuffer = <<>>]
  ELSE [e EXCEPT !.writes = Tail(@),
                 !.write = IF Len(e.writes) > 1 THEN "pending" ELSE "none"]

\* An operation of the handshake failed.  Aborted, nothing is done: the session
\* is not terminated.  A client that cannot read blames the router.
HandlePhaseError(c, s, op, result) ==
  /\ result \in {"error", "aborted"}
  /\ LET e == Took(ntcp[c][s], op)
     IN PutEnd(c, s, IF result = "aborted" THEN e ELSE Terminate(e))
  /\ setUnreachable' = IF result = "error" /\ s = "client" /\ op = "read"
                       THEN setUnreachable \cup {c} ELSE setUnreachable
  /\ registered' = IF result = "error" /\ ~ntcp[c][s].m_IsTerminated THEN registered \ {c}
                   ELSE registered
  /\ UNCHANGED <<wire, broken, ntcpCase>>

\* What was written is out, wait for the next phase.
PhaseSent(c, s, phase) ==
  /\ ntcp[c][s].write = "ok" /\ ntcp[c][s].phase = phase
  /\ PutEnd(c, s, StartRead([Took(ntcp[c][s], "write") EXCEPT !.phase = phase + 1]))
  /\ UNCHANGED NTCPRest
HandlePhase1Sent(c) == PhaseSent(c, "client", 1)
HandlePhase2Sent(c) == PhaseSent(c, "server", 2)
HandlePhase3Sent(c) == PhaseSent(c, "client", 3)

\* The server checks that it is meant, and answers.
HandlePhase1Received(c) ==
  LET e == Took(ntcp[c]["server"], "read") IN
  /\ ntcp[c]["server"].read = "ok" /\ ntcp[c]["server"].phase = 1
  /\ PutEnd(c, "server", IF c \in ntcpCase.wrongIdent THEN Terminate(e)
                      ELSE SendPhase2(e))
  /\ UNCHANGED NTCPRest

\* CreateAESKey makes no key of what the client sent and terminates; phase 2 is
\* sent all the same.
HandlePhase1NoKey(c) ==
  /\ "check" \in ntcpCase.faults /\ c \notin ntcpCase.wrongIdent
  /\ ntcp[c]["server"].read = "ok" /\ ntcp[c]["server"].phase = 1
  /\ PutEnd(c, "server", SendPhase2(Terminate(Took(ntcp[c]["server"], "read"))))
  /\ UNCHANGED NTCPRest

HandlePhase2Received(c) ==
  LET e == Took(ntcp[c]["client"], "read") IN
  /\ ntcp[c]["client"].read = "ok" /\ e.phase = 2
  /\ PutEnd(c, "client", SendPhase3(e))
  /\ UNCHANGED NTCPRest

\* A client that is listed already is terminated, and answered all the same.
\* An identity that is not of the default size asks for more than the client
\* sends: the read is never done.
HandlePhase3Received(c) ==
  LET e == Took(ntcp[c]["server"], "read")
      t == IF registered # {} THEN Terminate(e) ELSE e
  IN
  /\ ntcp[c]["server"].read = "ok" /\ e.phase = 3
  /\ PutEnd(c, "server", IF c \in ntcpCase.longIdentity THEN StartRead(t)
                      ELSE SendPhase4(t))
  /\ UNCHANGED NTCPRest

\* What was read does not pass its check: the hash of phase 2 (made with no key
\* or a wrong one), the signatures of phases 3 and 4.
CheckFails(c, s) ==
  /\ "check" \in ntcpCase.faults /\ ntcp[c][s].read = "ok"
  /\ \/ s = "client" /\ ntcp[c][s].phase \in {2, 4}
     \/ s = "server" /\ ntcp[c][s].phase = 3 /\ c \notin ntcpCase.longIdentity
  /\ PutEnd(c, s, Terminate(Took(ntcp[c][s], "read")))
  /\ UNCHANGED NTCPRest

\* The last handler of each side.  It names the remote endpoint in the log
\* first, which throws if the socket is closed or the connection is cut.
HandlePhase4(c, s) ==
  LET op == IF s = "client" THEN "read" ELSE "write"
      e  == Took(ntcp[c][s], op)
      ok == e.open /\ c \notin broken
  IN
  /\ ntcp[c][s][op] = "ok" /\ ntcp[c][s].phase = 4
  /\ PutEnd(c, s, IF ok THEN Connected(e) ELSE e)
  /\ registered' = IF ok /\ s = "server" THEN {c} ELSE registered
  /\ UNCHANGED <<wire, broken, setUnreachable, ntcpCase>>

\* The blocks of one read; the registry drops a session that is terminated.
Decrypted(e, blocks) ==
  LET after[n \in 0 .. Len(blocks)] ==
        IF n = 0 THEN e ELSE DecryptNextBlock(after[n - 1], blocks[n])
  IN after[Len(blocks)]

\* The blocks before the first that is refused.
Accepted(x) ==
  LET n == CHOOSE i \in 0 .. Len(x) :
             /\ \A j \in 1 .. i : ~TooLong(x[j])
             /\ i < Len(x) => TooLong(x[i + 1])
  IN SubSeq(x, 1, n)

HandleReceived(c, s) ==
  LET x   == ntcp[c][s].m_ReceiveBuffer
      r   == ntcp[c][s].read
      e   == Decrypted(Took(ntcp[c][s], "read"), Accepted(x))
      end == r # "ok" \/ \E i \in DOMAIN x : TooLong(x[i])
  IN /\ ntcp[c][s].phase = 5 /\ r \in {"ok", "error", "aborted"}
     /\ PutEnd(c, s, IF end THEN Terminate(e) ELSE StartRead(ScheduleTerminationNTCP(e)))
     /\ registered' = IF end /\ s = "server" /\ ~e.m_IsTerminated THEN {} ELSE registered
     /\ UNCHANGED <<wire, broken, setUnreachable, ntcpCase>>

\* A failed write is left to the read.
HandleSent(c, s) ==
  LET e == [Took(ntcp[c][s], "write") EXCEPT !.m_IsSending = FALSE]
      r == ntcp[c][s].write
  IN /\ ntcp[c][s].phase = 5 /\ r \in {"ok", "error", "aborted"}
     /\ PutEnd(c, s, IF r # "ok" THEN e
                  ELSE IF e.m_SendQueue # <<>>
                  THEN [SendMessages(e, e.m_SendQueue) EXCEPT !.m_SendQueue = <<>>]
                  ELSE ScheduleTerminationNTCP(e))
     /\ UNCHANGED NTCPRest

Told(e, event) == \E i \in DOMAIN e.events : e.events[i] = event
Posted(e, m) == [e EXCEPT !.posted = Append(@, m)]

\* Mutant: a message is written while another one is.
PostAtOnce(c, s, m) ==
  /\ Told(ntcp[c][s], "PeerConnected")
  /\ PutEnd(c, s, SendMessages(Posted(ntcp[c][s], m), <<m>>))
  /\ UNCHANGED NTCPRest

\* Transports has messages for sessions it was told of.
PostI2NPMessages(c, s, m) ==
  LET e == Posted(ntcp[c][s], m) IN
  /\ Told(e, "PeerConnected") /\ \A i \in DOMAIN ntcp[c][s].posted : ntcp[c][s].posted[i] # m
  /\ PutEnd(c, s, IF e.m_IsTerminated THEN e
               ELSE IF e.m_IsSending THEN [e EXCEPT !.m_SendQueue = Append(@, m)]
               ELSE SendMessages(e, <<m>>))
  /\ UNCHANGED NTCPRest

\* Done, from Transports.
DoneNTCP(c, s) ==
  /\ "done" \in ntcpCase.faults
  /\ Told(ntcp[c][s], "PeerConnected") /\ ~ntcp[c][s].m_IsTerminated
  /\ PutEnd(c, s, Terminate(ntcp[c][s]))
  /\ registered' = IF s = "server" THEN {} ELSE registered
  /\ UNCHANGED <<wire, broken, setUnreachable, ntcpCase>>

HandleTerminationTimer(c, s) ==
  /\ ntcp[c][s].timer /\ "timer" \in ntcpCase.faults
  /\ PutEnd(c, s, [CloseSocket(ntcp[c][s]) EXCEPT !.timer = FALSE])
  /\ UNCHANGED NTCPRest
-----------------------------------------------------------------------------
NTCPNext ==
  \E c \in NTCPConns :
    \/ Login(c) \/ Cut(c)
    \/ HandlePhase1Received(c) \/ HandlePhase2Received(c) \/ HandlePhase3Received(c)
    \/ HandlePhase1NoKey(c) \/ HandlePhase1Sent(c) \/ HandlePhase2Sent(c) \/ HandlePhase3Sent(c)
    \/ \E s \in Sides :
         \/ ReadDone(c, s) \/ WriteDone(c, s)
         \/ ntcp[c][s].phase < 5 /\ \/ HandlePhaseError(c, s, "read", ntcp[c][s].read)
                                    \/ HandlePhaseError(c, s, "write", ntcp[c][s].write)
         \/ CheckFails(c, s) \/ HandlePhase4(c, s)
         \/ HandleReceived(c, s) \/ HandleSent(c, s)
         \/ \E m \in ntcpCase.posts : m.conn = c /\ m.side = s
                                    /\ PostI2NPMessages(c, s, NTCPMessage(m.id, m.len))
         \/ DoneNTCP(c, s) \/ HandleTerminationTimer(c, s)
-----------------------------------------------------------------------------
NTCPSpec == NTCPInit /\ [][NTCPNext]_ntcpVars

NTCPTypeOK ==
  /\ broken \cup registered \cup setUnreachable \subseteq NTCPConns
  /\ \A c \in NTCPConns, s \in Sides :
       /\ ntcp[c][s].phase \in 0 .. 5
       /\ ntcp[c][s].read \in {"none", "pending", "ok", "error", "aborted"}
       /\ ntcp[c][s].write \in {"none", "pending", "ok", "error", "aborted"}
       /\ (ntcp[c][s].write = "none") = (ntcp[c][s].writes = <<>>)

\* There is never a second write on a socket before the first is done, which
\* would mix their blocks: m_IsSending says so through handshake, time message,
\* queue and failed writes, whenever messages are posted.
OneWriteAtATime == \A c \in NTCPConns, s \in Sides : Len(ntcp[c][s].writes) <= 1

\* "HandleReceive takes care" (HandleSent, HandleTerminationTimer): a connected
\* session that is not terminated has a read that will be done, so a failed
\* write or a closed socket always comes to Terminate.
ConnectedIsReading ==
  \A c \in NTCPConns, s \in Sides :
    ntcp[c][s].m_IsEstablished => ntcp[c][s].read # "none" /\ ~ntcp[c][s].m_IsTerminated

\* Our RouterInfo and then the messages posted come out whole, once and in this
\* order, whatever the chunks the blocks are read in and the padding that their
\* lengths need.  (A session that is terminated may still read, without the
\* message it was in.)
ReceivedInOrder ==
  \A c \in NTCPConns, s \in Sides :
    LET got  == ntcp[c][OtherSide(s)].m_Handler
        sent == <<DatabaseStore>> \o ntcp[c][s].posted
    IN ~ntcp[c][OtherSide(s)].m_IsTerminated =>
         /\ Len(got) <= Len(sent)
         /\ \A i \in 1 .. Len(got) : got[i] = CreateMsgBuffer(sent[i])

\* Transports hears of a session at most once that it is connected and at most
\* once that it is not, in this order, handlers that run after Terminate and
\* clients that are listed already included.
ToldInOrder ==
  \A c \in NTCPConns, s \in Sides :
    ntcp[c][s].events \in {<<>>, <<"PeerConnected">>, <<"PeerDisconnected">>,
                           <<"PeerConnected", "PeerDisconnected">>}

\* A session writes one batch at a time, goes on reading until it is terminated,
\* hands on messages whole and in order, and reports its beginning and end once.
NTCPSafe ==
  /\ NTCPTypeOK
  /\ OneWriteAtATime
  /\ ConnectedIsReading
  /\ ReceivedInOrder
  /\ ToldInOrder
=============================================================================
