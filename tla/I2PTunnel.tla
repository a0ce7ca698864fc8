----------------------------- MODULE I2PTunnel -----------------------------
(***************************************************************************)
(* A client tunnel (an acceptor of local connections, each relayed to one  *)
(* destination) or a server tunnel (streams of remote destinations relayed *)
(* to a local server): I2PTunnel.cpp with the service and acceptor of      *)
(* I2PService.cpp.  The tunnel relays one connection here: the handler     *)
(* that waits for its stream, then the I2PTunnelConnection between a       *)
(* socket and a stream.                                                    *)
(*                                                                         *)
(* Callbacks run one at a time on the destination's service.  An operation *)
(* that was started is "waiting", then ends with a result that its handler *)
(* sees later: the socket and the stream may have been closed in between.  *)
(***************************************************************************)
EXTENDS Integers, Sequences, FiniteSets

CONSTANT I2PTunnelCases  \* what the tunnel is, what is sent, what may fail

ASSUME I2PTunnelAssumption ==
  \A c \in I2PTunnelCases :
    c.app \in Seq(Nat) /\ c.net \in Seq(Nat) /\ {c.known, c.allowed} \subseteq BOOLEAN

VARIABLE tunnel

i2pTunnelVars == <<tunnel>>

(***************************************************************************)
(* A case is a record: side "client" or "server"; app, the data the local  *)
(* application sends; net, the data of the remote destination; known,      *)
(* whether the address book knows the destination at the start; allowed,   *)
(* whether the access list admits the remote; faults, what may fail.       *)
(* The state: accepting, the acceptor's wait; ident, the cached hash;      *)
(* handler and conn, the two handlers ("none", at work, "dead"; "stranded" *)
(* is dead and still listed), and who of them is in m_Handlers; rd and wr, *)
(* the operations of the socket; snd and srd, those of the stream; toNet   *)
(* and toApp, what was relayed; cut, the places in net of what async_send  *)
(* left unsent.                                                            *)
(***************************************************************************)
I2PTunnelInitWith(c) ==
  tunnel = [case |-> c, started |-> FALSE, accepting |-> FALSE, ident |-> FALSE,
            known |-> c.known, m_Handlers |-> {}, handler |-> "none", conn |-> "none",
            socket |-> "none", stream |-> "none", rd |-> "none", wr |-> "none",
            snd |-> "none", srd |-> "none", m_Buffer |-> <<>>, m_StreamBuffer |-> <<>>,
            m_Stream |-> FALSE, taken |-> 0, given |-> 0, toNet |-> <<>>, toApp |-> <<>>,
            cut |-> {}, rejected |-> FALSE]

I2PTunnelInit == \E c \in I2PTunnelCases : I2PTunnelInitWith(c)

May(t, fault) == fault \in t.case.faults

(***************************************************************************)
(* I2PTunnelConnection.                                                    *)
(***************************************************************************)
\* Closing the socket ends its operations with operation_aborted.
CloseSocket(t) ==
  [t EXCEPT !.socket = "closed",
            !.rd = IF @ = "waiting" THEN "aborted" ELSE @,
            !.wr = IF @ = "waiting" THEN "aborted" ELSE @]

\* Stream::Close: the stream ends at once, or once what it has to send went.
CloseStream(t) ==
  [t EXCEPT !.stream = IF @ = "open" THEN "closing" ELSE @, !.m_Stream = FALSE,
            !.snd = IF t.stream = "reset" /\ @ = "waiting" THEN "error" ELSE @]

TerminateConnection(t) ==
  IF t.conn = "dead" THEN t
  ELSE [CloseSocket(CloseStream(t)) EXCEPT !.conn = "dead", !.m_Handlers = @ \ {"conn"}]

Receive(t) == [t EXCEPT !.rd = IF t.socket = "open" THEN "waiting" ELSE "error"]

StreamReceive(t) ==
  IF t.m_Stream THEN [t EXCEPT !.srd = IF t.stream = "reset" THEN "reset" ELSE "waiting"] ELSE t

WriteToSocket(t) == [t EXCEPT !.wr = IF t.socket = "open" THEN "waiting" ELSE "error"]

\* I2PConnect: the empty Send opens the stream.
I2PConnect(t) == Receive(StreamReceive([t EXCEPT !.conn = "up"]))

\* HandleReceived, and AsyncSend, which copies the data at once.
HandleReceived(t) ==
  CASE t.rd = "error" -> TerminateConnection([t EXCEPT !.rd = "none"])
    [] t.rd = "aborted" -> [t EXCEPT !.rd = "none"]
    [] t.rd = "data" /\ t.m_Stream ->
         [t EXCEPT !.rd = "none", !.toNet = @ \o t.m_Buffer, !.snd = "waiting"]
    [] t.rd = "data" /\ ~t.m_Stream -> [t EXCEPT !.rd = "none"]

\* The handler of AsyncSend.
HandleSent(t) ==
  IF t.snd = "done" THEN Receive([t EXCEPT !.snd = "none"])
  ELSE TerminateConnection([t EXCEPT !.snd = "none"])

\* Mutant: the next read of the stream starts before the write has ended.
HandleStreamReceiveAhead(t) ==
  CASE t.srd \in {"reset", "timed_out"} -> TerminateConnection([t EXCEPT !.srd = "none"])
    [] t.srd = "aborted" -> [t EXCEPT !.srd = "none"]
    [] OTHER -> StreamReceive(WriteToSocket([t EXCEPT !.srd = "none"]))

HandleStreamReceive(t) ==
  CASE t.srd \in {"reset", "timed_out"} -> TerminateConnection([t EXCEPT !.srd = "none"])
    [] t.srd = "aborted" -> [t EXCEPT !.srd = "none"]
    [] t.srd = "data" -> WriteToSocket([t EXCEPT !.srd = "none"])

HandleWrite(t) ==
  CASE t.wr = "error" -> TerminateConnection([t EXCEPT !.wr = "none"])
    [] t.wr = "aborted" -> [t EXCEPT !.wr = "none"]
    [] t.wr = "done" -> StreamReceive([t EXCEPT !.wr = "none"])

HandleConnect(t, ok) ==
  IF ok THEN Receive(StreamReceive([t EXCEPT !.conn = "up", !.socket = "open"]))
  ELSE TerminateConnection(t)

(***************************************************************************)
(* The client tunnel: TCPIPAcceptor, I2PClientTunnel and its handler.      *)
(***************************************************************************)
GetIdentHash(t) == [t EXCEPT !.ident = @ \/ t.known]

StartClient ==
  /\ tunnel.case.side = "client" /\ ~tunnel.started
  /\ tunnel' = GetIdentHash([tunnel EXCEPT !.started = TRUE, !.accepting = TRUE])

\* I2PTunnelConnection's constructor asks the socket for its remote endpoint
\* and throws if the application has reset it ("gone").  Kill has run by then;
\* AddHandler, I2PConnect and Done have not, and nothing knows the new stream.
\* The list keeps the handler, and the handler its socket, if it is still listed.
ConnectionThrows(t) ==
  LET kept == "handler" \in t.m_Handlers
  IN [t EXCEPT !.handler = IF kept THEN "stranded" ELSE "dead",
               !.socket = IF kept THEN @ ELSE "closed", !.stream = "open"]

\* CreateHandler and HandleAccept, which accepts again: a connection to an
\* unknown destination is closed, one to a known one waits for its stream.
HandleAccept(t) ==
  IF t.ident THEN [t EXCEPT !.m_Handlers = @ \cup {"handler"}, !.handler = "asking",
                            !.socket = "open"]
  ELSE [t EXCEPT !.rejected = TRUE]

Accepted ==
  /\ tunnel.case.side = "client" /\ tunnel.accepting /\ tunnel.handler = "none"
  /\ tunnel' = HandleAccept(GetIdentHash(tunnel))

\* Handle calls CreateStream, which calls back at once when it has the lease
\* set: if that throws, HandleAccept does not get to accept again.
AcceptedAndThrown ==
  /\ tunnel.case.side = "client" /\ tunnel.accepting /\ tunnel.handler = "none"
  /\ May(tunnel, "gone") /\ GetIdentHash(tunnel).ident
  /\ tunnel' = [ConnectionThrows(HandleAccept(GetIdentHash(tunnel))) EXCEPT !.accepting = FALSE]

\* After an error nothing accepts any more.
AcceptFails ==
  /\ tunnel.case.side = "client" /\ tunnel.accepting /\ May(tunnel, "accept")
  /\ tunnel' = [tunnel EXCEPT !.accepting = FALSE]

\* The address book learns the destination (external).
BookLearns ==
  /\ ~tunnel.known
  /\ tunnel' = [tunnel EXCEPT !.known = TRUE]

\* I2PClientTunnelHandler::HandleStreamRequestComplete and Terminate.
HandlerTerminates(t) ==
  [t EXCEPT !.handler = "dead", !.socket = "closed", !.m_Handlers = @ \ {"handler"}]

NewConnection(t) ==
  I2PConnect([t EXCEPT !.handler = "dead", !.stream = "open", !.m_Stream = TRUE,
                       !.m_Handlers = (@ \ {"handler"}) \cup {"conn"}])

StreamRequestComplete ==
  /\ tunnel.handler = "asking"
  /\ \/ tunnel' = NewConnection(tunnel)
     \/ May(tunnel, "gone") /\ tunnel' = ConnectionThrows(tunnel)
     \/ May(tunnel, "stream") /\ tunnel' = HandlerTerminates(tunnel)

\* TCPIPAcceptor::Stop and I2PClientTunnel::Stop.  A stranded handler is freed,
\* and its socket with it.
StopClient ==
  /\ tunnel.case.side = "client" /\ tunnel.started /\ May(tunnel, "stop")
  /\ tunnel.accepting \/ tunnel.m_Handlers # {}
  /\ LET stranded == tunnel.handler = "stranded"
     IN tunnel' = [tunnel EXCEPT !.accepting = FALSE, !.m_Handlers = {}, !.ident = FALSE,
                                 !.handler = IF stranded THEN "dead" ELSE @,
                                 !.socket = IF stranded THEN "closed" ELSE @]

(***************************************************************************)
(* The server tunnel: Start (with or without HandleResolve), HandleAccept, *)
(* CreateI2PConnection, Stop.                                              *)
(***************************************************************************)
StartServer ==
  /\ tunnel.case.side = "server" /\ ~tunnel.started
  /\ \/ tunnel' = [tunnel EXCEPT !.started = TRUE, !.accepting = TRUE]
     \/ May(tunnel, "resolve") /\ tunnel' = [tunnel EXCEPT !.started = TRUE]

\* A stream from a destination the access list leaves out is closed.
HandleIncoming ==
  /\ tunnel.case.side = "server" /\ tunnel.accepting
  /\ tunnel.conn = "none" /\ tunnel.stream = "none"
  /\ tunnel' = IF tunnel.case.allowed
               THEN [tunnel EXCEPT !.conn = "connecting", !.stream = "open",
                                   !.m_Stream = TRUE, !.m_Handlers = @ \cup {"conn"}]
               ELSE [tunnel EXCEPT !.stream = "closing", !.rejected = TRUE]

Connects ==
  /\ tunnel.conn = "connecting"
  /\ \E ok \in {TRUE} \cup {x \in {FALSE} : May(tunnel, "connect")} :
       tunnel' = HandleConnect(tunnel, ok)

\* Stop does not withdraw the acceptor it gave the destination.
StopServer ==
  /\ tunnel.case.side = "server" /\ tunnel.m_Handlers # {} /\ May(tunnel, "stop")
  /\ tunnel' = [tunnel EXCEPT !.m_Handlers = {}]

(***************************************************************************)
(* The operations under way come to an end (the socket's and the stream's  *)
(* own code is external), and their handlers run.                          *)
(***************************************************************************)
Chunk(s, from, n) == SubSeq(s, from + 1, from + n)

SocketHasData(n) ==
  /\ tunnel.rd = "waiting" /\ n \in 1..(Len(tunnel.case.app) - tunnel.taken)
  /\ tunnel' = [tunnel EXCEPT !.rd = "data", !.taken = @ + n,
                              !.m_Buffer = Chunk(tunnel.case.app, tunnel.taken, n)]

\* The application closes its side once it has sent everything, or fails.
SocketEnds ==
  /\ tunnel.rd = "waiting"
  /\ tunnel.taken = Len(tunnel.case.app) \/ May(tunnel, "read")
  /\ tunnel' = [tunnel EXCEPT !.rd = "error"]

\* async_send sends the first n octets of m_StreamBuffer, and reports success.
SocketWrites(n) ==
  /\ tunnel.wr = "waiting" /\ n \in 1..Len(tunnel.m_StreamBuffer)
  /\ n < Len(tunnel.m_StreamBuffer) => May(tunnel, "short")
  /\ tunnel' = [tunnel EXCEPT !.wr = "done",
                  !.toApp = @ \o SubSeq(tunnel.m_StreamBuffer, 1, n),
                  !.cut = @ \cup
                    (tunnel.given - Len(tunnel.m_StreamBuffer) + n + 1)..tunnel.given]

SocketWriteFails ==
  /\ tunnel.wr = "waiting" /\ May(tunnel, "write")
  /\ tunnel' = [tunnel EXCEPT !.wr = "error"]

StreamHasSent ==
  /\ tunnel.snd = "waiting" /\ tunnel.stream \in {"open", "closing"}
  /\ tunnel' = [tunnel EXCEPT !.snd = "done"]

StreamHasData(n) ==
  /\ tunnel.srd = "waiting" /\ tunnel.stream \in {"open", "closing"}
  /\ n \in 1..(Len(tunnel.case.net) - tunnel.given)
  /\ tunnel' = [tunnel EXCEPT !.srd = "data", !.given = @ + n,
                              !.m_StreamBuffer = Chunk(tunnel.case.net, tunnel.given, n)]

StreamIdle ==
  /\ tunnel.srd = "waiting" /\ tunnel.stream = "open" /\ May(tunnel, "idle")
  /\ tunnel' = [tunnel EXCEPT !.srd = "timed_out"]

\* The stream ends: reset by the remote after its data, or closed here.
StreamEnds ==
  /\ \/ tunnel.stream = "open" /\ tunnel.given = Len(tunnel.case.net)
     \/ tunnel.stream = "closing"
  /\ tunnel' = [tunnel EXCEPT
       !.stream = IF @ = "open" THEN "reset" ELSE "closed",
       !.snd = IF @ = "waiting" THEN "error" ELSE @,
       !.srd = IF @ # "waiting" THEN @ ELSE IF tunnel.stream = "open" THEN "reset" ELSE "aborted"]

HandlerRuns ==
  \/ tunnel.rd \in {"data", "error", "aborted"} /\ tunnel' = HandleReceived(tunnel)
  \/ tunnel.snd \in {"done", "error"} /\ tunnel' = HandleSent(tunnel)
  \/ tunnel.srd \in {"data", "reset", "timed_out", "aborted"}
       /\ tunnel' = HandleStreamReceive(tunnel)
  \/ tunnel.wr \in {"done", "error", "aborted"} /\ tunnel' = HandleWrite(tunnel)

I2PTunnelNext ==
  \/ StartClient \/ Accepted \/ AcceptedAndThrown \/ AcceptFails \/ BookLearns
  \/ StreamRequestComplete \/ StopClient
  \/ StartServer \/ HandleIncoming \/ Connects \/ StopServer
  \/ \E n \in 1..Len(tunnel.case.app) : SocketHasData(n)
  \/ \E n \in 1..Len(tunnel.case.net) : SocketWrites(n) \/ StreamHasData(n)
  \/ SocketEnds \/ SocketWriteFails \/ StreamHasSent \/ StreamIdle \/ StreamEnds \/ HandlerRuns

I2PTunnelSpec == I2PTunnelInit /\ [][I2PTunnelNext]_i2pTunnelVars

(***************************************************************************)
(* Properties.                                                             *)
(***************************************************************************)
I2PTunnelTypeOK ==
  /\ tunnel.case \in I2PTunnelCases /\ tunnel.m_Handlers \subseteq {"handler", "conn"}
  /\ tunnel.handler \in {"none", "asking", "stranded", "dead"}
  /\ tunnel.conn \in {"none", "connecting", "up", "dead"}
  /\ tunnel.socket \in {"none", "open", "closed"}
  /\ tunnel.stream \in {"none", "open", "closing", "reset", "closed"}
  /\ tunnel.rd \in {"none", "waiting", "data", "error", "aborted"}
  /\ tunnel.wr \in {"none", "waiting", "done", "error", "aborted"}
  /\ tunnel.snd \in {"none", "waiting", "done", "error"}
  /\ tunnel.srd \in {"none", "waiting", "data", "reset", "timed_out", "aborted"}

\* The places in net of what was written to the socket: in order, and nothing
\* that came before them is missing but what was cut.
PlacesOfToApp(f) ==
  /\ \A i \in DOMAIN tunnel.toApp : tunnel.toApp[i] = tunnel.case.net[f[i]]
  /\ \A i, j \in DOMAIN f : i < j => f[i] < f[j]
  /\ \A p \in 1..tunnel.given, i \in DOMAIN f :
       p <= f[i] => (p \in tunnel.cut <=> \A j \in DOMAIN f : f[j] # p)

\* HandleReceived and AsyncSend's handler, HandleStreamReceive and HandleWrite:
\* each direction has one buffer, and what leaves the tunnel is what came in,
\* in order and once; only what a short async_send left out is missing.
RelayedInOrder ==
  /\ tunnel.toNet \o (IF tunnel.rd = "data" /\ tunnel.m_Stream THEN tunnel.m_Buffer ELSE <<>>)
       \in {SubSeq(tunnel.case.app, 1, n) :
              n \in IF tunnel.conn = "dead" THEN 0..tunnel.taken ELSE {tunnel.taken}}
  /\ \E f \in [1..Len(tunnel.toApp) -> 1..tunnel.given] : PlacesOfToApp(f)

\* A connection that is up is read, or its data on the way, in both directions:
\* an error code that a handler passes over does not leave it half served.
UpIsServed ==
  tunnel.conn = "up" => /\ tunnel.rd # "none" \/ tunnel.snd # "none"
                        /\ tunnel.srd # "none" \/ tunnel.wr # "none"

\* I2PTunnelConnection::Terminate: whichever side ends, the other is closed
\* too, and until then the socket has one owner: the connection that relays it,
\* or the handler that asks for its stream or could not hand it over.
DeadIsReleased ==
  /\ tunnel.conn = "dead" => tunnel.socket = "closed"
  /\ tunnel.conn = "dead" => tunnel.stream \in {"closing", "reset", "closed"}
  /\ tunnel.socket = "open" =>
       (tunnel.handler \in {"asking", "stranded"}) # (tunnel.conn = "up")

\* AddHandler and Done: until the tunnel is stopped the service keeps exactly
\* the handlers that are at work, and the one whose hand-over threw because the
\* application had reset the socket.
KeepsLiveHandlers ==
  /\ "conn" \in tunnel.m_Handlers => tunnel.conn \in {"connecting", "up"}
  /\ "handler" \in tunnel.m_Handlers => tunnel.handler \in {"asking", "stranded"}
  /\ tunnel.handler = "stranded" =>
       "handler" \in tunnel.m_Handlers /\ May(tunnel, "gone") /\ tunnel.conn = "none"
  /\ ~May(tunnel, "stop") =>
       /\ tunnel.conn \in {"connecting", "up"} => "conn" \in tunnel.m_Handlers
       /\ tunnel.handler = "asking" => "handler" \in tunnel.m_Handlers

\* A connection is relayed in both directions, once and in order, until it ends;
\* then socket, stream and handler are let go together, unless the hand-over
\* threw: then all three stay until the tunnel stops.
I2PTunnelSafe ==
  /\ I2PTunnelTypeOK
  /\ RelayedInOrder
  /\ UpIsServed
  /\ DeadIsReleased
  /\ KeepsLiveHandlers
=============================================================================
