------------------------------- MODULE Proxy -------------------------------
(***************************************************************************)
(* One connection of a local application to the SOCKS proxy (SOCKS.cpp) or *)
(* to the HTTP proxy (HTTPProxy.cpp), from the moment TCPIPAcceptor has    *)
(* accepted it (I2PService.cpp) until its socket is closed or handed to an *)
(* I2PTunnelConnection.  The handler's callbacks run one at a time on the  *)
(* service of the local destination; what it starts (a read, a write, the  *)
(* request of a stream) ends later, in any order, or fails.                *)
(*                                                                         *)
(* Octets are numbers.  ".i2p" inside a host name is the one byte DotI2P;   *)
(* the URL of an HTTP request is one byte per part (see HTTPBytes).        *)
(***************************************************************************)
EXTENDS Integers, Sequences, SequencesExt

CONSTANTS MAX_SOCKS_HOSTNAME_SIZE,  \* 255: the largest value of one octet
          ProxyCases                \* what the application sends, and what may fail

ASSUME ProxyAssumption == MAX_SOCKS_HOSTNAME_SIZE \in Nat /\ MAX_SOCKS_HOSTNAME_SIZE >= 16

VARIABLE proxy

proxyVars == <<proxy>>

(***************************************************************************)
(* What the application sends: a case c is a record                        *)
(*   kind     "socks5", "socks4" or "http"                                 *)
(*   methods  the authentication methods it offers (SOCKS5)                *)
(*   cmd, addrtype, addr, host, port   the request (addr: IPv4, IPv6)      *)
(*   method, urlport, path, helper, version, newline    the request (HTTP) *)
(*   tail     the data it sends after the request                          *)
(*   waits    whether it waits for the answer to its methods, as the       *)
(*            protocol asks, before it sends the request                   *)
(*   faults   the kinds of operation that may fail                         *)
(***************************************************************************)
DotI2P == 46
SP == 32
CR == 13
LF == 10
Octets == MAX_SOCKS_HOSTNAME_SIZE + 1

Greeting(c) == IF c.kind = "socks5" THEN <<5, Len(c.methods)>> \o c.methods ELSE <<>>

\* The port of a URL is one byte: PortFits, or PortTooLarge for an int.
PortFits == 58
PortTooLarge == 59
URL(c) == c.host \o c.urlport \o c.path \o c.helper
HTTPBytes(c) ==
  c.method \o <<SP>> \o URL(c) \o <<SP>> \o c.version \o <<CR, c.newline>>

Request(c) ==
  CASE c.kind = "http" -> HTTPBytes(c)
    [] c.kind = "socks4" -> <<4, c.cmd>> \o c.port \o c.addr \o <<120, 0>>
                              \o (IF c.host = <<>> THEN <<>> ELSE c.host \o <<0>>)
    [] OTHER -> <<5, c.cmd, 0, c.addrtype>> \o c.addr
                  \o (IF c.addrtype = 3 THEN <<Len(c.host)>> \o c.host ELSE <<>>) \o c.port

Input(c) == Greeting(c) \o Request(c) \o c.tail

\* How much of it the application has sent by now.
SentBy(p) ==
  IF p.case.waits /\ p.case.kind = "socks5" /\ p.replies = <<>>
  THEN Len(Greeting(p.case)) ELSE Len(Input(p.case))

(***************************************************************************)
(* The handler.  recv is the read of the socket: none, one that waits, one *)
(* that failed, or the bytes it took, waiting for HandleSockRecv.  writes  *)
(* are the writes that have not ended, each with the handler called at its *)
(* end; all the SOCKS ones send m_response, whatever it holds by then.     *)
(***************************************************************************)
ProxyInitWith(c) ==
  proxy = [case |-> c, m_state |-> IF c.kind = "http" THEN "GET_METHOD" ELSE "GET_SOCKSV",
           m_parseleft |-> 1, m_socksv |-> 0, m_authchosen |-> 255, m_addrtype |-> 1,
           m_cmd |-> 0, m_port |-> 256 * 9 + 9, ip |-> 0, m_4aip |-> 0, name |-> <<>>,
           m_method |-> <<>>, m_url |-> <<>>, m_version |-> <<>>, m_request |-> <<>>,
           m_sock_buff |-> <<>>, parsed |-> 0, m_remaining_data |-> 0, stopped |-> FALSE,
           m_response |-> "none", recv |-> "waiting", taken |-> 0, writes |-> <<>>,
           replies |-> <<>>, m_sock |-> TRUE, m_stream |-> FALSE, creating |-> FALSE,
           dead |-> FALSE, listed |-> TRUE, closed |-> FALSE, handed |-> <<>>,
           writeFailed |-> FALSE, dropped |-> FALSE, threw |-> FALSE, fatal |-> "no"]

ProxyInit == \E c \in ProxyCases : ProxyInitWith(c)

\* Terminate (and Kill, Done): the socket is closed and the handler leaves
\* the service's list, once.
TerminateAlways(p) ==
  [p EXCEPT !.closed = @ \/ p.m_sock, !.m_sock = FALSE, !.m_stream = FALSE, !.dead = TRUE,
            !.listed = FALSE, !.recv = IF @ = "waiting" THEN "error" ELSE @,
            !.stopped = TRUE]
TerminateProxy(p) == IF p.dead THEN [p EXCEPT !.stopped = TRUE] ELSE TerminateAlways(p)

\* async_write on *m_sock: undefined when Terminate has reset m_sock.
WriteReply(p, response, handler) ==
  IF p.m_sock
  THEN [p EXCEPT !.m_response = response, !.writes = Append(@, handler), !.stopped = TRUE]
  ELSE [p EXCEPT !.fatal = "nosock", !.stopped = TRUE]

HTTPRequestFailed(p) == WriteReply(p, p.m_response, "SentHTTPFailed")

SocksRequestFailed(p) == WriteReply(p, "failed", "SentSocksFailed")

SocksRequestSuccess(p) == WriteReply(p, "ok", "SentSocksDone")

Socks5ChooseAuth(p) ==
  IF p.m_authchosen = 255
  THEN WriteReply(p, "unacceptable", "SentSocksFailed")
  ELSE [WriteReply(p, "auth", "SentSocksResponse") EXCEPT !.stopped = FALSE]

(***************************************************************************)
(* The SOCKS parser.                                                       *)
(***************************************************************************)
EnterStateWith(p, nstate, parseleft) ==
  LET q == [p EXCEPT !.m_state = nstate, !.m_parseleft = parseleft]
  IN CASE nstate = "GET_PORT" -> [q EXCEPT !.m_parseleft = 2]
       [] nstate = "GET_IPV4" -> [q EXCEPT !.m_addrtype = 1, !.ip = 0, !.m_parseleft = 4]
       [] nstate = "GET4_IDENT" -> [q EXCEPT !.m_4aip = p.ip]
       [] nstate \in {"GET4A_HOST", "GET5_HOST"} -> [q EXCEPT !.m_addrtype = 3, !.name = <<>>]
       [] nstate = "GET5_IPV6" -> [q EXCEPT !.m_addrtype = 4, !.m_parseleft = 16]
       [] OTHER -> q

EnterState(p, nstate) == EnterStateWith(p, nstate, 1)

\* One octet less to parse; the next state when none is left.
CountDown(p, nstate) ==
  LET left == (p.m_parseleft - 1) % Octets
  IN IF left = 0 THEN EnterState(p, nstate) ELSE [p EXCEPT !.m_parseleft = left]

GetCommand(p, b) ==
  IF b \in {1, 2} \/ (b = 3 /\ p.m_socksv = 5)
  THEN EnterState([p EXCEPT !.m_cmd = b], IF p.m_socksv = 5 THEN "GET5_GETRSV" ELSE "GET_PORT")
  ELSE SocksRequestFailed(p)

GetAuth(p, b) ==
  LET q == [p EXCEPT !.m_authchosen = IF b = 0 THEN 0 ELSE @,
                     !.m_parseleft = (@ - 1) % Octets]
      r == Socks5ChooseAuth(q)
  IN CASE q.m_parseleft # 0 -> q
       [] q.m_parseleft = 0 /\ r.stopped -> r
       [] OTHER -> EnterState(r, "GET5_REQUESTV")

Get4Host(p, b) ==
  CASE b = 0 -> EnterState(p, "DONE")
    [] b # 0 /\ Len(p.name) >= MAX_SOCKS_HOSTNAME_SIZE -> SocksRequestFailed(p)
    [] OTHER -> [p EXCEPT !.name = Append(@, b)]

GetAddrType(p, b) ==
  CASE b = 1 -> EnterState(p, "GET_IPV4")
    [] b = 4 -> EnterState(p, "GET5_IPV6")
    [] b = 3 -> EnterState(p, "GET5_HOST_SIZE")
    [] OTHER -> SocksRequestFailed(p)

GetIPv4(p, b) ==
  CountDown([p EXCEPT !.ip = @ * 256 + b], IF p.m_socksv = 5 THEN "GET_PORT" ELSE "GET4_IDENT")

\* The body of HandleData's loop.
SOCKSOctet(p, b) ==
  CASE p.m_state = "GET_SOCKSV" ->
         IF b \in {4, 5}
         THEN EnterState([p EXCEPT !.m_socksv = b], IF b = 4 THEN "GET_COMMAND" ELSE "GET5_AUTHNUM")
         ELSE TerminateProxy(p)
    [] p.m_state = "GET5_AUTHNUM" -> EnterStateWith(p, "GET5_AUTH", b)
    [] p.m_state = "GET5_AUTH" -> GetAuth(p, b)
    [] p.m_state = "GET_COMMAND" -> GetCommand(p, b)
    [] p.m_state = "GET_PORT" ->
         CountDown([p EXCEPT !.m_port = (@ * 256 + b) % 65536],
                   IF p.m_socksv = 5 THEN "DONE" ELSE "GET_IPV4")
    [] p.m_state = "GET_IPV4" -> GetIPv4(p, b)
    [] p.m_state = "GET4_IDENT" ->
         IF b # 0 THEN p
         ELSE EnterState(p, IF p.m_4aip = 0 \/ p.m_4aip > 255 THEN "DONE" ELSE "GET4A_HOST")
    [] p.m_state = "GET4A_HOST" -> Get4Host(p, b)
    [] p.m_state = "GET5_REQUESTV" ->
         IF b = 5 THEN EnterState(p, "GET_COMMAND") ELSE SocksRequestFailed(p)
    [] p.m_state = "GET5_GETRSV" ->
         IF b = 0 THEN EnterState(p, "GET5_GETADDRTYPE") ELSE SocksRequestFailed(p)
    [] p.m_state = "GET5_GETADDRTYPE" -> GetAddrType(p, b)
    [] p.m_state = "GET5_IPV6" -> CountDown(p, "GET_PORT")
    [] p.m_state = "GET5_HOST_SIZE" -> EnterStateWith(p, "GET5_HOST", b)
    [] p.m_state = "GET5_HOST" -> CountDown([p EXCEPT !.name = Append(@, b)], "GET_PORT")

\* Only CONNECT, to a host name with ".i2p" in it.
ValidateSOCKSRequest(p) ==
  IF p.m_cmd = 1 /\ p.m_addrtype = 3 /\ Contains(p.name, DotI2P) THEN p
  ELSE SocksRequestFailed(p)

(***************************************************************************)
(* The HTTP parser.                                                        *)
(***************************************************************************)
HTTPOctet(p, b) ==
  CASE p.m_state = "GET_METHOD" ->
         IF b = SP THEN [p EXCEPT !.m_state = "GET_HOSTNAME"]
         ELSE [p EXCEPT !.m_method = Append(@, b)]
    [] p.m_state = "GET_HOSTNAME" ->
         IF b = SP THEN [p EXCEPT !.m_state = "GET_HTTPV"] ELSE [p EXCEPT !.m_url = Append(@, b)]
    [] p.m_state = "GET_HTTPV" ->
         IF b = CR THEN [p EXCEPT !.m_state = "GET_HTTPVNL"]
         ELSE [p EXCEPT !.m_version = Append(@, b)]
    [] p.m_state = "GET_HTTPVNL" ->
         IF b = LF THEN [p EXCEPT !.m_state = "DONE"] ELSE HTTPRequestFailed(p)

\* ExtractRequest and HandleJumpServices: host and port are what stands before
\* the URL's first slash, the path what follows it up to the address helper (a
\* URL without a slash has none of them).  lexical_cast<int> throws if the port
\* does not fit, out of HandleSockRecv: nothing more is started.
Slash == 47
Helper == 63
FirstOr(s, b, default) == IF Contains(s, b) THEN SelectInSeq(s, LAMBDA x : x = b) ELSE default
ExtractRequest(p) ==
  LET server == SubSeq(p.m_url, 1, FirstOr(p.m_url, Slash, 1) - 1)
      fails == Contains(server, PortTooLarge)
  IN [p EXCEPT !.name = SelectSeq(server, LAMBDA b : b \notin {PortFits, PortTooLarge}),
               !.threw = @ \/ fails, !.stopped = @ \/ fails]
PathOf(p) ==
  SubSeq(p.m_url, FirstOr(p.m_url, Slash, Len(p.m_url) + 1),
         FirstOr(p.m_url, Helper, Len(p.m_url) + 1) - 1)

\* CreateHTTPRequest after ExtractRequest; rest are the octets after the
\* request line.  "Connection: close" is the one octet 99.
CreateHTTPRequest(p, rest) ==
  CASE p.stopped -> p
    [] ~p.stopped /\ p.m_version \notin {<<10>>, <<11>>} -> HTTPRequestFailed(p)
    [] OTHER -> [p EXCEPT !.m_request = p.m_method \o <<SP>> \o PathOf(p) \o <<SP>>
                                            \o p.m_version \o <<CR, LF, 99>> \o rest]

(***************************************************************************)
(* The callbacks.                                                          *)
(***************************************************************************)
\* HandleData: octets up to the first that ends the request or fails it.
HandleOctet(p, b) ==
  IF p.stopped \/ p.m_state = "DONE" THEN p
  ELSE [(IF p.case.kind = "http" THEN HTTPOctet(p, b) ELSE SOCKSOctet(p, b))
          EXCEPT !.parsed = @ + 1]

AtTheEnd(p) ==
  IF p.stopped \/ p.m_state # "DONE" THEN p
  ELSE IF p.case.kind = "http"
       THEN CreateHTTPRequest(ExtractRequest(p),
                              SubSeq(p.m_sock_buff, p.parsed + 1, Len(p.m_sock_buff)))
       ELSE ValidateSOCKSRequest([p EXCEPT !.m_remaining_data = p.parsed])

HandleData(p) ==
  AtTheEnd(FoldLeft(HandleOctet, [p EXCEPT !.parsed = 0, !.stopped = FALSE], p.m_sock_buff))

AsyncSockRead(p) == IF p.m_sock THEN [p EXCEPT !.recv = "waiting"] ELSE p

\* CreateStream asks the destination for a stream.
ReadOrCreate(q) ==
  CASE q.stopped -> q
    [] ~q.stopped /\ q.m_state = "DONE" -> [q EXCEPT !.creating = TRUE]
    [] OTHER -> AsyncSockRead(q)

Alive == proxy.fatal = "no"

\* The socket has n more octets for the read that waits for them.
DataArrives(n) ==
  /\ Alive /\ proxy.recv = "waiting"
  /\ n \in 1..(SentBy(proxy) - proxy.taken)
  /\ proxy' = [proxy EXCEPT !.recv = "data", !.taken = @ + n,
                 !.m_sock_buff = SubSeq(Input(proxy.case), proxy.taken + 1, proxy.taken + n)]

ReadFails ==
  /\ Alive /\ proxy.recv = "waiting" /\ "read" \in proxy.case.faults
  /\ proxy' = [proxy EXCEPT !.recv = "error"]

HandleSockRecv ==
  /\ Alive
  /\ \/ proxy.recv = "error" /\ proxy' = TerminateProxy([proxy EXCEPT !.recv = "none"])
     \/ proxy.recv = "data" /\ proxy' = ReadOrCreate(HandleData([proxy EXCEPT !.recv = "none"]))

\* The first write is at its end: what m_response holds now went out.
Reply(p) == IF Head(p.writes) = "SentHTTPFailed" THEN "500" ELSE p.m_response
Unwritten(p) == [p EXCEPT !.writes = Tail(@)]
Written(p) == [Unwritten(p) EXCEPT !.replies = Append(@, Reply(p))]

\* The connection is handed over: Kill, I2PTunnelConnection, AddHandler,
\* I2PConnect with the data, Done.  The connection's constructor throws if the
\* application has reset the socket ("gone"): the dead handler stays listed.
HandOver(p, data) ==
  IF p.dead THEN {p}
  ELSE {[p EXCEPT !.dead = TRUE, !.listed = FALSE,
                  !.handed = <<[data |-> data, from |-> p.taken]>>]} \cup
       {q \in {[p EXCEPT !.dead = TRUE, !.threw = TRUE]} : "gone" \in p.case.faults}

SentSocksDone(p) ==
  HandOver(p, SubSeq(p.m_sock_buff, p.m_remaining_data + 1, Len(p.m_sock_buff)))

\* Mutant: the socket is let go whatever the response was.
SentSocksResponseEnds(p) == TerminateProxy(p)
SentSocksResponse(p) == p

SentReply ==
  /\ Alive /\ proxy.writes # <<>> /\ ~proxy.closed
  /\ \/ /\ Head(proxy.writes) \in {"SentSocksFailed", "SentHTTPFailed"}
        /\ proxy' = TerminateProxy(Written(proxy))
     \/ Head(proxy.writes) = "SentSocksDone" /\ proxy' \in SentSocksDone(Written(proxy))
     \/ Head(proxy.writes) = "SentSocksResponse" /\ proxy' = SentSocksResponse(Written(proxy))

\* A write fails: every handler terminates.
ReplyFails ==
  /\ Alive /\ proxy.writes # <<>> /\ (proxy.closed \/ "write" \in proxy.case.faults)
  /\ proxy' = TerminateProxy([Unwritten(proxy) EXCEPT !.writeFailed = TRUE])

\* HandleStreamRequestComplete of the two proxies.
HandleStreamRequestComplete(p, stream) ==
  CASE p.case.kind = "http" /\ stream -> HandOver(p, p.m_request)
    [] p.case.kind = "http" /\ ~stream -> {HTTPRequestFailed(p)}
    [] p.case.kind # "http" /\ stream -> {SocksRequestSuccess([p EXCEPT !.m_stream = TRUE])}
    [] p.case.kind # "http" /\ ~stream -> {SocksRequestFailed(p)}

StreamRequested ==
  /\ Alive /\ proxy.creating
  /\ \E stream \in {TRUE} \cup {x \in {FALSE} : "stream" \in proxy.case.faults} :
       proxy' \in HandleStreamRequestComplete([proxy EXCEPT !.creating = FALSE], stream)

\* The destination stops: it frees its requests and calls nobody back.
StreamRequestDropped ==
  /\ Alive /\ proxy.creating /\ "stop" \in proxy.case.faults
  /\ proxy' = [proxy EXCEPT !.creating = FALSE, !.dropped = TRUE]

\* The service stops: ClearHandlers.
StopService ==
  /\ Alive /\ proxy.listed /\ "stop" \in proxy.case.faults
  /\ proxy' = [proxy EXCEPT !.listed = FALSE]

\* The last reference goes: the destructor terminates a handler that is not
\* dead, and Done(shared_from_this()) throws there.
Destroyed ==
  /\ Alive /\ ~proxy.listed /\ ~proxy.creating /\ proxy.writes = <<>> /\ proxy.recv = "none"
  /\ proxy' = IF proxy.dead THEN [proxy EXCEPT !.fatal = "freed"]
              ELSE [TerminateProxy(proxy) EXCEPT !.fatal = "destroyed"]

ProxyNext ==
  \/ \E n \in 1..Len(Input(proxy.case)) : DataArrives(n)
  \/ ReadFails \/ HandleSockRecv \/ SentReply \/ ReplyFails
  \/ StreamRequested \/ StreamRequestDropped \/ StopService \/ Destroyed

(***************************************************************************)
(* Properties.                                                             *)
(***************************************************************************)
ProxyTypeOK ==
  /\ proxy.case \in ProxyCases
  /\ proxy.recv \in {"none", "waiting", "error", "data"}
  /\ proxy.m_parseleft \in 0..(Octets - 1)
  /\ proxy.m_port \in 0..65535 /\ proxy.taken \in 0..Len(Input(proxy.case))
  /\ proxy.parsed \in 0..proxy.taken
  /\ Len(proxy.writes) <= 2 /\ Len(proxy.handed) <= 1
  /\ proxy.fatal \in {"no", "nosock", "destroyed", "freed"}

\* What the parser made of the octets is what the application asked for,
\* however the socket cut them into reads.
Wanted(p) ==
  IF p.case.kind = "http"
  THEN /\ p.m_method = p.case.method /\ p.m_url = URL(p.case)
       /\ p.m_version = p.case.version
  ELSE /\ p.m_cmd = p.case.cmd /\ p.m_port = p.case.port[1] * 256 + p.case.port[2]
       /\ p.m_addrtype = p.case.addrtype
       /\ p.m_addrtype = 3 => p.name = p.case.host

\* SOCKS.cpp HandleData and HTTPProxy.cpp HandleData: the request a complete
\* parse holds is the one the application sent, whatever the sizes of the
\* reads, and the octets after it are its data.
ParsedAsSent ==
  proxy.m_state = "DONE" /\ proxy.case.newline = LF =>
    /\ Wanted(proxy)
    /\ ~proxy.stopped /\ proxy.case.kind # "http" =>
         proxy.taken - (Len(proxy.m_sock_buff) - proxy.m_remaining_data)
           = Len(Greeting(proxy.case)) + Len(Request(proxy.case))

TailOf(p) == SubSeq(Input(p.case), p.handed[1].from + 1, Len(Input(p.case)))
Line(c) == c.method \o <<SP>> \o c.path \o <<SP>> \o c.version \o <<CR, LF, 99>>

\* SentSocksDone and HandleStreamRequestComplete: the tunnel connection that
\* takes the socket over sends the application's data from its first octet:
\* the ones the proxy had already read, and the rest when it reads the socket.
HandedWithItsData ==
  proxy.handed # <<>> =>
    /\ Wanted(proxy) /\ Contains(proxy.name, DotI2P)
    /\ proxy.handed[1].data \o TailOf(proxy)
         = (IF proxy.case.kind = "http" THEN Line(proxy.case) ELSE <<>>) \o proxy.case.tail

\* Kill (I2PService.h): the socket has one owner; one that was handed over is
\* not closed by the handler, whichever callbacks and the destructor still run.
HandedIsOpen == proxy.handed # <<>> => ~proxy.closed

\* m_response is one buffer for all the replies: an application that waits for
\* each answer reads the answers the handler gave, in their order.
AnswersInOrder ==
  proxy.case.kind = "socks5" /\ proxy.case.waits =>
    \/ proxy.replies = <<>>
    \/ proxy.replies[1] = "unacceptable" /\ Len(proxy.replies) = 1
    \/ proxy.replies[1] = "auth" /\ Tail(proxy.replies) \in {<<>>, <<"ok">>, <<"failed">>}

\* The handler is not used without its socket unless a write had failed while its
\* request was under way.  Alive, it always has an operation that will call it
\* back, so it is not destroyed; but for a request of a stream that the
\* destination dropped, and for a URL whose port threw.
FatalHasACause ==
  /\ proxy.fatal = "nosock" => proxy.writeFailed
  /\ ~proxy.dead /\ Alive =>
       \/ proxy.recv # "none" \/ proxy.writes # <<>> \/ proxy.creating
       \/ proxy.dropped \/ proxy.threw
  /\ proxy.fatal = "destroyed" => proxy.dropped \/ proxy.threw

\* A dead handler leaves the service's list and lets go of its socket, closed
\* or handed over, unless the hand-over threw: then both stay.
DeadLeavesTheList ==
  proxy.dead => \/ ~proxy.listed /\ (proxy.closed \/ proxy.handed # <<>>)
                \/ proxy.threw /\ proxy.handed = <<>> /\ ~proxy.closed

\* A proxy reads the request that was sent, answers in order, and hands the open
\* socket over with all its data, whatever fails on the way.
ProxySafe ==
  /\ ProxyTypeOK
  /\ ParsedAsSent
  /\ HandedWithItsData
  /\ HandedIsOpen
  /\ AnswersInOrder
  /\ FatalHasACause
  /\ DeadLeavesTheList
=============================================================================
