# Kovri: models, checks and proofs

TLA+ modules for kovri, a router of the anonymous network I2P written in C++
(`src/src/`). They model the control of its protocols, TLC checks them on
small instances, and TLAPS proves theorems about them for every value of the
constants. Paths below are relative to `src/src/`.

To check a run: `tlc -workers 2 -config Streaming_transfer.cfg MCStreaming`
(each run takes up to three and a half minutes on two cores).
To check the proofs: `tlapm StreamingProofs.tla`, and in the same way each module
whose name ends in `Proofs`. `PROJECT.json` lists every
run with its properties, the source lines of every definition, the hazards and
the theorems.

## 1. The system and its parts

A kovri process is a set of objects, most with a thread of their own:

| part | thread | talks to |
|---|---|---|
| `api/Streaming` | one io_service per destination | garlic messages through the destination's tunnels |
| `core/Destination`, `core/Garlic` | the same io_service; the tunnels thread calls in | tunnel pool, netDb floodfills |
| `core/tunnel/*` | the tunnels thread; pools are stopped by their owners | transports, destinations |
| `core/NetworkDatabase`, `NetDbRequests` | the netDb thread; callers from every thread | transports, tunnels |
| `core/transport/*` | one for `Transports`, one for NTCP, three for SSU, one for key pairs | everything, by posted calls |
| `api/I2PTunnel/*`, `client/*` | the io_service of their destination | streams |

An application writes to a socket; `I2PTunnel` copies it into a `Stream`; the
stream's packets are wrapped by `Garlic`, split by a `TunnelGateway` into
tunnel data messages, carried hop by hop by `Transports` over NTCP or SSU,
decrypted and put together by a `TunnelEndpoint`, unwrapped by `Garlic` and
given to the peer's stream. Tunnels live ten minutes, so that `Tunnels` and
`TunnelPool` keep building, testing and dropping them, and the destination
keeps publishing a LeaseSet that says through which of them it is reached.

### Streaming library (`api/Streaming`) - modelled
*State*: per stream the status, the window, `m_SentPackets`,
`m_SavedPackets`, `m_ReceiveQueue`, `m_SendBuffer`, sequence numbers, three
timers, one send handler; per destination the table of streams and the
acceptor. *Operations*: `Send`, `AsyncSend`, `AsyncReceive`, `ReadSome`,
`Cancel`, `Close`, the timer handlers, `HandleNextPacket`, `Stop`,
`SetAcceptor`. *Hard*: packets are lost, doubled and reordered; cancelled
timers whose handlers are already queued; SYNs that are sent again; a FIN
behind data that is not yet acknowledged. *Correct when*: the reader gets what
the writer wrote, once and in order; an acknowledged packet was received;
nothing is stranded in a buffer, no reader sleeps on data, no send handler is
forgotten; every send and every close comes to an end; what is queued for a
stream that was deleted runs out.

### Tunnel gateway and endpoint (`core/tunnel/TunnelGateway`, `TunnelEndpoint`) - modelled
*State*: the gateway's current tunnel data message, its room and the finished
ones; the endpoint's incomplete messages and its out-of-sequence fragments.
*Operations*: put, send, flush; handle a tunnel data message. *Hard*: the
boundaries at which a message is kept whole, split or moved; fragments in any
order and doubled. *Correct when*: no tunnel data message is overrun; nothing
but a whole message is handed on; what has arrived completely is handed on.

### Tunnels and pools (`core/tunnel/Tunnel`, `TunnelPool`, `TransitTunnel`, build records of `core/I2NPProtocol`) - modelled but for the choice of peers
*State*: the pending and the listed tunnels, each tunnel's state and age, each
pool's tunnels, tests and activity, the leases of its destination; at a hop the
transit tunnels and what each has collected. *Operations*: build, build reply,
test, test reply, recreate, expire, stop a pool; answer a build record, pass
tunnel data on, flush. *Hard*: a pool is stopped by another thread at any
moment; a build reply comes after its timeout; a failed tunnel revived by data;
records in shuffled order under the layers of all hops; batches in which
messages of several tunnels mix. *Correct when*: a pool holds only tunnels that
are alive, leases lead to them, pending tunnels end, a stopped pool is let go,
an established tunnel is a chain of agreeing hops, and what goes in comes out.

### SSU (`core/transport/SSUData`, `SSUSession`, `SSU`) - modelled but for pings, IPv6 and the unlocked reads of two threads
*State*: sessions by endpoint, their keys, timers and states; fragments sent
and received; introducers; peer tests by nonce. *Operations*: connect, the
three handshake packets, relay, data, resend, decay and cleanup timers, close,
peer test. *Hard*: packets of an unreliable network meet timers that were
cancelled too late; a packet is processed by the wrong session; the roles of a
peer test are found by nonce alone. *Correct when*: both ends of an established
session share its key, every session has a timer that ends it, a message is put
together whole, a fragment that was acknowledged is there, and a router behind
a firewall does not come to believe that it can be reached.

### NTCP and `Transports` (`core/transport/NTCPSession`, `Transports`) - modelled but for the key pair supplier
*State*: handshake phase, socket operations under way, send queue; peers with
their sessions, the attempt they are at and the delayed messages. *Hard*:
handlers that run after `Terminate`, writes that fail, blocks that are read in
any chunks; a session that comes up when its peer was just dropped; two
sessions with one peer. *Correct when*: one write at a time, messages come out
whole and in order, `Transports` hears of a session once in each way, messages
are handed over in order and to sessions that exist.

### Network database (`NetworkDatabase`, `NetDbRequests`, `RouterInfo`) - partly modelled
*State*: routers, floodfills, files, pending requests with the peers already
asked and who holds them. *Hard*: requests that are answered late or by nobody;
callbacks that must be called once although two threads hold the request and
call back without a lock; a list of floodfills that keeps what the table has
dropped; files that follow the table by a timer. *Correct when*: a requester is
told once and in the end, floodfills are asked one after the other, routers that
are named to others are known, and a restart loads what was there.

### Garlic and destinations (`Garlic`, `Destination`, `LeaseSet`) - modelled
*State*: garlic sessions with session tags used once, tags not yet confirmed,
the status of the LeaseSet update, the table from message to waiting session;
at the receiver the tags it holds and when they came in; in `Destination` the
published LeaseSet with its reply token, remote lease sets and requests.
*Operations*: wrap a message, confirm, clean up, handle a garlic message, mark
the LeaseSet as updated; publish, confirm, request, time out. *Hard*: a
confirmation that is late; tags that expire on both sides at different times;
an update while an earlier one waits; a handler queued for a wait that was
replaced. *Correct when*: the sender never uses a tag the receiver does not
have, nor one tag twice; the peer ends up with the newest LeaseSet; nothing
waits without a timer; who asks for a LeaseSet is answered once, in the end.

### Clients (`I2PTunnel`, `I2PService`, SOCKS, HTTP proxy) - modelled but for the HTTP server connection
*State*: one socket and one stream per connection, what is under way on each,
the phase of the request, the octets read, the reply buffer. *Hard*: two
asynchronous loops that close each other; requests in pieces with data behind
them; a reply buffer used by two writes; a socket that changes its owner.
*Correct when*: the request is read as it was sent, each octet is relayed once
and in order, the socket has one owner, both sides are closed once.

### Router context (`RouterContext`, `RouterInfo`, introducers of `SSU`) - modelled but for the keys file
*State*: capabilities, addresses and introducers that the router believes, has
published and has saved. *Hard*: they are changed by tests, timers, the command
line and a restart. *Correct when*: the three agree.

### Address book, I2PControl, daemon, reseed, utilities - not modelled
Section 6 says why. Cryptography, formatting, file access, UPnP and the system
services carry no protocol state, or are arithmetic on bit strings that TLC
cannot explore. The models take encryption and signatures as perfect.

## 2. Plan

| step | modules | composition and abstract specification | theorems | state |
|---|---|---|---|---|
| 1 | `Stream`, `Streaming`, `ByteStream` | two destinations and a network; implements `ByteStream` | types, no stranded packet, resend pending, no lost wake-up | done, proved |
| 2 | `TunnelBase`, `TunnelGateway`, `TunnelEndpoint`, `TunnelData` | gateway, network, endpoint | the gateway never overruns a tunnel data message, the endpoint hands on whole messages (`TunnelDataSafe`) | done, proved |
| 3 | `Tunnels`, `TunnelBuild`, `TunnelDispatch` | two threads and the peers; creator and hops; sessions, queue and transit tunnels | `TunnelsSafe`, `PoolTunnelsAreLive`, `TunnelBuildSafe`, `TunnelDispatchSafe` | done, proved |
| 4 | `SSUData`, `SSUSession`, `SSUPeerTest` | two or three routers over a lossy network | resend timer pending while messages are unacknowledged (`SentWillBeResent`), `SSUDataSafe` | done, proved |
| 5 | `Garlic`, `Destination` | two garlic destinations over a lossy network; a destination and its floodfills | the receiver holds every tag the sender may use; a tag is used once (proved); `DestinationSafe` | done, proved |
| 6 | `NTCPSession`, `Transports` | two ends of connections; sessions seen from outside | `TransportsSafe`, `NTCPSafe` | done, proved |
| 7 | `NetDb`, `RouterContext` | netDb thread, transports' thread, peers; restarts | `CalledBackOnce` | done, proved |
| 8 | `Proxy`, `I2PTunnel` | an application, a proxy or tunnel, a stream | `I2PTunnelSafe` | done, `I2PTunnel` proved |
| 9 | key pair supplier and `Queue` (lost wake-ups), flooding and LeaseSets of `NetworkDatabase`, `AddressBook` | | | left |

Runs are few and each asks one question of several parts; see section 4 for how
one run holds several.

## 3. The modules and the code

**`Stream`**. Class `Stream`. A stream is a record whose `m_*` fields are the
members of the class; each function is an operator from the record before to
the record after the call; `out` collects what is handed to the tunnels. A
boost timer is a pending wait, a number of handlers that were queued because
it fired, and a number queued because it was cancelled. Payload is a range of
the units the application wrote. Sequence numbers keep their width
(`ToUInt`, modulo `SeqnRange`): `m_LastReceivedSequenceNumber = -1` is sent as
the greatest number, which one finding is about.

**`Streaming`**. Two `StreamingDestination`s and the network. One action per
call of the application, per posted call, per timer and per packet; an action
is the whole handler, as it runs to its end on the io_service thread. `Send` is
the exception: it writes `m_SendBuffer` on the caller's thread and posts the
rest. A packet stays in the network until it is delivered, which models
delay and reordering; a packet that is never taken is a lost one; doubles come
from resends.

**`ByteStream`** says what one direction of a stream promises;
**`MCStreaming`** holds the refinement mapping, the symmetry set and the servers
of `streaming_servers`;
**`StreamingProofs`** the theorems.

**`TunnelBase`, `TunnelGateway`, `TunnelEndpoint`**. Blocks and fragments with
the sizes of the real headers, and the functions of the two classes.
**`TunnelData`** joins one gateway and one endpoint by a network. The sizes in
its cfg files are the real ones; only the set of lengths is small. What loops
over a batch or over the fragments of a message (`PutBatch`,
`HandleDecryptedTunnelDataMsg`) is a recursive function over prefixes, so that it
can be proved about. **`TrafficProofs`** holds the theorems about `TunnelData`,
`Destination` and `I2PTunnel`.

**`Tunnels`**. The `Tunnels` object, its pools and their destinations' leases.
The tunnels thread's periodic work is split at the points where another thread
can come in between: `step` says where it is. `StopTunnelPool` runs on the
owner's thread in the same way (`detaching`). Choice of peers, and whether they
answer, is arbitrary. **`TunnelsProofs`** holds the theorems about `Tunnels` and
`TunnelDispatch`.

**`Garlic`**. Two `GarlicDestination`s, one that sends and one that receives,
with the messages between them. The sender's sessions are objects: one is in
the table `m_Sessions`, and a stream keeps the session it once got after the
cleanup has taken it out of the table. A message is the tag it is encrypted
under, the new tags it carries, and its DeliveryStatus and LeaseSet cloves; a
tag is named by the message that carried it, its place and its creation time.
The list of tags keeps the order within a message and leaves open the order of
messages. `SetLeaseSetUpdated` and `UpdateLeaseSet` are two steps because the
tunnels thread takes them while the destination's thread goes on. The member
`m_LeaseSetUpdateMsgID`, which no constructor sets, starts with any value.
**`MCGarlic`** holds the symmetry set, **`GarlicProofs`** the theorems.

**`TunnelBuild`**. A creator that builds tunnels and the routers that are their
hops. A record wears the layers of encryption that were put on and not yet
taken off; only a bare record can be read, and what is read from any other is
random, agreement included. A message carries the hop it is sent to, which
stands for its message ID: the answer of the last hop has the one the creator
waits for, also if the creator is a hop itself. `Build` puts the layers on in advance,
`HandleBuildRequestRecords` is a hop's whole handler, transit tunnels carry
data afterwards. **`TunnelDispatch`** follows messages from the packets of
sessions through the queue and the batches of `Tunnels::Run` into transit
tunnels and out of them.

**`SSUData`**. Both ends of a session. Time counts down; handlers run in the
unit of time in which their timer expires, packets whenever they come, any
number of times. The record of an end has `m_ResendTimer` with the waits of two
handlers, because `ScheduleDecay` waits on the wrong timer. The ack of a fragment
beyond the first `AckBits` (seven in the code) clears a lower one, as in the loop
of `ProcessAcks`.
**`SSUSession`** is a set of routers with their session tables, the handshake
over packets named by type and key, introduction through a third router, batches
of packets and the timers. A packet whose MAC is wrong is processed undecrypted
on every session and may look like any packet (`GarbageTypes`); `GetIntroKey` is
null only for a router without an SSU address, which has no server either, so the
branch that deletes the session is not in the model.
**`SSUPeerTest`** is the test of three routers. A packet may come behind one of
another session in its batch, and is then given to that session
(`GivenToAnother`).

**`NTCPSession`**. Connections with two ends. An asynchronous operation is
pending, done or aborted, and its handler runs later; lengths of messages keep
their padding to AES blocks. A check that fails (the key that cannot be
made, the hash of phase 2, a signature) is the fault `check`. `NTCPServer` is
not in the repository and is modelled from its use. **`Transports`** is the job queue of `m_Service`, its
peers, and sessions, resolver and netDb as sources of jobs. The sessions of a
peer are a bag: no property depends on which of them is the front of the list,
and that none is listed twice is one of the properties. **`TransportsProofs`** holds
the theorems about both.

**`NetDb`**. RouterInfo objects shared by the table and the list of floodfills,
request objects shared by the table and the caller, files. `RequestDestination`
runs in the transports' thread as the code is locked: the request is entered, a
floodfill is chosen, then recorded and asked, or the request is found and called
back and after that erased; the netDb thread's handlers come in between. Those
handlers are one step each: wherever the other thread came between a handler's
choice of a floodfill and its record of it, or between its call and its erasing,
the result is that of one order of the two, or the same entry of the map is
erased twice (`EraseTwice`, after which no behaviour is defined and the process
ends). **`NetDbProofs`** holds the theorems.
**`RouterContext`** has what is believed, what is published and what is on disk,
the introducers' timer of `SSUServer`, and restarts. An introducer is published
at the SSU address of its RouterInfo and kept at the endpoint of its session,
which need not be the same (`AddFound`). **`RouterContextProofs`**
holds the theorems.

**`Destination`**. Publication and requests. A timer has a wait and a number of
handlers that are queued already: `cancel` does not reach them. What floodfills
answer is arbitrary; `lookups`, which only the liveness property looks at, holds
the lookups that honest ones have not answered yet.
**`Proxy`** is one connection to the SOCKS or HTTP proxy, its parser octet by
octet; **`I2PTunnel`** one connection of a client or server tunnel with the
service that keeps its handler. Both have the exceptions that leave a handler:
the constructor of `I2PTunnelConnection` asks the socket for its remote endpoint
and throws if the application has reset it (the fault `gone`), and `lexical_cast`
throws for a URL's port that does not fit an `int` (`PortTooLarge`).

**`MCTransport`, `MCRouter`, `MCTraffic`, `MCLiveness`** put
several of these into one run each. Their parts share no variable. A behaviour
picks one of them in `focus`, only that part moves, and the others rest in one
initial state: the states of the run are the sum and not the product of the
parts'. Every part gets a set of cases (which faults may happen, which messages
are sent), and a behaviour begins with one of them; the case is a field of the
part's state or fixes its initial state.

Names follow the source. Definitions called "mutant" are faulty variants of a
definition and are used by no specification: substituted for the original each
breaks a property, which shows that the property depends on that code.

## 4. Runs, bounds and what they show

| run | checks | bounds |
|---|---|---|
| `streaming_transfer` | `TypeOK`, `SavedBeyondGap`, `UnackedWillBeResent`, `DeliveredInOrder`, `AckedWasReceived`, `NacksFit` | 3 packets, window 2, one resend attempt |
| `streaming_close` | `SequenceNumberNamesOnePacket`, `ImplementsByteStream` | 2 writes, one close, before or after each other |
| `streaming_servers` | `NoLostWakeup`, `SendHandlerNotStranded` | one asynchronous sender; one server stream that is read and closed, or two that a resent SYN made |
| `streaming_two_way_ack` | violates `AckedWasReceived` | both sides write |
| `tunnel_batch` | violates `FirstFragmentHasFollowOn` | two messages, 300 and 800 bytes |
| `garlic_tags` | `TypeOK`, `TagsAreKnown`, `TagUsedOnce`, `UnconfirmedAreFound` | 3 messages, 2 sessions, 2 tags a message, 1 copy, 2 LeaseSets, 3 points of time |
| `garlic_leaseset` | violates `UpToDateHasLeaseSet` | 1 session, 2 LeaseSets |
| `tunnels_liveness` | `PendingEnds`, `StoppedPoolIsReleased` | two inbound, one outbound tunnel at a time, one pool |
| `liveness` | `AckedOrReset`, `CloseTerminates`, `DeletedComesToRest`; `RequesterIsTold`; `LeaseSetRequestEnds`; `SentIsSettled` | one packet and a FIN; two requesters and two floodfills; two callers and three honest floodfills; a message of two fragments |
| `transport_sessions` | `SSUDataSafe`, `SentWillBeResent`, `SSUSessionSafe`, `EstablishedSharesKey`, `PeerTestSafe`, `NTCPSafe`, `TransportsSafe` | up to three fragments, of which an ack names two, or two messages; two or three routers with two sessions each; one or two peer tests with two lost or repeated packets; one or two connections with two messages, cut, timed out or failing a check; one peer with three messages |
| `router_tables` | `TunnelsSafe`, `PoolTunnelsAreLive`, `NetDbSafe`, `CalledBackOnce`, `RouterContextSafe` | the tunnels above with two pools; three routers in two versions, two requesters, one restart; two introducers with two tags, one restart |
| `traffic` | `TunnelDataSafe`, `TunnelBuildSafe`, `TunnelDispatchSafe`, `DestinationSafe`, `ProxySafe`, `I2PTunnelSafe` | two messages of six lengths around the boundaries; up to four hops, every order of three records, a router that is two hops, two tunnels; two sessions and two transit tunnels; three callers and three floodfills; 21 requests; three octets each way |

The invariants of the last three runs are conjunctions of named parts, one
conjunction per component, each beginning with the component's type invariant;
TLC reports the conjunction, and the trace tells which part failed.

| invariant | parts |
|---|---|
| `SSUDataSafe` | `AckedFragmentIsKept`, `PutTogetherIntact` |
| `SSUSessionSafe` | `EstablishedWillEnd`, `WaitingWillFail` |
| `PeerTestSafe` | `SettledIsTrue`, `FirewalledIsNeverOK` |
| `NTCPSafe` | `OneWriteAtATime`, `ConnectedIsReading`, `ReceivedInOrder`, `ToldInOrder` |
| `TransportsSafe` | `HandedInOrder`, `DelayedHasNoSession`, `ListedSessionIsUp` |
| `TunnelsSafe` | `ListedOnce`, `LeasesAreUsable` |
| `NetDbSafe` | `AskedOnce`, `NamedIsKnown`, `FilesFollowTable` |
| `RouterContextSafe` | `PublishedIsBelieved`, `CapsAgree`, `IntroducersAgree` |
| `TunnelDataSafe` | `PayloadFits`, `HandedIntact`, `AllHanded` |
| `TunnelBuildSafe` | `RepliesAreReadable`, `EstablishedIsChained`, `PlainAtTheEnd` |
| `TunnelDispatchSafe` | `PassedOnInOrder`, `StrandedOnlyByBuild` |
| `DestinationSafe` | `WaitHasTimer`, `ConfirmedIsStored`, `AnsweredOnce` |
| `ProxySafe` | `ParsedAsSent`, `HandedWithItsData`, `HandedIsOpen`, `AnswersInOrder`, `FatalHasACause`, `DeadLeavesTheList` |
| `I2PTunnelSafe` | `RelayedInOrder`, `UpIsServed`, `DeadIsReleased`, `KeepsLiveHandlers` |

`PROJECT.json` names for each property a mutant of the code that violates it.

Why these are enough. *Streams*: a gap needs two packets beyond the next one,
a full window needs one more than the window, a resend that fails needs one
attempt, and the races of a timer need one handler queued while a wait is
pending; all of these happen with three packets. `SYN_MTU` and
`STREAMING_MTU` are one or two units, so that a write of three units takes
several packets. *Tunnel data*: the cases of `PutI2NPMsg` depend on the
remainder of a length; the set holds lengths just below, at and above each
case, up to three fragments, and message 2 starts at each place message 1 can
end. *Tunnels*: one inbound and one outbound tunnel are needed for a test, a
second inbound one for a recreation next to its original and for a slot that
is used again while something still refers to the old tunnel. Ages are counted
in ticks that keep the order of the real thresholds. *Garlic*: a tag needs one
message to bring it and one to use it, and a third to remove it, to use it
again or to run the receiver's cleanup in between; the three points of time are
the least at which a tag can be fresh, expired for the sender and expired for
the receiver. *SSU*: three fragments give a gap with a saved fragment behind it
and an attached one before it; crossing calls need two sessions in each of two
routers, an introduction three routers; with `AckBits` of 2 the third fragment's
ack is the first one that is misread; the peer test has three roles and its
confusions need one repeated packet or a second test. *NTCP*: lengths are
chosen so that blocks are padded by none, some and more than one block's rest,
and one message is too long. *Transports*: three messages to one peer are
enough for one that waits, one that is handed over with it and one that comes
later. *Destination*: three floodfills, two of which are named in one answer, are the
least with which one can answer late, after those it names were asked. *NetDb*: two floodfills are asked one after the other, and a router that
was a floodfill and is none is in the other case; an object of the list that
left the table needs a purge, so one orphan. *RouterContext*: two sessions may
have the same tag or endpoint, be introducers at either endpoint, and be replaced
with another tag. *Building*: three hops are the
least with a first, a middle and a last one, a fourth exceeds
`STANDARD_NUM_RECORDS`. *Proxy*: the cases go through every branch of the
parser, and a host name passes `MAX_SOCKS_HOSTNAME_SIZE` by one.

Deadlock is checked in `tunnels_liveness`: `Tunnels` never stops. In the others a
state without a successor is an idle stream, a gateway with nothing left to
send, or the end of the messages, requests, faults or time of an instance.

### Fairness
Stated in `MCLiveness` and `Tunnels`. *Streaming*: weak fairness of whatever
the io_service has queued, of timers that are pending, and strong fairness of
the case that a timer finds its packets older than `m_RTO` (time passes and
only a resend raises it). Nothing is assumed of the network: it may lose
everything, and then `MAX_NUM_RESEND_ATTEMPTS` ends the stream. *SSU data*:
handlers run, and time passes (strong fairness of the tick, because a packet
that is repeated for ever keeps a handler queued at almost every moment);
nothing of the network. *NetDb*: every request grows older, the transports'
thread goes on with the request it began, and `NetDb::Run` comes round to
`ManageRequests`, which it does every 15 seconds; replies need not come.
*Destination*: what is posted runs, and in the end the request timer expires or
a search reply is handled. Each message sent for a request cancels the timer and
starts it anew (`core/Destination.cpp:581,600`), so nothing says that the timer
expires while search replies go on; it expires when they stop. That they stop is not
fairness but a premise of `LeaseSetRequestEnds`: floodfills are honest, that is,
each lookup is answered once at most, by naming none of the floodfills the
lookup excludes. *Tunnels*: weak fairness
of the steps of both threads once they have started a pass; strong fairness of
`Tick` and of `ManagePendingTunnels`, which is to say that time passes and that
the tunnels thread comes round to `ManageTunnels`. The code does this every 15
seconds provided that its inner loop over the message queue ends now and then
(`core/tunnel/Tunnel.cpp:450`); this is an assumption about the load.

### Findings
1. **An ack of everything** (`streaming_two_way_ack`). `HandleNextPacket` calls
   `ProcessAck` before it records the packet. For the reply to a SYN this runs
   `SendBuffer` while `m_LastReceivedSequenceNumber` is -1, and what is sent
   acknowledges 0xFFFFFFFF. The peer forgets packets nobody received.
2. **A first fragment without a second** (`tunnel_batch`). When `PutI2NPMsg`
   moves a message to a fresh tunnel data message it does not ask again
   whether the message fits whole, and sends it as the first of fragments that
   never follow.
3. **A LeaseSet that is never sent** (`garlic_leaseset`). `MessageConfirmed`
   sets `eLeaseSetUpToDate` for the message that carried the last LeaseSet,
   also when `SetLeaseSetUpdated` has announced a newer one since: that one is
   then neither attached nor resubmitted.

Seen while modelling and written into the properties rather than reported as
runs: a SYN that is sent again is processed again by the stream that took it
(`DeliveredInOrder` is about streams that processed one SYN), or creates a
second stream, and `HandleNextPacket` does not compare the ID of the sender: two
server streams that a resent SYN made both write to one client stream
(`DeliveredInOrder` is about streams that have one peer); the endpoint keeps one out-of-sequence fragment per message, so
a second early one is dropped (`AllHanded` asks only for what it could hold);
a test that passes late revives a tunnel that the LeaseSet no longer lists;
`CleanupExpiredTags` "returns true if something left" (`core/Garlic.h:127`) but
answers true for a session with nothing left and false for one that waits for
its first confirmation (`SomethingLeft`), which therefore leaves the table
although a stream goes on using it; `HandleResendTimer` arms its timer again
when nothing is left to resend, and a stream that is closed while the handler is
queued keeps itself alive by it (the exception in `DeletedComesToRest`). And in
the parts added since:

- *SSU data*: a message whose fragments came in order is deleted by the next
  cleanup however young (`givenUp` in `AckedFragmentIsKept`); the list of
  received messages is cleared when the resend timer expires, or not at all; the
  loop of `ProcessAcks` counts only the fragments of the byte it looks at
  (`core/transport/SSUData.cpp:145-166`, against `:423-426`), so that the ack of
  fragment `n` stops the sending of fragment `n % 7`: a message of eight or more
  fragments may be left with a fragment that is never sent again
  (`AckedFragmentIsKept` is about what the ack is taken for).
- *SSU sessions*: a call that was answered has no timer until it is established
  (the exception in `WaitingWillFail`); a packet from an endpoint without a
  session is given to the previous session of its batch, and an established
  session may lose its key to it; a packet that is not decrypted may look like a
  `DeliveryStatus` and establish a session without an agreed key (what
  `EstablishedSharesKey` says is about packets that are decrypted); for a router
  that serves SSU the branch for a wrong MAC that deletes the session
  (`core/transport/SSUSession.cpp:249`) cannot be reached.
- *Peer test*: Alice's own packet to Charlie is dropped by a router that is
  still in the test; Bob's endpoint is taken for Charlie's once a session with
  him has gone; Charlie's call that comes behind Bob's report, or any packet of
  another session, in one batch is given to that session and lost, and an Alice
  that can be reached ends as firewalled (`misread` in `SettledIsTrue`).
- *NTCP*: a session that times out while it is being set up is never terminated
  (`ConnectedIsReading` is about connected ones).
- *NetDb*: `RequestComplete` calls back before it takes the lock, so that while
  the transports' thread fails a request the netDb thread can complete it: the
  callback is called twice (the exception in `CalledBackOnce`), and the entry of
  the map is erased twice, which is undefined. The first message of the
  transports' thread tests no bound and may go to a floodfill that the netDb
  thread has asked since it was chosen (`AskedOnce` is about the netDb thread); `SaveUpdated` forgets that an updated router was
  reported unreachable; list and table of floodfills drift apart.
- *Router context*: the introducers' timer is not armed again once it found the
  status to be OK (`core/transport/SSU.cpp:545`); a restart arms it. An introducer
  is added with the address of its RouterInfo and removed by the endpoint of its
  session (`:568-570`, `:561`): where they differ it stays published when its
  session is gone (`moved` in `IntroducersAgree`).
- *Destination*: `RequestLeaseSet` without a floodfill never answers
  (`unanswered` in `AnsweredOnce`); a newer LeaseSet that was held back by a
  publication under way is not published when that one is confirmed. Floodfills
  that name each other for ever keep a request alive: each answer starts the timer
  anew, and a floodfill named again is asked again without counting for the limit
  (`core/Destination.cpp:319-327`, `:581`, `:600`).
- *TunnelDispatch*: a build message right behind a tunnel's data leaves that data
  in the transit tunnel until its next message (`StrandedOnlyByBuild`).
- *Proxy*: after the failed write of an authentication reply the handler goes on
  without its socket (the cause named in `FatalHasACause`); a URL's port that does not fit
  an `int` throws out of `HandleSockRecv` and leaves a live handler that nothing
  will call, whose destruction throws (`api/I2PTunnel/HTTPProxy.cpp:188`); a
  hand-over that throws leaves a dead handler in the service's list.
- *I2PTunnel*: what a short `async_send` left out is lost (`RelayedInOrder`).
  `HandleStreamRequestComplete` kills the handler before it makes the connection,
  whose constructor throws if the application has reset the socket
  (`api/I2PTunnel/I2PTunnel.cpp:65`): the dead handler, its socket and the stream
  stay until the tunnel stops, and if the lease set was known, so that all this
  happens within `HandleAccept`, the acceptor does not accept again
  (`client/I2PService.cpp:100`).

## 5. Proofs

`StreamingProofs` proves, for every set of streams, every window, every number
of packets and every bound, with no assumption beyond those of module `Stream`
(identifiers are distinct, sizes are positive, the window bounds are ordered):

| theorem | says |
|---|---|
| `TypeCorrect` | `Spec => []TypeOK` |
| `SavedPacketsWait` | `Spec => []SavedBeyondGap` |
| `ResendIsPending` | `Spec => []UnackedWillBeResent` |
| `ReadersWake` | `Spec => []NoLostWakeup` |
| `Invariance` | `Spec => []IInv`, from which the others follow |

The invariant. None of the properties is inductive by itself. `Sound(st)` is
what every *function* of the class keeps: types, nothing taken from the send
buffer that was not written, saved packets beyond the gap, a new stream with
nothing sent, and SYN packets that bear number 0. The last is what makes the
reset of `m_LastReceivedSequenceNumber` by a repeated SYN harmless: it goes to
0 and the drain of the saved packets starts from there. `Awake(st)` is what
every *handler* keeps at its end but functions break on the way: `ProcessAck`
cancels the resend timer and only `SendBuffer` or the rescheduling behind it
arms it again. `IInv` says both of every stream and `SynIsFirst` of the
network. There is one lemma per operator of `Stream`, with what it keeps and
what it may change; an action cites the lemmas of the operators it is made of.

The second part of `StreamingProofs` goes on from there, with the same
assumptions:

| theorem | says |
|---|---|
| `OrderInvariance` | `Spec => []OInv` |
| `NumbersNameOnePacket` | `Spec => []SequenceNumberNamesOnePacket` |
| `HandlersAreServed` | `Spec => []SendHandlerNotStranded` |
| `NumberingInvariance` | `Spec => [](AInv /\ RInv)` |
| `ReadersGetThePrefix` | `Spec => []DeliveredInOrder` |

The argument. What an operator of `Stream` may do to a stream is a relation
between the record before and after. `Advances` says that each packet it adds,
to be sent, resent or to close, bears a number at or above the old
`m_SequenceNumber` and below the new one, and that two packets added with one
number are alike; so the packets in the network, which are older, cannot share a
number with it. `Serves` says of a stream that it waits for its peer while it has
sent nothing but the SYN (`AwaitsPeer`) and that a writer's handler has a posted
`SendBuffer` or an unacknowledged packet to bring it back (`HandlerServed`).
`ProcessAck` breaks it between two of its calls and `SendBuffer` restores it, so it
is claimed at the end of handlers only. Both compose, which is why the long
handlers need one lemma per operator they call.

`DeliveredInOrder` compares a sequence of payloads with what another stream
wrote, and would need an induction over both. It is avoided by naming the
function that the induction would build. `RInv` says that each stream has a
*numbering*: a place in its byte stream for every sequence number, each place
being where the one before ends. The packets of the stream that are in flight,
unacknowledged or saved by the other side lie where the numbering puts them, and
what a stream has processed is the beginning of a peer's numbering (`Heard`). A
batch of `SendBuffer` and a FIN continue it from `m_SequenceNumber` on, where no
packet has a place yet (`Continues`, `ExtendNumbering`); by `OInv` two packets with one number
are alike, so nothing can contradict it. `AInv` says which numbering
it is that a stream hears: the IDs that streams know and packets carry belong
together, and a stream is fed by the streams that name it (`Feeds`). `OnePeer`
makes that one stream, `syns <= 1` that it is heard from its first place once.

`GarlicProofs` proves, for any number of sessions, tags and messages and any
timeouts with `OUTGOING_TAGS_EXPIRATION_TIMEOUT <=
INCOMING_TAGS_EXPIRATION_TIMEOUT`:

| theorem | says |
|---|---|
| `TypeCorrect` | `Spec => []TypeOK` |
| `SentTagsAreKnown` | `Spec => []TagsAreKnown` |
| `TagIsUsedOnce` | `Spec => []TagUsedOnce` |
| `UnconfirmedCanBeConfirmed` | `Spec => []UnconfirmedAreFound` |

The argument. A tag enters a session's list when the DeliveryStatus of its
message arrives. That status was sent by a receiver which at that moment stored
every tag of the message (`Carried`, `ConfirmedKnown`), and which counts their
age from then, later than the sender does (`ReceivedLater`); so it still has
them as long as the sender may use them (`SessionTagsKnown`) and, the timeouts
being ordered, some time longer for a message on its way (`SentTagsKnown`). The
receiver also removes the tag of a message it reads. This hurts nobody because
that tag is in no session's list and under no other message (`TagUsedOnce`),
which in turn needs that no two lists share a tag (`Separate`) and that new
tags are new (`IssuedBefore`). `SameAge` is what keeps the owner's table in step
with the sessions when tags expire.

`SSUProofs` proves, for any messages of any number of fragments between two
ends, any `RESEND_INTERVAL`, `MAX_NUM_RESENDS` and size of the received list, and
a network that loses, repeats and reorders without a bound:

| theorem | says |
|---|---|
| `Invariance` | `DataSpec => []IInv` |
| `SafeAlways` | `DataSpec => []SSUDataSafe` |
| `ResendAlways` | `DataSpec => []SentWillBeResent` |

The argument. An acknowledgement in the network stands for something: `Meant`
says that an ack of a message means that it was put together, an ack of a
fragment that the receiver holds it, unless it gave the message up. What the
sender takes the ack for is the fragment's number modulo `AckBits`, which is the
fragment itself in messages of at most `AckBits` fragments; the theorem says no more
of longer ones, and the code does no more. `Kept` says
the same of what the sender no longer sends, and follows when such an ack is
read. That a message is put together intact needs the shape of an incomplete
one (`Assembling`): the attached fragments are the first ones in order, the
saved ones lie beyond a gap. `EndOK` holds `Armed`: while a message waits on an
open session, the timer has the resend wait or a resend handler is queued. It is
kept by the handlers that share the timer because a wait is cancelled only when
nothing is left to resend, or where it is set again.

`SSUProofs` also proves, for any routers that neither call nor introduce
themselves, any introducers and calls, any number of sessions and undecrypted
packets, and the same network:

| theorem | says |
|---|---|
| `SessionInvariance` | `SessionSpec => []SessionInv` |
| `SSUSessionsAreSafe` | `SessionSpec => []SSUSessionSafe` |
| `SessionsShareKeys` | `SessionSpec => EstablishedSharesKey` |

The argument. A key pair names the router that drew it. `KeyOK` says that a
session's key is made of an own pair and one of the router at the session's
endpoint, or of garbage; `ConfirmDataOK` says it of what a caller's signature is
verified over, `PairOK` of a caller's pair; `SentBy` says of a packet whose pairs
are in it and that its key was agreed on by its sender. So a `SessionConfirmed`
that verifies, and a `DeliveryStatus` that is decrypted, come from a router that
holds the key, and as the key names that router it is the one at the endpoint:
also when a batch gives the packet to the session of another peer, or when garbage
overwrote the key before. `PairOK` needs that an answer is found only by the call it belongs to
(`CreatedIsFromEndpoint`: the answer is encrypted with the intro key of who was
called). `TimerOK` carries the safety part; a caller that was answered is its
exception, since `ProcessSessionCreated` cancels the timer and sets no other.
That routers do not call themselves (`SSUSessionAssumption`) is what
`Transports::PostMessages` sees to, which handles such messages locally.
The steps are proved by what they make of one router's record: `Good` and
`Shares` compose, and `StepSound` puts the record back.

`SSUProofs` proves of peer tests, for any routers, tests, sessions between them,
firewalls and number of faults, if no two tests have one nonce
(`PeerTestAssumption`; the code draws 32 random bits):

| theorem | says |
|---|---|
| `PeerTestInvariance` | `PeerTestSpec => []PTInv` |
| `PeerTestsAreTrue` | `PeerTestSpec => []PeerTestSafe` |

The argument has two parts. `PTTrack` follows a test that nothing disturbs:
Alice's question is on its way (`Asked`), or Bob has chosen a Charlie, and then
the packets still in the network tell which parts Alice, Bob and Charlie have and
what Alice has concluded (`Underway`). Bob's report and Charlie's call race, so
that both orders are in the one predicate. A test one of whose packets was
given to another session (`misread`) is disturbed, as one is whose packet was
lost: the code keeps no promise of it. The second part holds for it as well. Packets of other tests change nothing
of it but the status, which never goes back to "Testing" nor from "OK" to
"Firewalled" (`OtherTest`). `PTShut` follows a router behind a firewall that
alone begins tests, whatever is repeated, late or forgotten: as long as its
sessions are up it sends to its peers and to itself only, so its firewall keeps
Charlie's call out. That needs to say who may be taken for an Alice or a Bob when
a repeated packet meets a router that has forgotten the test (`BobIsNear`,
`PacketIsNear`). All branches of `ProcessPeerTest` are reduced to one form, a part,
a status and what is sent (`Outcome`, `ProcessDoes`), so that each property is
proved of that form once.

`TrafficProofs` proves of a tunnel's gateway and endpoint, for any payload size
and message limit that `TunnelBase` assumes, any lengths, batches and numbers of
copies, and any loss and reordering:

| theorem | says |
|---|---|
| `TunnelDataIsSafe` | `Spec => []TunnelDataSafe` |

The argument. The inductive invariant is `TunnelDataIInv`, which is `World` of
the state. A fragment that was made is in the gateway's buffer, on its way or
at the endpoint, and in one place as long as nothing was doubled (`Distinct`,
`NetOK`, `Apart`). What was made of a block are its pieces: the whole, or a
first fragment and its follow-on fragments, which may be none (`tunnel_batch`
shows how) and otherwise add up to the block (`BlocksOK`, from
`PutGains`, which says of each branch of `PutI2NPMsg` what it adds to the
buffer). An incomplete message is the beginning of the block that it names and a
saved fragment is one that arrived (`Beginning`, `Saved`): with `BlocksOK` the
next fragment by number is then the next range of bytes, and the one marked as
last ends the block, so that what is handed on is intact (`AssembledTiles`)
whatever was lost or doubled. `AllHanded` needs `Progress`: a block of one
follow-on fragment has its incomplete message exactly when the first fragment
has arrived without the other, and its saved fragment in the other case. It
holds while nothing arrived twice. With a second follow-on fragment
it does not: only one fragment is saved for a message, and `TunnelDataSafe`
claims nothing of such messages but that they are intact. The three loops are
recursive functions; that each exists and obeys its recursion is proved first
(`EndpointFold`, `BatchFold`, `UsedFold`), and what a batch or a message does
follows by induction over its length (`BatchWorld`, `HandleWorld`).

`TrafficProofs` proves of a client destination, for any destinations, callers, floodfills, reply
tokens and order of callbacks, with no more than that nobody's callback is not a
caller's:

| theorem | says |
|---|---|
| `Soundness` | `DestinationSpec => []IInv` |
| `DestinationSafety` | `DestinationSpec => []DestinationSafe` |

The argument. `PublicationOK`, `TimersOK` and the callers' part are disturbed by
different actions: the relations `SameRequests` and `SamePublication` say of an
action which of them it leaves alone.
`AnsweredOnce` is a sum over the posted calls, the open requests and the calls
made. It is proved from where the one callback of a caller is (`CallerOK`): not
begun, at one place in the queue, in one request, or called; a request holds a
callback only of a caller that wants its destination (`CallbackOK`).

`TrafficProofs` proves of one connection of a client or server tunnel, for any
octets in both directions and any failures of socket, stream and resolver:

| theorem | says |
|---|---|
| `I2PTunnelIsSafe` | `I2PTunnelSpec => []I2PTunnelSafe` |

The argument. `Phase` ties the fields of a connection to how far it is: before
it exists nothing is read or written, and a dead one has no stream, no handlers
and a closed socket. The exception is a hand-over that threw (`stranded`): the handler is
dead, its socket and stream are open, it is still listed and there is no connection; a stop
ends it. `OpsOK` says which of its operations are pending together,
so that a handler that runs finds the buffer as the operation left it;
`HandlersOK` which handlers the service keeps. What the application sent is in
the stream, in `m_Buffer` or unread (`ToNetOK`). The way back is harder, because a
short `async_send` drops what it did not take. `ToAppOK` names
for each octet written to the socket its place in what the stream gave (`Placed`):
the places rise, and one that is passed over is in `cut` (`Counts`); what waits in
`m_StreamBuffer` are the last octets given. An octet that occurs several times
is no difficulty, since places and not octets are followed.

`TunnelsProofs` proves, for any slots, pools, quotas and ages with
`TUNNEL_EXPIRATION_THRESHOLD <= TUNNEL_RECREATION_THRESHOLD <
TUNNEL_EXPIRATION_TIMEOUT`:

| theorem | says |
|---|---|
| `Invariance` | `Spec => []IInv` |
| `PoolTunnelsLive` | `Spec => []PoolTunnelsAreLive` |
| `TunnelsAreSafe` | `Spec => []TunnelsSafe` |

The argument. The two threads meet in the middle of their work, so the
invariant says what each may count on wherever the other stands. `SlotOK`
follows one tunnel (a pending one is not listed until it is established),
`MemberOK` one tunnel as one pool sees it, `PoolOK` one pool (leases are held by
it; a pool that is being detached has no destination), and `StepOK` what the
tunnels thread carries from one of its steps to the next. Of the last the
important part is the tunnel between its insertion into the list and
`TunnelCreated`: it is established, listed once, in no pool yet, and its pool is
still one of `m_Pools`, also when the owner has begun to stop it.

`TunnelsProofs` proves of the queue of the tunnels thread, for any sessions,
packets and transit tunnels, with no more than that a session numbers its
messages as they come:

| theorem | says |
|---|---|
| `TunnelDispatchIsSafe` | `TunnelDispatchSpec => []TunnelDispatchSafe` |

The argument. `PassedOnInOrder` speaks of what a transit tunnel was given. To
be kept it needs the whole way of a message: what the tunnel was given, sent or
not, comes before what is in the queue, and both before what the session has not
read yet (`Order`, per session and kind, since a packet's messages are
sorted by kind before they are queued). `StrandedOnlyByBuild` needs to know which
tunnel the loop will flush next: nothing waits but in the one that `Run`
remembers as the last, and in those behind a build message (`Kept`). A round of
the loop is reduced to its effect on the record (`Handled`), for a tunnel's message and
for a build message; the sorting of a packet, a recursive function over its
prefixes, is proved to return messages of the packet in their order
(`OfKindIs`).

And of building a tunnel, for any number of hops, any order of the records, any
message that is lost, doubled or late, and routers that are several hops:

| theorem | says |
|---|---|
| `TunnelBuildIsSafe` | `TunnelBuildSpec => []TunnelBuildSafe` |

The argument. What a record wears is always one of two things: the encryptions of
the hops since its own answered it (`On`), or the decryptions the creator made in
advance for the hops still before its own (`Off`). A hop's encryption makes the
one longer and the other shorter (`LayersAre`), so that at hop `h` the record
`h`, and no other that could be taken for it, is bare (`OursIs`); what it becomes
and what the others become is what the next hop expects (`RecordIsAnswered`,
`RecordPasses`). The loops of the creator over the hops are recursive functions:
each equals its closed form, by induction over the hops (`SameSteps`). They show that
`Build` leaves what the first hop expects (`BuildRecordsOK`) and that
`HandleTunnelBuildResponse` reads from each record an answer of its hop
(`RepliesAreRead`). Tunnel data wears the same layers. An established tunnel is a
chain because an accepted answer is given with its transit tunnel (`AnswerOK`),
which is found by its ID alone. `TunnelBuildAssumption` says that record indices
and tunnels' names are distinct, as shuffled indices and random IDs are.

`TransportsProofs` proves, for any routers, posted messages, incoming
connections, lengths of the job queue and picks of the peer test:

| theorem | says |
|---|---|
| `Invariance` | `TransportsSpec => []IInv` |
| `TransportsAreSafe` | `TransportsSpec => []TransportsSafe` |

The argument. Messages are numbered as they are posted. `Ordered` says that
there is a number, `low`, such that what was handed over or waits at a peer is
not above it and what is in the queue is above it; what waits is above what was
handed over. A session says once that it is up and after that once that it is
down (`Announced`, `Withdrawn`), and is listed in between only, at its own peer
and once (`PeerListed`). With both, a job that connects a peer may hand over all
that waits for it.

The second part of `TransportsProofs` is about `NTCPSession`, for any
connections, messages of any positive length, chunks of any number of blocks,
limits of a message and choice of what fails:

| theorem | says |
|---|---|
| `NTCPIsSafe` | `NTCPSpec => []NTCPSafe` |

The argument. What an end sends is a row of items: its two phases of the
handshake, the time, our RouterInfo, then what is posted (`Items`). How many it
has begun follows from its phase and from what was posted (`SentItems`), and
those not written yet, in `m_SendQueue` or in the write under way, are the last
of them (`SendOK`). `Stream` lays the blocks of these items one behind the
other: `at[k]` of them are those of the first `k` items. `Flow` says that there
is a number `k` of items the other end has dealt with, and that `m_NextMessage`,
its read buffer and the wire hold what comes next, without a gap; as long as
sender and connection are up, this and what is not written are all. A cut or a
closed socket only drops the end of the row. Each way to change it has a lemma:
more is begun (`FlowGrows`), written (`FlowWritten`, with `Encoded`), cut off
(`FlowCut`), read (`FlowRead`), and dealt with in the handshake (`FlowTaken`) or
after it (`FlowDecrypted`, with `Decrypted`). Three facts are needed beside this. There is one write at a time,
because `m_IsSending` is set from the end of the handshake's last write to the
handler that finds `m_SendQueue` empty; a second write would put its blocks
anywhere. In the handshake each end reads one item in a phase, and `ReadIn`
says how many that makes; in phase 3 it is not a function of the phase, since a
server that is told of a long identity has the client's phase 3 and reads on, in
vain. And `Flow` is claimed only while the receiver is not terminated:
`Terminate` drops `m_NextMessage`, and a read that was already done is still
decrypted after it, from the middle of a message. `NTCPAssumption` says that
what is posted has a length and a connection of the run.

`NetDbProofs` proves, for any routers with any number of published versions,
floodfills, distances, callers, messages and restarts:

| theorem | says |
|---|---|
| `Invariance` | `NetDbSpec => []IInv` |
| `NetDbIsSafe` | `NetDbSpec => []NetDbSafe` |
| `CallersAreCalledOnce` | `NetDbSpec => []CalledBackOnce` |

The argument. The invariant has two parts that no handler mixes. `InfosOK`: an
object that the table has dropped stays in the list of floodfills only if it
was found unreachable, and an object of the table that does not wait to be saved
has its version on disk. `GetClosestFloodfill` passes over unreachable objects,
so what a reply names is in the table; this needs that `SaveUpdated` takes an
object out of the table after it has marked it, never before. `RequestsOK`: what a
request excludes is what the netDb thread asked and at most one floodfill more,
the one the transports' thread chose; the table has one request for a destination, and the callback of a
caller is in one request or has been called (`CallerOK`). Where the transports'
thread stands in `RequestDestination` is part of it: it holds one request at most, and between
its call and its erasing the entry it found is marked, called and perhaps gone
from the table. Handlers change the
requests in four ways, and there is one lemma for each: replaced one by one
(`MapFits`), let go of (`SettleSound`, which is where destructors call back),
completed (`CompleteSound`) and added (`AddFits`). `NetDbAssumption` says that
reseeded files and stored messages have published versions, that messages and
requests are about routers and destinations of the run, and that `Explore`
draws random idents.

`RouterContextProofs` proves, for any IPv4 addresses, introducers, command
lines, sessions, restarts and bounds:

| theorem | says |
|---|---|
| `RouterContextInvariance` | `RouterContextSpec => []IInv` |
| `RouterContextIsSafe` | `RouterContextSpec => []RouterContextSafe` |

The argument. The first address of a router is of SSU over IPv4 and no operation
removes it: `SetUnreachable` removes the first of NTCP, `DisableV6` the first of
IPv6 (`Anchored`). Introducers are therefore always found there, and
`WriteToStream` writes the capabilities of SSU somewhere, so `WriteRead` gets back
what was written. A router that is reachable has no introducers (`InfoOK`). That
is what makes `SetUnreachable`, which drops what is published and not
`m_Introducers`, and a restart, which drops `m_Introducers` and not what is
published, harmless: the first finds both empty, and `SetReachable` has emptied
the second. `KeepIntroducersOK` is about the loop of the timer, for lists of any
length and endpoints that occur more than once: those kept so far stand before
those not looked at yet (`Looked`), a kept one has a young session and the one
that is removed has not, so `RemoveIntroducer`, which removes the first with its
endpoint, removes the right one. That is so as long as what is published are the
endpoints of the sessions (`Listed`). In any case `Counted` holds: a removal by
the endpoint of one session takes at most one introducer, so that no fewer stay
published than are kept. `RouterContextAssumption` says that the
addresses of the command line are of IPv4.

Only model-checked. *Liveness* under fairness (`PendingEnds`,
`StoppedPoolIsReleased`, `AckedOrReset`, `CloseTerminates`, `RequesterIsTold`,
`LeaseSetRequestEnds`, `SentIsSettled`) is beyond the prover. So is the
refinement of `ByteStream`, whose mapping concatenates sequences of any length by
a library fold (the library's induction theorems take operators as parameters; a
fold that a module defines itself as a recursive function over prefixes can be
proved about, as the loops of `KeepIntroducers` and of a tunnel's two ends are, by
induction over sets of numbers). `AckedWasReceived` and `NacksFit` are no invariants for every
value of the constants: `streaming_two_way_ack` violates the first, an
acknowledgement of what never came takes the second with it, and where they hold
they do because only one side writes. Not tried: `ProxySafe`, whose parser is followed
octet by octet.

## 6. Not modelled, and hazards that no property is about

| part | why |
|---|---|
| `AddressBook` | a download by a detached thread; its hazards are a callback that writes into the stack of a thread that has returned (`core/AddressBook.cpp:485`) and a second `AsyncReceive` into the same buffer (`:516`): memory, not protocol |
| `Profiling`, peer selection | the models leave the choice of peers open, so that no property depends on it |
| `I2PControl`, `ClientContext`, daemon | requests answered from other parts, a fixed order of start and stop |
| `Reseed` | sequential I/O; what it leaves on disk is the initial state of `NetDb` |
| `Identity`, cryptography, base64, log, MTU, UPnP, configuration | no protocol state, bit strings, or calls of a library |
| `DHKeysPairSupplier`, `Queue` | left for step 9 of the plan, see below |
| `NetworkDatabase`: LeaseSets, flooding, publication | left for step 9 of the plan |
| `I2PTunnelConnectionHTTP` | rewrites one header of a text |

Hazards read in the code, beyond the ones `PROJECT.json` lists:

- `core/transport/Transports.cpp:86` (interleaving): the supplier's thread waits
  on m_Acquired without testing a condition: a notification of Acquire or of
  Stop between the size test and the wait is lost, and Stop's join then waits
  for ever. `core/util/Queue.h:186` has the same shape.
- `core/transport/Transports.cpp:110` (atomicity): Acquire tests the queue
  before it takes the lock: two sessions that acquire the last pair both pop it.
- `core/tunnel/Tunnel.cpp:450` (liveness): Run leaves its inner loop only when
  the queue is empty: steady traffic postpones ManageTunnels, and with it every
  timeout.
- `api/Streaming.cpp:742` (timeout_retry): HandleAckSendTimer ignores its
  error code: re-arming the timer runs the cancelled handler at once. A stream
  that waits for its SYN would be reset by the second early packet although
  the log promises 200 ms.
- `api/Streaming.cpp:610` (unreliable_delivery): the FIN is never resent:
  SendPacket stores it for retransmission only when the stream is Open, and
  SendClose is called in other states.
- `core/tunnel/TunnelEndpoint.cpp:172` (resource_bound): a message is dropped
  when its buffer would pass I2NP_MAX_MESSAGE_SIZE, which counts the tunnel
  data message the first fragment came in; the branch for a saved fragment has
  no such check.
- `core/tunnel/TunnelPool.cpp:315` (stale_state): a passed test sets a tunnel
  back to Established and does not update the LeaseSet.
- `core/tunnel/TunnelPool.cpp:225` (resource_bound): CreateTunnels counts
  established tunnels only: while builds are pending each pass orders the full
  number again.
- `core/I2NPProtocol.cpp:328` (numeric_edge): the limit on transit tunnels is
  tested with <=, so MAX_NUM_TRANSIT_TUNNELS + 1 are accepted.
- `core/tunnel/TunnelPool.cpp:110` (atomicity): m_LocalDestination is tested
  and then used on the tunnels thread while ClientDestination::Stop sets it to
  null on another.
- `core/Destination.cpp:366` (interleaving): SetLeaseSetUpdated and Publish
  run on the tunnels thread, HandleDeliveryStatusMessage and the confirmation
  timer on the destination's: m_LeaseSet, m_PublishReplyToken and
  m_ExcludedFloodfills are shared without a lock.
- `core/Destination.cpp:618` (timeout_retry): requestTime is set anew by every
  SendLeaseSetRequest, so the MAX_LEASESET_REQUEST_TIMEOUT branch of the
  timeout handler is never taken; the supply of floodfills ends a request.
- `core/transport/SSU.cpp:311` (interleaving): m_Sessions is searched on the
  two receive threads and on the transports thread without the mutex that its
  writers take.
- `core/transport/Transports.cpp:426` (partial_failure): a host name of an
  NTCP address that does not resolve removes the peer with its delayed
  messages although an SSU address was still to be tried.
- `core/transport/NTCPSession.cpp:749` (protocol_sequence): CreateMsgBuffer
  encrypts the message in place: a message that was queued for two peers (the
  flooding of a DatabaseStore queues one message three times) goes out
  encrypted twice.
- `core/transport/NTCPSession.cpp:640` (partial_failure): read_some without an
  error code throws out of HandleReceived: the session has neither a read
  pending nor been terminated.
- `core/NetworkDatabase.cpp:421` (resource_bound): total is decremented twice
  for a router that expires in this pass: it is unsigned and a wrapped total
  turns the expiration of the rest on.
- `core/NetworkDatabase.cpp:883` (numeric_edge): the random index of an empty
  m_RouterInfos is taken from 0 to 2^32-1.
- `core/NetworkDatabase.cpp:662` (numeric_edge): the reply tunnel of a
  DatabaseLookup is read at the flag's offset, one byte early.
- `core/NetworkDatabase.cpp:726` (protocol_sequence): the reply key is taken
  at 'excluded', which was advanced past the excluded peers only when nothing
  was found: a found RouterInfo is encrypted with bytes of the list.
- `core/NetworkDatabase.cpp:523` (other): the flooding of a DatabaseStore
  never fills 'excluded': all three copies go to the same floodfill.
- `core/NetworkDatabase.cpp:97` (interleaving): Stop clears the tables while
  the database thread still runs and walks them.
- `core/RouterContext.cpp:69` (crash_recovery): the keys are saved before
  router.info is written: after a crash in between Load finds the keys and
  takes a RouterInfo that was not read.
- `api/I2PTunnel/I2PTunnel.cpp:261` (liveness): a HTTP header that does not end
  in the first chunk is kept and nothing is written, so no HandleWrite comes
  and StreamReceive is not called again: the connection stalls.
- `core/Garlic.cpp:259` (partial_failure): when no inbound tunnel is there for
  the DeliveryStatus clove the new tags are sent, are never confirmed and are
  leaked; the LeaseSet is marked as submitted under a message id nobody
  confirms. (`garlic_tags` includes the case; no property is about the leak.)
- `core/Reseed.cpp:82` (numeric_edge): the random index of a reseed host
  includes the size of the list.
- `core/Profiling.cpp:201` (resource_bound): a rejected router is forgiven
  only after it was rejected more than ten times as often as it was taken; the
  counters of a router that is seldom drawn keep it out for as long.
