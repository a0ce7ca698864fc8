----------------------------- MODULE MCLiveness -----------------------------
(***************************************************************************)
(* Small instances for TLC of what must come to an end: the sends and the  *)
(* close of a stream, the requests of the network database, those of a     *)
(* client destination, the messages of an SSU session.  A behaviour picks  *)
(* one of them, the focus, and is fair to it; the others rest in an        *)
(* initial state.                                                          *)
(***************************************************************************)
EXTENDS Streaming, NetDb, Destination, SSUData, TLC

VARIABLE focus

\* NetDb: two requesters of one router that the floodfills may know or not, and
\* may be unreachable; one whose floodfills name each other; and one next to an
\* exploration that finds the same router.
Published == 1 :> <<TRUE, FALSE>> @@ 2 :> <<TRUE>> @@ 3 :> <<FALSE, TRUE>>
Metric ==
  [p \in (NDRouters \cup NDRandom) \X NDRouters |-> IF p[1] = p[2] THEN 0 ELSE p[2]]
Network(replies, reported, explored, wanted) ==
  [seeded |-> {1, 2}, stores |-> {<<3, 1>>}, lookups |-> {}, replies |-> replies,
   reported |-> reported, explored |-> explored, wanted |-> wanted, restarts |-> 0]
Networks ==
  {Network({<<3, {}>>}, {1, 2}, {}, "s" :> 3 @@ "t" :> 3),
   Network({<<3, {1}>>}, {}, {}, "s" :> 3),
   Network({<<9, {3}>>}, {1, 2}, {<<9>>}, "s" :> 3)}

\* Destination: two callers that want one LeaseSet, or one while tunnels come
\* and go.
Clients ==
  {[floodfills |-> {1, 2, 3}, updates |-> 1, publications |-> 0,
    wanted |-> [c \in callers |-> "x"], honest |-> TRUE, suggested |-> {{1, 4}, {2, 3}},
    tunnelsChange |-> callers = {"s"}, stops |-> callers # {"s"}] :
      callers \in {{"s"}, {"s", "t"}}}

\* SSUData: a message of two fragments, and one that establishes the session.
Sent(i, n, type) == [id |-> i, from |-> "b", n |-> n, type |-> type]
Loads ==
  {[messages |-> {Sent(2, 2, "DatabaseStore")}, established |-> {"b"}],
   [messages |-> {Sent(0, 1, "DeliveryStatus")}, established |-> {"b"}]}
LoadedMessages == UNION {l.messages : l \in Loads}

LiveInit ==
  /\ focus \in {"Streaming", "NetDb", "Destination", "SSUData"}
  /\ Init /\ acceptor
  /\ \E k \in NDCases : NetDbInitWith(k) /\ (focus = "NetDb" \/ k = CHOOSE x \in NDCases : TRUE)
  /\ \E k \in DCases :
       DestinationInitWith(k) /\ (focus = "Destination" \/ k = CHOOSE x \in DCases : TRUE)
  /\ \E k \in SSULoads : DataInitWith(k) /\ (focus = "SSUData" \/ k = CHOOSE x \in SSULoads : TRUE)

LiveNext ==
  /\ UNCHANGED focus
  /\ \/ focus = "Streaming" /\ Next /\ UNCHANGED <<netDbVars, destVars, dataVars>>
     \/ focus = "NetDb" /\ NetDbNext /\ UNCHANGED <<vars, destVars, dataVars>>
     \/ focus = "Destination" /\ DestinationNext /\ UNCHANGED <<vars, netDbVars, dataVars>>
     \/ focus = "SSUData" /\ DataNext /\ UNCHANGED <<vars, netDbVars, destVars>>

liveVars == <<focus, vars, netDbVars, destVars, dataVars>>

\* The io_service thread runs whatever is queued, timers fire, and a packet
\* that stays unacknowledged grows older than m_RTO, which only a resend
\* raises.  Nothing is assumed of the network.
StreamingIsFair ==
  \A s \in Streams :
    /\ WF_vars(focus = "Streaming" /\ (RunSendBuffer(s) \/ RunSendPacket(s)
                                          \/ RunAckSendTimer(s)))
    /\ WF_vars(focus = "Streaming" /\ ResendTimerExpires(s))
    /\ WF_vars(focus = "Streaming" /\ AckSendTimerExpires(s))
    /\ SF_vars(focus = "Streaming" /\ ResendAll(s))

\* Time passes for every request, the thread of the transports goes on with
\* what it began, and NetDb::Run comes round to ManageRequests.
TransportsThread ==
  ChooseFloodfill \/ SendRequest \/ FailRequest \/ EraseRequest \/ EraseTwice
NetDbIsFair ==
  /\ \A i \in NDIdents : WF_netDbVars(focus = "NetDb" /\ RequestAges(i))
  /\ WF_netDbVars(focus = "NetDb" /\ TransportsThread)
  /\ WF_netDbVars(focus = "NetDb" /\ ManageRequestsTimer)

\* The destination's thread runs what is posted, and a timer expires unless
\* search replies start it anew again and again.
SearchReply(x) == \E s \in dest.case.suggested : HandleDatabaseSearchReplyMessage(x, s)
DestinationIsFair ==
  /\ WF_destVars(focus = "Destination" /\ RequestLeaseSet)
  /\ \A x \in DDests :
       /\ WF_destVars(focus = "Destination" /\ (RequestTimerExpires(x) \/ SearchReply(x)))
       /\ WF_destVars(focus = "Destination" /\ HandleRequestTimoutTimer(x))

\* Time passes although packets keep coming in, and handlers run.  All packets
\* may be lost.
SSUDataIsFair ==
  /\ SF_dataVars(focus = "SSUData" /\ DataTick)
  /\ \A e \in SSUEnds :
       /\ WF_dataVars(focus = "SSUData" /\ ResendTimerExpired(e))
       /\ WF_dataVars(focus = "SSUData" /\ HandleDataResendTimer(e))
       /\ WF_dataVars(focus = "SSUData" /\ HandleDecayTimer(e))
       /\ WF_dataVars(focus = "SSUData" /\ HandleIncompleteMessagesCleanupTimer(e))

LiveSpec ==
  /\ LiveInit
  /\ [][LiveNext]_liveVars
  /\ StreamingIsFair
  /\ NetDbIsFair
  /\ DestinationIsFair
  /\ SSUDataIsFair
=============================================================================
