---------------------------- MODULE Destination ----------------------------
(***************************************************************************)
(* A client destination (core/Destination.cpp, with LeaseSet.cpp and       *)
(* Datagram.cpp): it publishes its own LeaseSet to floodfills and asks     *)
(* floodfills for the LeaseSets of remote destinations, on behalf of       *)
(* streams and datagrams that wait for them.                               *)
(*                                                                         *)
(* Handlers run one at a time in the thread of m_Service; SetLeaseSet-     *)
(* Updated comes from the thread of the tunnels and RequestDestination     *)
(* from any thread.  A timer that has expired puts its handler in the      *)
(* service's queue, where a later cancel or a new expiry no longer reaches *)
(* it: a handler can run for a wait that was replaced.                     *)
(***************************************************************************)
EXTENDS Integers, Sequences, FiniteSets

CONSTANTS DDests,           \* remote destinations
          DFloodfills,      \* floodfills, numbered by their distance
          DCallers,         \* streams and datagrams to be opened or sent
          DNobody,          \* in place of a caller: no callback
          MAX_NUM_FLOODFILLS_PER_REQUEST,
          DCases            \* situations, records of
                            \*   floodfills  those the netDb knows
                            \*   updates, publications  bounds on either
                            \*   wanted      the destination each caller wants
                            \*   suggested   what floodfills name in search replies
                            \*   honest      a lookup is answered once, and none of
                            \*               the floodfills it excludes is named
                            \*   tunnelsChange, stops  whether these happen

ASSUME DestinationAssumption ==
    /\ DNobody \notin DCallers
    /\ \A c \in DCases : /\ c.floodfills \subseteq DFloodfills /\ c.updates \in Nat
                         /\ DOMAIN c.wanted \subseteq DCallers
                         /\ \A x \in DOMAIN c.wanted : c.wanted[x] \in DDests

VARIABLE dest

destVars == <<dest>>

Timer == [armed |-> FALSE, queued |-> 0]
Armed(t) == [t EXCEPT !.armed = TRUE]          \* expires_from_now, async_wait
Cancelled(t) == [t EXCEPT !.armed = FALSE]
Waiting(t) == t.armed \/ t.queued > 0
MaxQueued == 2                                 \* bound on stale handlers

NoRequest == [open |-> FALSE, callback |-> DNobody, excluded |-> {}]

DestinationInitWith(c) ==
    dest = [case |-> c, running |-> TRUE, tunnels |-> TRUE,
            leaseSet |-> 0, token |-> 0, tokens |-> 0, publishTimer |-> Timer,
            excludedFloodfills |-> {}, stores |-> {}, statuses |-> {},
            stored |-> {}, confirmed |-> {},
            posted |-> <<>>, begun |-> {}, calls |-> [x \in DCallers |-> 0], unanswered |-> {},
            remote |-> [x \in DDests |-> "none"],
            requests |-> [x \in DDests |-> NoRequest],
            requestTimer |-> [x \in DDests |-> Timer],
            lookups |-> [x \in DDests |-> {}]]

DestinationInit == \E c \in DCases : DestinationInitWith(c)

\* netdb.GetClosestFloodfill
ClosestFloodfill(d, excluded) ==
    LET left == d.case.floodfills \ excluded
    IN {f \in left : \A g \in left : f <= g}

(***************************************************************************)
(* Publishing the LeaseSet                                                 *)
(***************************************************************************)

\* ClientDestination::Publish: nothing while a publication is unconfirmed.
Publish(d) ==
    IF d.leaseSet = 0 \/ d.token # 0 \/ ~d.tunnels THEN d
    ELSE LET floodfill == ClosestFloodfill(d, d.excludedFloodfills)
         IN IF floodfill = {} THEN [d EXCEPT !.excludedFloodfills = {}]
            ELSE [d EXCEPT !.excludedFloodfills = @ \cup floodfill,
                           !.token = d.tokens + 1, !.tokens = @ + 1,
                           !.publishTimer = Armed(@),
                           !.stores = @ \cup {d.tokens + 1}]

\* Called by the tunnel pool when an inbound tunnel comes or goes.
DestLeaseSetUpdated ==
    /\ dest.running
    /\ dest.leaseSet < dest.case.updates
    /\ dest' = Publish([dest EXCEPT !.leaseSet = @ + 1])

PublishTimerExpires ==
    /\ dest.publishTimer.armed
    /\ dest.publishTimer.queued < MaxQueued
    /\ dest' = [dest EXCEPT !.publishTimer = [armed |-> FALSE, queued |-> @.queued + 1]]

HandlePublishConfirmationTimer ==
    /\ dest.running
    /\ dest.publishTimer.queued > 0
    /\ dest.tokens < dest.case.publications
    /\ LET ran == [dest EXCEPT !.publishTimer.queued = @ - 1]
       IN dest' = IF dest.token = 0 THEN ran ELSE Publish([ran EXCEPT !.token = 0])

\* Mutant: any delivery status confirms the publication that is waiting.
ConfirmAny(d, token) ==
    IF d.token = 0 THEN d
    ELSE [d EXCEPT !.excludedFloodfills = {}, !.token = 0, !.confirmed = @ \cup {d.token}]

\* ClientDestination::HandleDeliveryStatusMessage; the timer stays armed.
Confirm(d, token) ==
    IF d.token # token THEN d
    ELSE [d EXCEPT !.excludedFloodfills = {}, !.token = 0, !.confirmed = @ \cup {d.token}]

HandlePublishConfirmation(token) ==
    /\ dest.running
    /\ token \in dest.statuses
    /\ dest' = Confirm([dest EXCEPT !.statuses = @ \ {token}], token)

\* External: the floodfill stores the LeaseSet and answers through a tunnel.
FloodfillStores(token) ==
    /\ token \in dest.stores
    /\ dest' = [dest EXCEPT !.stores = @ \ {token}, !.stored = @ \cup {token},
                            !.statuses = @ \cup {token}]

(***************************************************************************)
(* Requests for remote LeaseSets                                           *)
(***************************************************************************)
CallDone(d, caller) ==
    IF caller = DNobody THEN d ELSE [d EXCEPT !.calls[caller] = @ + 1]

\* External: the lookups that floodfills were sent, with the floodfills that
\* each excludes.  They matter to floodfills that are honest.
Lookups(d, x, F) ==
    IF d.case.honest
    THEN {<<f, d.requests[x].excluded \cup {g \in F : g <= f}>> : f \in F}
    ELSE {}

\* Mutant: the request is sent without arming its timer again.
SendUntimed(d, x, F) ==
    [d EXCEPT !.requests[x].excluded = @ \cup F, !.requestTimer[x] = Cancelled(@),
              !.lookups[x] = @ \cup Lookups(d, x, F)]

\* ClientDestination::SendLeaseSetRequest to each of the floodfills F, when the
\* pool has tunnels.
SendLeaseSetRequest(d, x, F) ==
    [d EXCEPT !.requests[x].excluded = @ \cup F, !.requestTimer[x] = Armed(@),
              !.lookups[x] = @ \cup Lookups(d, x, F)]

\* The callback, then delete (which cancels the timer) and erase.
EndRequest(d, x) ==
    CallDone([d EXCEPT !.requests[x] = NoRequest, !.requestTimer[x] = Cancelled(@)],
             d.requests[x].callback)

\* IsReady: a LeaseSet with live leases and an outbound tunnel.
IsReady(d) == d.leaseSet > 0 /\ d.tunnels

\* FindLeaseSet, then RequestDestination for CreateStream and SendDatagramTo.
Begin(caller) ==
    /\ dest.running
    /\ caller \in DOMAIN dest.case.wanted \ dest.begun
    /\ LET d == [dest EXCEPT !.begun = @ \cup {caller}]
       IN dest' = IF \/ dest.remote[dest.case.wanted[caller]] = "live"
                     \/ ~IsReady(dest)
                  THEN CallDone(d, caller)
                  ELSE [d EXCEPT !.posted = Append(@, caller)]

\* ClientDestination::RequestLeaseSet, posted to the service.  Without a
\* floodfill the callback is neither called nor kept.
RequestLeaseSet ==
    /\ dest.running
    /\ dest.posted # <<>>
    /\ LET caller == Head(dest.posted)
           x == dest.case.wanted[caller]
           d == [dest EXCEPT !.posted = Tail(@)]
           floodfill == ClosestFloodfill(dest, {})
       IN dest' = IF floodfill = {} THEN [d EXCEPT !.unanswered = @ \cup {caller}]
                  ELSE IF dest.requests[x].open \/ ~dest.tunnels THEN CallDone(d, caller)
                  ELSE SendLeaseSetRequest(
                          [d EXCEPT !.requests[x] = [NoRequest EXCEPT !.open = TRUE,
                                                                      !.callback = caller]],
                          x, floodfill)

\* A DatabaseStore for x.  One that fails its verification makes the known
\* LeaseSet forgotten, one that holds no LeaseSet leaves it; both end the
\* request as well.
HandleDatabaseStoreMessage(x, content) ==
    /\ dest.running
    /\ LET d == [dest EXCEPT !.remote[x] = CASE content = "LeaseSet" -> "live"
                                             [] content = "invalid" -> "none"
                                             [] OTHER -> @]
       IN dest' = IF d.requests[x].open THEN EndRequest(d, x) ELSE d

\* External: an honest floodfill answers a lookup that it was sent.
LookupsLeft(x, suggested) ==
    IF ~dest.case.honest THEN {dest.lookups[x]}
    ELSE {dest.lookups[x] \ {q} : q \in {r \in dest.lookups[x] : r[2] \cap suggested = {}}}

\* A search reply: every suggested floodfill the netDb knows is asked, one that
\* was asked before included, and the timer starts anew.
HandleDatabaseSearchReplyMessage(x, suggested) ==
    /\ dest.running
    /\ dest.requests[x].open
    /\ \E left \in LookupsLeft(x, suggested) :
         LET d == [dest EXCEPT !.lookups[x] = left]
             known == suggested \cap dest.case.floodfills
             asks == /\ Cardinality(dest.requests[x].excluded) < MAX_NUM_FLOODFILLS_PER_REQUEST
                     /\ known # {}
                     /\ dest.tunnels
         IN dest' = IF asks THEN SendLeaseSetRequest(d, x, known) ELSE EndRequest(d, x)

RequestTimerExpires(x) ==
    /\ dest.requestTimer[x].armed
    /\ dest.requestTimer[x].queued < MaxQueued
    /\ dest' = [dest EXCEPT !.requestTimer[x] = [armed |-> FALSE, queued |-> @.queued + 1]]

\* HandleRequestTimoutTimer: the next floodfill.  The limit on the whole
\* request counts from the last attempt and so never ends it.
HandleRequestTimoutTimer(x) ==
    /\ dest.running
    /\ dest.requestTimer[x].queued > 0
    /\ LET d == [dest EXCEPT !.requestTimer[x].queued = @ - 1]
           floodfill == ClosestFloodfill(d, d.requests[x].excluded)
       IN dest' = IF ~d.requests[x].open THEN d
                  ELSE IF floodfill # {} /\ d.tunnels
                  THEN SendLeaseSetRequest(d, x, floodfill)
                  ELSE EndRequest(d, x)

(***************************************************************************)
(* The rest of the world, cleanup and stop                                 *)
(***************************************************************************)
LeasesExpire(x) ==
    /\ dest.remote[x] = "live"
    /\ dest' = [dest EXCEPT !.remote[x] = "expired"]

\* HandleCleanupTimer: CleanupRemoteLeaseSets.
HandleCleanupTimer ==
    /\ dest.running
    /\ \E x \in DDests : dest.remote[x] = "expired"
    /\ dest' = [dest EXCEPT !.remote =
                  [x \in DDests |-> IF @[x] = "expired" THEN "none" ELSE @[x]]]

TunnelsChange ==
    /\ dest.case.tunnelsChange
    /\ dest' = [dest EXCEPT !.tunnels = ~@]

\* Stop and the destructor: requests are deleted without a word.
StopDestination ==
    /\ dest.running
    /\ dest.case.stops
    /\ dest' = [dest EXCEPT !.running = FALSE, !.posted = <<>>,
                  !.requests = [x \in DDests |-> NoRequest],
                  !.requestTimer = [x \in DDests |-> Timer], !.publishTimer = Timer,
                  !.unanswered = {c \in @ \cup dest.begun : dest.calls[c] = 0}]

DestinationNext ==
    \/ DestLeaseSetUpdated
    \/ PublishTimerExpires
    \/ HandlePublishConfirmationTimer
    \/ \E t \in 1..dest.tokens : HandlePublishConfirmation(t) \/ FloodfillStores(t)
    \/ \E c \in DCallers : Begin(c)
    \/ RequestLeaseSet
    \/ \E x \in DDests :
         \/ \E content \in {"LeaseSet", "invalid", "other"} : HandleDatabaseStoreMessage(x, content)
         \/ \E s \in dest.case.suggested : HandleDatabaseSearchReplyMessage(x, s)
         \/ RequestTimerExpires(x)
         \/ HandleRequestTimoutTimer(x)
         \/ LeasesExpire(x)
    \/ HandleCleanupTimer
    \/ TunnelsChange
    \/ StopDestination

DestinationSpec == DestinationInit /\ [][DestinationNext]_destVars

(***************************************************************************)
(* Properties                                                              *)
(***************************************************************************)
DestinationTypeOK ==
    /\ dest.leaseSet \in 0..dest.case.updates
    /\ dest.token \in 0..dest.tokens
    /\ dest.excludedFloodfills \subseteq dest.case.floodfills
    /\ dest.stores \cup dest.statuses \cup dest.stored \cup dest.confirmed \subseteq 1..dest.tokens
    /\ dest.begun \subseteq DCallers /\ dest.unanswered \subseteq dest.begun
    /\ dest.remote \in [DDests -> {"none", "live", "expired"}]
    /\ \A x \in DDests :
         /\ dest.requests[x].excluded \subseteq DFloodfills
         /\ dest.requests[x].callback \in DCallers \cup {DNobody}
    /\ \A x \in DDests : dest.requestTimer[x].queued \in 0..MaxQueued

\* Nothing waits without a timer that will end the wait: neither an
\* unconfirmed publication, which blocks every later Publish, nor a request,
\* whatever stale handlers, late replies and missing tunnels come between.
WaitHasTimer ==
    dest.running =>
       /\ dest.token # 0 => Waiting(dest.publishTimer)
       /\ \A x \in DDests : dest.requests[x].open => Waiting(dest.requestTimer[x])

\* A publication counts as confirmed only when a floodfill has stored that
\* very LeaseSet: the late confirmation of an attempt that timed out does not
\* confirm the attempt that replaced it.
ConfirmedIsStored == dest.confirmed \subseteq dest.stored

\* A stream or datagram that asked for a LeaseSet is answered exactly once, or
\* still waits in the queue or in the one request for its destination; only a
\* missing floodfill or the end of the destination leaves it without answer.
AnsweredOnce ==
    \A c \in DCallers :
       dest.calls[c]
         + Cardinality({i \in DOMAIN dest.posted : dest.posted[i] = c})
         + Cardinality({x \in DDests : dest.requests[x].callback = c})
         = IF c \in dest.begun \ dest.unanswered THEN 1 ELSE 0

\* A stream or datagram that asks for a LeaseSet does not wait for ever, as long
\* as floodfills are honest: whatever else they name, late answers included, and
\* if they do not answer or tunnels come and go, its request runs out of
\* floodfills and tells it.  Each answer that names a floodfill starts the timer
\* anew, and only what a lookup excludes keeps floodfills from naming one
\* another for ever: a floodfill that is named again is asked again, without
\* counting for MAX_NUM_FLOODFILLS_PER_REQUEST.
LeaseSetRequestEnds ==
    dest.case.honest => <>[](\A c \in dest.begun : dest.calls[c] > 0 \/ c \in dest.unanswered)

\* A destination waits for nothing without a timer, takes for published what a
\* floodfill has, and answers whoever asks for a LeaseSet once.
DestinationSafe ==
  /\ DestinationTypeOK
  /\ WaitHasTimer
  /\ ConfirmedIsStored
  /\ AnsweredOnce
=============================================================================
