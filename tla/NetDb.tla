------------------------------- MODULE NetDb -------------------------------
(***************************************************************************)
(* The network database: the table of RouterInfos, the list of floodfill   *)
(* routers, the files that outlive the process, and the requests for       *)
(* RouterInfos that are not known yet.                                     *)
(*                                                                         *)
(* A RouterInfo object is a record of netdb.infos.  m_RouterInfos and      *)
(* m_Floodfills hold shared pointers to the same objects, so each object   *)
(* says whether it is in the table and whether it is listed as floodfill:  *)
(* an object can leave one and stay in the other.  What a router published *)
(* is a version number; NDPublished says for each version whether the      *)
(* router was a floodfill then.                                            *)
(*                                                                         *)
(* A RequestedDestination is likewise shared by m_RequestedDestinations    *)
(* (inTable) and the caller of RequestDestination (held): its destructor,  *)
(* which calls the callback, runs when both have let go.                   *)
(*                                                                         *)
(* The network thread runs every handler here; RequestDestination is also  *)
(* called by the thread of the transports, and nothing but the map itself  *)
(* is locked.  So that thread's call is several steps (netdb.caller): it   *)
(* enters the request, chooses a floodfill, then records and asks it, or   *)
(* completes the request, where it calls back before it clears and erases. *)
(* A handler of the network thread is one step: wherever the transports'   *)
(* thread comes between its choice and its record, or between its call and *)
(* its erasing, the two steps commute, or the same entry is erased twice   *)
(* whoever comes last.                                                     *)
(***************************************************************************)
EXTENDS Integers, Sequences, FiniteSets

CONSTANTS NDRouters,        \* idents of the routers of the network
          NDRandom,         \* random idents that Explore looks up
          NDPublished,      \* router -> sequence of its versions: floodfill?
          NDIntroduced,     \* routers whose addresses use introducers
          NDMetric,         \* <<ident, router>> -> XOR distance of the day
          NDRequesters,     \* callers that pass a callback
          NDMaxAsked,       \* floodfills asked for one destination (7)
          NDMaxOrphans,     \* bound on listed objects that left the table
          NDCases           \* situations: what is on disk and what may come in

VARIABLE netdb

netDbVars == <<netdb>>

Unasked == "none"
NDIdents == NDRouters \cup NDRandom

ASSUME NetDbAssumption ==
    /\ Unasked \notin NDRequesters /\ NDMaxAsked \in Nat \ {0} /\ NDIntroduced \subseteq NDRouters
    /\ \A r \in NDRouters : NDPublished[r] \in Seq(BOOLEAN)
    /\ \A k \in NDCases :
         /\ k.seeded \subseteq {r \in NDRouters : NDPublished[r] # <<>>}
         /\ \A m \in k.stores : m[1] \in NDRouters /\ m[2] \in 1..Len(NDPublished[m[1]])
         /\ \A m \in k.replies : m[1] \in NDIdents /\ m[2] \subseteq NDRouters
         /\ \A m \in k.lookups : m[2] \subseteq NDRouters /\ m[3] \in BOOLEAN
         /\ \A c \in DOMAIN k.wanted : c \in NDRequesters /\ k.wanted[c] \in NDIdents
         /\ k.explored \subseteq Seq(NDRandom) /\ k.restarts \in Nat

(***************************************************************************)
(* RouterInfo objects                                                      *)
(***************************************************************************)
NewKnownRouter(ident, version, updated) ==
    [ident |-> ident, version |-> version, updated |-> updated,
     unreachable |-> FALSE, inTable |-> TRUE,
     listed |-> NDPublished[ident][version]]

IsFloodfillNow(o) == NDPublished[o.ident][o.version]

TableOf(nd) == {o \in nd.infos : o.inTable}
FindRouter(nd, ident) == {o \in TableOf(nd) : o.ident = ident}

\* RouterInfo::Update: in place, whatever its timestamp; the list of
\* floodfills is not told.
ReplaceRouterInfo(o, version) ==
    [o EXCEPT !.version = version, !.updated = TRUE, !.unreachable = FALSE]

(***************************************************************************)
(* Requests                                                                *)
(***************************************************************************)
RequestFor(nd, ident) == {q \in nd.requests : q.inTable /\ q.dest = ident}

\* Success and Fail call the callback that is set.
CallBack(nd, requests) ==
    [nd EXCEPT !.calls = [c \in NDRequesters |->
                            @[c] + Cardinality({q \in requests : q.callback = c})]]

\* The requests become these.  An object that nobody holds is destroyed, and its
\* destructor calls the callback that is still set.
Settle(nd, requests) ==
    LET dropped == {q \in requests : ~q.inTable /\ ~q.held}
    IN [CallBack(nd, dropped) EXCEPT !.requests = requests \ dropped]

\* Mutant: the callback of a completed request stays set.
RequestCompleteKeeps(nd, ident) ==
    LET done == RequestFor(nd, ident)
    IN Settle(CallBack(nd, done),
              (nd.requests \ done) \cup {[q EXCEPT !.inTable = FALSE] : q \in done})

\* NetDbRequests::RequestComplete: Success or Fail call the callback and
\* clear it, then the entry is erased.
RequestComplete(nd, ident) ==
    LET done == RequestFor(nd, ident)
    IN Settle(CallBack(nd, done),
              (nd.requests \ done)
                \cup {[q EXCEPT !.callback = Unasked, !.inTable = FALSE] : q \in done})

NewRequest(ident, exploratory, callback, held) ==
    [dest |-> ident, exploratory |-> exploratory, asked |-> <<>>, excluded |-> {},
     age |-> "unsent", callback |-> callback, inTable |-> TRUE, held |-> held,
     found |-> FALSE]

\* NetDbRequests::CreateRequest: the second request for a destination is
\* destroyed at once, which tells its caller that it failed.
CreateRequest(nd, ident, exploratory, callback, held) ==
    LET q == NewRequest(ident, exploratory, callback, held)
    IN IF RequestFor(nd, ident) # {} THEN CallBack(nd, {q})
       ELSE [nd EXCEPT !.requests = @ \cup {q}]

\* RequestedDestination::CreateRequestMessage, both forms.
CreateRequestMessage(q, floodfill) ==
    [q EXCEPT !.excluded = @ \cup {floodfill}, !.age = "fresh"]

AnyOf(floodfills) == CHOOSE f \in floodfills : TRUE

\* The network thread asks the next floodfill; `asked` are those it has asked.
Ask(q, floodfills) ==
    [CreateRequestMessage(q, AnyOf(floodfills)) EXCEPT !.asked = Append(@, AnyOf(floodfills))]

(***************************************************************************)
(* Choosing a floodfill                                                    *)
(***************************************************************************)
Candidates(nd) == {o \in nd.infos : o.listed /\ ~o.unreachable}

\* The ident of the closest listed floodfill, as a set of at most one.
GetClosestFloodfill(nd, ident, excluded) ==
    LET near == {o.ident : o \in Candidates(nd)} \ excluded
    IN {f \in near : \A g \in near : NDMetric[ident, f] <= NDMetric[ident, g]}

\* The num closest are taken first and the excluded ones left out of them.
ClosestOf(nd, ident, num, candidates) ==
    {o.ident : o \in {x \in candidates :
        Cardinality({y \in candidates : NDMetric[ident, y.ident] < NDMetric[ident, x.ident]}) < num}}

GetClosestFloodfills(nd, ident, num, excluded) ==
    ClosestOf(nd, ident, num, Candidates(nd)) \ excluded

\* The first three non-floodfills by distance that are not excluded.
GetClosestNonFloodfills(nd, ident, num, excluded) ==
    ClosestOf(nd, ident, num, {o \in TableOf(nd) : ~IsFloodfillNow(o) /\ o.ident \notin excluded})

\* NetDb::RequestDestination for each ident, when the network thread calls it
\* without a callback.  A request that finds no floodfill is completed and
\* destroyed again before it returns.
RequestDestinations(nd, idents) ==
    LET closest(i) == GetClosestFloodfill(nd, i, {})
    IN [nd EXCEPT !.requests = @ \cup
          {Ask(NewRequest(i, FALSE, Unasked, FALSE), closest(i)) :
             i \in {j \in idents : RequestFor(nd, j) = {} /\ closest(j) # {}}}]

(***************************************************************************)
(* The state                                                               *)
(***************************************************************************)
NoReply == [named |-> {}, excluded |-> {}, exploratory |-> FALSE]

\* The transports' thread is not in RequestDestination.
NoCaller == [at |-> "idle", who |-> Unasked, floodfills |-> {}]

\* NetDb::Load: the files of routers behind introducers that are old are
\* removed, every other file becomes an object of the table.
LoadInfos(files, old) ==
    {NewKnownRouter(r, files[r], FALSE) : r \in {x \in NDRouters : files[x] > 0 /\ x \notin old}}

Loaded(nd, old) ==
    [infos |-> LoadInfos(nd.files, old), requests |-> {},
     calls |-> [c \in NDRequesters |-> 0], issued |-> {},
     files |-> [r \in NDRouters |-> IF r \in old THEN 0 ELSE nd.files[r]],
     running |-> TRUE, restarts |-> nd.restarts + 1, reply |-> NoReply,
     caller |-> NoCaller, case |-> nd.case]

\* The first start, after a reseed has put version 1 of some routers on disk.
NetDbInitWith(c) ==
    netdb = [Loaded([files |-> [r \in NDRouters |-> IF r \in c.seeded THEN 1 ELSE 0],
                     restarts |-> 0, case |-> c], {}) EXCEPT !.restarts = 0]

NetDbInit == \E c \in NDCases : NetDbInitWith(c)

Becomes(nd) == netdb' = [nd EXCEPT !.reply = NoReply]

(***************************************************************************)
(* Messages                                                                *)
(***************************************************************************)
\* Mutant: an update in place is not marked for saving.
AddRouterInfoUnsaved(nd, ident, version) ==
    LET known == FindRouter(nd, ident)
        infos == IF known = {} THEN {NewKnownRouter(ident, version, TRUE)}
                 ELSE {[ReplaceRouterInfo(o, version) EXCEPT !.updated = o.updated] : o \in known}
    IN RequestComplete([nd EXCEPT !.infos = (@ \ known) \cup infos], ident)

\* NetDb::AddRouterInfo.
AddRouterInfo(nd, ident, version) ==
    LET known == FindRouter(nd, ident)
        infos == IF known = {} THEN {NewKnownRouter(ident, version, TRUE)}
                 ELSE {ReplaceRouterInfo(o, version) : o \in known}
    IN RequestComplete([nd EXCEPT !.infos = (@ \ known) \cup infos], ident)

\* A DatabaseStore of a RouterInfo: an answer, an unsolicited one, or a late
\* one with an older version than the one known.
HandleDatabaseStoreMsg(ident, version) ==
    /\ netdb.running
    /\ Becomes(AddRouterInfo(netdb, ident, version))

\* The next floodfill for a search that got names instead of the RouterInfo.
TryNext(nd, q, floodfills, throughTunnels) ==
    IF /\ ~q.exploratory
       /\ throughTunnels
       /\ Cardinality(q.excluded) < NDMaxAsked
       /\ floodfills # {}
    THEN Settle(nd, (nd.requests \ {q}) \cup {Ask(q, floodfills)})
    ELSE RequestComplete(nd, q.dest)

\* A search reply, in time, late or unasked for, with the routers it names.
HandleDatabaseSearchReplyMsg(ident, named, outdated, throughTunnels) ==
    /\ netdb.running
    /\ LET found == RequestFor(netdb, ident)
           q == CHOOSE x \in found : TRUE
           next == IF found = {} THEN netdb
                   ELSE IF named = {} THEN RequestComplete(netdb, ident)
                   ELSE TryNext(netdb, q, GetClosestFloodfill(netdb, ident, q.excluded),
                                throughTunnels)
       IN Becomes(RequestDestinations(next,
              {r \in named : FindRouter(netdb, r) = {} \/ r \in outdated}))

\* A lookup of another router that this one cannot answer from its table:
\* the three closest routers are named in a search reply.
HandleDatabaseLookupMsg(ident, excluded, exploratory) ==
    /\ netdb.running
    /\ exploratory \/ FindRouter(netdb, ident) = {}
    /\ netdb' = [netdb EXCEPT !.reply =
          [named |-> IF exploratory THEN GetClosestNonFloodfills(netdb, ident, 3, excluded)
                     ELSE GetClosestFloodfills(netdb, ident, 3, excluded),
           excluded |-> excluded, exploratory |-> exploratory]]

(***************************************************************************)
(* The transports' thread: RequestDestination                              *)
(***************************************************************************)
\* The request is entered under the lock, unless the table has one.
BeginRequest(c) ==
    LET ident == netdb.case.wanted[c]
        begun == [NoCaller EXCEPT !.at = "begun", !.who = c]
    IN /\ netdb.running
       /\ netdb.caller.at = "idle"
       /\ c \in DOMAIN netdb.case.wanted \ netdb.issued
       /\ Becomes([CreateRequest(netdb, ident, FALSE, c, TRUE)
                   EXCEPT !.issued = @ \cup {c},
                          !.caller = IF RequestFor(netdb, ident) = {} THEN begun ELSE @])

ChooseFloodfill ==
    \E q \in netdb.requests :
       /\ netdb.caller.at = "begun"
       /\ q.held
       /\ Becomes([netdb EXCEPT !.caller.at = "chosen",
                                !.caller.floodfills = GetClosestFloodfill(netdb, q.dest, q.excluded)])

\* The caller lets go of its request and returns.
LetGo(nd) ==
    [Settle(nd, {[q EXCEPT !.held = FALSE] : q \in nd.requests}) EXCEPT !.caller = NoCaller]

\* The floodfill is recorded and asked, whatever the network thread did since.
SendRequest ==
    \E q \in netdb.requests :
       /\ netdb.caller.at = "chosen" /\ netdb.caller.floodfills # {}
       /\ q.held
       /\ Becomes(LetGo([netdb EXCEPT !.requests =
              (@ \ {q}) \cup {CreateRequestMessage(q, AnyOf(netdb.caller.floodfills))}]))

\* NetDbRequests::RequestComplete when no floodfill was found: the entry that is
\* found, its own or a later one, is failed without the lock.
FailRequest ==
    \E q \in netdb.requests :
       /\ netdb.caller.at = "chosen" /\ netdb.caller.floodfills = {}
       /\ q.held
       /\ LET found == RequestFor(netdb, q.dest)
              called == [CallBack(netdb, found) EXCEPT
                           !.requests = (@ \ found) \cup {[x EXCEPT !.found = TRUE] : x \in found},
                           !.caller.at = "called"]
          IN Becomes(IF found = {} THEN LetGo(netdb) ELSE called)

\* Then the callback is cleared and the entry erased.
EraseRequest ==
    LET found == {q \in netdb.requests : q.found /\ q.inTable}
        erased == {[q EXCEPT !.callback = Unasked, !.inTable = FALSE] : q \in found}
    IN /\ netdb.caller.at = "called" /\ found # {}
       /\ Becomes(LetGo([netdb EXCEPT !.requests = (@ \ found) \cup erased]))

\* NetDb::SetUnreachable, called by a session that could not be set up.
ReportUnreachable(ident) ==
    \E o \in FindRouter(netdb, ident) :
       /\ netdb.running
       /\ ~o.unreachable
       /\ Becomes([netdb EXCEPT !.infos = (@ \ {o}) \cup {[o EXCEPT !.unreachable = TRUE]}])

(***************************************************************************)
(* The periodic work of NetDb::Run                                         *)
(***************************************************************************)
\* A request waits for more than 5 seconds, then for 60.
RequestAges(ident) ==
    \E q \in netdb.requests :
       /\ q.dest = ident
       /\ q.age \in {"fresh", "waiting"}
       /\ Becomes([netdb EXCEPT !.requests = (@ \ {q}) \cup
              {[q EXCEPT !.age = IF @ = "fresh" THEN "waiting" ELSE "stale"]}])

\* Mutant: a request that cannot ask the next floodfill is kept.
ManageOneKeeps(nd, q, throughTunnels) ==
    LET next == GetClosestFloodfill(nd, q.dest, q.excluded)
    IN IF q.age = "waiting" /\ next # {} /\ throughTunnels /\ Cardinality(q.excluded) < NDMaxAsked
       THEN Ask(q, next)
       ELSE q

\* NetDbRequests::ManageRequests for one entry of the table; a request whose
\* message has not been created yet counts as obsolete.
ManageOne(nd, q, throughTunnels) ==
    LET next == GetClosestFloodfill(nd, q.dest, q.excluded)
    IN IF q.age = "fresh" THEN q
       ELSE IF /\ q.age = "waiting"
               /\ ~q.exploratory
               /\ Cardinality(q.excluded) < NDMaxAsked
               /\ next # {}
               /\ throughTunnels
            THEN Ask(q, next)
            ELSE [q EXCEPT !.inTable = FALSE]

ManageRequests(nd, throughTunnels) ==
    Settle(nd, {IF q.inTable THEN ManageOne(nd, q, throughTunnels) ELSE q : q \in nd.requests})

ManageRequestsTimer ==
    /\ netdb.running
    /\ \E q \in netdb.requests : q.inTable /\ q.age # "fresh"
    /\ \E throughTunnels \in BOOLEAN : Becomes(ManageRequests(netdb, throughTunnels))

\* NetDb::Explore: each random ident is looked up at its closest floodfill, a
\* floodfill being asked once per round, until one is requested already.
Explore(idents) ==
    LET nd == ManageRequests(netdb, TRUE)
        closest == [k \in DOMAIN idents |-> GetClosestFloodfill(nd, idents[k], {})]
        asked == {k \in DOMAIN idents :
                    /\ \A j \in 1..k : RequestFor(nd, idents[j]) = {}
                    /\ closest[k] # {}
                    /\ \A j \in 1..(k - 1) : closest[j] # closest[k]}
    IN /\ netdb.running
       /\ Becomes([nd EXCEPT !.requests = @ \cup
                     {Ask(NewRequest(idents[k], TRUE, Unasked, FALSE), closest[k]) : k \in asked}])

\* NetDb::SaveUpdated: `expired` are the objects whose age the rules for
\* introduced routers and for large tables find too old.
SaveOne(o, expired) ==
    IF o.updated THEN [o EXCEPT !.updated = FALSE, !.unreachable = FALSE]
    ELSE LET gone == o.unreachable \/ o \in expired
         IN [o EXCEPT !.unreachable = gone,
                      !.listed = @ /\ ~(gone /\ IsFloodfillNow(o))]

SaveUpdated(nd, expired) ==
    LET saved == {SaveOne(o, expired) : o \in TableOf(nd)}
        gone == {o \in saved : o.unreachable}
        deleted == {o.ident : o \in gone}
        purge == \E r \in deleted : nd.files[r] > 0
        table == IF purge
                 THEN {[o EXCEPT !.inTable = ~o.unreachable] : o \in saved}
                 ELSE saved
        orphans == {o \in nd.infos : ~o.inTable}
    IN [nd EXCEPT !.infos = {o \in table \cup orphans : o.inTable \/ o.listed},
                  !.files = [r \in NDRouters |->
                      IF r \in deleted THEN 0
                      ELSE IF \E o \in TableOf(nd) : o.ident = r /\ o.updated
                           THEN (CHOOSE o \in TableOf(nd) : o.ident = r).version
                      ELSE @[r]]]

SaveTimer ==
    /\ netdb.running
    /\ \E expired \in SUBSET {o \in TableOf(netdb) : ~o.updated} :
         LET next == SaveUpdated(netdb, expired)
         IN /\ Cardinality({o \in next.infos : ~o.inTable}) <= NDMaxOrphans
            /\ Becomes(next)

(***************************************************************************)
(* Stop, crash and start                                                   *)
(***************************************************************************)
\* NetDb::Stop: dropping the requests runs their destructors.
StopNetDb ==
    /\ netdb.running
    /\ netdb.restarts < netdb.case.restarts
    /\ netdb.caller.at = "idle"
    /\ Becomes([Settle(netdb, {[q EXCEPT !.inTable = FALSE] : q \in netdb.requests})
                EXCEPT !.infos = {}, !.running = FALSE])

\* Nothing but the files is left of the process.
EndProcess ==
    Becomes([Loaded(netdb, {}) EXCEPT !.infos = {}, !.running = FALSE,
                                      !.restarts = netdb.restarts])

Crash ==
    /\ netdb.running
    /\ netdb.restarts < netdb.case.restarts
    /\ EndProcess

\* The entry the transports' thread found was erased by the network thread: a
\* second erase frees its node again, and no behaviour after it is defined.
EraseTwice ==
    /\ netdb.caller.at = "called"
    /\ \A q \in netdb.requests : ~(q.found /\ q.inTable)
    /\ EndProcess

Start ==
    /\ ~netdb.running
    /\ netdb.restarts < netdb.case.restarts
    /\ \E old \in SUBSET NDIntroduced : Becomes(Loaded(netdb, old))

NetDbNext ==
    \/ \E m \in netdb.case.stores : HandleDatabaseStoreMsg(m[1], m[2])
    \/ \E m \in netdb.case.lookups : HandleDatabaseLookupMsg(m[1], m[2], m[3])
    \/ \E m \in netdb.case.replies, throughTunnels \in BOOLEAN :
         \E outdated \in {{}, m[2]} :
            HandleDatabaseSearchReplyMsg(m[1], m[2], outdated, throughTunnels)
    \/ \E c \in NDRequesters : BeginRequest(c)
    \/ ChooseFloodfill
    \/ SendRequest
    \/ FailRequest
    \/ EraseRequest
    \/ EraseTwice
    \/ \E r \in netdb.case.reported : ReportUnreachable(r)
    \/ \E i \in NDIdents : RequestAges(i)
    \/ ManageRequestsTimer
    \/ \E idents \in netdb.case.explored : Explore(idents)
    \/ SaveTimer
    \/ StopNetDb
    \/ Crash
    \/ Start

(***************************************************************************)
(* Properties                                                              *)
(***************************************************************************)
NetDbTypeOK ==
    /\ \A o \in netdb.infos :
         /\ o.ident \in NDRouters
         /\ o.version \in 1..Len(NDPublished[o.ident])
         /\ {o.updated, o.unreachable, o.inTable, o.listed} \subseteq BOOLEAN
         /\ o.inTable \/ o.listed
    /\ \A q \in netdb.requests :
         /\ q.dest \in NDIdents
         /\ q.excluded \subseteq NDRouters
         /\ q.age \in {"unsent", "fresh", "waiting", "stale"}
         /\ q.callback \in NDRequesters \cup {Unasked}
         /\ q.inTable \/ q.held
    /\ \A r \in NDRouters : netdb.files[r] \in 0..Len(NDPublished[r])
    /\ netdb.issued \subseteq NDRequesters
    /\ netdb.restarts \in 0..netdb.case.restarts

\* Whoever passed a callback to RequestDestination is called back exactly once:
\* by Success, by Fail, or by the destructor of the request object, whichever
\* thread lets go of it last.  Only the caller whose RequestDestination is
\* failing the request at this moment can be called twice, its callback being
\* cleared after the call and without the lock.
CalledBackOnce ==
    \A c \in NDRequesters :
       LET told == netdb.calls[c] + Cardinality({q \in netdb.requests : q.callback = c})
           failing == netdb.caller.at = "called" /\ netdb.caller.who = c
       IN IF c \in netdb.issued THEN told \in 1..(IF failing THEN 2 ELSE 1) ELSE told = 0

\* Whoever asks for a RouterInfo hears of it in the end, whether the floodfills
\* answer, name others, name each other or are silent: ManageRequests asks the
\* next one or lets go of the request.
RequesterIsTold ==
    <>[](\A c \in netdb.issued : netdb.calls[c] > 0)

\* However replies, timers and the transports' thread interleave, the network
\* thread asks no floodfill twice for a request and no more than it may, and the
\* table holds one request for a destination.  The first message of the
\* transports' thread, which tests no bound, can come on top, and can go to a
\* floodfill that was asked while it was choosing.
AskedOnce ==
    /\ \A q \in netdb.requests :
         /\ Len(q.asked) <= NDMaxAsked
         /\ \A i, j \in DOMAIN q.asked : q.asked[i] = q.asked[j] => i = j
         /\ Cardinality(q.excluded) <= Len(q.asked) + 1
    /\ \A i \in NDIdents : Cardinality(RequestFor(netdb, i)) <= 1

\* A floodfill named to another router is one this router can then tell about
\* (FindRouter finds it), although the list of floodfills keeps objects that
\* were purged from the table.
NamedIsKnown ==
    ~netdb.reply.exploratory =>
       \A f \in netdb.reply.named :
          /\ f \notin netdb.reply.excluded
          /\ FindRouter(netdb, f) # {}

\* What a restart would load is what the table holds: a router of the table
\* whose update is not waiting to be saved has exactly that version on disk.
FilesFollowTable ==
    \A o \in TableOf(netdb) : o.updated \/ netdb.files[o.ident] = o.version

\* The network thread asks no floodfill twice, replies name routers that are known, and the
\* files are what the table was when it was saved.
NetDbSafe ==
  /\ NetDbTypeOK
  /\ AskedOnce
  /\ NamedIsKnown
  /\ FilesFollowTable
=============================================================================
