------------------------------- MODULE Garlic -------------------------------
(***************************************************************************)
(* Garlic encryption between two destinations (core/Garlic.cpp, Garlic.h): *)
(* the routing sessions of the one that sends, the session tags of the one *)
(* that receives, the messages between them and the DeliveryStatus that    *)
(* comes back through a tunnel.                                            *)
(*                                                                         *)
(* A message is encrypted with ElGamal or, much cheaper, under a session   *)
(* tag that the sender gave to the receiver in an earlier message.  The    *)
(* sender may use its tags once that message is confirmed.  A tag is used  *)
(* once and expires on both sides.                                         *)
(*                                                                         *)
(* A message may be lost, delayed, reordered and doubled.  So may be a     *)
(* DeliveryStatus, except that its one-time key stops a double.  Random    *)
(* message IDs and tags are fresh: a tag is named by the message that      *)
(* carries it and its place there.                                         *)
(***************************************************************************)
EXTENDS Integers, FiniteSets

CONSTANTS
  Sessions, NoSession,       \* GarlicRoutingSession objects (bound)
  NoTag,                     \* in place of a tag: ElGamal is used
  attachLeaseSet,            \* of GetRoutingSession
  m_NumTags,
  OUTGOING_TAGS_EXPIRATION_TIMEOUT, INCOMING_TAGS_EXPIRATION_TIMEOUT,
  LEASET_CONFIRMATION_TIMEOUT,                              \* in ticks
  MaxMsgID, MaxTime, MaxLeaseSet, MaxDuplicates             \* bounds

ASSUME GarlicAssumption ==
  /\ NoSession \notin Sessions
  /\ attachLeaseSet \in BOOLEAN
  /\ m_NumTags \in Nat
  /\ OUTGOING_TAGS_EXPIRATION_TIMEOUT \in Nat
  /\ INCOMING_TAGS_EXPIRATION_TIMEOUT \in Nat
  /\ OUTGOING_TAGS_EXPIRATION_TIMEOUT <= INCOMING_TAGS_EXPIRATION_TIMEOUT
  /\ LEASET_CONFIRMATION_TIMEOUT \in Nat
  /\ MaxMsgID \in Nat /\ MaxTime \in Nat /\ MaxLeaseSet \in Nat
  /\ MaxDuplicates \in Nat

MsgIDs == 1 .. MaxMsgID

SessionTag == [msgID: MsgIDs, n: 1 .. m_NumTags, creationTime: Nat]

ASSUME NoTagAssumption == NoTag \notin SessionTag

\* Cloves: a DeliveryStatus, a LeaseSet (0: none); the data is left out.
GarlicMessage == [msgID: MsgIDs, tag: SessionTag \cup {NoTag},
                  newTags: SUBSET SessionTag, deliveryStatus: BOOLEAN, leaseSet: Nat]

LeaseSetUpdateStatus == {"UpToDate", "Updated", "Submitted", "DoNotSend"}

\* The tags of an UnconfirmedTags carry the message ID it is filed under.
GarlicRoutingSession ==
  [exists: BOOLEAN,
   m_SessionTags: SUBSET SessionTag, m_UnconfirmedTagsMsgs: SUBSET SessionTag,
   m_LeaseSetUpdateStatus: LeaseSetUpdateStatus, m_LeaseSetUpdateMsgID: Nat,
   m_LeaseSetSubmissionTime: Nat]

VARIABLES
  now,
  \* the sender
  session,            \* the routing session objects
  m_Sessions,         \* the session to the receiver in the table
  m_CreatedSessions,  \* message ID -> session that waits for its confirmation
  m_LeaseSet,         \* the sender's LeaseSet, by its version
  updating,           \* the tunnels thread is inside SetLeaseSetUpdated
  msgID,              \* last message ID
  \* the receiver
  m_Tags,             \* tag -> time it came in
  m_LastTagsCleanupTime,
  leaseSets,          \* versions of the sender's LeaseSet that came in
  \* in between
  net, statuses,      \* garlic messages, message IDs of DeliveryStatus
  handled,            \* history: messages that arrived
  duplicates          \* history: copies left behind

sender == <<session, m_Sessions, m_CreatedSessions, m_LeaseSet, updating, msgID>>
receiver == <<m_Tags, m_LastTagsCleanupTime, leaseSets>>
vars == <<now, sender, receiver, net, statuses, handled, duplicates>>

\* The constructor leaves m_LeaseSetUpdateMsgID as it finds it.
NewSession(exists, garbage) ==
  [exists |-> exists, m_SessionTags |-> {}, m_UnconfirmedTagsMsgs |-> {},
   m_LeaseSetUpdateStatus |-> IF attachLeaseSet THEN "Updated" ELSE "DoNotSend",
   m_LeaseSetUpdateMsgID |-> garbage, m_LeaseSetSubmissionTime |-> 0]

\* The clock shows far more than any timeout when the program starts.
Init ==
  /\ now = INCOMING_TAGS_EXPIRATION_TIMEOUT + 1
  /\ session = [s \in Sessions |-> NewSession(FALSE, 0)]
  /\ m_Sessions = NoSession
  /\ m_CreatedSessions = [id \in MsgIDs |-> NoSession]
  /\ m_LeaseSet = 1 /\ updating = FALSE /\ msgID = 0
  /\ m_Tags = [t \in {} |-> 0] /\ m_LastTagsCleanupTime = 0 /\ leaseSets = {}
  /\ net = {} /\ statuses = {} /\ handled = {} /\ duplicates = 0

Tick ==
  /\ now < MaxTime
  /\ now' = now + 1
  /\ UNCHANGED <<sender, receiver, net, statuses, handled, duplicates>>
-----------------------------------------------------------------------------
(***************************************************************************)
(* The sender.                                                             *)
(***************************************************************************)
\* The sender still takes this tag.
Fresh(t) == now < t.creationTime + OUTGOING_TAGS_EXPIRATION_TIMEOUT

\* Mutant: the tag that is used stays in the list.
TakeTagAgain(tags) ==
  IF \E t \in tags : Fresh(t)
  THEN {[tag |-> t, rest |-> tags] : t \in {u \in tags : Fresh(u)}}
  ELSE {[tag |-> NoTag, rest |-> {}]}

\* The first fresh tag of the list, and what is left: expired tags in front of
\* it are dropped, all of them if no tag is fresh.  The list keeps the tags of
\* one message in their order; the order of messages is left open.
TakeTag(tags) ==
  LET fresh == {t \in tags : Fresh(t)}
      first == {t \in fresh : \A u \in fresh : u.msgID = t.msgID => t.n <= u.n}
      gone  == {{t \in tags \ fresh : t.msgID \in ids} :
                  ids \in SUBSET {t.msgID : t \in tags \ fresh}}
  IN IF fresh = {} THEN {[tag |-> NoTag, rest |-> {}]}
     ELSE {[tag |-> t, rest |-> (tags \ g) \ {t}] : t \in first, g \in gone}

\* Mutant: the loop runs once too often.
GenerateOneMore(id) ==
  {[msgID |-> id, n |-> i, creationTime |-> now] : i \in 1 .. m_NumTags + 1}

GenerateSessionTags(id) ==
  {[msgID |-> id, n |-> i, creationTime |-> now] : i \in 1 .. m_NumTags}

\* WrapSingleMessage, CreateAESBlock and CreateGarlicPayload of session s:
\* a tag is taken, new tags are added when few are left, a DeliveryStatus is
\* asked for when there are new tags or a new LeaseSet and an inbound tunnel
\* to bring it, the LeaseSet is attached.
WrapSingleMessage(s, st, inbound) ==
  LET id == msgID + 1 IN
  \E took \in TakeTag(st.m_SessionTags) :
    LET newTags == IF Cardinality(took.rest) <= (m_NumTags * 2) \div 3
                   THEN GenerateSessionTags(id) ELSE {}
        attach  == \/ st.m_LeaseSetUpdateStatus = "Updated"
                   \/ /\ st.m_LeaseSetUpdateStatus = "Submitted"
                      /\ now > st.m_LeaseSetSubmissionTime + LEASET_CONFIRMATION_TIMEOUT
        clove   == (newTags # {} \/ attach) /\ inbound
        tagged  == [st EXCEPT !.m_SessionTags = took.rest,
                              !.m_UnconfirmedTagsMsgs = @ \cup (IF clove THEN newTags ELSE {})]
    IN /\ msgID' = id
       /\ session' = [session EXCEPT ![s] =
            IF attach THEN [tagged EXCEPT !.m_LeaseSetUpdateStatus = "Submitted",
                                          !.m_LeaseSetUpdateMsgID = id,
                                          !.m_LeaseSetSubmissionTime = now]
            ELSE tagged]
       /\ m_CreatedSessions' = IF clove THEN [m_CreatedSessions EXCEPT ![id] = s]
                               ELSE m_CreatedSessions
       /\ net' = net \cup {[msgID |-> id, tag |-> took.tag, newTags |-> newTags,
                            deliveryStatus |-> clove,
                            leaseSet |-> IF attach THEN m_LeaseSet ELSE 0]}

\* WrapMessage: a datagram, or the first packet of a stream.  The session is
\* looked up in the table and made if it is not there.
WrapMessage(s, inbound, garbage) ==
  /\ msgID < MaxMsgID
  /\ IF m_Sessions = NoSession THEN ~session[s].exists ELSE s = m_Sessions
  /\ m_Sessions' = s
  /\ WrapSingleMessage(s, IF m_Sessions = NoSession THEN NewSession(TRUE, garbage)
                          ELSE session[s], inbound)
  /\ UNCHANGED <<now, m_LeaseSet, updating, receiver, statuses, handled, duplicates>>

\* A stream keeps the session it once got, also when it has left the table.
SendPackets(s, inbound) ==
  /\ msgID < MaxMsgID
  /\ session[s].exists
  /\ WrapSingleMessage(s, session[s], inbound)
  /\ UNCHANGED <<now, m_Sessions, m_LeaseSet, updating, receiver, statuses, handled,
                 duplicates>>

\* Mutant: expired unconfirmed tags stay in their session.
CleanupKeepsUnconfirmed(st) ==
  [st EXCEPT !.m_SessionTags = {t \in @ : Fresh(t)}]

\* CleanupExpiredTags, on the session and on the owner's table.
CleanupExpiredTags(st) ==
  [st EXCEPT !.m_SessionTags = {t \in @ : Fresh(t)},
             !.m_UnconfirmedTagsMsgs = {t \in @ : Fresh(t)}]

RemoveCreatedSessions(created, st) ==
  [id \in MsgIDs |-> IF \E t \in st.m_UnconfirmedTagsMsgs : t.msgID = id /\ ~Fresh(t)
                     THEN NoSession ELSE created[id]]

\* What CleanupExpiredTags returns.
SomethingLeft(st) == st.m_SessionTags # {} \/ st.m_UnconfirmedTagsMsgs = {}

CleanupRoutingSessions ==
  /\ m_Sessions # NoSession
  /\ LET st == session[m_Sessions] IN
       /\ session' = [session EXCEPT ![m_Sessions] = CleanupExpiredTags(st)]
       /\ m_CreatedSessions' = RemoveCreatedSessions(m_CreatedSessions, st)
       /\ m_Sessions' = IF SomethingLeft(CleanupExpiredTags(st)) THEN m_Sessions
                        ELSE NoSession
  /\ UNCHANGED <<now, m_LeaseSet, updating, msgID, receiver, net, statuses, handled,
                 duplicates>>

\* TagsConfirmed of session s.
TagsConfirmed(st, id) ==
  LET confirmed == {t \in st.m_UnconfirmedTagsMsgs : t.msgID = id}
  IN [st EXCEPT !.m_SessionTags = @ \cup {t \in confirmed : Fresh(t)},
                !.m_UnconfirmedTagsMsgs = @ \ confirmed]

\* HandleDeliveryStatusMessage of the owner, MessageConfirmed of the session.
HandleDeliveryStatusMessage(id) ==
  /\ statuses' = statuses \ {id}
  /\ IF m_CreatedSessions[id] = NoSession
     THEN UNCHANGED <<session, m_CreatedSessions>>
     ELSE LET s  == m_CreatedSessions[id]
              st == TagsConfirmed(session[s], id)
              created == [m_CreatedSessions EXCEPT ![id] = NoSession]
          IN IF id = st.m_LeaseSetUpdateMsgID
             THEN /\ session' = [session EXCEPT ![s] =
                       [st EXCEPT !.m_LeaseSetUpdateStatus = "UpToDate"]]
                  /\ m_CreatedSessions' = created
             ELSE /\ session' = [session EXCEPT ![s] = CleanupExpiredTags(st)]
                  /\ m_CreatedSessions' = RemoveCreatedSessions(created, st)
  /\ UNCHANGED <<now, m_Sessions, m_LeaseSet, updating, msgID, receiver, net, handled,
                 duplicates>>

\* ClientDestination::SetLeaseSetUpdated, called on the tunnels thread: it
\* marks the sessions of the table and then makes the new LeaseSet, while the
\* destination's own thread goes on.
SetLeaseSetUpdated ==
  /\ ~updating /\ m_LeaseSet < MaxLeaseSet
  /\ updating' = TRUE
  /\ session' = [s \in Sessions |->
       IF s = m_Sessions /\ session[s].m_LeaseSetUpdateStatus # "DoNotSend"
       THEN [session[s] EXCEPT !.m_LeaseSetUpdateStatus = "Updated"] ELSE session[s]]
  /\ UNCHANGED <<now, m_Sessions, m_CreatedSessions, m_LeaseSet, msgID, receiver, net,
                 statuses, handled, duplicates>>

UpdateLeaseSet ==
  /\ updating
  /\ updating' = FALSE
  /\ m_LeaseSet' = m_LeaseSet + 1
  /\ UNCHANGED <<now, session, m_Sessions, m_CreatedSessions, msgID, receiver, net,
                 statuses, handled, duplicates>>
-----------------------------------------------------------------------------
(***************************************************************************)
(* The receiver.                                                           *)
(***************************************************************************)
\* A message under an unknown tag is taken for ElGamal, and not understood.
Understood(m) == m.tag = NoTag \/ m.tag \in DOMAIN m_Tags

\* Mutant: a tag is removed as if its timeout were zero.
ExpireTagsEarly(tags) ==
  [t \in {u \in DOMAIN tags : now <= tags[u]} |-> tags[t]]

\* The cleanup at the end of HandleGarlicMessage.
ExpireTags(tags) ==
  [t \in {u \in DOMAIN tags : now <= tags[u] + INCOMING_TAGS_EXPIRATION_TIMEOUT} |-> tags[t]]

\* HandleGarlicMessage, HandleAESBlock and HandleGarlicPayload: the new tags
\* are stored, the DeliveryStatus goes out (one that is never delivered stands
\* for one without an outbound tunnel), the LeaseSet is stored; then the tag is
\* used up and expired ones are removed.
HandleGarlicMessage(m) ==
  LET newTags == IF Understood(m) THEN m.newTags ELSE {}
      tags == [t \in (DOMAIN m_Tags \cup newTags) \ {m.tag} |->
                 IF t \in DOMAIN m_Tags THEN m_Tags[t] ELSE now]
      due  == now > m_LastTagsCleanupTime + INCOMING_TAGS_EXPIRATION_TIMEOUT
  IN /\ statuses' = IF Understood(m) /\ m.deliveryStatus
                    THEN statuses \cup {m.msgID} ELSE statuses
     /\ leaseSets' = IF Understood(m) /\ m.leaseSet # 0
                     THEN leaseSets \cup {m.leaseSet} ELSE leaseSets
     /\ m_Tags' = IF due /\ m_LastTagsCleanupTime # 0 THEN ExpireTags(tags) ELSE tags
     /\ m_LastTagsCleanupTime' = IF due THEN now ELSE m_LastTagsCleanupTime
     /\ handled' = handled \cup {m.msgID}
     /\ \/ net' = net \ {m} /\ UNCHANGED duplicates
        \/ /\ duplicates < MaxDuplicates
           /\ duplicates' = duplicates + 1
           /\ UNCHANGED net
     /\ UNCHANGED <<now, sender>>

Next ==
  \/ Tick
  \/ \E s \in Sessions, inbound \in BOOLEAN, garbage \in 0 .. MaxMsgID :
       WrapMessage(s, inbound, garbage)
  \/ \E s \in Sessions, inbound \in BOOLEAN : SendPackets(s, inbound)
  \/ CleanupRoutingSessions
  \/ \E id \in statuses : HandleDeliveryStatusMessage(id)
  \/ SetLeaseSetUpdated
  \/ UpdateLeaseSet
  \/ \E m \in net : HandleGarlicMessage(m)

Spec == Init /\ [][Next]_vars
-----------------------------------------------------------------------------
\* Sessions, tags and messages have their types; a stored tag keeps the time
\* it came in.
TypeOK ==
  /\ now \in Nat /\ msgID \in 0 .. MaxMsgID
  /\ session \in [Sessions -> GarlicRoutingSession]
  /\ m_Sessions \in Sessions \cup {NoSession}
  /\ m_CreatedSessions \in [MsgIDs -> Sessions \cup {NoSession}]
  /\ m_LeaseSet \in Nat /\ updating \in BOOLEAN
  /\ m_Tags \in [DOMAIN m_Tags -> Nat] /\ DOMAIN m_Tags \subseteq SessionTag
  /\ m_LastTagsCleanupTime \in Nat /\ leaseSets \subseteq Nat
  /\ net \subseteq GarlicMessage /\ statuses \subseteq MsgIDs
  /\ handled \subseteq MsgIDs /\ duplicates \in Nat

\* A tag the sender may use is one the receiver knows, and a message under a
\* tag that arrives before the tag is INCOMING_TAGS_EXPIRATION_TIMEOUT old is
\* understood, whatever was lost, late or doubled: WrapSingleMessage never
\* encrypts what the other side cannot read.
TagsAreKnown ==
  /\ \A s \in Sessions : \A t \in session[s].m_SessionTags :
       Fresh(t) => t \in DOMAIN m_Tags
  /\ \A m \in net :
       (/\ m.tag # NoTag /\ m.msgID \notin handled
        /\ now <= m.tag.creationTime + INCOMING_TAGS_EXPIRATION_TIMEOUT)
         => m.tag \in DOMAIN m_Tags

\* "use same tag only once": no two messages go out under one tag, and a tag
\* that is on its way is in no session's list, confirmed or not.
TagUsedOnce ==
  \A m \in net : m.tag # NoTag =>
    /\ \A o \in net : o # m => o.tag # m.tag
    /\ \A s \in Sessions :
         m.tag \notin session[s].m_SessionTags \cup session[s].m_UnconfirmedTagsMsgs

\* Tags that wait for a confirmation get it: m_CreatedSessions leads from their
\* message ID to their session until both are removed.
UnconfirmedAreFound ==
  \A s \in Sessions : \A t \in session[s].m_UnconfirmedTagsMsgs :
    m_CreatedSessions[t.msgID] = s

\* "resubmit non-confirmed LeaseSet": a session that counts its peer as up to
\* date has sent it the present LeaseSet and the peer has it.
UpToDateHasLeaseSet ==
  \A s \in Sessions :
    session[s].m_LeaseSetUpdateStatus = "UpToDate" => m_LeaseSet \in leaseSets
=============================================================================
