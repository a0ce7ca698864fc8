---------------------------- MODULE GarlicProofs ----------------------------
(***************************************************************************)
(* The tag protocol of Garlic.tla, for any number of sessions, tags and    *)
(* messages and any timeouts with OUTGOING <= INCOMING.                    *)
(*                                                                         *)
(* That a tag the sender uses is known to the receiver is not inductive:   *)
(* it needs to be known of the tags that wait for a confirmation which is  *)
(* on its way, hence of what the message carried, that the receiver counts *)
(* a tag's age from later than the sender does, and that removing a used   *)
(* tag can hurt no other message or session.                               *)
(***************************************************************************)
EXTENDS Garlic, TLAPS

Held(s) == session[s].m_SessionTags \cup session[s].m_UnconfirmedTagsMsgs

\* The receiver has no reason yet to expire the tag.
Live(t) == now <= t.creationTime + INCOMING_TAGS_EXPIRATION_TIMEOUT

\* Message IDs and tags in use come from messages made so far.
IssuedBefore ==
  /\ \A s \in Sessions : \A t \in Held(s) : t.msgID <= msgID
  /\ \A m \in net :
       /\ m.msgID <= msgID
       /\ \A t \in m.newTags : t.creationTime <= now
       /\ m.tag # NoTag => m.tag.msgID <= msgID
  /\ \A id \in statuses : id <= msgID

\* A tag is in one list of one session.
Separate ==
  \A s \in Sessions :
    /\ session[s].m_SessionTags \cap session[s].m_UnconfirmedTagsMsgs = {}
    /\ \A r \in Sessions : r # s => Held(r) \cap Held(s) = {}

\* The tags of one message are as old as each other.
SameAge ==
  \A s \in Sessions : \A t, u \in session[s].m_UnconfirmedTagsMsgs :
    t.msgID = u.msgID => t.creationTime = u.creationTime

ReceivedLater == \A t \in DOMAIN m_Tags : t.creationTime <= m_Tags[t]

\* A message carries the tags that wait for its confirmation.
Carried ==
  \A m \in net : \A s \in Sessions : \A t \in session[s].m_UnconfirmedTagsMsgs :
    t.msgID = m.msgID => t \in m.newTags

SessionTagsKnown ==
  \A s \in Sessions : \A t \in session[s].m_SessionTags :
    Live(t) => t \in DOMAIN m_Tags

ConfirmedKnown ==
  \A s \in Sessions : \A t \in session[s].m_UnconfirmedTagsMsgs :
    (t.msgID \in statuses /\ Live(t)) => t \in DOMAIN m_Tags

SentTagsKnown ==
  \A m \in net :
    (m.tag # NoTag /\ m.msgID \notin handled /\ Live(m.tag)) => m.tag \in DOMAIN m_Tags

IInv ==
  /\ TypeOK /\ IssuedBefore /\ Separate /\ SameAge /\ ReceivedLater /\ Carried
  /\ SessionTagsKnown /\ ConfirmedKnown /\ SentTagsKnown
  /\ TagUsedOnce /\ UnconfirmedAreFound
-----------------------------------------------------------------------------
LEMMA FreshIsLive ==
  ASSUME TypeOK, NEW t \in SessionTag, Fresh(t)
  PROVE  Live(t)
BY GarlicAssumption DEF TypeOK, Fresh, Live, SessionTag

LEMMA TakeTagSound ==
  ASSUME NEW tags \in SUBSET SessionTag, NEW took \in TakeTag(tags)
  PROVE  /\ took.rest \subseteq tags
         /\ took.tag # NoTag => (took.tag \in tags /\ took.tag \notin took.rest
                                 /\ Fresh(took.tag))
BY DEF TakeTag

LEMMA GeneratedTags ==
  ASSUME TypeOK, NEW id \in MsgIDs
  PROVE  /\ GenerateSessionTags(id) \subseteq SessionTag
         /\ \A t \in GenerateSessionTags(id) : t.msgID = id /\ t.creationTime = now
BY DEF GenerateSessionTags, SessionTag, TypeOK

LEMMA HeldType ==
  ASSUME IInv, NEW s \in Sessions, NEW t \in Held(s)
  PROVE  /\ t \in SessionTag /\ t.msgID \in MsgIDs /\ t.msgID \in Nat
         /\ t.msgID <= msgID
<1>1. session[s] \in GarlicRoutingSession BY DEF IInv, TypeOK
<1>2. t \in SessionTag BY <1>1 DEF Held, GarlicRoutingSession
<1>3. t.msgID \in MsgIDs BY <1>2 DEF SessionTag
<1> QED BY <1>2, <1>3 DEF IInv, IssuedBefore, MsgIDs

\* A wrapped message leaves with a tag of its session, new tags or neither.
LEMMA WrapPreserves ==
  ASSUME IInv, NEW s \in Sessions, NEW st \in GarlicRoutingSession,
         NEW inbound \in BOOLEAN,
         st.m_SessionTags \subseteq session[s].m_SessionTags,
         st.m_UnconfirmedTagsMsgs \subseteq session[s].m_UnconfirmedTagsMsgs,
         msgID < MaxMsgID, WrapSingleMessage(s, st, inbound),
         m_Sessions' \in Sessions \cup {NoSession},
         UNCHANGED <<now, m_LeaseSet, updating, receiver, statuses, handled, duplicates>>
  PROVE  IInv'
<1> DEFINE id == msgID + 1
           attach == \/ st.m_LeaseSetUpdateStatus = "Updated"
                     \/ /\ st.m_LeaseSetUpdateStatus = "Submitted"
                        /\ now > st.m_LeaseSetSubmissionTime + LEASET_CONFIRMATION_TIMEOUT
           NewTags(rest) == IF Cardinality(rest) <= (m_NumTags * 2) \div 3
                            THEN GenerateSessionTags(id) ELSE {}
           Clove(rest) == (NewTags(rest) # {} \/ attach) /\ inbound
           Tagged(rest) == [st EXCEPT !.m_SessionTags = rest,
                              !.m_UnconfirmedTagsMsgs =
                                 @ \cup (IF Clove(rest) THEN NewTags(rest) ELSE {})]
           Wrapped(rest) == IF attach THEN [Tagged(rest) EXCEPT
                                              !.m_LeaseSetUpdateStatus = "Submitted",
                                              !.m_LeaseSetUpdateMsgID = id,
                                              !.m_LeaseSetSubmissionTime = now]
                            ELSE Tagged(rest)
<1>1. PICK took \in TakeTag(st.m_SessionTags) :
        /\ msgID' = id
        /\ session' = [session EXCEPT ![s] = Wrapped(took.rest)]
        /\ m_CreatedSessions' = IF Clove(took.rest)
                                THEN [m_CreatedSessions EXCEPT ![id] = s]
                                ELSE m_CreatedSessions
        /\ net' = net \cup {[msgID |-> id, tag |-> took.tag,
                             newTags |-> NewTags(took.rest),
                             deliveryStatus |-> Clove(took.rest),
                             leaseSet |-> IF attach THEN m_LeaseSet ELSE 0]}
  BY DEF WrapSingleMessage
<1> DEFINE rest == took.rest
           newTags == NewTags(rest)
           waiting == IF Clove(rest) THEN newTags ELSE {}
           new == Wrapped(rest)
           msg == [msgID |-> id, tag |-> took.tag, newTags |-> newTags,
                   deliveryStatus |-> Clove(rest),
                   leaseSet |-> IF attach THEN m_LeaseSet ELSE 0]
<1>2. TypeOK BY DEF IInv
<1>3. /\ id \in MsgIDs /\ id \in Nat /\ msgID \in Nat /\ now \in Nat /\ id = msgID + 1
      /\ m_LeaseSet \in Nat
  BY <1>2, GarlicAssumption DEF TypeOK, MsgIDs
<1>4. /\ rest \subseteq st.m_SessionTags
      /\ took.tag # NoTag => (took.tag \in st.m_SessionTags /\ took.tag \notin rest
                              /\ Fresh(took.tag))
  <2>1. st.m_SessionTags \in SUBSET SessionTag BY DEF GarlicRoutingSession
  <2> QED BY <2>1, <1>1, TakeTagSound
<1>5. /\ newTags \subseteq SessionTag
      /\ \A t \in newTags : t.msgID = id /\ t.creationTime = now
  BY <1>2, <1>3, GeneratedTags
<1>6. /\ waiting \subseteq newTags /\ Clove(rest) \in BOOLEAN
      /\ waiting # {} => m_CreatedSessions'[id] = s
      /\ \A i \in MsgIDs : i # id => m_CreatedSessions'[i] = m_CreatedSessions[i]
      /\ m_CreatedSessions' \in [MsgIDs -> Sessions \cup {NoSession}]
  BY <1>1, <1>2, <1>3 DEF TypeOK
<1>7. /\ new \in GarlicRoutingSession
      /\ new.m_SessionTags = rest
      /\ new.m_UnconfirmedTagsMsgs = st.m_UnconfirmedTagsMsgs \cup waiting
  <2>1. /\ rest \in SUBSET SessionTag
        /\ (st.m_UnconfirmedTagsMsgs \cup waiting) \in SUBSET SessionTag
    BY <1>4, <1>5, <1>6 DEF GarlicRoutingSession
  <2> HIDE DEF waiting, rest, id, attach
  <2>2. /\ Tagged(rest) = [st EXCEPT !.m_SessionTags = rest,
                !.m_UnconfirmedTagsMsgs = st.m_UnconfirmedTagsMsgs \cup waiting]
    BY DEF waiting, GarlicRoutingSession
  <2> DEFINE tg == Tagged(rest)
  <2>3. /\ tg \in GarlicRoutingSession /\ tg.m_SessionTags = rest
        /\ tg.m_UnconfirmedTagsMsgs = st.m_UnconfirmedTagsMsgs \cup waiting
    BY <2>1, <2>2 DEF GarlicRoutingSession
  <2>4. new = IF attach THEN [tg EXCEPT !.m_LeaseSetUpdateStatus = "Submitted",
                                        !.m_LeaseSetUpdateMsgID = id,
                                        !.m_LeaseSetSubmissionTime = now]
              ELSE tg
    OBVIOUS
  <2> HIDE DEF tg, new
  <2> QED BY <1>3, <2>3, <2>4 DEF GarlicRoutingSession, LeaseSetUpdateStatus
<1>8. msg \in GarlicMessage /\ msg.msgID = id /\ msg.tag = took.tag
      /\ msg.newTags = newTags
  <2>1. took.tag \in SessionTag \cup {NoTag} BY <1>4 DEF GarlicRoutingSession
  <2>2. newTags \in SUBSET SessionTag BY <1>5
  <2> HIDE DEF newTags, id, attach
  <2> QED BY <1>3, <1>6, <2>1, <2>2 DEF GarlicMessage
<1>9. /\ net' = net \cup {msg}
      /\ session' = [session EXCEPT ![s] = new]
      /\ msgID' = id
  BY <1>1
<1>10. UNCHANGED <<now, m_LeaseSet, updating, m_Tags, m_LastTagsCleanupTime, leaseSets,
                   statuses, handled, duplicates>>
  BY DEF receiver
<1> HIDE DEF rest, newTags, waiting, new, msg, id, NewTags, Clove, Wrapped, Tagged, attach
<1>11. /\ session'[s] = new
       /\ \A r \in Sessions : r # s => session'[r] = session[r]
       /\ session' \in [Sessions -> GarlicRoutingSession]
  BY <1>2, <1>7, <1>9 DEF TypeOK
<1>12. TypeOK'
  BY <1>2, <1>3, <1>6, <1>8, <1>9, <1>10, <1>11 DEF TypeOK, MsgIDs
\* What session s held it may hold still, with the new tags besides.
<1>13. /\ \A r \in Sessions : session'[r].m_SessionTags \subseteq session[r].m_SessionTags
       /\ \A r \in Sessions : r # s =>
            session'[r].m_UnconfirmedTagsMsgs = session[r].m_UnconfirmedTagsMsgs
       /\ session'[s].m_UnconfirmedTagsMsgs \subseteq
            session[s].m_UnconfirmedTagsMsgs \cup waiting
  BY <1>4, <1>7, <1>11
<1>14. \A r \in Sessions : \A t \in Held(r) :
         t \in SessionTag /\ t.msgID \in Nat /\ t.msgID <= msgID /\ t.msgID # id
  BY <1>3, HeldType
<1>15. IssuedBefore'
  <2>1. \A r \in Sessions : \A t \in Held(r)' : t.msgID <= msgID'
    BY <1>3, <1>5, <1>6, <1>9, <1>13, <1>14 DEF Held
  <2>2. \A m \in net' : /\ m.msgID <= msgID'
                        /\ \A t \in m.newTags : t.creationTime <= now'
                        /\ m.tag # NoTag => m.tag.msgID <= msgID'
    <3>1. ASSUME NEW m \in net
          PROVE /\ m.msgID <= msgID' /\ \A t \in m.newTags : t.creationTime <= now'
                /\ m.tag # NoTag => m.tag.msgID <= msgID'
      <4>1. /\ m.msgID \in Nat /\ m.msgID <= msgID
            /\ m.tag # NoTag => m.tag.msgID \in Nat /\ m.tag.msgID <= msgID
            /\ \A t \in m.newTags : t.creationTime <= now
        BY <1>2 DEF IInv, IssuedBefore, TypeOK, GarlicMessage, SessionTag, MsgIDs
      <4> QED BY <4>1, <1>3, <1>9, <1>10
    <3>2. /\ msg.msgID <= msgID' /\ \A t \in msg.newTags : t.creationTime <= now'
          /\ msg.tag # NoTag => msg.tag.msgID <= msgID'
      <4>1. took.tag # NoTag => took.tag \in Held(s) BY <1>4 DEF Held
      <4> QED BY <4>1, <1>3, <1>5, <1>8, <1>9, <1>10, <1>14
    <3> QED BY <3>1, <3>2, <1>9
  <2>3. \A i \in statuses' : i <= msgID'
    BY <1>2, <1>3, <1>9, <1>10 DEF IInv, IssuedBefore, TypeOK, MsgIDs
  <2> QED BY <2>1, <2>2, <2>3 DEF IssuedBefore
<1>16. \A r \in Sessions : waiting \cap Held(r) = {}
  BY <1>5, <1>6, <1>14
<1>17. Separate'
  <2>1. Separate BY DEF IInv
  <2> QED BY <2>1, <1>11, <1>13, <1>16 DEF Separate, Held
<1>18. SameAge'
  <2>1. SameAge BY DEF IInv
  <2>2. \A r \in Sessions : \A t \in session[r].m_UnconfirmedTagsMsgs : t.msgID # id
    BY <1>14 DEF Held
  <2> QED BY <2>1, <2>2, <1>5, <1>6, <1>13 DEF SameAge
<1>19. ReceivedLater' BY <1>10 DEF IInv, ReceivedLater
<1>20. Carried'
  <2>1. SUFFICES ASSUME NEW m \in net', NEW r \in Sessions,
                        NEW t \in session'[r].m_UnconfirmedTagsMsgs, t.msgID = m.msgID
                 PROVE  t \in m.newTags
    BY DEF Carried
  <2>2. CASE m \in net /\ t \in session[r].m_UnconfirmedTagsMsgs
    BY <2>1, <2>2 DEF IInv, Carried
  <2>3. CASE m \in net /\ t \in waiting
    <3>1. m.msgID \in Nat /\ m.msgID <= msgID
      BY <1>2, <2>3 DEF IInv, IssuedBefore, TypeOK, GarlicMessage, MsgIDs
    <3>2. t.msgID = id BY <2>3, <1>5, <1>6
    <3> QED BY <2>1, <3>1, <3>2, <1>3
  <2>4. CASE m = msg
    <3>1. \A u \in session[r].m_UnconfirmedTagsMsgs : u.msgID # id BY <1>14 DEF Held
    <3>2. t.msgID = id BY <2>1, <2>4, <1>8
    <3> QED BY <2>4, <3>1, <3>2, <1>6, <1>8, <1>13
  <2> QED BY <2>2, <2>3, <2>4, <1>9, <1>13
<1>21. SessionTagsKnown'
  BY <1>10, <1>13 DEF IInv, SessionTagsKnown, Live
<1>22. ConfirmedKnown'
  <2>1. id \notin statuses BY <1>2, <1>3 DEF IInv, IssuedBefore, TypeOK, MsgIDs
  <2> QED BY <2>1, <1>5, <1>6, <1>10, <1>13 DEF IInv, ConfirmedKnown, Live
<1>23. SentTagsKnown'
  <2>1. took.tag # NoTag => took.tag \in DOMAIN m_Tags
    <3>1. took.tag # NoTag => took.tag \in session[s].m_SessionTags /\ took.tag \in SessionTag
      BY <1>4, <1>14 DEF Held
    <3> QED BY <3>1, <1>2, <1>4, FreshIsLive DEF IInv, SessionTagsKnown
  <2> QED BY <2>1, <1>8, <1>9, <1>10 DEF IInv, SentTagsKnown, Live
<1>24. TagUsedOnce'
  <2>1. TagUsedOnce /\ Separate BY DEF IInv
  <2>2. \A m \in net : m.tag # NoTag =>
          m.tag \notin waiting /\ \A r \in Sessions : m.tag \notin Held(r)'
    <3>1. \A m \in net : m.tag # NoTag => m.tag.msgID \in Nat /\ m.tag.msgID <= msgID
      BY <1>2 DEF IInv, IssuedBefore, TypeOK, GarlicMessage, SessionTag, MsgIDs
    <3>2. \A m \in net : m.tag # NoTag => m.tag \notin waiting
      BY <3>1, <1>3, <1>5, <1>6
    <3> QED BY <3>2, <2>1, <1>13 DEF TagUsedOnce, Held
  <2>3. took.tag # NoTag =>
          /\ \A m \in net : m.tag # took.tag
          /\ \A r \in Sessions : took.tag \notin Held(r)'
    <3>1. took.tag # NoTag => took.tag \in session[s].m_SessionTags /\ took.tag \notin waiting
      BY <1>4, <1>16 DEF Held
    <3>2. took.tag # NoTag => took.tag \notin Held(s)'
      BY <3>1, <2>1, <1>4, <1>7, <1>11, <1>13 DEF Held, Separate
    <3>3. took.tag # NoTag => \A r \in Sessions : r # s => took.tag \notin Held(r)'
      BY <3>1, <2>1, <1>11 DEF Held, Separate
    <3>4. took.tag # NoTag => \A m \in net : m.tag # took.tag
      BY <3>1, <2>1 DEF TagUsedOnce
    <3> QED BY <3>2, <3>3, <3>4
  <2> QED BY <2>1, <2>2, <2>3, <1>8, <1>9 DEF TagUsedOnce, Held
<1>25. UnconfirmedAreFound'
  <2>1. \A r \in Sessions : \A t \in session[r].m_UnconfirmedTagsMsgs :
          /\ m_CreatedSessions[t.msgID] = r
          /\ t.msgID \in MsgIDs /\ t.msgID # id
    BY <1>2, <1>14 DEF IInv, UnconfirmedAreFound, TypeOK, GarlicRoutingSession, SessionTag, Held
  <2> QED BY <2>1, <1>5, <1>6, <1>13 DEF UnconfirmedAreFound
<1> QED BY <1>12, <1>15, <1>17, <1>18, <1>19, <1>20, <1>21, <1>22, <1>23, <1>24, <1>25
        DEF IInv
-----------------------------------------------------------------------------
\* A step of the sender that makes no message: tags are dropped, or move to
\* the session's list when their confirmation has arrived.
LEMMA DropPreserves ==
  ASSUME IInv, TypeOK', UnconfirmedAreFound',
         UNCHANGED <<now, msgID, m_Tags, net, handled>>, statuses' \subseteq statuses,
         \A s \in Sessions :
           /\ session'[s].m_UnconfirmedTagsMsgs \subseteq session[s].m_UnconfirmedTagsMsgs
           /\ session'[s].m_SessionTags \subseteq session[s].m_SessionTags \cup
                {t \in session[s].m_UnconfirmedTagsMsgs : t.msgID \in statuses}
           /\ session'[s].m_SessionTags \cap session'[s].m_UnconfirmedTagsMsgs = {}
  PROVE  IInv'
<1>1. \A s \in Sessions : Held(s)' \subseteq Held(s) BY DEF Held
<1>2. IssuedBefore' BY <1>1 DEF IInv, IssuedBefore
<1>3. Separate' BY <1>1 DEF IInv, Separate
<1>4. SameAge' BY DEF IInv, SameAge
<1>5. ReceivedLater' /\ SentTagsKnown' BY DEF IInv, ReceivedLater, SentTagsKnown, Live
<1>6. Carried' BY DEF IInv, Carried
<1>7. SessionTagsKnown' BY DEF IInv, SessionTagsKnown, ConfirmedKnown, Live
<1>8. ConfirmedKnown' BY DEF IInv, ConfirmedKnown, Live
<1>9. TagUsedOnce' BY <1>1 DEF IInv, TagUsedOnce, Held
<1> QED BY <1>2, <1>3, <1>4, <1>5, <1>6, <1>7, <1>8, <1>9 DEF IInv

LEMMA CleanupSound ==
  ASSUME NEW st \in GarlicRoutingSession
  PROVE  /\ CleanupExpiredTags(st) \in GarlicRoutingSession
         /\ CleanupExpiredTags(st).m_SessionTags \subseteq st.m_SessionTags
         /\ CleanupExpiredTags(st).m_UnconfirmedTagsMsgs =
              {t \in st.m_UnconfirmedTagsMsgs : Fresh(t)}
BY DEF CleanupExpiredTags, GarlicRoutingSession

LEMMA TagsConfirmedSound ==
  ASSUME NEW st \in GarlicRoutingSession, NEW id
  PROVE  /\ TagsConfirmed(st, id) \in GarlicRoutingSession
         /\ TagsConfirmed(st, id).m_SessionTags \subseteq
              st.m_SessionTags \cup {t \in st.m_UnconfirmedTagsMsgs : t.msgID = id}
         /\ TagsConfirmed(st, id).m_UnconfirmedTagsMsgs =
              {t \in st.m_UnconfirmedTagsMsgs : t.msgID # id}
BY DEF TagsConfirmed, GarlicRoutingSession

\* When CleanupExpiredTags removes the entry of a message from the owner's
\* table, no tag of that message waits any longer.
LEMMA CleanupFound ==
  ASSUME IInv, NEW s \in Sessions, NEW st \in GarlicRoutingSession,
         st.m_UnconfirmedTagsMsgs \subseteq session[s].m_UnconfirmedTagsMsgs,
         NEW created \in [MsgIDs -> Sessions \cup {NoSession}],
         \A t \in st.m_UnconfirmedTagsMsgs : created[t.msgID] = s,
         \A r \in Sessions : r # s =>
           \A t \in session[r].m_UnconfirmedTagsMsgs : created[t.msgID] = r,
         session' = [session EXCEPT ![s] = CleanupExpiredTags(st)],
         m_CreatedSessions' = RemoveCreatedSessions(created, st)
  PROVE  /\ UnconfirmedAreFound'
         /\ m_CreatedSessions' \in [MsgIDs -> Sessions \cup {NoSession}]
<1>1. TypeOK BY DEF IInv
<1>2. /\ session'[s] = CleanupExpiredTags(st)
      /\ \A r \in Sessions : r # s => session'[r] = session[r]
  BY <1>1 DEF TypeOK
<1>3. \A i \in MsgIDs : m_CreatedSessions'[i] =
        IF \E u \in st.m_UnconfirmedTagsMsgs : u.msgID = i /\ ~Fresh(u)
        THEN NoSession ELSE created[i]
  BY DEF RemoveCreatedSessions
<1>4. \A r \in Sessions : \A t \in session[r].m_UnconfirmedTagsMsgs : t.msgID \in MsgIDs
  BY HeldType DEF Held
<1>5. ASSUME NEW t \in session'[s].m_UnconfirmedTagsMsgs
      PROVE  m_CreatedSessions'[t.msgID] = s
  <2>1. t \in st.m_UnconfirmedTagsMsgs /\ Fresh(t) BY <1>2, CleanupSound
  <2>2. \A u \in st.m_UnconfirmedTagsMsgs : u.msgID = t.msgID => Fresh(u)
    BY <2>1 DEF IInv, SameAge, Fresh
  <2> QED BY <2>1, <2>2, <1>3, <1>4
<1>6. ASSUME NEW r \in Sessions, r # s, NEW t \in session'[r].m_UnconfirmedTagsMsgs
      PROVE  m_CreatedSessions'[t.msgID] = r
  <2>1. t \in session[r].m_UnconfirmedTagsMsgs /\ created[t.msgID] = r BY <1>2, <1>6
  <2>2. \A u \in st.m_UnconfirmedTagsMsgs : u.msgID # t.msgID BY <2>1, <1>6
  <2> QED BY <2>1, <2>2, <1>3, <1>4
<1>7. m_CreatedSessions' \in [MsgIDs -> Sessions \cup {NoSession}]
  BY DEF RemoveCreatedSessions
<1> QED BY <1>5, <1>6, <1>7 DEF UnconfirmedAreFound

LEMMA CleanupPreserves ==
  ASSUME IInv, CleanupRoutingSessions
  PROVE  IInv'
<1> DEFINE s == m_Sessions
           st == session[s]
<1>1. TypeOK /\ s \in Sessions BY DEF IInv, TypeOK, CleanupRoutingSessions
<1>2. st \in GarlicRoutingSession BY <1>1 DEF TypeOK
<1>3. /\ session' = [session EXCEPT ![s] = CleanupExpiredTags(st)]
      /\ m_CreatedSessions' = RemoveCreatedSessions(m_CreatedSessions, st)
      /\ m_Sessions' \in {m_Sessions, NoSession}
      /\ UNCHANGED <<now, m_LeaseSet, updating, msgID, m_Tags, m_LastTagsCleanupTime,
                     leaseSets, net, statuses, handled, duplicates>>
  BY DEF CleanupRoutingSessions, receiver
<1> HIDE DEF s
<1>4. /\ session'[s] = CleanupExpiredTags(st)
      /\ \A r \in Sessions : r # s => session'[r] = session[r]
      /\ session' \in [Sessions -> GarlicRoutingSession]
  BY <1>1, <1>2, <1>3, CleanupSound DEF TypeOK
<1>5. /\ m_CreatedSessions \in [MsgIDs -> Sessions \cup {NoSession}]
      /\ \A r \in Sessions : \A t \in session[r].m_UnconfirmedTagsMsgs :
           m_CreatedSessions[t.msgID] = r
  BY <1>1 DEF IInv, UnconfirmedAreFound, TypeOK
<1>6. UnconfirmedAreFound' /\ m_CreatedSessions' \in [MsgIDs -> Sessions \cup {NoSession}]
  BY <1>1, <1>2, <1>3, <1>5, CleanupFound
<1>7. TypeOK' BY <1>1, <1>3, <1>4, <1>6 DEF TypeOK
<1>8. \A r \in Sessions :
        /\ session'[r].m_UnconfirmedTagsMsgs \subseteq session[r].m_UnconfirmedTagsMsgs
        /\ session'[r].m_SessionTags \subseteq session[r].m_SessionTags
  BY <1>2, <1>4, CleanupSound
<1>9. \A r \in Sessions :
        session'[r].m_SessionTags \cap session'[r].m_UnconfirmedTagsMsgs = {}
  BY <1>8 DEF IInv, Separate
<1> QED BY <1>3, <1>6, <1>7, <1>8, <1>9, DropPreserves

LEMMA ConfirmPreserves ==
  ASSUME IInv, NEW id \in statuses, HandleDeliveryStatusMessage(id)
  PROVE  IInv'
<1> DEFINE s == m_CreatedSessions[id]
           st == TagsConfirmed(session[s], id)
           created == [m_CreatedSessions EXCEPT ![id] = NoSession]
           upToDate == [st EXCEPT !.m_LeaseSetUpdateStatus = "UpToDate"]
<1>1. TypeOK /\ Separate /\ UnconfirmedAreFound /\ id \in MsgIDs BY DEF IInv, TypeOK
<1>2. /\ statuses' = statuses \ {id}
      /\ UNCHANGED <<now, m_Sessions, m_LeaseSet, updating, msgID, m_Tags,
                     m_LastTagsCleanupTime, leaseSets, net, handled, duplicates>>
  BY DEF HandleDeliveryStatusMessage, receiver
<1>3. CASE s = NoSession
  <2>1. UNCHANGED <<session, m_CreatedSessions>>
    BY <1>3 DEF HandleDeliveryStatusMessage
  <2>2. TypeOK' BY <1>1, <1>2, <2>1 DEF TypeOK
  <2>3. UnconfirmedAreFound' BY <1>1, <2>1 DEF UnconfirmedAreFound
  <2>4. \A r \in Sessions :
          session'[r].m_SessionTags \cap session'[r].m_UnconfirmedTagsMsgs = {}
    BY <1>1, <2>1 DEF Separate
  <2> QED BY <1>2, <2>1, <2>2, <2>3, <2>4, DropPreserves
<1>4. CASE s # NoSession
  <2>1. s \in Sessions /\ session[s] \in GarlicRoutingSession BY <1>1, <1>4 DEF TypeOK
  <2>2. /\ st \in GarlicRoutingSession
        /\ st.m_SessionTags \subseteq session[s].m_SessionTags \cup
             {t \in session[s].m_UnconfirmedTagsMsgs : t.msgID = id}
        /\ st.m_UnconfirmedTagsMsgs =
             {t \in session[s].m_UnconfirmedTagsMsgs : t.msgID # id}
    BY <2>1, TagsConfirmedSound
  <2>3. /\ created \in [MsgIDs -> Sessions \cup {NoSession}]
        /\ \A i \in MsgIDs : i # id => created[i] = m_CreatedSessions[i]
    BY <1>1 DEF TypeOK
  <2>4. \/ /\ session' = [session EXCEPT ![s] = upToDate]
           /\ m_CreatedSessions' = created
        \/ /\ session' = [session EXCEPT ![s] = CleanupExpiredTags(st)]
           /\ m_CreatedSessions' = RemoveCreatedSessions(created, st)
    BY <1>4 DEF HandleDeliveryStatusMessage
  <2>5. \A r \in Sessions : \A t \in session[r].m_UnconfirmedTagsMsgs :
          t.msgID \in MsgIDs /\ m_CreatedSessions[t.msgID] = r
    BY <1>1, HeldType DEF UnconfirmedAreFound, Held
  <2>6. /\ \A t \in st.m_UnconfirmedTagsMsgs : created[t.msgID] = s
        /\ \A r \in Sessions : r # s =>
             \A t \in session[r].m_UnconfirmedTagsMsgs : created[t.msgID] = r
    <3> HIDE DEF st, created
    <3>1. \A r \in Sessions : r # s =>
            \A t \in session[r].m_UnconfirmedTagsMsgs : t.msgID # id
      BY <2>5
    <3> QED BY <3>1, <2>1, <2>2, <2>3, <2>5
  <2>7. /\ upToDate \in GarlicRoutingSession
        /\ upToDate.m_SessionTags = st.m_SessionTags
        /\ upToDate.m_UnconfirmedTagsMsgs = st.m_UnconfirmedTagsMsgs
    <3> HIDE DEF st
    <3> QED BY <2>2 DEF GarlicRoutingSession, LeaseSetUpdateStatus
  <2> HIDE DEF s, st, created, upToDate
  <2>8. PICK new \in GarlicRoutingSession :
          /\ session' = [session EXCEPT ![s] = new]
          /\ new.m_SessionTags \subseteq st.m_SessionTags
          /\ new.m_UnconfirmedTagsMsgs \subseteq st.m_UnconfirmedTagsMsgs
    BY <2>2, <2>4, <2>7, CleanupSound
  <2>9. /\ session'[s] = new
        /\ \A r \in Sessions : r # s => session'[r] = session[r]
        /\ session' \in [Sessions -> GarlicRoutingSession]
    BY <1>1, <2>1, <2>8 DEF TypeOK
  <2>10. UnconfirmedAreFound' /\ m_CreatedSessions' \in [MsgIDs -> Sessions \cup {NoSession}]
    <3>1. CASE /\ session' = [session EXCEPT ![s] = upToDate]
               /\ m_CreatedSessions' = created
      BY <3>1, <2>3, <2>6, <2>8, <2>9 DEF UnconfirmedAreFound
    <3>2. CASE /\ session' = [session EXCEPT ![s] = CleanupExpiredTags(st)]
               /\ m_CreatedSessions' = RemoveCreatedSessions(created, st)
      BY <3>2, <2>1, <2>2, <2>3, <2>6, CleanupFound
    <3> QED BY <2>4, <3>1, <3>2
  <2>11. TypeOK' BY <1>1, <1>2, <2>9, <2>10 DEF TypeOK
  <2>12. \A r \in Sessions :
           /\ session'[r].m_UnconfirmedTagsMsgs \subseteq session[r].m_UnconfirmedTagsMsgs
           /\ session'[r].m_SessionTags \subseteq session[r].m_SessionTags \cup
                {t \in session[r].m_UnconfirmedTagsMsgs : t.msgID \in statuses}
    BY <2>2, <2>8, <2>9
  <2>13. \A r \in Sessions :
           session'[r].m_SessionTags \cap session'[r].m_UnconfirmedTagsMsgs = {}
    <3>1. \A r \in Sessions :
            session[r].m_SessionTags \cap session[r].m_UnconfirmedTagsMsgs = {}
      BY <1>1 DEF Separate
    <3>2. session'[s].m_SessionTags \cap session'[s].m_UnconfirmedTagsMsgs = {}
      BY <3>1, <2>1, <2>2, <2>8, <2>9
    <3> QED BY <3>1, <3>2, <2>9
  <2> QED BY <1>2, <2>10, <2>11, <2>12, <2>13, DropPreserves
<1> QED BY <1>3, <1>4
-----------------------------------------------------------------------------
LEMMA ExpireTagsSound ==
  ASSUME TypeOK, NEW tags, DOMAIN tags \subseteq SessionTag,
         tags \in [DOMAIN tags -> Nat],
         \A t \in DOMAIN tags : t.creationTime <= tags[t]
  PROVE  /\ ExpireTags(tags) \in [DOMAIN ExpireTags(tags) -> Nat]
         /\ DOMAIN ExpireTags(tags) \subseteq DOMAIN tags
         /\ \A t \in DOMAIN ExpireTags(tags) : ExpireTags(tags)[t] = tags[t]
         /\ \A t \in DOMAIN tags : Live(t) => t \in DOMAIN ExpireTags(tags)
<1> DEFINE kept == {u \in DOMAIN tags : now <= tags[u] + INCOMING_TAGS_EXPIRATION_TIMEOUT}
<1>1. ExpireTags(tags) = [t \in kept |-> tags[t]] BY DEF ExpireTags
<1>2. \A t \in DOMAIN tags : Live(t) => t \in kept
  BY GarlicAssumption DEF Live, TypeOK, SessionTag
<1> QED BY <1>1, <1>2

\* The receiver takes the new tags, uses up one tag and expires old ones.
LEMMA ReceivePreserves ==
  ASSUME IInv, NEW m \in net, HandleGarlicMessage(m)
  PROVE  IInv'
<1> DEFINE newTags == IF Understood(m) THEN m.newTags ELSE {}
           dom  == (DOMAIN m_Tags \cup newTags) \ {m.tag}
           tags == [t \in dom |-> IF t \in DOMAIN m_Tags THEN m_Tags[t] ELSE now]
           due  == now > m_LastTagsCleanupTime + INCOMING_TAGS_EXPIRATION_TIMEOUT
<1>1. TypeOK /\ m \in GarlicMessage BY DEF IInv, TypeOK
<1>2. /\ statuses' = IF Understood(m) /\ m.deliveryStatus
                     THEN statuses \cup {m.msgID} ELSE statuses
      /\ leaseSets' = IF Understood(m) /\ m.leaseSet # 0
                      THEN leaseSets \cup {m.leaseSet} ELSE leaseSets
      /\ m_Tags' = IF due /\ m_LastTagsCleanupTime # 0 THEN ExpireTags(tags) ELSE tags
      /\ m_LastTagsCleanupTime' = IF due THEN now ELSE m_LastTagsCleanupTime
      /\ handled' = handled \cup {m.msgID}
      /\ net' \subseteq net
      /\ duplicates' \in {duplicates, duplicates + 1}
      /\ UNCHANGED <<now, session, m_Sessions, m_CreatedSessions, m_LeaseSet, updating, msgID>>
  BY DEF HandleGarlicMessage, sender
<1>3. /\ m.msgID \in MsgIDs /\ m.newTags \subseteq SessionTag /\ m.leaseSet \in Nat
      /\ newTags \subseteq m.newTags
      /\ statuses \subseteq MsgIDs /\ now \in Nat
  BY <1>1 DEF TypeOK, GarlicMessage
<1>4. /\ DOMAIN tags = dom /\ DOMAIN tags \subseteq SessionTag
      /\ tags \in [DOMAIN tags -> Nat]
      /\ \A t \in DOMAIN tags : t.creationTime <= tags[t]
  <2>1. /\ m_Tags \in [DOMAIN m_Tags -> Nat] /\ DOMAIN m_Tags \subseteq SessionTag
        /\ \A t \in DOMAIN m_Tags : t.creationTime <= m_Tags[t]
    BY <1>1 DEF IInv, TypeOK, ReceivedLater
  <2>2. \A t \in newTags : t.creationTime <= now BY <1>3 DEF IInv, IssuedBefore
  <2> HIDE DEF newTags
  <2> QED BY <1>3, <2>1, <2>2
<1>5. /\ m_Tags' \in [DOMAIN m_Tags' -> Nat] /\ DOMAIN m_Tags' \subseteq dom
      /\ \A t \in DOMAIN m_Tags' : t.creationTime <= m_Tags'[t]
      /\ \A t \in dom : Live(t) => t \in DOMAIN m_Tags'
  <2> HIDE DEF tags, dom
  <2>1. CASE m_Tags' = tags BY <2>1, <1>4
  <2>2. CASE m_Tags' = ExpireTags(tags)
    <3>1. /\ ExpireTags(tags) \in [DOMAIN ExpireTags(tags) -> Nat]
          /\ DOMAIN ExpireTags(tags) \subseteq DOMAIN tags
          /\ \A t \in DOMAIN ExpireTags(tags) : ExpireTags(tags)[t] = tags[t]
          /\ \A t \in DOMAIN tags : Live(t) => t \in DOMAIN ExpireTags(tags)
      BY <1>1, <1>4, ExpireTagsSound
    <3> QED BY <2>2, <3>1, <1>4
  <2> QED BY <1>2, <2>1, <2>2
<1>6. DOMAIN m_Tags' \subseteq SessionTag BY <1>4, <1>5
<1>7. TypeOK'
  <2>1. /\ statuses' \subseteq MsgIDs /\ handled' \subseteq MsgIDs /\ net' \subseteq GarlicMessage
        /\ leaseSets' \subseteq Nat /\ m_LastTagsCleanupTime' \in Nat /\ duplicates' \in Nat
    BY <1>1, <1>2, <1>3 DEF TypeOK
  <2> QED BY <2>1, <1>1, <1>2, <1>5, <1>6 DEF TypeOK
<1>8. /\ \A t \in DOMAIN m_Tags : Live(t) /\ t # m.tag => t \in DOMAIN m_Tags'
      /\ \A t \in newTags : Live(t) /\ t # m.tag => t \in DOMAIN m_Tags'
  BY <1>5
<1> HIDE DEF newTags, tags, dom, due
<1>9. IssuedBefore'
  <2>1. m.msgID <= msgID BY DEF IInv, IssuedBefore
  <2> QED BY <1>2, <2>1 DEF IInv, IssuedBefore, Held
<1>10. Separate' /\ SameAge' /\ Carried' /\ TagUsedOnce' /\ UnconfirmedAreFound'
  BY <1>2 DEF IInv, Separate, Held, SameAge, Carried, TagUsedOnce, UnconfirmedAreFound
<1>11. ReceivedLater' BY <1>5 DEF ReceivedLater
<1>12. \A s \in Sessions : m.tag # NoTag => m.tag \notin Held(s)
  BY DEF IInv, TagUsedOnce, Held
<1>13. \A s \in Sessions : \A t \in Held(s) : t # m.tag
  <2>1. \A s \in Sessions : \A t \in Held(s) : t \in SessionTag BY HeldType
  <2> QED BY <2>1, <1>12, NoTagAssumption
<1>14. SessionTagsKnown'
  BY <1>2, <1>8, <1>13 DEF IInv, SessionTagsKnown, Held, Live
<1>15. ConfirmedKnown'
  <2>1. SUFFICES ASSUME NEW s \in Sessions, NEW t \in session[s].m_UnconfirmedTagsMsgs,
                        t.msgID \in statuses', Live(t)
                 PROVE  t \in DOMAIN m_Tags'
    BY <1>2 DEF ConfirmedKnown, Live
  <2>2. t # m.tag BY <1>13 DEF Held
  <2>3. CASE t.msgID \in statuses
    BY <2>1, <2>2, <2>3, <1>8 DEF IInv, ConfirmedKnown
  <2>4. CASE t.msgID = m.msgID /\ Understood(m)
    <3>1. t \in newTags BY <2>4 DEF IInv, Carried, newTags
    <3> QED BY <3>1, <2>1, <2>2, <1>8
  <2> QED BY <2>1, <2>3, <2>4, <1>2
<1>16. SentTagsKnown'
  <2>1. SUFFICES ASSUME NEW o \in net, o.tag # NoTag, o.msgID \notin handled',
                        Live(o.tag)
                 PROVE  o.tag \in DOMAIN m_Tags'
    BY <1>2 DEF SentTagsKnown, Live
  <2>2. o # m /\ o.msgID \notin handled BY <2>1, <1>2
  <2>3. o.tag # m.tag BY <2>1, <2>2 DEF IInv, TagUsedOnce
  <2> QED BY <2>1, <2>2, <2>3, <1>8 DEF IInv, SentTagsKnown
<1> QED BY <1>7, <1>9, <1>10, <1>11, <1>14, <1>15, <1>16 DEF IInv
-----------------------------------------------------------------------------
LEMMA InitEstablishes == Init => IInv
<1> SUFFICES ASSUME Init PROVE IInv
  OBVIOUS
<1>1. \A s \in Sessions : /\ session[s] = NewSession(FALSE, 0)
                          /\ session[s].m_SessionTags = {}
                          /\ session[s].m_UnconfirmedTagsMsgs = {}
  BY DEF Init, NewSession
<1>2. NewSession(FALSE, 0) \in GarlicRoutingSession
  BY GarlicAssumption DEF NewSession, GarlicRoutingSession, LeaseSetUpdateStatus
<1>3. session \in [Sessions -> GarlicRoutingSession] BY <1>2 DEF Init
<1>4. DOMAIN m_Tags = {} /\ net = {} /\ statuses = {} BY DEF Init
<1>5. TypeOK
  <2>1. /\ now \in Nat /\ msgID \in 0 .. MaxMsgID /\ m_LeaseSet \in Nat
        /\ m_LastTagsCleanupTime \in Nat /\ duplicates \in Nat
    BY GarlicAssumption DEF Init
  <2>2. /\ m_Sessions \in Sessions \cup {NoSession}
        /\ m_CreatedSessions \in [MsgIDs -> Sessions \cup {NoSession}]
        /\ leaseSets \subseteq Nat /\ handled \subseteq MsgIDs
    BY DEF Init
  <2>3. m_Tags \in [DOMAIN m_Tags -> Nat] BY DEF Init
  <2>4. updating \in BOOLEAN BY Zenon DEF Init
  <2> QED BY <1>3, <1>4, <2>1, <2>2, <2>3, <2>4 DEF TypeOK
<1> QED
  BY <1>1, <1>4, <1>5 DEF IInv, IssuedBefore, Separate, Held, SameAge, ReceivedLater,
     Carried, SessionTagsKnown, ConfirmedKnown, SentTagsKnown, TagUsedOnce,
     UnconfirmedAreFound

LEMMA TickPreserves ==
  ASSUME IInv, Tick
  PROVE  IInv'
<1>1. /\ TypeOK /\ now \in Nat /\ now' = now + 1
      /\ UNCHANGED <<session, m_Sessions, m_CreatedSessions, m_LeaseSet, updating, msgID,
                     m_Tags, m_LastTagsCleanupTime, leaseSets, net, statuses, handled,
                     duplicates>>
  BY DEF IInv, TypeOK, Tick, sender, receiver
<1>2. TypeOK' BY <1>1 DEF TypeOK
<1>3. \A t \in SessionTag : Live(t)' => Live(t)
  BY <1>1, GarlicAssumption DEF Live, SessionTag
<1>4. IssuedBefore'
  <2>1. \A m \in net : \A t \in m.newTags : t.creationTime \in Nat
    BY <1>1 DEF TypeOK, GarlicMessage, SessionTag
  <2>2. \A m \in net : \A t \in m.newTags : t.creationTime <= now'
    BY <1>1, <2>1 DEF IInv, IssuedBefore
  <2> QED BY <1>1, <2>2 DEF IInv, IssuedBefore, Held
<1>5. Separate' /\ SameAge' /\ ReceivedLater' /\ Carried' /\ TagUsedOnce'
      /\ UnconfirmedAreFound'
  BY <1>1 DEF IInv, Separate, Held, SameAge, ReceivedLater, Carried, TagUsedOnce,
     UnconfirmedAreFound
<1>6. \A s \in Sessions : \A t \in Held(s) : t \in SessionTag BY HeldType
<1>7. SessionTagsKnown' /\ ConfirmedKnown'
  BY <1>1, <1>3, <1>6 DEF IInv, SessionTagsKnown, ConfirmedKnown, Held
<1>8. SentTagsKnown'
  <2>1. \A m \in net : m.tag # NoTag => m.tag \in SessionTag
    BY <1>1 DEF TypeOK, GarlicMessage
  <2> QED BY <2>1, <1>1, <1>3 DEF IInv, SentTagsKnown
<1> QED BY <1>2, <1>4, <1>5, <1>7, <1>8 DEF IInv

\* Neither SetLeaseSetUpdated nor UpdateLeaseSet touches a tag.
LEMMA LeaseSetPreserves ==
  ASSUME IInv, SetLeaseSetUpdated \/ UpdateLeaseSet
  PROVE  IInv'
<1>1. TypeOK /\ UnconfirmedAreFound /\ Separate BY DEF IInv
<1>a. updating' \in BOOLEAN
  <2>1. updating' = TRUE \/ updating' = FALSE BY Zenon DEF SetLeaseSetUpdated, UpdateLeaseSet
  <2> QED BY <2>1, Zenon
<1>2. /\ UNCHANGED <<now, m_Sessions, m_CreatedSessions, msgID, m_Tags,
                     m_LastTagsCleanupTime, leaseSets, net, statuses, handled, duplicates>>
      /\ m_LeaseSet' \in Nat
  <2>1. CASE SetLeaseSetUpdated BY <1>1, <2>1 DEF SetLeaseSetUpdated, receiver, TypeOK
  <2>2. CASE UpdateLeaseSet BY <1>1, <2>2 DEF UpdateLeaseSet, receiver, TypeOK
  <2> QED BY <2>1, <2>2
<1>3. /\ session' \in [Sessions -> GarlicRoutingSession]
      /\ \A s \in Sessions :
           /\ session'[s].m_SessionTags = session[s].m_SessionTags
           /\ session'[s].m_UnconfirmedTagsMsgs = session[s].m_UnconfirmedTagsMsgs
  <2>1. CASE UpdateLeaseSet BY <2>1, <1>1 DEF UpdateLeaseSet, TypeOK
  <2>2. CASE SetLeaseSetUpdated
    <3>1. \A st \in GarlicRoutingSession :
            LET new == [st EXCEPT !.m_LeaseSetUpdateStatus = "Updated"]
            IN /\ new \in GarlicRoutingSession
               /\ new.m_SessionTags = st.m_SessionTags
               /\ new.m_UnconfirmedTagsMsgs = st.m_UnconfirmedTagsMsgs
      BY DEF GarlicRoutingSession, LeaseSetUpdateStatus
    <3>2. \A s \in Sessions : session[s] \in GarlicRoutingSession BY <1>1 DEF TypeOK
    <3> QED BY <2>2, <3>1, <3>2 DEF SetLeaseSetUpdated
  <2> QED BY <2>1, <2>2
<1>4. TypeOK' BY <1>a, <1>1, <1>2, <1>3 DEF TypeOK
<1>5. UnconfirmedAreFound' BY <1>1, <1>2, <1>3 DEF UnconfirmedAreFound
<1>6. \A s \in Sessions :
        session'[s].m_SessionTags \cap session'[s].m_UnconfirmedTagsMsgs = {}
  BY <1>1, <1>3 DEF Separate
<1> QED BY <1>2, <1>3, <1>4, <1>5, <1>6, DropPreserves

LEMMA SendPreserves ==
  ASSUME IInv, NEW s \in Sessions, NEW inbound \in BOOLEAN, NEW garbage \in 0 .. MaxMsgID,
         WrapMessage(s, inbound, garbage) \/ SendPackets(s, inbound)
  PROVE  IInv'
<1>1. TypeOK /\ session[s] \in GarlicRoutingSession BY DEF IInv, TypeOK
<1>2. CASE SendPackets(s, inbound)
  <2>1. m_Sessions' \in Sessions \cup {NoSession} BY <1>1, <1>2 DEF SendPackets, TypeOK
  <2> QED BY <1>1, <1>2, <2>1, WrapPreserves DEF SendPackets
<1>3. CASE WrapMessage(s, inbound, garbage)
  <2> DEFINE st == IF m_Sessions = NoSession THEN NewSession(TRUE, garbage) ELSE session[s]
  <2>1. /\ NewSession(TRUE, garbage) \in GarlicRoutingSession
        /\ NewSession(TRUE, garbage).m_SessionTags = {}
        /\ NewSession(TRUE, garbage).m_UnconfirmedTagsMsgs = {}
    BY GarlicAssumption DEF NewSession, GarlicRoutingSession, LeaseSetUpdateStatus
  <2>2. /\ st \in GarlicRoutingSession
        /\ st.m_SessionTags \subseteq session[s].m_SessionTags
        /\ st.m_UnconfirmedTagsMsgs \subseteq session[s].m_UnconfirmedTagsMsgs
    BY <1>1, <2>1
  <2>3. /\ WrapSingleMessage(s, st, inbound) /\ msgID < MaxMsgID
        /\ m_Sessions' \in Sessions \cup {NoSession}
        /\ UNCHANGED <<now, m_LeaseSet, updating, receiver, statuses, handled, duplicates>>
    BY <1>3 DEF WrapMessage
  <2> HIDE DEF st
  <2> QED BY <2>2, <2>3, WrapPreserves
<1> QED BY <1>2, <1>3

LEMMA NextPreserves == IInv /\ [Next]_vars => IInv'
<1> SUFFICES ASSUME IInv, [Next]_vars PROVE IInv'
  OBVIOUS
<1>1. CASE Tick BY <1>1, TickPreserves
<1>2. ASSUME NEW s \in Sessions, NEW inbound \in BOOLEAN, NEW garbage \in 0 .. MaxMsgID,
             WrapMessage(s, inbound, garbage)
      PROVE  IInv'
  BY <1>2, SendPreserves
<1>3. ASSUME NEW s \in Sessions, NEW inbound \in BOOLEAN, SendPackets(s, inbound)
      PROVE  IInv'
  <2>1. 0 \in 0 .. MaxMsgID BY GarlicAssumption
  <2> QED BY <1>3, <2>1, SendPreserves
<1>4. CASE CleanupRoutingSessions BY <1>4, CleanupPreserves
<1>5. ASSUME NEW id \in statuses, HandleDeliveryStatusMessage(id) PROVE IInv'
  BY <1>5, ConfirmPreserves
<1>6. CASE SetLeaseSetUpdated \/ UpdateLeaseSet BY <1>6, LeaseSetPreserves
<1>7. ASSUME NEW m \in net, HandleGarlicMessage(m) PROVE IInv'
  BY <1>7, ReceivePreserves
<1>8. CASE UNCHANGED vars
  BY <1>8 DEF vars, sender, receiver, IInv, TypeOK, IssuedBefore, Separate, Held, SameAge,
     ReceivedLater, Carried, SessionTagsKnown, ConfirmedKnown, SentTagsKnown, Live,
     TagUsedOnce, UnconfirmedAreFound
<1> QED BY <1>1, <1>2, <1>3, <1>4, <1>5, <1>6, <1>7, <1>8 DEF Next

LEMMA Invariance == Spec => []IInv
BY InitEstablishes, NextPreserves, PTL DEF Spec

\* Sessions, tags, messages and tables keep their types through every handler.
THEOREM TypeCorrect == Spec => []TypeOK
<1>1. IInv => TypeOK BY DEF IInv
<1> QED BY <1>1, Invariance, PTL

\* WrapSingleMessage never encrypts under a tag that HandleGarlicMessage will
\* not find, whatever is lost, late, reordered or doubled, as long as the
\* sender's timeout is not the longer one.
THEOREM SentTagsAreKnown == Spec => []TagsAreKnown
<1>1. IInv => TagsAreKnown
  <2> SUFFICES ASSUME IInv PROVE TagsAreKnown
    OBVIOUS
  <2>1. \A s \in Sessions : \A t \in session[s].m_SessionTags : t \in SessionTag
    BY HeldType DEF Held
  <2> QED BY <2>1, FreshIsLive DEF IInv, SessionTagsKnown, SentTagsKnown, TagsAreKnown, Live
<1> QED BY <1>1, Invariance, PTL

\* "use same tag only once": also across the sessions with one peer and after
\* confirmations that come late.
THEOREM TagIsUsedOnce == Spec => []TagUsedOnce
<1>1. IInv => TagUsedOnce BY DEF IInv
<1> QED BY <1>1, Invariance, PTL

\* CleanupExpiredTags and MessageConfirmed keep the owner's table of created
\* sessions in step with what the sessions wait for.
THEOREM UnconfirmedCanBeConfirmed == Spec => []UnconfirmedAreFound
<1>1. IInv => UnconfirmedAreFound BY DEF IInv
<1> QED BY <1>1, Invariance, PTL
=============================================================================
