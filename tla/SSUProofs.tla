---------------------------- MODULE SSUProofs ----------------------------
(***************************************************************************)
(* SSU, in three parts that share no variable.                             *)
(*                                                                         *)
(* Messages over a session (SSUData.tla), for any messages, any number of  *)
(* fragments and any timeouts: a sender stops sending a fragment only for  *)
(* an ack that counts for it, what a receiver puts together is what was    *)
(* sent, and a message that waits for its ack has a resend ahead of it.  That nothing needed is     *)
(* forgotten is not inductive by itself: it rests on what each ack in the  *)
(* network stands for (Meant), and that a message is put together intact   *)
(* rests on the shape of an incomplete one (Assembling).                   *)
(*                                                                         *)
(* Sessions (SSUSession.tla), for any routers, introducers and packets:    *)
(* no session is left without the timer that ends it, and one becomes      *)
(* established only under a key that both ends have agreed on.  That rests *)
(* on whose key pairs a session's key, its confirm data and each packet    *)
(* are made of (KeyOK, ConfirmDataOK, SentBy).                             *)
(*                                                                         *)
(* Peer tests (SSUPeerTest.tla), for any routers, tests, sessions and      *)
(* firewalls: a test that nothing disturbs ends with the truth about       *)
(* Alice, and a router behind a firewall that alone begins tests never     *)
(* comes to believe that it can be reached.  That rests on the stages of   *)
(* such a test (Asked, Underway), and on whom such a router sends to and   *)
(* who can be taken for an Alice or a Bob (PTShut).                        *)
(***************************************************************************)
EXTENDS SSUData, SSUSession, SSUPeerTest, FiniteSetTheorems, SequenceTheorems, WellFoundedInduction, TLAPS

SentMessage == [fragments : SUBSET Nat, numResends : 0 .. MAX_NUM_RESENDS, nextResendTime : Int]
IncompleteMessage == [attached : Seq(Nat), saved : SUBSET Nat, savedUntil : Int]
Table(R) == UNION {[D -> R] : D \in SUBSET SSUMessages}
End ==
  [m_SentMessages : Table(SentMessage), m_IncompleteMessages : Table(IncompleteMessage),
   m_ReceivedMessages : SUBSET SSUMessages, unsent : SUBSET SSUMessages,
   expires : 0 .. RESEND_INTERVAL, waits : SUBSET {"resend", "decay"},
   queued : SUBSET {"resend", "decay"}, cleanup : 0 .. INCOMPLETE_MESSAGES_CLEANUP_TIMEOUT,
   established : BOOLEAN, stopped : BOOLEAN]

\* The first k fragments in order.
FirstFragments(k) == [i \in 1 .. k |-> i - 1]

\* An incomplete message: the fragments before a gap, and some beyond it.
Assembling(m, inc) ==
  /\ inc.attached = FirstFragments(Len(inc.attached))
  /\ Len(inc.attached) < m.n
  /\ \A f \in inc.saved : f \in Fragments(m) /\ f > Len(inc.attached)

SentOK(e, d) ==
  /\ d.m_ReceivedMessages \subseteq {m \in SSUMessages : m.from # e}
  /\ d.unsent \subseteq {m \in SSUMessages : m.from = e}
  /\ \A m \in DOMAIN d.m_SentMessages :
       m.from = e /\ d.m_SentMessages[m].fragments \subseteq Fragments(m)

AssemblingOK(e, d) ==
  \A m \in DOMAIN d.m_IncompleteMessages :
    m.from # e /\ Assembling(m, d.m_IncompleteMessages[m])

Armed(d) ==
  DOMAIN d.m_SentMessages # {} /\ ~d.stopped => "resend" \in d.waits \cup d.queued

EndOK(e, d) == d \in End /\ SentOK(e, d) /\ AssemblingOK(e, d) /\ Armed(d)

Parts(inc) == inc.saved \cup {inc.attached[i] : i \in DOMAIN inc.attached}
HeldBy(d, m) ==
  IF m \notin DOMAIN d.m_IncompleteMessages THEN {} ELSE Parts(d.m_IncompleteMessages[m])
Sending(d, m, f) == m \in DOMAIN d.m_SentMessages /\ f \in d.m_SentMessages[m].fragments
IsPutTogether(m) == \E c \in completed : c.msg = m
Arrived(m, f) == IsPutTogether(m) \/ f \in HeldBy(data[PeerEnd(m.from)], m)
\* An ack that counts for fragment f is due.
Acked(m, f) == IsPutTogether(m) \/ \E g \in Nat : g % AckBits = f /\ Arrived(m, g)

PacketOK(p) ==
  /\ p.msg \in SSUMessages /\ p.kind \in {"fragment", "ack", "fragmentAck"}
  /\ p.kind # "ack" => p.num \in Fragments(p.msg)

\* An ack is for a message that was put together, or for a fragment that is held.
Meant(p) ==
  /\ p.kind = "ack" => IsPutTogether(p.msg)
  /\ p.kind = "fragmentAck" /\ p.msg \notin givenUp => Arrived(p.msg, p.num)

\* What was sent and is sent no longer counts as acknowledged.
Kept ==
  \A p \in ssuNet : p.kind = "fragment" /\ p.msg \notin givenUp =>
    Sending(data[p.msg.from], p.msg, p.num) \/ Acked(p.msg, p.num)

IInv ==
  /\ data \in [SSUEnds -> End]
  /\ \A e \in SSUEnds : EndOK(e, data[e])
  /\ \A p \in ssuNet : PacketOK(p) /\ Meant(p)
  /\ Kept
  /\ PutTogetherIntact
-----------------------------------------------------------------------------
(***************************************************************************)
(* Tables, numbers and the two ends.                                       *)
(***************************************************************************)
LEMMA TableType ==
  ASSUME NEW R, NEW f \in Table(R)
  PROVE  DOMAIN f \subseteq SSUMessages /\ \A m \in DOMAIN f : f[m] \in R
BY DEF Table

LEMMA InTable ==
  ASSUME NEW R, NEW D \in SUBSET SSUMessages, NEW f \in [D -> R]
  PROVE  f \in Table(R)
BY DEF Table

LEMMA InsertType ==
  ASSUME NEW R, NEW f \in Table(R), NEW m \in SSUMessages, NEW v \in R
  PROVE  /\ Insert(f, m, v) \in Table(R)
         /\ DOMAIN Insert(f, m, v) = DOMAIN f \cup {m}
         /\ \A n \in DOMAIN f \cup {m} : Insert(f, m, v)[n] = IF n = m THEN v ELSE f[n]
BY TableType, InTable DEF Insert

LEMMA RestrictType ==
  ASSUME NEW R, NEW f \in Table(R), NEW D \in SUBSET DOMAIN f
  PROVE  /\ Restrict(f, D) \in Table(R)
         /\ DOMAIN Restrict(f, D) = D
         /\ \A n \in D : Restrict(f, D)[n] = f[n]
BY TableType, InTable DEF Restrict

LEMMA MessageType ==
  ASSUME NEW m \in SSUMessages
  PROVE  m.from \in SSUEnds /\ m.n \in Nat \ {0} /\ Fragments(m) \subseteq Nat
BY SSUDataAssumption DEF Fragments

\* A session has two ends: whoever did not send a message is its receiver.
LEMMA ReceiverIsPeer ==
  ASSUME NEW m \in SSUMessages, NEW e \in SSUEnds
  PROVE  /\ PeerEnd(m.from) \in SSUEnds /\ PeerEnd(m.from) # m.from
         /\ m.from # e => PeerEnd(m.from) = e
BY SSUDataAssumption DEF PeerEnd

\* A set of naturals that is not empty has a least element.
LEMMA LeastNatural ==
  ASSUME NEW T \in SUBSET Nat, T # {}
  PROVE  \E x \in T : \A y \in T : x <= y
<1>1. PICK x \in T : \A y \in T : ~(<<y, x>> \in OpToRel(<, Nat))
  BY NatLessThanWellFounded, WFMin
<1>2. \A y \in T : ~(y < x) BY <1>1 DEF OpToRel
<1> QED BY <1>2

\* The saved fragments that follow on number n are an interval that begins at n
\* and ends before a fragment that is not saved.
LEMMA RunIsInterval ==
  ASSUME NEW n \in Nat, NEW k \in Nat, NEW saved \in SUBSET (n .. k)
  PROVE  \E c \in Nat : /\ RunOf(saved, n) = n .. n + c - 1
                        /\ Cardinality(RunOf(saved, n)) = c
                        /\ n + c \notin saved
<1> DEFINE T == {g \in Nat : g >= n /\ g \notin saved}
<1>1. T # {}
  <2>1. CASE n <= k
    <3>1. k + 1 \in T BY <2>1
    <3> QED BY <3>1
  <2>2. CASE ~(n <= k)
    <3>1. n \in T BY <2>2
    <3> QED BY <3>1
  <2> QED BY <2>1, <2>2
<1>2. PICK x \in T : \A y \in T : x <= y
  <2>1. T \in SUBSET Nat OBVIOUS
  <2> HIDE DEF T
  <2> QED BY <1>1, <2>1, LeastNatural
<1>3. x \in Nat /\ x >= n /\ x \notin saved /\ \A g \in Nat : g >= n /\ g < x => g \in saved
  BY <1>2
<1>4. RunOf(saved, n) = n .. x - 1
  <2>1. ASSUME NEW f \in saved, \A g \in n .. f : g \in saved PROVE f \in n .. x - 1
    <3>1. f \in Nat /\ f >= n OBVIOUS
    <3>2. ~(x <= f) BY <2>1, <3>1, <1>3
    <3> QED BY <3>1, <3>2, <1>3
  <2>2. ASSUME NEW f \in n .. x - 1 PROVE f \in saved /\ \A g \in n .. f : g \in saved
    BY <1>3
  <2> QED BY <2>1, <2>2 DEF RunOf
<1>5. Cardinality(n .. x - 1) = x - n
  <2>1. Cardinality(n .. x - 1) = IF n > x - 1 THEN 0 ELSE (x - 1) - n + 1
    BY <1>3, FS_Interval
  <2> QED BY <1>3, <2>1
<1>6. x - n \in Nat /\ n + (x - n) = x BY <1>3
<1> QED BY <1>3, <1>4, <1>5, <1>6
-----------------------------------------------------------------------------
(***************************************************************************)
(* One fragment.                                                           *)
(***************************************************************************)
LEMMA FirstFragmentsType ==
  ASSUME NEW k \in Nat
  PROVE  /\ FirstFragments(k) \in Seq(Nat)
         /\ Len(FirstFragments(k)) = k
         /\ \A i \in 1 .. k : FirstFragments(k)[i] = i - 1
         /\ {FirstFragments(k)[i] : i \in DOMAIN FirstFragments(k)} = 0 .. k - 1
<1>1. FirstFragments(k) \in [1 .. k -> Nat] BY DEF FirstFragments
<1>2. FirstFragments(k) \in Seq(Nat) BY <1>1
<1>3. DOMAIN FirstFragments(k) = 1 .. k BY DEF FirstFragments
<1>4. Len(FirstFragments(k)) = k BY <1>2, <1>3
<1>5. ASSUME NEW f \in 0 .. k - 1
      PROVE  f \in {FirstFragments(k)[i] : i \in DOMAIN FirstFragments(k)}
  <2>1. f + 1 \in 1 .. k /\ FirstFragments(k)[f + 1] = f BY DEF FirstFragments
  <2> QED BY <2>1, <1>3
<1> QED BY <1>2, <1>3, <1>4, <1>5 DEF FirstFragments

LEMMA OneMore ==
  ASSUME NEW k \in Nat, NEW u \in Seq(Nat), Len(u) = k, NEW f \in Nat
  PROVE  /\ u \o <<f>> \in Seq(Nat) /\ Len(u \o <<f>>) = k + 1
         /\ \A i \in 1 .. k + 1 : (u \o <<f>>)[i] = IF i <= k THEN u[i] ELSE f
OBVIOUS

\* Fragment f = the number attached, and c saved ones behind it.
LEMMA AttachedInOrder ==
  ASSUME NEW f \in Nat, NEW c \in Nat
  PROVE  FirstFragments(f) \o <<f>> \o [i \in 1 .. c |-> f + i] = FirstFragments(f + c + 1)
<1> DEFINE r == [i \in 1 .. c |-> f + i]
           s == FirstFragments(f) \o <<f>>
<1>1. r \in Seq(Nat) /\ Len(r) = c
  <2>1. r \in [1 .. c -> Nat] OBVIOUS
  <2> QED BY <2>1
<1>2. /\ s \in Seq(Nat) /\ Len(s) = f + 1
      /\ \A i \in 1 .. f + 1 : s[i] = i - 1
  <2> DEFINE u == FirstFragments(f)
  <2>1. u \in Seq(Nat) /\ Len(u) = f /\ \A i \in 1 .. f : u[i] = i - 1
    BY FirstFragmentsType
  <2> HIDE DEF u
  <2>2. /\ u \o <<f>> \in Seq(Nat) /\ Len(u \o <<f>>) = f + 1
        /\ \A i \in 1 .. f + 1 : (u \o <<f>>)[i] = IF i <= f THEN u[i] ELSE f
    BY <2>1, OneMore
  <2>3. \A i \in 1 .. f + 1 : (u \o <<f>>)[i] = i - 1
    BY <2>1, <2>2
  <2> QED BY <2>2, <2>3 DEF u
<1>3. /\ s \o r \in Seq(Nat) /\ Len(s \o r) = f + 1 + c
      /\ \A i \in 1 .. f + 1 + c : (s \o r)[i] = IF i <= f + 1 THEN s[i] ELSE r[i - (f + 1)]
  <2> HIDE DEF s, r
  <2>1. f + 1 \in Nat OBVIOUS
  <2>2. s \o r \in Seq(Nat) BY <1>1, <1>2
  <2>3. Len(s \o r) = Len(s) + Len(r) BY <1>1, <1>2
  <2>4. ASSUME NEW i \in 1 .. f + 1 + c
        PROVE (s \o r)[i] = IF i <= f + 1 THEN s[i] ELSE r[i - (f + 1)]
      BY <1>1, <1>2
  <2> QED BY <1>1, <1>2, <2>1, <2>2, <2>3, <2>4
<1>4. \A i \in 1 .. f + 1 + c : (s \o r)[i] = i - 1
  <2> SUFFICES ASSUME NEW i \in 1 .. f + 1 + c PROVE (s \o r)[i] = i - 1
    OBVIOUS
  <2>1. CASE i <= f + 1 BY <2>1, <1>2, <1>3
  <2>2. CASE ~(i <= f + 1)
    <3>1. i - (f + 1) \in 1 .. c BY <2>2
    <3>2. r[i - (f + 1)] = i - 1 BY <3>1
    <3> QED BY <2>2, <3>2, <1>3
  <2> QED BY <2>1, <2>2
<1>5. FirstFragments(f + c + 1) \in Seq(Nat) /\ Len(FirstFragments(f + c + 1)) = f + 1 + c
      /\ \A i \in 1 .. f + 1 + c : FirstFragments(f + c + 1)[i] = i - 1
  BY FirstFragmentsType
<1>6. s \o r = FirstFragments(f + c + 1)
  <2> HIDE DEF s, r
  <2> QED BY <1>3, <1>4, <1>5, SeqEqual
<1> QED BY <1>6

\* What an incomplete message is after a fragment: well formed, with all that was
\* there before and the fragment, and put together in order or still incomplete.
Sound(m, inc, f, new) ==
  /\ new \in IncompleteMessage
  /\ Parts(inc) \cup {f} \subseteq Parts(new)
  /\ IsComplete(m, inc, new) => new.attached = FirstFragments(m.n)
  /\ ~IsComplete(m, inc, new) => Assembling(m, new)

LEMMA AttachSound ==
  ASSUME NEW m \in SSUMessages, NEW inc \in IncompleteMessage, Assembling(m, inc),
         Len(inc.attached) \in Fragments(m)
  PROVE  Sound(m, inc, Len(inc.attached), AttachNextFragment(m, inc, Len(inc.attached)))
<1> DEFINE f   == Len(inc.attached)
           run == IF f = m.n - 1 THEN {} ELSE RunOf(inc.saved, f + 1)
           new == AttachNextFragment(m, inc, f)
<1>1. /\ f \in Nat /\ m.n \in Nat /\ f < m.n
      /\ inc.attached = FirstFragments(f) /\ inc.saved \subseteq f + 1 .. m.n - 1
  BY MessageType DEF Assembling, Fragments, IncompleteMessage
<1>2. PICK c \in Nat : /\ run = f + 1 .. f + c /\ Cardinality(run) = c
                       /\ f + 1 + c \notin inc.saved /\ f + c < m.n
  <2>1. CASE f = m.n - 1
    <3>1. run = {} /\ Cardinality(run) = 0 BY <2>1, FS_EmptySet
    <3>2. run = f + 1 .. f + 0 /\ f + 1 + 0 \notin inc.saved /\ f + 0 < m.n
      BY <2>1, <3>1, <1>1
    <3> QED BY <3>1, <3>2
  <2>2. CASE f # m.n - 1
    <3>1. PICK c \in Nat : /\ RunOf(inc.saved, f + 1) = f + 1 .. (f + 1) + c - 1
                           /\ Cardinality(RunOf(inc.saved, f + 1)) = c
                           /\ f + 1 + c \notin inc.saved
      <4>1. f + 1 \in Nat /\ m.n - 1 \in Nat /\ inc.saved \in SUBSET (f + 1 .. m.n - 1)
        BY <1>1
      <4> QED BY <4>1, RunIsInterval
    <3>2. run = f + 1 .. f + c BY <3>1, <2>2, <1>1
    <3>3. f + c < m.n
      <4>1. CASE c = 0 BY <4>1, <1>1
      <4>2. CASE c # 0
        <5>1. f + c \in RunOf(inc.saved, f + 1) BY <4>2, <3>1, <1>1
        <5>2. f + c \in inc.saved BY <5>1 DEF RunOf
        <5> QED BY <5>2, <1>1
      <4> QED BY <4>1, <4>2
    <3> QED BY <3>1, <3>2, <3>3, <2>2
  <2> QED BY <2>1, <2>2
<1>3. new = [inc EXCEPT !.attached = FirstFragments(f + c + 1), !.saved = @ \ run]
  <2>1. inc.attached \o <<f>> \o [i \in 1 .. c |-> f + i] = FirstFragments(f + c + 1)
    BY <1>1, AttachedInOrder
  <2> HIDE DEF f
  <2> QED BY <1>2, <2>1 DEF AttachNextFragment, f
<1>4. /\ FirstFragments(f + c + 1) \in Seq(Nat) /\ Len(FirstFragments(f + c + 1)) = f + c + 1
      /\ FirstFragments(f + c + 1)[f + c + 1] = f + c
      /\ {FirstFragments(f + c + 1)[i] : i \in DOMAIN FirstFragments(f + c + 1)} = 0 .. f + c
  <2>1. f + c + 1 \in Nat /\ f + c + 1 \in 1 .. f + c + 1 BY <1>1
  <2>2. \A k \in Nat : /\ FirstFragments(k) \in Seq(Nat) /\ Len(FirstFragments(k)) = k
                       /\ \A i \in 1 .. k : FirstFragments(k)[i] = i - 1
                       /\ {FirstFragments(k)[i] : i \in DOMAIN FirstFragments(k)} = 0 .. k - 1
    BY FirstFragmentsType
  <2>3. (f + c + 1) - 1 = f + c BY <1>1
  <2> HIDE DEF f
  <2> QED BY <2>1, <2>2, <2>3
<1>5. new \in IncompleteMessage /\ new.attached = FirstFragments(f + c + 1)
      /\ new.saved = inc.saved \ run
  BY <1>3, <1>4 DEF IncompleteMessage
<1> HIDE DEF new, run
<1>6. Parts(inc) \cup {f} \subseteq Parts(new)
  <2>1. Parts(inc) = inc.saved \cup 0 .. f - 1
    <3>1. {FirstFragments(f)[i] : i \in DOMAIN FirstFragments(f)} = 0 .. f - 1
      BY <1>1, FirstFragmentsType
    <3> QED BY <3>1, <1>1 DEF Parts
  <2>2. Parts(new) = (inc.saved \ run) \cup 0 .. f + c BY <1>4, <1>5 DEF Parts
  <2> QED BY <2>1, <2>2, <1>1, <1>2
<1>7. IsComplete(m, inc, new) <=> f + c = m.n - 1
  BY <1>1, <1>4, <1>5 DEF IsComplete
<1>8. ASSUME f + c = m.n - 1 PROVE new.attached = FirstFragments(m.n)
  <2>1. f + c + 1 = m.n BY <1>8, <1>1
  <2> QED BY <2>1, <1>5
<1>9. ASSUME f + c # m.n - 1 PROVE Assembling(m, new)
  <2>1. Len(new.attached) = f + c + 1 BY <1>4, <1>5
  <2>2. new.attached = FirstFragments(Len(new.attached)) BY <2>1, <1>5
  <2>3. f + c + 1 < m.n BY <1>9, <1>1, <1>2
  <2>4. ASSUME NEW g \in new.saved PROVE g \in Fragments(m) /\ g > f + c + 1
    BY <1>1, <1>2, <1>5 DEF Fragments
  <2> QED BY <2>1, <2>2, <2>3, <2>4 DEF Assembling
<1> QED BY <1>5, <1>6, <1>7, <1>8, <1>9 DEF Sound, new

LEMMA HandleFragmentSound ==
  ASSUME NEW m \in SSUMessages, NEW inc \in IncompleteMessage, Assembling(m, inc),
         NEW f \in Fragments(m)
  PROVE  Sound(m, inc, f, HandleFragment(m, inc, f))
<1>1. CASE f = Len(inc.attached) BY <1>1, AttachSound DEF HandleFragment
<1>2. CASE f # Len(inc.attached) /\ (f < Len(inc.attached) \/ f \in inc.saved)
  <2>1. HandleFragment(m, inc, f) = inc BY <1>2 DEF HandleFragment
  <2>2. ~IsComplete(m, inc, inc) BY DEF IsComplete, IncompleteMessage
  <2>3. f \in Parts(inc)
    <3>1. CASE f \in inc.saved BY <3>1 DEF Parts
    <3>2. CASE f < Len(inc.attached)
      <4>1. f \in 0 .. Len(inc.attached) - 1
        BY <3>2, MessageType DEF Fragments, IncompleteMessage
      <4>2. {inc.attached[i] : i \in DOMAIN inc.attached} = 0 .. Len(inc.attached) - 1
        <5> DEFINE k == Len(inc.attached)
        <5>1. k \in Nat /\ inc.attached = FirstFragments(k) BY DEF Assembling, IncompleteMessage
        <5>2. {FirstFragments(k)[i] : i \in DOMAIN FirstFragments(k)} = 0 .. k - 1
          BY <5>1, FirstFragmentsType, Zenon
        <5> HIDE DEF k
        <5>3. {inc.attached[i] : i \in DOMAIN inc.attached} = 0 .. k - 1 BY <5>1, <5>2, Zenon
        <5> QED BY <5>3 DEF k
      <4> QED BY <4>1, <4>2 DEF Parts
    <3> QED BY <1>2, <3>1, <3>2
  <2> QED BY <2>1, <2>2, <2>3 DEF Sound
<1>3. CASE f > Len(inc.attached) /\ f \notin inc.saved
  <2> DEFINE new == HandleFragment(m, inc, f)
  <2>1. new = [inc EXCEPT !.saved = @ \cup {f},
                          !.savedUntil = INCOMPLETE_MESSAGES_CLEANUP_TIMEOUT]
    BY <1>3, MessageType DEF HandleFragment, IncompleteMessage
  <2>2. /\ new \in IncompleteMessage /\ new.attached = inc.attached
        /\ new.saved = inc.saved \cup {f}
    <3>1. f \in Nat /\ INCOMPLETE_MESSAGES_CLEANUP_TIMEOUT \in Int
      BY MessageType, SSUDataAssumption
    <3> QED BY <2>1, <3>1 DEF IncompleteMessage
  <2> HIDE DEF new
  <2>3. ~IsComplete(m, inc, new) BY <2>2 DEF IsComplete, IncompleteMessage
  <2>4. Assembling(m, new) BY <2>2, <1>3 DEF Assembling
  <2>5. Parts(inc) \cup {f} \subseteq Parts(new) BY <2>2 DEF Parts
  <2> QED BY <2>2, <2>3, <2>4, <2>5 DEF Sound, new
<1> QED
  <2>1. f \in Nat /\ Len(inc.attached) \in Nat BY MessageType DEF IncompleteMessage
  <2> QED BY <2>1, <1>1, <1>2, <1>3
-----------------------------------------------------------------------------
(***************************************************************************)
(* One end takes a step.                                                   *)
(***************************************************************************)
\* End e becomes d.  It keeps the fragments it has of a message that is neither
\* given up nor put together, and stops sending only what counts as acknowledged;
\* new packets mean what they should, new fragments are sent by it.
Changes(e, d) ==
  /\ data' = [data EXCEPT ![e] = d] /\ EndOK(e, d)
  /\ ssuNet \subseteq ssuNet' /\ completed \subseteq completed' /\ givenUp \subseteq givenUp'
  /\ \A m \in SSUMessages \ givenUp' : m.from # e =>
       \A f \in HeldBy(data[e], m) : IsPutTogether(m)' \/ f \in HeldBy(d, m)
  /\ \A m \in SSUMessages \ givenUp' : m.from = e =>
       \A f \in Fragments(m) : Sending(data[e], m, f) => Sending(d, m, f) \/ Acked(m, f)
  /\ \A p \in ssuNet' \ ssuNet :
       /\ PacketOK(p) /\ Meant(p)'
       /\ p.kind = "fragment" => p.msg.from = e /\ Sending(d, p.msg, p.num)
  /\ PutTogetherIntact'

LEMMA EndChanges ==
  ASSUME IInv, NEW e \in SSUEnds, NEW d, Changes(e, d)
  PROVE  IInv'
<1>1. /\ data \in [SSUEnds -> End] /\ data' = [data EXCEPT ![e] = d] /\ d \in End
      /\ data' \in [SSUEnds -> End] /\ data'[e] = d
      /\ \A f \in SSUEnds \ {e} : data'[f] = data[f]
  BY DEF IInv, Changes, EndOK
<1>2. \A f \in SSUEnds : EndOK(f, data'[f])
  BY <1>1 DEF IInv, Changes
<1>3. ASSUME NEW m \in SSUMessages, NEW f, m \notin givenUp', Arrived(m, f)
      PROVE  Arrived(m, f)'
  <2>1. CASE IsPutTogether(m)
    <3>1. IsPutTogether(m)' BY <2>1 DEF IsPutTogether, Changes
    <3> QED BY <3>1 DEF Arrived
  <2>2. CASE f \in HeldBy(data[PeerEnd(m.from)], m)
    <3>1. PeerEnd(m.from) \in SSUEnds BY MessageType, ReceiverIsPeer
    <3>2. CASE PeerEnd(m.from) = e
      <4>1. m.from # e BY <3>2, ReceiverIsPeer
      <4>2. IsPutTogether(m)' \/ f \in HeldBy(d, m) BY <1>3, <2>2, <3>2, <4>1 DEF Changes
      <4> QED BY <4>2, <3>2, <1>1 DEF Arrived
    <3>3. CASE PeerEnd(m.from) # e
      <4>1. data'[PeerEnd(m.from)] = data[PeerEnd(m.from)] BY <3>1, <3>3, <1>1
      <4> QED BY <4>1, <2>2 DEF Arrived
    <3> QED BY <3>2, <3>3
  <2> QED BY <1>3, <2>1, <2>2 DEF Arrived
<1>4. ASSUME NEW p \in ssuNet' PROVE PacketOK(p) /\ Meant(p)'
  <2>1. CASE p \in ssuNet
    <3>1. PacketOK(p) /\ Meant(p) BY <2>1 DEF IInv
    <3>2. IsPutTogether(p.msg) => IsPutTogether(p.msg)' BY DEF IsPutTogether, Changes
    <3>3. p.kind = "fragmentAck" /\ p.msg \notin givenUp' => Arrived(p.msg, p.num)'
      BY <3>1, <1>3 DEF Changes, Meant, PacketOK
    <3> QED BY <3>1, <3>2, <3>3 DEF Meant
  <2>2. CASE p \notin ssuNet BY <2>2 DEF Changes
  <2> QED BY <2>1, <2>2
<1>5. Kept'
  <2> SUFFICES ASSUME NEW p \in ssuNet', p.kind = "fragment", p.msg \notin givenUp'
               PROVE  Sending(data'[p.msg.from], p.msg, p.num) \/ Acked(p.msg, p.num)'
    BY DEF Kept, Sending
  <2> DEFINE m == p.msg
             f == p.num
  <2>1. m \in SSUMessages /\ f \in Fragments(m) /\ m.from \in SSUEnds
    BY <1>4, MessageType DEF PacketOK
  <2>2. CASE p \in ssuNet
    <3>1. Sending(data[m.from], m, f) \/ Acked(m, f)
      BY <2>2 DEF IInv, Kept, Changes
    <3>2. Acked(m, f) => Acked(m, f)'
      <4>1. IsPutTogether(m) => IsPutTogether(m)' BY DEF IsPutTogether, Changes
      <4>2. \A g \in Nat : Arrived(m, g) => Arrived(m, g)' BY <2>1, <1>3
      <4> QED BY <4>1, <4>2 DEF Acked
    <3>3. CASE m.from = e
      <4>1. Sending(data[e], m, f) => Sending(d, m, f) \/ Acked(m, f)
        BY <2>1, <3>3 DEF Changes
      <4> QED BY <3>1, <3>2, <3>3, <4>1, <1>1
    <3>4. CASE m.from # e
      <4>1. data'[m.from] = data[m.from] BY <2>1, <3>4, <1>1
      <4> QED BY <3>1, <3>2, <4>1
    <3> QED BY <3>3, <3>4
  <2>3. CASE p \notin ssuNet
    <3>1. m.from = e /\ Sending(d, m, f) BY <2>3 DEF Changes
    <3> QED BY <3>1, <1>1
  <2> QED BY <2>2, <2>3
<1> QED
  <2>1. \A p \in ssuNet' : PacketOK(p)' /\ Meant(p)' BY <1>4 DEF PacketOK
  <2>2. \A f \in SSUEnds : EndOK(f, data[f])' BY <1>2 DEF EndOK, SentOK, AssemblingOK, Armed
  <2> QED BY <1>1, <1>5, <2>1, <2>2 DEF IInv, Changes, End, Table, SentMessage, IncompleteMessage

LEMMA EndType ==
  ASSUME IInv, NEW e \in SSUEnds
  PROVE  /\ data[e] \in End /\ EndOK(e, data[e])
         /\ DOMAIN data[e].m_SentMessages \subseteq SSUMessages
         /\ \A m \in DOMAIN data[e].m_SentMessages :
              data[e].m_SentMessages[m] \in SentMessage
         /\ DOMAIN data[e].m_IncompleteMessages \subseteq SSUMessages
         /\ \A m \in DOMAIN data[e].m_IncompleteMessages :
              data[e].m_IncompleteMessages[m] \in IncompleteMessage
<1>1. data[e] \in End /\ EndOK(e, data[e]) BY DEF IInv
<1>2. /\ data[e].m_SentMessages \in Table(SentMessage)
      /\ data[e].m_IncompleteMessages \in Table(IncompleteMessage)
  BY <1>1 DEF End
<1> QED BY <1>1, <1>2, TableType

\* A step that sends and completes nothing, and after which what was in the
\* tables is there or given up.
LEMMA QuietStep ==
  ASSUME IInv, NEW e \in SSUEnds, NEW d, EndOK(e, d),
         data' = [data EXCEPT ![e] = d],
         ssuNet' = ssuNet, completed' = completed, givenUp \subseteq givenUp',
         \A m \in SSUMessages \ givenUp' :
           /\ HeldBy(data[e], m) \subseteq HeldBy(d, m)
           /\ \A f \in Fragments(m) : Sending(data[e], m, f) => Sending(d, m, f) \/ Acked(m, f)
  PROVE  IInv'
<1>1. PutTogetherIntact' BY DEF IInv, PutTogetherIntact
<1>2. Changes(e, d) BY <1>1 DEF Changes
<1> QED BY <1>2, EndChanges

\* A step of the timers alone: the tables and what is to be sent stay.
LEMMA TimerStep ==
  ASSUME IInv, NEW e \in SSUEnds, NEW d \in End, Armed(d),
         data' = [data EXCEPT ![e] = d], UNCHANGED <<ssuNet, completed, givenUp>>,
         d.m_SentMessages = data[e].m_SentMessages,
         d.m_IncompleteMessages = data[e].m_IncompleteMessages,
         d.unsent = data[e].unsent, d.m_ReceivedMessages \subseteq data[e].m_ReceivedMessages
  PROVE  IInv'
<1>1. EndOK(e, d)
  <2>1. EndOK(e, data[e]) BY EndType
  <2> QED BY <2>1 DEF EndOK, SentOK, AssemblingOK
<1> QED BY <1>1, QuietStep DEF HeldBy, Sending

LEMMA HandleDecayTimerStep ==
  ASSUME IInv, NEW e \in SSUEnds, HandleDecayTimer(e) PROVE IInv'
<1> DEFINE d == [data[e] EXCEPT !.queued = @ \ {"decay"}, !.m_ReceivedMessages = {}]
<1>1. data' = [data EXCEPT ![e] = d] BY DEF HandleDecayTimer
<1>2. data[e] \in End /\ Armed(data[e]) BY EndType DEF EndOK
<1>3. d \in End BY <1>2 DEF End
<1>4. Armed(d) BY <1>2 DEF Armed, End
<1> QED BY <1>1, <1>2, <1>3, <1>4, TimerStep DEF HandleDecayTimer, End

LEMMA ResendTimerExpiredStep ==
  ASSUME IInv, NEW e \in SSUEnds, ResendTimerExpired(e) PROVE IInv'
<1> DEFINE d == [data[e] EXCEPT !.queued = @ \cup data[e].waits, !.waits = {}]
<1>1. data' = [data EXCEPT ![e] = d] BY DEF ResendTimerExpired
<1>2. data[e] \in End /\ Armed(data[e]) BY EndType DEF EndOK
<1>3. d \in End BY <1>2 DEF End
<1>4. Armed(d) BY <1>2 DEF Armed, End
<1> QED BY <1>1, <1>2, <1>3, <1>4, TimerStep DEF ResendTimerExpired, End

LEMMA StopDataStep ==
  ASSUME IInv, NEW e \in SSUEnds, StopData(e) PROVE IInv'
<1> DEFINE d == [data[e] EXCEPT !.waits = {}, !.stopped = TRUE]
<1>1. data' = [data EXCEPT ![e] = d] BY DEF StopData
<1>2. data[e] \in End /\ Armed(data[e]) BY EndType DEF EndOK
<1>3. d \in End BY <1>2 DEF End
<1>4. Armed(d) BY <1>2 DEF Armed, End
<1> QED BY <1>1, <1>2, <1>3, <1>4, TimerStep DEF StopData, End

LEMMA CleanupTimerStep ==
  ASSUME IInv, NEW e \in SSUEnds, HandleIncompleteMessagesCleanupTimer(e) PROVE IInv'
<1> DEFINE t   == data[e].m_IncompleteMessages
           old == {m \in DOMAIN t : t[m].savedUntil < 0}
           new == Restrict(t, DOMAIN t \ old)
           d   == [data[e] EXCEPT !.cleanup = INCOMPLETE_MESSAGES_CLEANUP_TIMEOUT,
                                  !.m_IncompleteMessages = new]
<1>1. data' = [data EXCEPT ![e] = d] BY DEF HandleIncompleteMessagesCleanupTimer
<1>2. /\ new \in Table(IncompleteMessage) /\ DOMAIN new = DOMAIN t \ old
      /\ \A m \in DOMAIN t \ old : new[m] = t[m]
  <2>1. t \in Table(IncompleteMessage) BY EndType DEF End
  <2>2. DOMAIN t \ old \in SUBSET DOMAIN t OBVIOUS
  <2> HIDE DEF t, old
  <2> QED BY <2>1, <2>2, RestrictType
<1>3. givenUp' = givenUp \cup old /\ ssuNet' = ssuNet /\ completed' = completed
  BY DEF HandleIncompleteMessagesCleanupTimer
<1> HIDE DEF old, new
<1>4. d \in End /\ d.m_SentMessages = data[e].m_SentMessages /\ d.m_IncompleteMessages = new
      /\ d.m_ReceivedMessages = data[e].m_ReceivedMessages /\ d.unsent = data[e].unsent
      /\ d.waits = data[e].waits /\ d.queued = data[e].queued /\ d.stopped = data[e].stopped
  <2>1. data[e] \in End BY EndType
  <2>2. INCOMPLETE_MESSAGES_CLEANUP_TIMEOUT \in 0 .. INCOMPLETE_MESSAGES_CLEANUP_TIMEOUT
    BY SSUDataAssumption
  <2> HIDE DEF t
  <2> QED BY <1>2, <2>1, <2>2 DEF End
<1> HIDE DEF d
<1>5. SentOK(e, d) /\ AssemblingOK(e, d) /\ Armed(d)
  BY <1>2, <1>4, EndType DEF EndOK, SentOK, AssemblingOK, Armed
<1>6. \A m \in SSUMessages \ givenUp' : HeldBy(data[e], m) \subseteq HeldBy(d, m)
  BY <1>2, <1>3, <1>4 DEF HeldBy
<1> QED BY <1>1, <1>3, <1>4, <1>5, <1>6, QuietStep DEF EndOK, Sending

\* A step at the sender: the messages on their way become new.
LEMMA SenderStep ==
  ASSUME IInv, NEW e \in SSUEnds, NEW d, NEW new \in Table(SentMessage),
         NEW unsent \in SUBSET data[e].unsent,
         NEW expires \in 0 .. RESEND_INTERVAL,
         NEW waits \in SUBSET {"resend", "decay"}, NEW queued \in SUBSET {"resend", "decay"},
         d = [data[e] EXCEPT !.m_SentMessages = new, !.unsent = unsent, !.expires = expires,
                             !.waits = waits, !.queued = queued],
         data' = [data EXCEPT ![e] = d],
         \A m \in DOMAIN new : m.from = e /\ new[m].fragments \subseteq Fragments(m),
         DOMAIN new # {} /\ ~data[e].stopped => "resend" \in waits \cup queued,
         ssuNet \subseteq ssuNet', completed' = completed, givenUp \subseteq givenUp',
         \A m \in SSUMessages \ givenUp' : m.from = e =>
           \A f \in Fragments(m) : Sending(data[e], m, f) =>
             (m \in DOMAIN new /\ f \in new[m].fragments) \/ Acked(m, f),
         \A p \in ssuNet' \ ssuNet :
           \E m \in DOMAIN new : p \in FragmentPackets(m, new[m].fragments)
  PROVE  IInv'
<1>1. data[e] \in End /\ EndOK(e, data[e]) BY EndType
<1>2. /\ d \in End /\ d.m_SentMessages = new /\ d.unsent = unsent /\ d.waits = waits
      /\ d.m_IncompleteMessages = data[e].m_IncompleteMessages
      /\ d.m_ReceivedMessages = data[e].m_ReceivedMessages
      /\ d.stopped = data[e].stopped /\ d.queued = queued
  BY <1>1 DEF End
<1>3. EndOK(e, d) BY <1>1, <1>2 DEF EndOK, SentOK, AssemblingOK, Armed
<1>4. PutTogetherIntact' BY DEF IInv, PutTogetherIntact
<1>5. ASSUME NEW p \in ssuNet' \ ssuNet
      PROVE  /\ PacketOK(p) /\ Meant(p)'
             /\ p.kind = "fragment" => p.msg.from = e /\ Sending(d, p.msg, p.num)
  <2>1. PICK m \in DOMAIN new : p \in FragmentPackets(m, new[m].fragments) OBVIOUS
  <2>2. /\ p.kind = "fragment" /\ p.msg = m /\ p.num \in new[m].fragments
        /\ m \in SSUMessages /\ m.from = e /\ p.num \in Fragments(m)
    BY <2>1, TableType DEF FragmentPackets
  <2> QED BY <2>2, <1>2 DEF PacketOK, Meant, Sending
<1>6. Changes(e, d)
  BY <1>2, <1>3, <1>4, <1>5 DEF Changes, HeldBy, Sending
<1> QED BY <1>6, EndChanges

LEMMA HandleDataResendTimerStep ==
  ASSUME IInv, NEW e \in SSUEnds, HandleDataResendTimer(e) PROVE IInv'
<1> DEFINE t    == data[e].m_SentMessages
           due  == {m \in DOMAIN t : t[m].nextResendTime <= 0}
           over == {m \in due : GiveUp(t[m])}
           Resent(s) == [s EXCEPT !.numResends = @ + 1,
                           !.nextResendTime = @ + (s.numResends + 1) * RESEND_INTERVAL]
           new  == [m \in DOMAIN t \ over |-> IF m \in due THEN Resent(t[m]) ELSE t[m]]
           d    == [data[e] EXCEPT !.m_SentMessages = new, !.unsent = data[e].unsent,
                      !.expires = RESEND_INTERVAL, !.waits = {"resend"},
                      !.queued = data[e].queued \ {"resend"}]
<1>1. data[e] \in End /\ EndOK(e, data[e]) BY EndType
<1>2. data' = [data EXCEPT ![e] = d]
  BY <1>1 DEF HandleDataResendTimer, ScheduleDataResend, End
<1>3. DOMAIN t \subseteq SSUMessages /\ \A m \in DOMAIN t : t[m] \in SentMessage
  BY EndType
<1>4. ASSUME NEW m \in DOMAIN t \ over
      PROVE  new[m] \in SentMessage /\ new[m].fragments = t[m].fragments
  <2>1. CASE m \in due
    <3>1. t[m] \in SentMessage /\ ~(t[m].numResends >= MAX_NUM_RESENDS)
      BY <2>1, <1>3, <1>4 DEF GiveUp
    <3>2. t[m].numResends + 1 \in 0 .. MAX_NUM_RESENDS
      BY <3>1, SSUDataAssumption DEF SentMessage
    <3>3. t[m].nextResendTime + (t[m].numResends + 1) * RESEND_INTERVAL \in Int
      BY <3>1, <3>2, SSUDataAssumption DEF SentMessage
    <3>4. new[m] = Resent(t[m]) BY <2>1, <1>4
    <3> QED BY <3>1, <3>2, <3>3, <3>4 DEF SentMessage
  <2>2. CASE m \notin due BY <2>2, <1>3, <1>4
  <2> QED BY <2>1, <2>2
<1>5. new \in Table(SentMessage)
  <2>1. new \in [DOMAIN t \ over -> SentMessage] BY <1>4
  <2>2. DOMAIN t \ over \in SUBSET SSUMessages BY <1>3
  <2> HIDE DEF new, t, over
  <2> QED BY <2>1, <2>2, InTable
<1>6. /\ ssuNet' = ssuNet \cup UNION {FragmentPackets(m, t[m].fragments) : m \in due \ over}
      /\ givenUp' = givenUp \cup over /\ completed' = completed
  BY DEF HandleDataResendTimer
<1>7. DOMAIN new = DOMAIN t \ over /\ due \subseteq DOMAIN t OBVIOUS
<1>8. /\ data[e].queued \ {"resend"} \in SUBSET {"resend", "decay"}
      /\ {"resend"} \in SUBSET {"resend", "decay"}
      /\ RESEND_INTERVAL \in 0 .. RESEND_INTERVAL
  BY <1>1, SSUDataAssumption DEF End
<1> HIDE DEF new, over, due
<1>9. \A m \in DOMAIN new : m.from = e /\ new[m].fragments \subseteq Fragments(m)
  BY <1>1, <1>4, <1>7 DEF EndOK, SentOK
<1>10. \A p \in ssuNet' \ ssuNet :
         \E m \in DOMAIN new : p \in FragmentPackets(m, new[m].fragments)
  BY <1>4, <1>6, <1>7
<1>11. \A m \in SSUMessages \ givenUp' : \A f \in Fragments(m) :
         Sending(data[e], m, f) => m \in DOMAIN new /\ f \in new[m].fragments
  BY <1>4, <1>6, <1>7 DEF Sending
<1> HIDE DEF t
<1> QED BY <1>2, <1>5, <1>6, <1>8, <1>9, <1>10, <1>11, SenderStep

LEMMA SendMessageStep ==
  ASSUME IInv, NEW e \in SSUEnds, NEW m \in SSUMessages, SendMessage(e, m) PROVE IInv'
<1> DEFINE t   == data[e].m_SentMessages
           v   == [fragments |-> Fragments(m), numResends |-> 0,
                   nextResendTime |-> RESEND_INTERVAL]
           new == Insert(t, m, v)
           expires == IF DOMAIN t = {} THEN RESEND_INTERVAL ELSE data[e].expires
           waits   == IF DOMAIN t = {} THEN {"resend"} ELSE data[e].waits
           unsent  == data[e].unsent \ {m}
           d   == [data[e] EXCEPT !.m_SentMessages = new, !.unsent = unsent,
                     !.expires = expires, !.waits = waits, !.queued = data[e].queued]
<1>1. data[e] \in End /\ EndOK(e, data[e]) BY EndType
<1>2. data' = [data EXCEPT ![e] = d]
  BY <1>1 DEF SendMessage, ScheduleDataResend, End
<1>3. m \in data[e].unsent /\ m.from = e BY <1>1 DEF SendMessage, EndOK, SentOK
<1>4. /\ new \in Table(SentMessage) /\ DOMAIN new = DOMAIN t \cup {m}
      /\ \A n \in DOMAIN t \cup {m} : new[n] = IF n = m THEN v ELSE t[n]
  <2>1. t \in Table(SentMessage) BY <1>1 DEF End
  <2>2. v \in SentMessage BY MessageType, SSUDataAssumption DEF SentMessage
  <2> HIDE DEF t, v
  <2>3. Insert(t, m, v) \in Table(SentMessage) BY <2>1, <2>2, InsertType
  <2> QED BY <2>1, <2>2, <2>3 DEF Insert
<1>5. /\ ssuNet' = ssuNet \cup FragmentPackets(m, Fragments(m))
      /\ completed' = completed /\ givenUp' = givenUp
  BY DEF SendMessage
<1>6. /\ unsent \in SUBSET data[e].unsent /\ expires \in 0 .. RESEND_INTERVAL
      /\ waits \in SUBSET {"resend", "decay"} /\ data[e].queued \in SUBSET {"resend", "decay"}
  BY <1>1, SSUDataAssumption DEF End
<1>7. "resend" \in waits \cup data[e].queued
  BY <1>1 DEF EndOK, Armed, SendMessage
<1>8. v.fragments = Fragments(m) OBVIOUS
<1> HIDE DEF new, v, unsent, expires, waits
<1>9. \A n \in DOMAIN new : n.from = e /\ new[n].fragments \subseteq Fragments(n)
  BY <1>1, <1>3, <1>4, <1>8 DEF EndOK, SentOK
<1>10. \A p \in ssuNet' \ ssuNet :
         \E n \in DOMAIN new : p \in FragmentPackets(n, new[n].fragments)
  BY <1>4, <1>5, <1>8
<1>11. \A n \in SSUMessages : \A f \in Fragments(n) :
         Sending(data[e], n, f) => n \in DOMAIN new /\ f \in new[n].fragments
  BY <1>4, <1>8 DEF Sending
<1> HIDE DEF t
<1> QED BY <1>2, <1>4, <1>5, <1>6, <1>7, <1>9, <1>10, <1>11, SenderStep

\* The whole message was put together; the timer stops with the last message.
LEMMA ProcessSentMessageAckStep ==
  ASSUME IInv, NEW e \in SSUEnds, NEW m \in SSUMessages, IsPutTogether(m),
         data' = [data EXCEPT ![e] = ProcessSentMessageAck(data[e], m)],
         UNCHANGED <<ssuNet, completed, givenUp>>
  PROVE  IInv'
<1> DEFINE t     == data[e].m_SentMessages
           new   == Restrict(t, DOMAIN t \ {m})
           waits == IF DOMAIN new = {} THEN {} ELSE data[e].waits
           d     == [data[e] EXCEPT !.m_SentMessages = new, !.unsent = data[e].unsent,
                       !.expires = data[e].expires, !.waits = waits,
                       !.queued = data[e].queued]
<1>1. data[e] \in End /\ EndOK(e, data[e]) BY EndType
<1>2. CASE m \notin DOMAIN t
  <2>1. data' = [data EXCEPT ![e] = data[e]] BY <1>2 DEF ProcessSentMessageAck
  <2> QED BY <2>1, <1>1, TimerStep DEF EndOK
<1>3. CASE m \in DOMAIN t
  <2>1. data' = [data EXCEPT ![e] = d] BY <1>1, <1>3 DEF ProcessSentMessageAck, End
  <2>2. /\ new \in Table(SentMessage) /\ DOMAIN new = DOMAIN t \ {m}
        /\ \A n \in DOMAIN t \ {m} : new[n] = t[n]
    <3>1. t \in Table(SentMessage) BY <1>1 DEF End
    <3>2. DOMAIN t \ {m} \in SUBSET DOMAIN t OBVIOUS
    <3> HIDE DEF t
    <3> QED BY <3>1, <3>2, RestrictType
  <2> HIDE DEF new
  <2>3. /\ data[e].unsent \in SUBSET data[e].unsent /\ data[e].expires \in 0 .. RESEND_INTERVAL
        /\ waits \in SUBSET {"resend", "decay"} /\ data[e].queued \in SUBSET {"resend", "decay"}
    BY <1>1 DEF End
  <2>4. DOMAIN new # {} /\ ~data[e].stopped => "resend" \in waits \cup data[e].queued
    BY <1>1, <2>2 DEF EndOK, Armed
  <2> HIDE DEF waits
  <2>5. \A n \in DOMAIN new : n.from = e /\ new[n].fragments \subseteq Fragments(n)
    BY <1>1, <2>2 DEF EndOK, SentOK
  <2>6. \A n \in SSUMessages \ givenUp' : n.from = e =>
          \A f \in Fragments(n) : Sending(data[e], n, f) =>
            (n \in DOMAIN new /\ f \in new[n].fragments) \/ Acked(n, f)
    BY <2>2 DEF Sending, Acked
  <2>7. new \in Table(SentMessage) /\ UNCHANGED <<ssuNet, completed, givenUp>>
    BY <2>2
  <2>8. /\ \A p \in ssuNet' \ ssuNet :
              \E n \in DOMAIN new : p \in FragmentPackets(n, new[n].fragments)
        /\ ssuNet \subseteq ssuNet' /\ completed' = completed /\ givenUp \subseteq givenUp'
    BY <2>7
  <2>9. d = [data[e] EXCEPT !.m_SentMessages = new, !.unsent = data[e].unsent,
               !.expires = data[e].expires, !.waits = waits, !.queued = data[e].queued]
    OBVIOUS
  <2> HIDE DEF t, d
  <2> QED BY <2>1, <2>3, <2>4, <2>5, <2>6, <2>7, <2>8, <2>9, SenderStep, ZenonT(120)
<1> QED BY <1>2, <1>3

\* One fragment arrived; which one counts as acknowledged is another matter.
LEMMA ProcessFragmentAckStep ==
  ASSUME IInv, NEW e \in SSUEnds, NEW m \in SSUMessages, NEW f \in Fragments(m),
         m \notin givenUp => Arrived(m, f),
         data' = [data EXCEPT ![e] = ProcessFragmentAck(data[e], m, f)],
         UNCHANGED <<ssuNet, completed, givenUp>>
  PROVE  IInv'
<1> DEFINE t   == data[e].m_SentMessages
           g   == f % AckBits
           new == [t EXCEPT ![m].fragments = @ \ {g}]
           d   == [data[e] EXCEPT !.m_SentMessages = new, !.unsent = data[e].unsent,
                     !.expires = data[e].expires, !.waits = data[e].waits,
                     !.queued = data[e].queued]
<1>1. data[e] \in End /\ EndOK(e, data[e]) BY EndType
<1>2. CASE m \notin DOMAIN t
  <2>1. data' = [data EXCEPT ![e] = data[e]] BY <1>2 DEF ProcessFragmentAck
  <2> QED BY <2>1, <1>1, TimerStep DEF EndOK
<1>3. CASE m \in DOMAIN t
  <2>1. data' = [data EXCEPT ![e] = d] BY <1>1, <1>3 DEF ProcessFragmentAck, End
  <2>2. t \in Table(SentMessage) /\ DOMAIN t \subseteq SSUMessages
        /\ \A n \in DOMAIN t : t[n] \in SentMessage
    <3>1. t \in Table(SentMessage) BY <1>1 DEF End
    <3> HIDE DEF t
    <3> QED BY <3>1, TableType
  <2>3. /\ DOMAIN new = DOMAIN t
        /\ \A n \in DOMAIN t \ {m} : new[n] = t[n]
        /\ new[m].fragments = t[m].fragments \ {g}
        /\ \A n \in DOMAIN t : new[n] \in SentMessage
    <3>1. t[m] \in SentMessage BY <1>3, <2>2
    <3>2. new[m] = [t[m] EXCEPT !.fragments = @ \ {g}] BY <1>3
    <3>3. new[m] \in SentMessage /\ new[m].fragments = t[m].fragments \ {g}
      BY <3>1, <3>2 DEF SentMessage
    <3> QED BY <2>2, <3>3
  <2>4. new \in Table(SentMessage)
    <3>1. new \in [DOMAIN t -> SentMessage] BY <2>3
    <3> HIDE DEF new, t
    <3> QED BY <2>2, <3>1, InTable
  <2> HIDE DEF new
  <2>5. /\ data[e].unsent \in SUBSET data[e].unsent /\ data[e].expires \in 0 .. RESEND_INTERVAL
        /\ data[e].waits \in SUBSET {"resend", "decay"}
        /\ data[e].queued \in SUBSET {"resend", "decay"}
    BY <1>1 DEF End
  <2>6. DOMAIN new # {} /\ ~data[e].stopped => "resend" \in data[e].waits \cup data[e].queued
    BY <1>1, <2>3 DEF EndOK, Armed
  <2>7. \A n \in DOMAIN new : n.from = e /\ new[n].fragments \subseteq Fragments(n)
    BY <1>1, <2>3 DEF EndOK, SentOK
  <2>8. \A n \in SSUMessages \ givenUp' : \A h \in Fragments(n) :
          Sending(data[e], n, h) => (n \in DOMAIN new /\ h \in new[n].fragments) \/ Acked(n, h)
    <3>1. f \in Nat BY MessageType DEF Fragments
    <3>2. m \notin givenUp => Acked(m, g) BY <3>1 DEF Acked
    <3> HIDE DEF g
    <3> QED BY <2>3, <3>2 DEF Sending
  <2> HIDE DEF t
  <2> QED BY <2>1, <2>4, <2>5, <2>6, <2>7, <2>8, SenderStep
<1> QED BY <1>2, <1>3

LEMMA ProcessAcksStep ==
  ASSUME IInv, NEW e \in SSUEnds, NEW p \in ssuNet, ProcessAcks(e, p) PROVE IInv'
<1>1. PacketOK(p) /\ Meant(p) BY DEF IInv
<1>2. p.msg \in SSUMessages /\ UNCHANGED <<ssuNet, completed, givenUp>>
  BY <1>1 DEF PacketOK, ProcessAcks
<1>3. CASE p.kind = "ack"
  <2>1. IsPutTogether(p.msg) BY <1>1, <1>3 DEF Meant
  <2>2. data' = [data EXCEPT ![e] = ProcessSentMessageAck(data[e], p.msg)]
    BY <1>3 DEF ProcessAcks
  <2> QED BY <1>2, <2>1, <2>2, ProcessSentMessageAckStep
<1>4. CASE p.kind = "fragmentAck"
  <2>1. p.num \in Fragments(p.msg) /\ (p.msg \notin givenUp => Arrived(p.msg, p.num))
    BY <1>1, <1>4 DEF Meant, PacketOK
  <2>2. data' = [data EXCEPT ![e] = ProcessFragmentAck(data[e], p.msg, p.num)]
    BY <1>4 DEF ProcessAcks
  <2> QED BY <1>2, <2>1, <2>2, ProcessFragmentAckStep
<1> QED BY <1>3, <1>4 DEF ProcessAcks

\* What becomes of a receiver when a message is complete.
LEMMA ReceiveType ==
  ASSUME NEW e \in SSUEnds, NEW d \in End, NEW m \in SSUMessages, m.from # e,
         NEW r, r = (IF d.established THEN ReceiveEstablished(d, m) ELSE ReceiveUnestablished(d, m))
  PROVE  /\ r.state \in End
         /\ r.state.m_SentMessages = d.m_SentMessages
         /\ r.state.m_IncompleteMessages = d.m_IncompleteMessages
         /\ r.state.unsent = d.unsent /\ r.state.stopped = d.stopped
         /\ r.state.queued = d.queued /\ d.waits \subseteq r.state.waits
         /\ r.state.m_ReceivedMessages \subseteq d.m_ReceivedMessages \cup {m}
<1>1. CASE d.established
  <2>1. CASE m \in d.m_ReceivedMessages
    <3>1. r.state = d BY <1>1, <2>1 DEF ReceiveEstablished
    <3> QED BY <3>1
  <2>2. CASE /\ m \notin d.m_ReceivedMessages
             /\ Cardinality(d.m_ReceivedMessages) > MAX_NUM_RECEIVED_MESSAGES
    <3>1. r.state = [d EXCEPT !.m_ReceivedMessages = {m}]
      BY <1>1, <2>2 DEF ReceiveEstablished
    <3> QED BY <3>1 DEF End
  <2>3. CASE /\ m \notin d.m_ReceivedMessages
             /\ ~(Cardinality(d.m_ReceivedMessages) > MAX_NUM_RECEIVED_MESSAGES)
    <3>1. r.state = [ScheduleDecay(d) EXCEPT !.m_ReceivedMessages = @ \cup {m}]
      BY <1>1, <2>3 DEF ReceiveEstablished
    <3>2. r.state = [d EXCEPT !.waits = @ \cup {"decay"}, !.m_ReceivedMessages = @ \cup {m}]
      BY <3>1 DEF ScheduleDecay, End
    <3>3. d.waits \cup {"decay"} \in SUBSET {"resend", "decay"}
          /\ d.m_ReceivedMessages \cup {m} \in SUBSET SSUMessages
      BY DEF End
    <3>4. r.state \in End BY <3>2, <3>3 DEF End
    <3> QED BY <3>2, <3>4 DEF End
  <2> QED BY <2>1, <2>2, <2>3
<1>2. CASE ~d.established
  <2>1. CASE m.type = "DeliveryStatus"
    <3>1. r.state = [d EXCEPT !.established = TRUE,
                              !.cleanup = INCOMPLETE_MESSAGES_CLEANUP_TIMEOUT]
      BY <1>2, <2>1 DEF ReceiveUnestablished
    <3>2. INCOMPLETE_MESSAGES_CLEANUP_TIMEOUT \in 0 .. INCOMPLETE_MESSAGES_CLEANUP_TIMEOUT
      BY SSUDataAssumption
    <3>3. [d EXCEPT !.established = TRUE] \in End BY DEF End
    <3>4. r.state = [[d EXCEPT !.established = TRUE]
                       EXCEPT !.cleanup = INCOMPLETE_MESSAGES_CLEANUP_TIMEOUT]
      BY <3>1
    <3>5. r.state \in End BY <3>2, <3>3, <3>4 DEF End
    <3> QED BY <3>1, <3>5 DEF End
  <2>2. CASE m.type = "DatabaseStore"
    <3>1. r.state = [d EXCEPT !.m_ReceivedMessages = @ \cup {m}]
      BY <1>2, <2>2 DEF ReceiveUnestablished
    <3> QED BY <3>1 DEF End
  <2>3. CASE m.type # "DeliveryStatus" /\ m.type # "DatabaseStore"
    <3>1. r.state = d BY <1>2, <2>3 DEF ReceiveUnestablished
    <3> QED BY <3>1
  <2> QED BY <2>1, <2>2, <2>3
<1> QED BY <1>1, <1>2

LEMMA FindIncompleteType ==
  ASSUME IInv, NEW e \in SSUEnds, NEW m \in SSUMessages
  PROVE  /\ FindIncomplete(data[e], m) \in IncompleteMessage
         /\ Assembling(m, FindIncomplete(data[e], m))
         /\ HeldBy(data[e], m) \subseteq Parts(FindIncomplete(data[e], m))
<1> DEFINE t == data[e].m_IncompleteMessages
<1>1. CASE m \in DOMAIN t
  <2>1. FindIncomplete(data[e], m) = t[m] BY <1>1 DEF FindIncomplete
  <2>2. t[m] \in IncompleteMessage /\ Assembling(m, t[m])
    BY <1>1, EndType DEF EndOK, AssemblingOK
  <2> QED BY <1>1, <2>1, <2>2 DEF HeldBy
<1>2. CASE m \notin DOMAIN t
  <2> DEFINE none == [attached |-> <<>>, saved |-> {}, savedUntil |-> -1]
  <2>1. FindIncomplete(data[e], m) = none BY <1>2 DEF FindIncomplete
  <2>2. <<>> \in Seq(Nat) /\ Len(<<>>) = 0 /\ -1 \in Int OBVIOUS
  <2>3. none \in IncompleteMessage BY <2>2 DEF IncompleteMessage
  <2>4. <<>> = FirstFragments(0)
    <3>1. 1 .. 0 = {} OBVIOUS
    <3> QED BY <3>1 DEF FirstFragments
  <2>5. Assembling(m, none) BY <2>2, <2>4, MessageType DEF Assembling
  <2>6. HeldBy(data[e], m) = {} BY <1>2 DEF HeldBy
  <2> QED BY <2>1, <2>3, <2>5, <2>6
<1> QED BY <1>1, <1>2

LEMMA ProcessFragmentsStep ==
  ASSUME IInv, NEW e \in SSUEnds, NEW p \in ssuNet, ProcessFragments(e, p) PROVE IInv'
<1> DEFINE m      == p.msg
           f      == p.num
           before == FindIncomplete(data[e], m)
           inc    == HandleFragment(m, before, f)
           done   == IsComplete(m, before, inc)
           t      == data[e].m_IncompleteMessages
           new    == IF done THEN Restrict(t, DOMAIN t \ {m}) ELSE Insert(t, m, inc)
           kept   == [data[e] EXCEPT !.m_IncompleteMessages = new]
           r      == IF ~done THEN [state |-> kept, put |-> FALSE]
                     ELSE IF data[e].established THEN ReceiveEstablished(kept, m)
                     ELSE ReceiveUnestablished(kept, m)
           d      == r.state
<1>1. /\ m \in SSUMessages /\ f \in Fragments(m) /\ m.from # e
      /\ p.kind = "fragment" /\ PeerEnd(m.from) = e
  BY ReceiverIsPeer DEF IInv, PacketOK, ProcessFragments
<1>2. /\ data' = [data EXCEPT ![e] = d] /\ givenUp' = givenUp
      /\ completed' = completed \cup
           (IF done THEN {[msg |-> m, fragments |-> inc.attached, put |-> r.put]} ELSE {})
      /\ ssuNet' = ssuNet \cup
           (IF done THEN {[kind |-> "ack", msg |-> m]}
            ELSE IF f <= MaxFragmentAck
            THEN {[kind |-> "fragmentAck", msg |-> m, num |-> f]} ELSE {})
  BY Zenon DEF ProcessFragments, ProcessFragment
<1>3. data[e] \in End /\ EndOK(e, data[e]) BY EndType
<1>4. /\ before \in IncompleteMessage /\ HeldBy(data[e], m) \subseteq Parts(before)
      /\ Sound(m, before, f, inc)
  BY <1>1, FindIncompleteType, HandleFragmentSound
<1> HIDE DEF before, inc
<1>5. /\ new \in Table(IncompleteMessage) /\ DOMAIN new \subseteq SSUMessages
      /\ \A n \in SSUMessages \ {m} : /\ n \in DOMAIN new <=> n \in DOMAIN t
                                      /\ n \in DOMAIN new => new[n] = t[n]
      /\ m \in DOMAIN new <=> ~done
      /\ ~done => new[m] = inc
  <2>1. t \in Table(IncompleteMessage) /\ DOMAIN t \subseteq SSUMessages
    <3>1. t \in Table(IncompleteMessage) BY <1>3 DEF End
    <3> HIDE DEF t
    <3> QED BY <3>1, TableType
  <2> HIDE DEF t
  <2>2. CASE done
    <3>1. DOMAIN t \ {m} \in SUBSET DOMAIN t OBVIOUS
    <3>2. Restrict(t, DOMAIN t \ {m}) \in Table(IncompleteMessage)
      BY <2>1, <3>1, RestrictType
    <3>3. new = Restrict(t, DOMAIN t \ {m}) BY <2>2
    <3> HIDE DEF new, done
    <3> QED BY <2>1, <2>2, <3>2, <3>3 DEF Restrict
  <2>3. CASE ~done
    <3>1. inc \in IncompleteMessage BY <1>4 DEF Sound
    <3>2. Insert(t, m, inc) \in Table(IncompleteMessage)
      BY <1>1, <2>1, <3>1, InsertType
    <3>3. new = Insert(t, m, inc) BY <2>3
    <3> HIDE DEF new, done
    <3> QED BY <1>1, <2>1, <2>3, <3>2, <3>3 DEF Insert
  <2> QED BY <2>2, <2>3
<1> HIDE DEF new
<1>6. /\ d \in End /\ d.m_SentMessages = data[e].m_SentMessages
      /\ d.m_IncompleteMessages = new /\ d.unsent = data[e].unsent
      /\ d.stopped = data[e].stopped /\ d.queued = data[e].queued
      /\ data[e].waits \subseteq d.waits
      /\ d.m_ReceivedMessages \subseteq data[e].m_ReceivedMessages \cup {m}
  <2>1. /\ kept \in End /\ kept.m_IncompleteMessages = new
        /\ kept.m_SentMessages = data[e].m_SentMessages /\ kept.unsent = data[e].unsent
        /\ kept.stopped = data[e].stopped /\ kept.queued = data[e].queued
        /\ kept.waits = data[e].waits /\ kept.established = data[e].established
        /\ kept.m_ReceivedMessages = data[e].m_ReceivedMessages
    BY <1>3, <1>5 DEF End
  <2> HIDE DEF kept
  <2>2. CASE ~done
    <3>1. d = kept BY <2>2
    <3> QED BY <2>1, <3>1
  <2>3. CASE done
    <3>1. r = IF kept.established THEN ReceiveEstablished(kept, m)
              ELSE ReceiveUnestablished(kept, m)
      BY <2>1, <2>3
    <3> HIDE DEF r
    <3>2. /\ r.state \in End
          /\ r.state.m_SentMessages = kept.m_SentMessages
          /\ r.state.m_IncompleteMessages = kept.m_IncompleteMessages
          /\ r.state.unsent = kept.unsent /\ r.state.stopped = kept.stopped
          /\ r.state.queued = kept.queued /\ kept.waits \subseteq r.state.waits
          /\ r.state.m_ReceivedMessages \subseteq kept.m_ReceivedMessages \cup {m}
      BY <1>1, <2>1, <3>1, ReceiveType
    <3> QED BY <2>1, <3>2
  <2> QED BY <2>2, <2>3
<1> HIDE DEF r, done
<1>7. EndOK(e, d)
  <2>1. SentOK(e, d) BY <1>1, <1>3, <1>6 DEF EndOK, SentOK
  <2>2. ASSUME NEW n \in DOMAIN new PROVE n.from # e /\ Assembling(n, new[n])
    <3>1. CASE n = m BY <1>1, <1>4, <1>5, <3>1 DEF Sound, done
    <3>2. CASE n # m BY <1>3, <1>5, <3>2 DEF EndOK, AssemblingOK
    <3> QED BY <3>1, <3>2
  <2>3. Armed(d) BY <1>3, <1>6 DEF EndOK, Armed
  <2> QED BY <1>6, <2>1, <2>2, <2>3 DEF EndOK, AssemblingOK
<1>8. done => IsPutTogether(m)'
  <2> SUFFICES ASSUME done PROVE IsPutTogether(m)' OBVIOUS
  <2>1. [msg |-> m, fragments |-> inc.attached, put |-> r.put] \in completed' BY <1>2
  <2> QED BY <2>1 DEF IsPutTogether
<1>9. ~done => Parts(before) \cup {f} \subseteq HeldBy(d, m)
  BY <1>4, <1>5, <1>6 DEF Sound, HeldBy
<1>10. ASSUME NEW n \in SSUMessages, NEW g \in HeldBy(data[e], n)
       PROVE  IsPutTogether(n)' \/ g \in HeldBy(d, n)
  <2>1. CASE n = m BY <1>4, <1>8, <1>9, <2>1
  <2>2. CASE n # m BY <1>5, <1>6, <2>2 DEF HeldBy
  <2> QED BY <2>1, <2>2
<1>11. ASSUME NEW q \in ssuNet' \ ssuNet
       PROVE  PacketOK(q) /\ Meant(q)' /\ q.kind # "fragment"
  <2>1. CASE done
    <3>1. q = [kind |-> "ack", msg |-> m] BY <1>2, <2>1
    <3> QED BY <1>1, <1>8, <2>1, <3>1 DEF PacketOK, Meant
  <2>2. CASE ~done
    <3>1. q = [kind |-> "fragmentAck", msg |-> m, num |-> f] BY <1>2, <2>2
    <3>2. data'[e] = d BY <1>2, <1>3 DEF IInv
    <3>3. f \in HeldBy(d, m) BY <1>9, <2>2
    <3>4. Arrived(m, f)' BY <1>1, <3>2, <3>3 DEF Arrived
    <3> QED BY <1>1, <3>1, <3>4 DEF PacketOK, Meant
  <2> QED BY <2>1, <2>2
<1>12. PutTogetherIntact'
  <2> SUFFICES ASSUME NEW c \in completed'
               PROVE  c.fragments = [i \in 1 .. c.msg.n |-> i - 1]
    BY DEF PutTogetherIntact
  <2>1. CASE c \in completed BY <2>1 DEF IInv, PutTogetherIntact
  <2>2. CASE c \notin completed
    <3>1. done /\ c = [msg |-> m, fragments |-> inc.attached, put |-> r.put]
      BY <1>2, <2>2
    <3>2. inc.attached = FirstFragments(m.n) BY <1>4, <3>1 DEF Sound, done
    <3> QED BY <3>1, <3>2 DEF FirstFragments
  <2> QED BY <2>1, <2>2
<1> HIDE DEF d
<1>13. Changes(e, d)
  <2>1. /\ ssuNet \subseteq ssuNet' /\ completed \subseteq completed'
        /\ givenUp \subseteq givenUp'
    BY <1>2
  <2>2. \A n \in SSUMessages : \A g \in Fragments(n) :
          Sending(data[e], n, g) => Sending(d, n, g)
    BY <1>6 DEF Sending
  <2> QED BY <1>2, <1>7, <1>10, <1>11, <1>12, <2>1, <2>2 DEF Changes
<1> QED BY <1>13, EndChanges

\* Time moves neither fragments nor packets, nor what waits for the timer.
LEMMA DataTickStep == IInv /\ DataTick => IInv'
<1> SUFFICES ASSUME IInv, DataTick PROVE IInv'
  OBVIOUS
<1>1. UNCHANGED <<ssuNet, completed, givenUp>> BY DEF DataTick
<1>2. ASSUME NEW e \in SSUEnds
      PROVE  /\ EndOK(e, data'[e])
             /\ \A m \in SSUMessages : HeldBy(data'[e], m) = HeldBy(data[e], m)
             /\ \A m \in SSUMessages : \A f : Sending(data[e], m, f) => Sending(data'[e], m, f)
  <2> DEFINE s    == data[e].m_SentMessages
             t    == data[e].m_IncompleteMessages
             sent == [m \in DOMAIN s |->
                        [s[m] EXCEPT !.nextResendTime = IF @ < -RESEND_INTERVAL THEN @ ELSE @ - 1]]
             inc  == [m \in DOMAIN t |->
                        [t[m] EXCEPT !.savedUntil = IF @ < 0 THEN -1 ELSE @ - 1]]
             expires == IF data[e].expires = 0 THEN 0 ELSE data[e].expires - 1
             cleanup == IF Cleaning(data[e]) THEN data[e].cleanup - 1 ELSE data[e].cleanup
  <2>1. data[e] \in End /\ EndOK(e, data[e]) BY EndType
  <2>2. data'[e] = [data[e] EXCEPT !.m_SentMessages = sent, !.m_IncompleteMessages = inc,
                                   !.expires = expires, !.cleanup = cleanup]
    <3>1. data'[e] = Later(data[e]) BY DEF DataTick
    <3> QED BY <3>1, Zenon DEF Later
  <2>3. /\ sent \in Table(SentMessage) /\ DOMAIN sent = DOMAIN s
        /\ \A m \in DOMAIN s : sent[m].fragments = s[m].fragments
    <3>1. /\ DOMAIN s \subseteq SSUMessages /\ \A m \in DOMAIN s : s[m] \in SentMessage
      BY EndType
    <3>2. ASSUME NEW m \in DOMAIN s
          PROVE  sent[m] \in SentMessage /\ sent[m].fragments = s[m].fragments
      <4> DEFINE next == IF s[m].nextResendTime < -RESEND_INTERVAL
                         THEN s[m].nextResendTime ELSE s[m].nextResendTime - 1
      <4>1. s[m] \in SentMessage /\ next \in Int BY <3>1 DEF SentMessage
      <4>2. sent[m] = [s[m] EXCEPT !.nextResendTime = next]
        BY <4>1 DEF SentMessage
      <4> HIDE DEF next
      <4> QED BY <4>1, <4>2 DEF SentMessage
    <3>3. sent \in [DOMAIN s -> SentMessage] BY <3>2
    <3> HIDE DEF sent, s
    <3> QED BY <3>1, <3>2, <3>3, InTable
  <2>4. /\ inc \in Table(IncompleteMessage) /\ DOMAIN inc = DOMAIN t
        /\ \A m \in DOMAIN t : inc[m].attached = t[m].attached /\ inc[m].saved = t[m].saved
    <3>1. /\ DOMAIN t \subseteq SSUMessages /\ \A m \in DOMAIN t : t[m] \in IncompleteMessage
      BY EndType
    <3>2. ASSUME NEW m \in DOMAIN t
          PROVE  /\ inc[m] \in IncompleteMessage
                 /\ inc[m].attached = t[m].attached /\ inc[m].saved = t[m].saved
      <4> DEFINE next == IF t[m].savedUntil < 0 THEN -1 ELSE t[m].savedUntil - 1
      <4>1. t[m] \in IncompleteMessage /\ next \in Int BY <3>1 DEF IncompleteMessage
      <4>2. inc[m] = [t[m] EXCEPT !.savedUntil = next]
        BY <4>1 DEF IncompleteMessage
      <4> HIDE DEF next
      <4> QED BY <4>1, <4>2 DEF IncompleteMessage
    <3>3. inc \in [DOMAIN t -> IncompleteMessage] BY <3>2
    <3> HIDE DEF inc, t
    <3> QED BY <3>1, <3>2, <3>3, InTable
  <2>5. expires \in 0 .. RESEND_INTERVAL BY <2>1, SSUDataAssumption DEF End
  <2>6. cleanup \in 0 .. INCOMPLETE_MESSAGES_CLEANUP_TIMEOUT
    <3>1. data[e].cleanup \in 0 .. INCOMPLETE_MESSAGES_CLEANUP_TIMEOUT BY <2>1 DEF End
    <3>2. data[e].cleanup > 0 \/ ~Cleaning(data[e]) BY DEF DataTick
    <3> QED BY <3>1, <3>2, SSUDataAssumption
  <2> HIDE DEF sent, inc, expires, cleanup
  <2>7. /\ data'[e] \in End
        /\ data'[e].m_SentMessages = sent /\ data'[e].m_IncompleteMessages = inc
        /\ data'[e].waits = data[e].waits /\ data'[e].queued = data[e].queued
        /\ data'[e].stopped = data[e].stopped /\ data'[e].unsent = data[e].unsent
        /\ data'[e].m_ReceivedMessages = data[e].m_ReceivedMessages
    <3> HIDE DEF s, t
    <3> QED BY <2>1, <2>2, <2>3, <2>4, <2>5, <2>6 DEF End
  <2>8. EndOK(e, data'[e])
    <3>1. SentOK(e, data'[e]) BY <2>1, <2>3, <2>7 DEF EndOK, SentOK
    <3>2. AssemblingOK(e, data'[e])
      BY <2>1, <2>4, <2>7 DEF EndOK, AssemblingOK, Assembling
    <3>3. Armed(data'[e]) BY <2>1, <2>3, <2>7 DEF EndOK, Armed
    <3> QED BY <2>7, <3>1, <3>2, <3>3 DEF EndOK
  <2>9. \A m \in SSUMessages : HeldBy(data'[e], m) = HeldBy(data[e], m)
    BY <2>4, <2>7 DEF HeldBy, Parts
  <2>10. \A m \in SSUMessages : \A f : Sending(data[e], m, f) => Sending(data'[e], m, f)
    BY <2>3, <2>7 DEF Sending
  <2> QED BY <2>8, <2>9, <2>10
<1>3. data' \in [SSUEnds -> End]
  <2>1. \A e \in SSUEnds : data'[e] \in End BY <1>2 DEF EndOK
  <2> QED BY <2>1 DEF DataTick
<1>4. \A m \in SSUMessages : \A f : Arrived(m, f) => Arrived(m, f)'
  BY <1>1, <1>2, ReceiverIsPeer, MessageType DEF Arrived, IsPutTogether
<1>5. \A p \in ssuNet' : PacketOK(p)' /\ Meant(p)'
  BY <1>1, <1>4 DEF IInv, PacketOK, Meant, IsPutTogether
<1>6. Kept'
  <2> SUFFICES ASSUME NEW p \in ssuNet, p.kind = "fragment", p.msg \notin givenUp
               PROVE  Sending(data'[p.msg.from], p.msg, p.num) \/ Acked(p.msg, p.num)'
    BY <1>1 DEF Kept, Sending
  <2>1. p.msg \in SSUMessages /\ p.msg.from \in SSUEnds
    BY MessageType DEF IInv, PacketOK
  <2>2. Sending(data[p.msg.from], p.msg, p.num) \/ Acked(p.msg, p.num)
    BY DEF IInv, Kept
  <2>3. Acked(p.msg, p.num) => Acked(p.msg, p.num)'
    BY <1>1, <1>4, <2>1 DEF Acked, IsPutTogether
  <2> QED BY <2>1, <2>2, <2>3, <1>2
<1>7. \A e \in SSUEnds : EndOK(e, data[e])'
  BY <1>2 DEF EndOK, SentOK, AssemblingOK, Armed
<1>8. PutTogetherIntact' BY <1>1 DEF IInv, PutTogetherIntact
<1> QED BY <1>3, <1>5, <1>6, <1>7, <1>8
      DEF IInv, End, Table, SentMessage, IncompleteMessage
-----------------------------------------------------------------------------
(***************************************************************************)
(* The theorems.                                                           *)
(***************************************************************************)
LEMMA InitInvariant == DataInit => IInv
<1> SUFFICES ASSUME NEW load \in SSULoads, DataInitWith(load) PROVE IInv
  BY DEF DataInit
<1>1. ASSUME NEW e \in SSUEnds
      PROVE  /\ data[e] \in End /\ DOMAIN data[e].m_SentMessages = {}
             /\ DOMAIN data[e].m_IncompleteMessages = {}
             /\ data[e].m_ReceivedMessages = {}
             /\ data[e].unsent \subseteq {m \in SSUMessages : m.from = e}
  <2>1. data[e] = NewSSUData(e, load) BY DEF DataInitWith
  <2>2. DOMAIN <<>> = {} OBVIOUS
  <2>3. \A R : <<>> \in Table(R)
    <3>1. \A R : <<>> \in [{} -> R] BY <2>2
    <3> QED BY <3>1, InTable
  <2>4. <<>> \in Table(SentMessage) /\ <<>> \in Table(IncompleteMessage) BY <2>3
  <2>5. load.messages \subseteq SSUMessages BY SSUDataAssumption
  <2>6. 0 \in 0 .. RESEND_INTERVAL
        /\ INCOMPLETE_MESSAGES_CLEANUP_TIMEOUT \in 0 .. INCOMPLETE_MESSAGES_CLEANUP_TIMEOUT
    BY SSUDataAssumption
  <2> QED BY <2>1, <2>2, <2>4, <2>5, <2>6 DEF NewSSUData, End
<1>2. data \in [SSUEnds -> End] BY <1>1 DEF DataInitWith
<1>3. \A e \in SSUEnds : EndOK(e, data[e])
  BY <1>1 DEF EndOK, SentOK, AssemblingOK, Armed
<1> QED BY <1>2, <1>3 DEF DataInitWith, IInv, Kept, PutTogetherIntact

LEMMA NextInvariant == IInv /\ [DataNext]_dataVars => IInv'
<1> SUFFICES ASSUME IInv, [DataNext]_dataVars PROVE IInv'
  OBVIOUS
<1>1. CASE DataTick BY <1>1, DataTickStep
<1>2. ASSUME NEW e \in SSUEnds, NEW m \in SSUMessages, SendMessage(e, m) PROVE IInv'
  BY <1>2, SendMessageStep
<1>3. ASSUME NEW e \in SSUEnds, ProcessMessage(e) PROVE IInv'
  BY <1>3, ProcessAcksStep, ProcessFragmentsStep DEF ProcessMessage
<1>4. ASSUME NEW e \in SSUEnds, ResendTimerExpired(e) PROVE IInv'
  BY <1>4, ResendTimerExpiredStep
<1>5. ASSUME NEW e \in SSUEnds, HandleDataResendTimer(e) PROVE IInv'
  BY <1>5, HandleDataResendTimerStep
<1>6. ASSUME NEW e \in SSUEnds, HandleDecayTimer(e) PROVE IInv'
  BY <1>6, HandleDecayTimerStep
<1>7. ASSUME NEW e \in SSUEnds, HandleIncompleteMessagesCleanupTimer(e) PROVE IInv'
  BY <1>7, CleanupTimerStep
<1>8. ASSUME NEW e \in SSUEnds, StopData(e) PROVE IInv'
  BY <1>8, StopDataStep
<1>9. CASE UNCHANGED dataVars
  BY <1>9 DEF IInv, dataVars, EndOK, End, Table, SentMessage, IncompleteMessage, SentOK,
              AssemblingOK, Armed, PacketOK, Meant, IsPutTogether, Arrived, Acked, Kept, Sending,
              PutTogetherIntact
<1> QED BY <1>1, <1>2, <1>3, <1>4, <1>5, <1>6, <1>7, <1>8, <1>9 DEF DataNext

\* In every behaviour the fragments and acks in the network stand for what the
\* tables of the two ends hold.
THEOREM Invariance == DataSpec => []IInv
BY InitInvariant, NextInvariant, PTL DEF DataSpec

LEMMA TypesFromInvariant == IInv => DataTypeOK
<1> SUFFICES ASSUME IInv, NEW e \in SSUEnds
             PROVE  /\ data[e].m_ReceivedMessages \subseteq {m \in SSUMessages : m.from # e}
                    /\ data[e].unsent \subseteq {m \in SSUMessages : m.from = e}
                    /\ data[e].expires \in 0 .. RESEND_INTERVAL
                    /\ data[e].waits \cup data[e].queued \subseteq {"resend", "decay"}
                    /\ data[e].cleanup \in 0 .. INCOMPLETE_MESSAGES_CLEANUP_TIMEOUT
                    /\ data[e].established \in BOOLEAN /\ data[e].stopped \in BOOLEAN
                    /\ \A m \in DOMAIN data[e].m_SentMessages :
                         /\ m.from = e
                         /\ data[e].m_SentMessages[m].fragments \subseteq Fragments(m)
                         /\ data[e].m_SentMessages[m].numResends <= MAX_NUM_RESENDS
                    /\ \A m \in DOMAIN data[e].m_IncompleteMessages :
                         /\ m.from # e
                         /\ data[e].m_IncompleteMessages[m].saved \subseteq Fragments(m)
  BY DEF DataTypeOK
<1>1. data[e] \in End /\ EndOK(e, data[e]) BY EndType
<1>2. ASSUME NEW m \in DOMAIN data[e].m_SentMessages
      PROVE  data[e].m_SentMessages[m].numResends <= MAX_NUM_RESENDS
  <2>1. data[e].m_SentMessages[m] \in SentMessage BY EndType
  <2> QED BY <2>1, SSUDataAssumption DEF SentMessage
<1> QED BY <1>1, <1>2 DEF End, EndOK, SentOK, AssemblingOK, Assembling

LEMMA AckedIsKept == IInv => AckedFragmentIsKept
<1> SUFFICES ASSUME IInv, NEW m \in SSUMessages \ givenUp, NEW f \in Fragments(m),
                    ~(FragmentPackets(m, {f}) \cap ssuNet = {})
             PROVE  \/ m \in DOMAIN data[m.from].m_SentMessages
                         /\ f \in data[m.from].m_SentMessages[m].fragments
                    \/ \E c \in completed : c.msg = m
                    \/ \E g \in Held(PeerEnd(m.from), m) : g % AckBits = f
  BY DEF AckedFragmentIsKept
<1> DEFINE p == [kind |-> "fragment", msg |-> m, num |-> f]
<1>1. p \in ssuNet BY DEF FragmentPackets
<1>2. p.kind = "fragment" /\ p.msg = m /\ p.num = f OBVIOUS
<1>3. Sending(data[m.from], m, f) \/ Acked(m, f)
  <2> HIDE DEF p
  <2> QED BY <1>1, <1>2 DEF IInv, Kept
<1>4. Held(PeerEnd(m.from), m) = HeldBy(data[PeerEnd(m.from)], m)
  BY DEF Held, HeldBy, Parts
<1> QED BY <1>3, <1>4 DEF Sending, Acked, Arrived, IsPutTogether

\* A fragment that a sender stops sending is at the receiver, as long as the ack
\* of no other counts for it, or the message was put together there or given up,
\* whichever acks come twice, late or never; and a message is put together as it
\* was sent, whatever order its fragments come in.
THEOREM SafeAlways == DataSpec => []SSUDataSafe
<1>1. IInv => SSUDataSafe
  BY TypesFromInvariant, AckedIsKept DEF SSUDataSafe, IInv
<1> QED BY <1>1, Invariance, PTL

\* As long as a message waits for its ack, on a session that is not closed, the
\* resend timer runs or its handler is queued: acks, which cancel the timer, and
\* new messages, which set it again, never leave one without it.
THEOREM ResendAlways == DataSpec => []SentWillBeResent
<1>1. IInv => SentWillBeResent
  BY DEF IInv, EndOK, Armed, SentWillBeResent
<1> QED BY <1>1, Invariance, PTL
-----------------------------------------------------------------------------
(***************************************************************************)
(* Sessions.  What a session object and a packet may say of the two        *)
(* routers: whose key pairs are in them.                                   *)
(***************************************************************************)
Pair == (SSURouters \cup {"none", "garbage"}) \X Nat
Data == {NoData, Spoilt} \cup (Pair \X Pair \X Nat)
Session ==
  [m_RemoteEndpoint : SSURouters, m_RemoteRouter : SSURouters \cup {NoRouter},
   m_State : {"Unknown", "Introduced", "Established", "Closed"},
   m_SessionKey : SUBSET Pair, m_DHKeysPair : Pair, m_SessionConfirmData : Data,
   m_RelayTag : Nat, m_Timer : {"none", "connect", "termination"},
   due : SUBSET {"connect", "termination", "done"}]

DrawnBy(x, r) == x \in Pair /\ x[1] = r
DrawnByOrGarbage(x, r) == x \in Pair /\ (x[1] = r \/ x = Garbage)

\* A session key is agreed on between an own key pair and one of the router at the
\* endpoint, or what was taken for one.
KeyOK(r, s, held) ==
  s.m_SessionKey # NoKey =>
    /\ s.m_SessionKey \in held
    /\ \E a, z \in Pair : /\ s.m_SessionKey = {a, z}
                          /\ DrawnBy(a, r) /\ DrawnByOrGarbage(z, s.m_RemoteEndpoint)

\* What a signature of the caller is verified over.
ConfirmDataOK(r, s) ==
  LET c == s.m_SessionConfirmData
  IN c \notin {NoData, Spoilt} =>
       /\ ~IsOutbound(s) /\ s.m_SessionKey = {c[1], c[2]}
       /\ DrawnBy(c[2], r) /\ DrawnByOrGarbage(c[1], s.m_RemoteEndpoint)

\* A caller's key pair is for the router that it calls at its own endpoint, and is
\* let go of when the session is established.
PairOK(r, s) ==
  s.m_DHKeysPair # NoPair =>
    /\ DrawnBy(s.m_DHKeysPair, r)
    /\ IsOutbound(s) => /\ s.m_RemoteEndpoint = s.m_RemoteRouter
                        /\ s.m_State # "Established"

TimerOK(s) ==
  /\ s.m_State = "Established" => s.m_Timer = "termination" \/ s.due # {}
  /\ s.m_State \in {"Unknown", "Introduced"} /\ s.m_Timer = "none" /\ s.due = {}
       => IsOutbound(s) /\ s.m_SessionKey # NoKey

SessionOK(r, s, held) ==
  /\ s \in Session
  /\ s.m_State = "Introduced" => IsOutbound(s) /\ s.m_RemoteEndpoint = s.m_RemoteRouter
  /\ KeyOK(r, s, held) /\ ConfirmDataOK(r, s) /\ PairOK(r, s) /\ TimerOK(s)

PacketTypes ==
  {"SessionRequest", "SessionCreated", "SessionConfirmed", "DeliveryStatus",
   "SessionDestroyed", "RelayRequest", "RelayResponse", "RelayIntro", "HolePunch"}

\* What a packet tells of the router that sent it.
SentBy(r, p, held) ==
  /\ p.from = r /\ p.type \in PacketTypes
  /\ p.type = "SessionRequest" => DrawnBy(p.body, r)
  /\ p.type = "SessionCreated" =>
       p.key = IntroKey(r) /\ DrawnBy(p.body.y, r) /\ p.body.tag \in Nat
  /\ p.type = "SessionConfirmed" =>
       /\ p.key \in held
       /\ \E x, y \in Pair, t \in Nat :
            p.body.data = <<x, y, t>> /\ p.key = {x, y} /\ DrawnBy(x, r)
  /\ p.type = "DeliveryStatus" /\ p.key # NoKey =>
       /\ p.key \in held
       /\ \E a, z \in Pair : /\ p.key = {a, z}
                             /\ DrawnBy(a, r) /\ DrawnByOrGarbage(z, p.to)

Shape(v) ==
  DOMAIN v = {"sessions", "m_Sessions", "m_Relays", "session", "scenario", "drawn",
              "sent", "held", "garbage", "m_IsRunning"}

ServerOK(r, v) ==
  /\ Shape(v)
  /\ v.scenario.wanted \subseteq SSURouters
  /\ v.sessions \in Seq(Session) /\ Len(v.sessions) <= v.scenario.maxSessions
  /\ v.m_Sessions \in [SSURouters -> 0 .. Len(v.sessions)]
  /\ v.session \in 0 .. Len(v.sessions)
  /\ v.drawn \in Nat /\ v.garbage \in Nat /\ v.m_Relays \in Seq(SSURouters)
  /\ \A i \in 1 .. Len(v.sessions) : SessionOK(r, v.sessions[i], v.held)
  /\ \A p \in v.sent : SentBy(r, p, v.held)

SessionInv ==
  /\ DOMAIN server = SSURouters /\ server = [r \in SSURouters |-> server[r]]
  /\ \A r \in SSURouters : ServerOK(r, server[r])

\* What a step of router r makes of v.  A session is established only under a key
\* that the router at its endpoint holds.
Shares(v, w) ==
  \A i \in 1 .. Len(v.sessions) :
    v.sessions[i].m_State # "Established" /\ w.sessions[i].m_State = "Established"
      => w.sessions[i].m_SessionKey \in server[w.sessions[i].m_RemoteEndpoint].held
SameStates(v, w) ==
  \A i \in 1 .. Len(v.sessions) : w.sessions[i].m_State = v.sessions[i].m_State

\* Good: without a packet that is not decrypted; Sane: whatever the packet.
Good(r, v, w) ==
  /\ ServerOK(r, w) /\ v.held \subseteq w.held /\ w.garbage = v.garbage
  /\ w.scenario = v.scenario /\ w.session = v.session /\ Len(w.sessions) = Len(v.sessions)
Sane(r, v, w) ==
  /\ ServerOK(r, w) /\ v.held \subseteq w.held
  /\ w.scenario = v.scenario /\ w.session = v.session /\ Len(w.sessions) = Len(v.sessions)
-----------------------------------------------------------------------------
LEMMA HeldGrows ==
  ASSUME NEW r, NEW s, NEW p, NEW held, NEW more, held \subseteq more
  PROVE  /\ SessionOK(r, s, held) => SessionOK(r, s, more)
         /\ SentBy(r, p, held) => SentBy(r, p, more)
<1>1. KeyOK(r, s, held) => KeyOK(r, s, more) BY DEF KeyOK
<1>2. SessionOK(r, s, held) => SessionOK(r, s, more) BY <1>1 DEF SessionOK
<1>3. SentBy(r, p, held) => SentBy(r, p, more) BY DEF SentBy
<1> QED BY <1>2, <1>3

\* A step that changes one session, i, to s.
Puts(r, v, i, s, w) ==
  /\ Shape(w) /\ w.sessions = [v.sessions EXCEPT ![i] = s]
  /\ w.scenario = v.scenario /\ w.session = v.session /\ w.garbage = v.garbage
  /\ w.drawn \in Nat /\ w.m_Relays \in Seq(SSURouters)
  /\ w.m_Sessions \in [SSURouters -> 0 .. Len(v.sessions)]
  /\ v.held \subseteq w.held /\ SessionOK(r, s, w.held)
  /\ \A p \in w.sent : p \in v.sent \/ SentBy(r, p, w.held)

LEMMA PutSession ==
  ASSUME NEW r \in SSURouters, NEW v, ServerOK(r, v), NEW i \in 1 .. Len(v.sessions),
         NEW w, NEW s, Puts(r, v, i, s, w)
  PROVE  /\ Good(r, v, w) /\ w.sessions[i] = s
         /\ \A j \in 1 .. Len(v.sessions) : j # i => w.sessions[j] = v.sessions[j]
         /\ s.m_State = v.sessions[i].m_State => SameStates(v, w)
         /\ (s.m_State = "Established" =>
               \/ v.sessions[i].m_State = "Established"
               \/ s.m_SessionKey \in server[s.m_RemoteEndpoint].held) => Shares(v, w)
<1>0. /\ Shape(w) /\ w.sessions = [v.sessions EXCEPT ![i] = s]
      /\ w.scenario = v.scenario /\ w.session = v.session /\ w.garbage = v.garbage
      /\ w.drawn \in Nat /\ w.m_Relays \in Seq(SSURouters)
      /\ w.m_Sessions \in [SSURouters -> 0 .. Len(v.sessions)]
      /\ v.held \subseteq w.held /\ SessionOK(r, s, w.held)
      /\ \A p \in w.sent : p \in v.sent \/ SentBy(r, p, w.held)
  BY DEF Puts
<1>1. /\ v.sessions \in Seq(Session) /\ Len(v.sessions) <= v.scenario.maxSessions
      /\ v.scenario.wanted \subseteq SSURouters
      /\ v.session \in 0 .. Len(v.sessions) /\ v.garbage \in Nat
      /\ \A j \in 1 .. Len(v.sessions) : SessionOK(r, v.sessions[j], v.held)
      /\ \A p \in v.sent : SentBy(r, p, v.held)
  BY DEF ServerOK
<1>2. s \in Session BY <1>0 DEF SessionOK
<1>3. /\ w.sessions \in Seq(Session) /\ Len(w.sessions) = Len(v.sessions)
      /\ w.sessions[i] = s
      /\ \A j \in 1 .. Len(v.sessions) : j # i => w.sessions[j] = v.sessions[j]
  BY <1>0, <1>1, <1>2
<1>4. \A j \in 1 .. Len(w.sessions) : SessionOK(r, w.sessions[j], w.held)
  BY <1>0, <1>1, <1>3, HeldGrows
<1>5. \A p \in w.sent : SentBy(r, p, w.held) BY <1>0, <1>1, HeldGrows
<1>6. Good(r, v, w) BY <1>0, <1>1, <1>3, <1>4, <1>5 DEF ServerOK, Good
<1>7. s.m_State = v.sessions[i].m_State => SameStates(v, w) BY <1>3 DEF SameStates
<1>8. (s.m_State = "Established" =>
         \/ v.sessions[i].m_State = "Established"
         \/ s.m_SessionKey \in server[s.m_RemoteEndpoint].held) => Shares(v, w)
  BY <1>3 DEF Shares
<1> QED BY <1>3, <1>6, <1>7, <1>8

\* Steps on the sessions compose.
LEMMA Compose ==
  ASSUME NEW r, NEW u, NEW v, NEW w, Good(r, u, v), Good(r, v, w), SameStates(u, v)
  PROVE  /\ Good(r, u, w)
         /\ Shares(v, w) => Shares(u, w)
         /\ SameStates(v, w) => SameStates(u, w)
<1>1. Good(r, u, w) BY DEF Good
<1>2. Shares(v, w) => Shares(u, w) BY DEF Shares, SameStates, Good
<1>3. SameStates(v, w) => SameStates(u, w) BY DEF SameStates, Good
<1> QED BY <1>1, <1>2, <1>3

LEMMA SameShares == ASSUME NEW v, NEW w, SameStates(v, w) PROVE Shares(v, w)
BY DEF SameStates, Shares

LEMMA SendSound ==
  ASSUME NEW r \in SSURouters, NEW v, ServerOK(r, v), NEW type, NEW to, NEW key, NEW body,
         SentBy(r, Packet(type, r, to, key, body), v.held)
  PROVE  LET w == Send(v, type, r, to, key, body)
         IN /\ Good(r, v, w) /\ w.sessions = v.sessions /\ w.held = v.held
            /\ SameStates(v, w) /\ w.m_Sessions = v.m_Sessions
<1> DEFINE w == Send(v, type, r, to, key, body)
           p == Packet(type, r, to, key, body)
<1>1. /\ Shape(w) /\ w.sessions = v.sessions /\ w.m_Sessions = v.m_Sessions
      /\ w.m_Relays = v.m_Relays /\ w.session = v.session /\ w.scenario = v.scenario
      /\ w.drawn = v.drawn /\ w.garbage = v.garbage /\ w.sent = v.sent \cup {p} /\ w.held = v.held
  BY DEF ServerOK, Shape, Send
<1> HIDE DEF w, p
<1>2. ServerOK(r, w) BY <1>1 DEF ServerOK, p
<1> QED BY <1>1, <1>2 DEF Good, SameStates, w

\* Packets that tell nothing.
LEMMA SendPlain ==
  ASSUME NEW r \in SSURouters, NEW v, ServerOK(r, v), NEW to, NEW key, NEW body,
         NEW type \in {"SessionDestroyed", "RelayRequest", "RelayResponse", "RelayIntro", "HolePunch"}
  PROVE  LET w == Send(v, type, r, to, key, body)
         IN /\ Good(r, v, w) /\ w.sessions = v.sessions /\ w.held = v.held
            /\ SameStates(v, w) /\ w.m_Sessions = v.m_Sessions
<1>1. SentBy(r, Packet(type, r, to, key, body), v.held) BY DEF SentBy, Packet, PacketTypes
<1> QED BY <1>1, SendSound

\* A change of the timer alone.
WithTimer(s, timer) == [s EXCEPT !.m_Timer = timer]
SetTimer(v, i, timer) == [v EXCEPT !.sessions[i].m_Timer = timer]

LEMMA TimerSound ==
  ASSUME NEW r \in SSURouters, NEW v, ServerOK(r, v), NEW i \in 1 .. Len(v.sessions),
         NEW timer \in {"connect", "termination"},
         v.sessions[i].m_State = "Established" => timer = "termination"
  PROVE  LET w == SetTimer(v, i, timer)
         IN /\ Good(r, v, w) /\ SameStates(v, w) /\ w.m_Sessions = v.m_Sessions
            /\ \A j \in 1 .. Len(v.sessions) : j # i => w.sessions[j] = v.sessions[j]
            /\ w.sessions[i] = WithTimer(v.sessions[i], timer)
<1> DEFINE w == SetTimer(v, i, timer)
           s == [v.sessions[i] EXCEPT !.m_Timer = timer]
<1>1. v.sessions[i] \in Session /\ SessionOK(r, v.sessions[i], v.held)
  BY DEF ServerOK, SessionOK
<1>2. SessionOK(r, s, v.held)
  <2>1. /\ s \in Session /\ s.m_State = v.sessions[i].m_State /\ s.m_Timer = timer
        /\ s.m_RemoteEndpoint = v.sessions[i].m_RemoteEndpoint
        /\ s.m_RemoteRouter = v.sessions[i].m_RemoteRouter
        /\ s.m_SessionKey = v.sessions[i].m_SessionKey /\ s.due = v.sessions[i].due
        /\ s.m_DHKeysPair = v.sessions[i].m_DHKeysPair
        /\ s.m_SessionConfirmData = v.sessions[i].m_SessionConfirmData
    BY <1>1 DEF Session
  <2> HIDE DEF s
  <2> QED BY <1>1, <2>1 DEF SessionOK, KeyOK, ConfirmDataOK, PairOK, TimerOK, IsOutbound
<1>3. /\ Shape(w) /\ w.sessions = [v.sessions EXCEPT ![i] = s]
      /\ w.m_Sessions = v.m_Sessions
      /\ w.m_Relays = v.m_Relays /\ w.session = v.session /\ w.scenario = v.scenario
      /\ w.drawn = v.drawn /\ w.garbage = v.garbage /\ w.sent = v.sent /\ w.held = v.held
  BY DEF ServerOK, Shape, SetTimer
<1>4. s.m_State = v.sessions[i].m_State BY <1>1 DEF Session
<1> HIDE DEF w, s
<1>5. /\ v.drawn \in Nat /\ v.m_Relays \in Seq(SSURouters)
      /\ v.m_Sessions \in [SSURouters -> 0 .. Len(v.sessions)]
  BY DEF ServerOK
<1>6. Puts(r, v, i, s, w) BY <1>2, <1>3, <1>5 DEF Puts
<1>7. /\ Good(r, v, w) /\ SameStates(v, w) /\ w.sessions[i] = s
      /\ \A j \in 1 .. Len(v.sessions) : j # i => w.sessions[j] = v.sessions[j]
  BY <1>4, <1>6, PutSession
<1> QED BY <1>3, <1>7 DEF w, s, WithTimer
\* m_Sessions leads elsewhere.
LEMMA TableSound ==
  ASSUME NEW r \in SSURouters, NEW v, ServerOK(r, v), NEW e \in SSURouters,
         NEW n \in 0 .. Len(v.sessions)
  PROVE  LET w == [v EXCEPT !.m_Sessions[e] = n]
         IN /\ Good(r, v, w) /\ SameStates(v, w) /\ w.sessions = v.sessions
<1> DEFINE w == [v EXCEPT !.m_Sessions[e] = n]
<1>1. /\ Shape(w) /\ w.sessions = v.sessions /\ w.m_Sessions = [v.m_Sessions EXCEPT ![e] = n]
      /\ w.m_Relays = v.m_Relays /\ w.session = v.session /\ w.scenario = v.scenario
      /\ w.drawn = v.drawn /\ w.garbage = v.garbage /\ w.sent = v.sent /\ w.held = v.held
  BY DEF ServerOK, Shape
<1>2. w.m_Sessions \in [SSURouters -> 0 .. Len(w.sessions)] BY <1>1 DEF ServerOK
<1> HIDE DEF w
<1>3. ServerOK(r, w) BY <1>1, <1>2 DEF ServerOK
<1> QED BY <1>1, <1>3 DEF Good, SameStates, w

LEMMA FreshPair ==
  ASSUME NEW r \in SSURouters, NEW v, v.drawn \in Nat
  PROVE  /\ DrawnBy(NextPair(v, r), r) /\ NextPair(v, r) \in Pair
         /\ NextPair(v, r) # NoPair /\ NextPair(v, r) # Garbage
BY SSUSessionAssumption DEF DrawnBy, NextPair, Pair, NoPair, Garbage

LEMMA RequestSent ==
  ASSUME NEW r \in SSURouters, NEW v, ServerOK(r, v), NEW i \in 1 .. Len(v.sessions),
         v.sessions[i].m_State # "Established",
         IsOutbound(v.sessions[i]),
         v.sessions[i].m_RemoteEndpoint = v.sessions[i].m_RemoteRouter
  PROVE  LET w == SendSessionRequest(v, r, i) IN Good(r, v, w) /\ SameStates(v, w)
<1> DEFINE pair == NextPair(v, r)
           s == [v.sessions[i] EXCEPT !.m_DHKeysPair = pair]
           u == [v EXCEPT !.sessions[i].m_DHKeysPair = pair, !.drawn = @ + 1]
           w == SendSessionRequest(v, r, i)
<1>1. /\ v.sessions[i] \in Session /\ SessionOK(r, v.sessions[i], v.held)
      /\ v.drawn \in Nat /\ v.m_Relays \in Seq(SSURouters)
      /\ v.m_Sessions \in [SSURouters -> 0 .. Len(v.sessions)]
  BY DEF ServerOK, SessionOK
<1>2. /\ DrawnBy(pair, r) /\ pair \in Pair BY <1>1, FreshPair
<1> HIDE DEF pair
<1>3. SessionOK(r, s, v.held) /\ s.m_State = v.sessions[i].m_State
  <2>1. /\ s \in Session /\ s.m_State = v.sessions[i].m_State
        /\ s.m_Timer = v.sessions[i].m_Timer
        /\ s.m_RemoteEndpoint = v.sessions[i].m_RemoteEndpoint
        /\ s.m_RemoteRouter = v.sessions[i].m_RemoteRouter
        /\ s.m_SessionKey = v.sessions[i].m_SessionKey /\ s.due = v.sessions[i].due
        /\ s.m_DHKeysPair = pair
        /\ s.m_SessionConfirmData = v.sessions[i].m_SessionConfirmData
    BY <1>1, <1>2 DEF Session
  <2> HIDE DEF s
  <2> QED BY <1>1, <1>2, <2>1 DEF SessionOK, KeyOK, ConfirmDataOK, PairOK, TimerOK, IsOutbound
<1>4. /\ Shape(u) /\ u.sessions = [v.sessions EXCEPT ![i] = s]
      /\ u.m_Sessions = v.m_Sessions
      /\ u.m_Relays = v.m_Relays /\ u.session = v.session /\ u.scenario = v.scenario
      /\ u.drawn = v.drawn + 1 /\ u.garbage = v.garbage /\ u.sent = v.sent /\ u.held = v.held
  BY DEF ServerOK, Shape
<1>5. w = Send(u, "SessionRequest", r, v.sessions[i].m_RemoteEndpoint,
               IntroKey(v.sessions[i].m_RemoteRouter), pair)
  BY DEF SendSessionRequest, pair
<1> HIDE DEF u, s, w
<1>6. Puts(r, v, i, s, u) BY <1>1, <1>3, <1>4 DEF Puts
<1>7. Good(r, v, u) /\ SameStates(v, u) BY <1>3, <1>6, PutSession
<1>8. SentBy(r, Packet("SessionRequest", r, v.sessions[i].m_RemoteEndpoint,
                       IntroKey(v.sessions[i].m_RemoteRouter), pair), u.held)
  BY <1>2 DEF SentBy, Packet, PacketTypes
<1>9. ServerOK(r, u) BY <1>7 DEF Good
<1>10. Good(r, u, w) /\ SameStates(u, w) BY <1>5, <1>8, <1>9, SendSound
<1> QED BY <1>7, <1>10, Compose DEF w

LEMMA ConnectSound ==
  ASSUME NEW r \in SSURouters, NEW v, ServerOK(r, v), NEW i \in 1 .. Len(v.sessions),
         IsOutbound(v.sessions[i]),
         v.sessions[i].m_RemoteEndpoint = v.sessions[i].m_RemoteRouter
  PROVE  LET w == Connect(v, r, i) IN ServerOK(r, w) /\ Good(r, v, w) /\ SameStates(v, w)
<1>1. CASE v.sessions[i].m_State # "Unknown"
  BY <1>1 DEF Connect, Good, SameStates
<1>2. CASE v.sessions[i].m_State = "Unknown"
  <2> DEFINE u == ScheduleConnectTimer(v, i)
             w == SendSessionRequest(u, r, i)
  <2>1. /\ Good(r, v, u) /\ SameStates(v, u)
        /\ u.sessions[i] = WithTimer(v.sessions[i], "connect")
    <3>1. v.sessions[i].m_State = "Established" => "connect" = "termination" BY <1>2
    <3>2. "connect" \in {"connect", "termination"} OBVIOUS
    <3>3. u = SetTimer(v, i, "connect") BY DEF ScheduleConnectTimer, SetTimer
    <3> HIDE DEF u
    <3> QED BY <3>1, <3>2, <3>3, TimerSound
  <2>2. v.sessions[i] \in Session BY DEF ServerOK, SessionOK
  <2>3. /\ u.sessions[i].m_State # "Established" /\ IsOutbound(u.sessions[i])
        /\ u.sessions[i].m_RemoteEndpoint = u.sessions[i].m_RemoteRouter
        /\ i \in 1 .. Len(u.sessions) /\ ServerOK(r, u)
    BY <1>2, <2>1, <2>2 DEF Session, IsOutbound, Good, WithTimer
  <2> HIDE DEF u
  <2>4. Good(r, u, w) /\ SameStates(u, w) BY <2>3, RequestSent
  <2>5. Connect(v, r, i) = w BY <1>2 DEF Connect, u
  <2> HIDE DEF w
  <2> QED BY <2>1, <2>4, <2>5, Compose DEF Good
<1> QED BY <1>1, <1>2

LEMMA DestroyedSound ==
  ASSUME NEW r \in SSURouters, NEW v, ServerOK(r, v), NEW i \in 1 .. Len(v.sessions)
  PROVE  LET w == SendSesionDestroyed(v, r, i)
         IN Good(r, v, w) /\ SameStates(v, w) /\ w.sessions = v.sessions
            /\ w.m_Sessions = v.m_Sessions
<1>1. CASE v.sessions[i].m_SessionKey = NoKey
  BY <1>1 DEF SendSesionDestroyed, Good, SameStates
<1>2. CASE v.sessions[i].m_SessionKey # NoKey
  BY <1>2, SendPlain DEF SendSesionDestroyed
<1> QED BY <1>1, <1>2

LEMMA CloseSound ==
  ASSUME NEW r \in SSURouters, NEW v, ServerOK(r, v), NEW i \in 1 .. Len(v.sessions)
  PROVE  LET w == Close(v, r, i)
         IN /\ ServerOK(r, w) /\ Good(r, v, w) /\ Shares(v, w) /\ w.m_Sessions = v.m_Sessions
            /\ \A j \in 1 .. Len(v.sessions) : j # i => w.sessions[j] = v.sessions[j]
            /\ SessionOK(r, w.sessions[i], v.held) /\ w.sessions[i].m_State = "Closed"
            /\ w.held = v.held
<1> DEFINE s == [v.sessions[i] EXCEPT !.m_State = "Closed", !.m_Timer = "none"]
           u == [v EXCEPT !.sessions[i].m_State = "Closed", !.sessions[i].m_Timer = "none"]
           w == Close(v, r, i)
<1>1. /\ v.sessions[i] \in Session /\ SessionOK(r, v.sessions[i], v.held)
      /\ v.drawn \in Nat /\ v.m_Relays \in Seq(SSURouters)
      /\ v.m_Sessions \in [SSURouters -> 0 .. Len(v.sessions)]
  BY DEF ServerOK, SessionOK
<1>3. SessionOK(r, s, v.held) /\ s.m_State = "Closed"
  <2>1. /\ s \in Session /\ s.m_State = "Closed"
        /\ s.m_Timer = "none"
        /\ s.m_RemoteEndpoint = v.sessions[i].m_RemoteEndpoint
        /\ s.m_RemoteRouter = v.sessions[i].m_RemoteRouter
        /\ s.m_SessionKey = v.sessions[i].m_SessionKey /\ s.due = v.sessions[i].due
        /\ s.m_DHKeysPair = v.sessions[i].m_DHKeysPair
        /\ s.m_SessionConfirmData = v.sessions[i].m_SessionConfirmData
    BY <1>1 DEF Session
  <2> HIDE DEF s
  <2> QED BY <1>1, <2>1 DEF SessionOK, KeyOK, ConfirmDataOK, PairOK, TimerOK, IsOutbound
<1>4. /\ Shape(u) /\ u.sessions = [v.sessions EXCEPT ![i] = s]
      /\ u.m_Sessions = v.m_Sessions
      /\ u.m_Relays = v.m_Relays /\ u.session = v.session /\ u.scenario = v.scenario
      /\ u.drawn = v.drawn /\ u.garbage = v.garbage /\ u.sent = v.sent /\ u.held = v.held
  BY DEF ServerOK, Shape
<1>5. w = SendSesionDestroyed(u, r, i) BY DEF Close
<1> HIDE DEF u, s, w
<1>6. Puts(r, v, i, s, u) BY <1>1, <1>3, <1>4 DEF Puts
<1>7. /\ Good(r, v, u) /\ Shares(v, u) /\ u.sessions[i] = s
      /\ \A j \in 1 .. Len(v.sessions) : j # i => u.sessions[j] = v.sessions[j]
  BY <1>3, <1>6, PutSession
<1>8. ServerOK(r, u) /\ i \in 1 .. Len(u.sessions) BY <1>7 DEF Good
<1>9. Good(r, u, w) /\ w.sessions = u.sessions /\ w.m_Sessions = u.m_Sessions /\ w.held = u.held
  BY <1>5, <1>8, DestroyedSound, SendPlain DEF SendSesionDestroyed
<1>10. Good(r, v, w) /\ Shares(v, w) BY <1>7, <1>9 DEF Good, Shares
<1> QED BY <1>3, <1>4, <1>7, <1>9, <1>10 DEF w, Good

LEMMA DeleteSound ==
  ASSUME NEW r \in SSURouters, NEW v, ServerOK(r, v), NEW i \in 1 .. Len(v.sessions)
  PROVE  LET w == DeleteSession(v, r, i) IN Good(r, v, w) /\ Shares(v, w)
<1> DEFINE u == Close(v, r, i)
           e == v.sessions[i].m_RemoteEndpoint
           w == DeleteSession(v, r, i)
<1>1. ServerOK(r, u) /\ Good(r, v, u) /\ Shares(v, u) BY CloseSound
<1>2. e \in SSURouters BY DEF ServerOK, SessionOK, Session
<1>3. 0 \in 0 .. Len(u.sessions) BY <1>1 DEF ServerOK
<1>4. w = [u EXCEPT !.m_Sessions[e] = 0] BY DEF DeleteSession
<1> HIDE DEF u, w, e
<1>5. Good(r, u, w) /\ w.sessions = u.sessions BY <1>1, <1>2, <1>3, <1>4, TableSound
<1>6. Good(r, v, w) /\ Shares(v, w) BY <1>1, <1>5 DEF Good, Shares
<1> QED BY <1>6 DEF w

\* A session is established, under whatever key it has.
LEMMA EstablishedSound ==
  ASSUME NEW r \in SSURouters, NEW v, ServerOK(r, v), NEW i \in 1 .. Len(v.sessions)
  PROVE  LET w == Established(v, r, i)
         IN /\ Good(r, v, w)
            /\ v.sessions[i].m_SessionKey \in server[v.sessions[i].m_RemoteEndpoint].held
                 => Shares(v, w)
<1> DEFINE s == [v.sessions[i] EXCEPT !.m_Timer = "termination", !.m_State = "Established",
                                      !.m_SessionConfirmData = NoData, !.m_DHKeysPair = NoPair]
           u == [ScheduleTermination(v, i) EXCEPT
                   !.sessions[i].m_State = "Established",
                   !.sessions[i].m_SessionConfirmData = NoData,
                   !.sessions[i].m_DHKeysPair = NoPair]
           w == Established(v, r, i)
           p == Packet("DeliveryStatus", r, v.sessions[i].m_RemoteEndpoint,
                       v.sessions[i].m_SessionKey, NoData)
<1>1. /\ v.sessions[i] \in Session /\ SessionOK(r, v.sessions[i], v.held)
      /\ v.drawn \in Nat /\ v.m_Relays \in Seq(SSURouters)
      /\ v.m_Sessions \in [SSURouters -> 0 .. Len(v.sessions)]
      /\ v.sessions \in Seq(Session)
  BY DEF ServerOK, SessionOK
<1>2. NoData \in Data /\ NoPair \in Pair BY DEF Data, Pair, NoPair
<1>3. /\ SessionOK(r, s, v.held) /\ s.m_SessionKey = v.sessions[i].m_SessionKey
      /\ s.m_RemoteEndpoint = v.sessions[i].m_RemoteEndpoint
  <2>1. /\ s \in Session /\ s.m_State = "Established"
        /\ s.m_Timer = "termination"
        /\ s.m_RemoteEndpoint = v.sessions[i].m_RemoteEndpoint
        /\ s.m_RemoteRouter = v.sessions[i].m_RemoteRouter
        /\ s.m_SessionKey = v.sessions[i].m_SessionKey /\ s.due = v.sessions[i].due
        /\ s.m_DHKeysPair = NoPair
        /\ s.m_SessionConfirmData = NoData
    BY <1>1, <1>2 DEF Session
  <2> HIDE DEF s
  <2> QED BY <1>1, <2>1 DEF SessionOK, KeyOK, ConfirmDataOK, PairOK, TimerOK, IsOutbound
<1>4. /\ Shape(u) /\ u.sessions = [v.sessions EXCEPT ![i] = s]
      /\ u.m_Sessions = v.m_Sessions
      /\ u.m_Relays = v.m_Relays /\ u.session = v.session /\ u.scenario = v.scenario
      /\ u.drawn = v.drawn /\ u.garbage = v.garbage /\ u.sent = v.sent /\ u.held = v.held
  BY <1>1 DEF ServerOK, Shape, ScheduleTermination
<1>5. w = Send(u, "DeliveryStatus", r, v.sessions[i].m_RemoteEndpoint,
               v.sessions[i].m_SessionKey, NoData)
  BY DEF Established
<1>6. SentBy(r, p, u.held)
  <2>1. KeyOK(r, v.sessions[i], v.held) BY <1>1 DEF SessionOK
  <2> QED BY <1>4, <2>1 DEF KeyOK, SentBy, Packet, PacketTypes
<1> HIDE DEF u, s, w
<1>7. Puts(r, v, i, s, u) BY <1>1, <1>3, <1>4 DEF Puts
<1>8. /\ Good(r, v, u)
      /\ v.sessions[i].m_SessionKey \in server[v.sessions[i].m_RemoteEndpoint].held
           => Shares(v, u)
  BY <1>3, <1>7, PutSession
<1>9. ServerOK(r, u) BY <1>8 DEF Good
<1>10. Good(r, u, w) /\ w.sessions = u.sessions BY <1>5, <1>6, <1>9, SendSound DEF p
<1>11. Good(r, v, w) /\ (Shares(v, u) => Shares(v, w)) BY <1>8, <1>10 DEF Good, Shares
<1> QED BY <1>8, <1>11 DEF w

\* SessionRequest, also one that was not decrypted.
LEMMA RequestSound ==
  ASSUME NEW r \in SSURouters, NEW v, ServerOK(r, v), NEW i \in 1 .. Len(v.sessions),
         NEW from \in SSURouters, NEW x, DrawnByOrGarbage(x, from)
  PROVE  LET w == ProcessSessionRequest(v, r, i, x, from) IN Good(r, v, w) /\ SameStates(v, w)
<1>1. CASE IsOutbound(v.sessions[i])
  BY <1>1 DEF ProcessSessionRequest, Good, SameStates
<1>2. CASE ~IsOutbound(v.sessions[i])
  <2> DEFINE new == v.sessions[i].m_DHKeysPair = NoPair
             y == IF new THEN NextPair(v, r) ELSE v.sessions[i].m_DHKeysPair
             tag == IF IsIntroducer(r) THEN Len(v.m_Relays) + 1 ELSE 0
             drawn == IF new THEN v.drawn + 1 ELSE v.drawn
             relays == IF tag = 0 THEN v.m_Relays ELSE Append(v.m_Relays, from)
             s == [v.sessions[i] EXCEPT !.m_RemoteEndpoint = from, !.m_DHKeysPair = y,
                                        !.m_SessionKey = {x, y},
                                        !.m_SessionConfirmData = <<x, y, tag>>]
             t == [v EXCEPT !.sessions[i].m_RemoteEndpoint = from,
                            !.sessions[i].m_DHKeysPair = y,
                            !.drawn = IF new THEN @ + 1 ELSE @]
             u == [t EXCEPT !.sessions[i].m_SessionKey = Agree(x, y),
                            !.sessions[i].m_SessionConfirmData = <<x, y, tag>>,
                            !.m_Relays = IF tag = 0 THEN @ ELSE Append(@, from),
                            !.held = @ \cup {Agree(x, y)}]
             w == ProcessSessionRequest(v, r, i, x, from)
             body == [y |-> y, tag |-> tag, sig |-> <<r, x, y, tag>>]
             p == Packet("SessionCreated", r, from, IntroKey(r), body)
  <2>1. /\ v.sessions[i] \in Session /\ SessionOK(r, v.sessions[i], v.held)
        /\ v.drawn \in Nat /\ v.m_Relays \in Seq(SSURouters)
        /\ v.m_Sessions \in [SSURouters -> 0 .. Len(v.sessions)]
        /\ v.sessions \in Seq(Session)
    BY DEF ServerOK, SessionOK
  <2>2. /\ DrawnBy(y, r) /\ y \in Pair /\ y # NoPair
    BY <2>1, FreshPair DEF SessionOK, PairOK, DrawnBy
  <2>3. /\ tag \in Nat /\ drawn \in Nat /\ relays \in Seq(SSURouters) BY <2>1
  <2>4. w = Send(u, "SessionCreated", r, from, IntroKey(r), body)
    BY <1>2 DEF ProcessSessionRequest, SendSessionCreated
  <2>5. /\ Shape(u) /\ u.sessions = [v.sessions EXCEPT ![i] = s]
        /\ u.m_Sessions = v.m_Sessions
        /\ u.m_Relays = relays /\ u.session = v.session /\ u.scenario = v.scenario
        /\ u.drawn = drawn /\ u.garbage = v.garbage
        /\ u.sent = v.sent /\ u.held = v.held \cup {{x, y}}
    <3> HIDE DEF y, tag, new
    <3> QED BY <2>1 DEF ServerOK, Shape, Agree
  <2> HIDE DEF y, tag, new, drawn, relays, w, u
  <2>6. SessionOK(r, s, u.held) /\ s.m_State = v.sessions[i].m_State
    <3>1. x \in Pair BY DEF DrawnByOrGarbage
    <3>2. <<x, y, tag>> \in Data BY <2>2, <2>3, <3>1 DEF Data
    <3>3. /\ s \in Session /\ s.m_State = v.sessions[i].m_State
          /\ s.m_Timer = v.sessions[i].m_Timer
          /\ s.m_RemoteEndpoint = from
          /\ s.m_RemoteRouter = v.sessions[i].m_RemoteRouter
          /\ s.m_SessionKey = {x, y} /\ s.due = v.sessions[i].due
          /\ s.m_DHKeysPair = y
          /\ s.m_SessionConfirmData = <<x, y, tag>>
      BY <2>1, <2>2, <3>1, <3>2 DEF Session
    <3> HIDE DEF s
    <3>4. ~IsOutbound(s) BY <1>2, <3>3 DEF IsOutbound
    <3>5. KeyOK(r, s, u.held)
      <4>1. {x, y} = {y, x} OBVIOUS
      <4> QED BY <2>2, <2>5, <3>1, <3>3, <4>1 DEF KeyOK
    <3>6. ConfirmDataOK(r, s)
      <4>1. <<x, y, tag>>[1] = x /\ <<x, y, tag>>[2] = y OBVIOUS
      <4> QED BY <2>2, <3>3, <3>4, <4>1 DEF ConfirmDataOK
    <3>7. PairOK(r, s) BY <2>2, <3>3, <3>4 DEF PairOK
    <3>8. TimerOK(s) /\ s.m_State # "Introduced"
      BY <1>2, <2>1, <3>3 DEF TimerOK, SessionOK, IsOutbound
    <3> QED BY <3>3, <3>5, <3>6, <3>7, <3>8 DEF SessionOK
  <2>7. SentBy(r, p, u.held)
    <3>1. body.y = y /\ body.tag = tag OBVIOUS
    <3> HIDE DEF body
    <3> QED BY <2>2, <2>3, <3>1 DEF SentBy, Packet, PacketTypes
  <2> HIDE DEF s, p, body
  <2>8. Puts(r, v, i, s, u) BY <2>1, <2>3, <2>5, <2>6 DEF Puts
  <2>9. Good(r, v, u) /\ SameStates(v, u) BY <2>6, <2>8, PutSession
  <2>10. ServerOK(r, u) BY <2>9 DEF Good
  <2>11. Good(r, u, w) /\ SameStates(u, w) BY <2>4, <2>7, <2>10, SendSound DEF p
  <2> QED BY <2>9, <2>11, Compose DEF w
<1> QED BY <1>1, <1>2

\* SessionCreated, also one that was not decrypted: b is what is read in it.
LEMMA CreatedSound ==
  ASSUME NEW r \in SSURouters, NEW v, ServerOK(r, v), NEW i \in 1 .. Len(v.sessions),
         NEW b, b.tag \in Nat,
         IsOutbound(v.sessions[i]) /\ v.sessions[i].m_DHKeysPair # NoPair
           => DrawnByOrGarbage(b.y, v.sessions[i].m_RemoteEndpoint)
  PROVE  LET w == ProcessSessionCreated(v, r, i, b) IN Good(r, v, w) /\ SameStates(v, w)
<1>1. CASE ~IsOutbound(v.sessions[i]) \/ v.sessions[i].m_DHKeysPair = NoPair
  BY <1>1 DEF ProcessSessionCreated, Good, SameStates
<1>2. CASE IsOutbound(v.sessions[i]) /\ v.sessions[i].m_DHKeysPair # NoPair
  <2> DEFINE x == v.sessions[i].m_DHKeysPair
             s == [v.sessions[i] EXCEPT !.m_Timer = "none", !.m_SessionKey = {x, b.y},
                                        !.m_RelayTag = b.tag]
             u == [v EXCEPT !.sessions[i].m_Timer = "none",
                            !.sessions[i].m_SessionKey = Agree(x, b.y),
                            !.sessions[i].m_RelayTag = b.tag,
                            !.held = @ \cup {Agree(x, b.y)}]
             c == SendSessionConfirmed(u, r, i, x, b)
             to == u.sessions[i].m_RemoteEndpoint
             body == [who |-> r, data |-> <<x, b.y, b.tag>>]
             p == Packet("SessionConfirmed", r, to, Agree(x, b.y), body)
  <2>1. /\ v.sessions[i] \in Session /\ SessionOK(r, v.sessions[i], v.held)
        /\ v.drawn \in Nat /\ v.m_Relays \in Seq(SSURouters)
        /\ v.m_Sessions \in [SSURouters -> 0 .. Len(v.sessions)]
        /\ v.sessions \in Seq(Session)
    BY DEF ServerOK, SessionOK
  <2>2. /\ DrawnBy(x, r) /\ x \in Pair /\ b.y \in Pair
        /\ DrawnByOrGarbage(b.y, v.sessions[i].m_RemoteEndpoint)
        /\ v.sessions[i].m_RemoteEndpoint = v.sessions[i].m_RemoteRouter
        /\ v.sessions[i].m_State # "Established"
    BY <1>2, <2>1 DEF SessionOK, PairOK, DrawnBy, DrawnByOrGarbage
  <2>3. /\ Shape(u) /\ u.sessions = [v.sessions EXCEPT ![i] = s]
        /\ u.m_Sessions = v.m_Sessions
        /\ u.m_Relays = v.m_Relays /\ u.session = v.session /\ u.scenario = v.scenario
        /\ u.drawn = v.drawn /\ u.garbage = v.garbage /\ u.sent = v.sent
        /\ u.held = v.held \cup {{x, b.y}}
    <3> HIDE DEF x
    <3> QED BY <2>1 DEF ServerOK, Shape, Agree
  <2>4. SessionOK(r, s, u.held) /\ s.m_State = v.sessions[i].m_State
    <3>1. /\ s \in Session /\ s.m_State = v.sessions[i].m_State
          /\ s.m_Timer = "none"
          /\ s.m_RemoteEndpoint = v.sessions[i].m_RemoteEndpoint
          /\ s.m_RemoteRouter = v.sessions[i].m_RemoteRouter
          /\ s.m_SessionKey = {x, b.y} /\ s.due = v.sessions[i].due
          /\ s.m_DHKeysPair = x
          /\ s.m_SessionConfirmData = v.sessions[i].m_SessionConfirmData
      BY <2>1, <2>2 DEF Session
    <3> HIDE DEF s, u, x
    <3>2. IsOutbound(s) BY <1>2, <3>1 DEF IsOutbound
    <3>3. KeyOK(r, s, u.held) BY <2>2, <2>3, <3>1 DEF KeyOK
    <3>4. ConfirmDataOK(r, s) BY <1>2, <2>1, <3>1 DEF SessionOK, ConfirmDataOK
    <3>5. PairOK(r, s) BY <2>2, <3>1 DEF PairOK
    <3>6. TimerOK(s)
      <4>1. {x, b.y} # NoKey BY DEF NoKey
      <4> QED BY <2>2, <3>1, <3>2, <4>1 DEF TimerOK
    <3>7. s.m_State = "Introduced" => IsOutbound(s) /\ s.m_RemoteEndpoint = s.m_RemoteRouter
      BY <2>2, <3>1, <3>2
    <3> QED BY <3>1, <3>3, <3>4, <3>5, <3>6, <3>7 DEF SessionOK
  <2>5. c = Send(u, "SessionConfirmed", r, to, Agree(x, b.y), body)
    BY DEF SendSessionConfirmed
  <2>6. SentBy(r, p, u.held)
    <3>1. body.data = <<x, b.y, b.tag>> OBVIOUS
    <3>2. p.type = "SessionConfirmed" /\ p.from = r /\ p.key = {x, b.y} /\ p.body = body
      BY DEF Packet, Agree
    <3> HIDE DEF body, x, u, p
    <3> QED BY <2>2, <2>3, <3>1, <3>2 DEF SentBy, PacketTypes
  <2>7. ProcessSessionCreated(v, r, i, b) \in {u, c}
    BY <1>2 DEF ProcessSessionCreated
  <2> HIDE DEF u, s, c, x, to, body
  <2>8. Puts(r, v, i, s, u) BY <2>1, <2>3, <2>4 DEF Puts
  <2>9. Good(r, v, u) /\ SameStates(v, u) BY <2>4, <2>8, PutSession
  <2>10. ServerOK(r, u) BY <2>9 DEF Good
  <2>11. Good(r, u, c) /\ SameStates(u, c) BY <2>5, <2>6, <2>10, SendSound DEF p
  <2>12. Good(r, v, c) /\ SameStates(v, c) BY <2>9, <2>11, Compose
  <2> QED BY <2>7, <2>9, <2>12
<1> QED BY <1>1, <1>2

\* SessionConfirmed: what it carries was sent by router f, or was not decrypted.
LEMMA ConfirmedSound ==
  ASSUME NEW r \in SSURouters, NEW v, ServerOK(r, v), NEW i \in 1 .. Len(v.sessions),
         NEW b,
         \/ b.data = Garbage
         \/ \E f \in SSURouters, x, y \in Pair, t \in Nat :
              b.data = <<x, y, t>> /\ DrawnBy(x, f) /\ {x, y} \in server[f].held
  PROVE  LET w == ProcessSessionConfirmed(v, r, i, b) IN Good(r, v, w) /\ Shares(v, w)
<1> DEFINE c == v.sessions[i].m_SessionConfirmData
           w == ProcessSessionConfirmed(v, r, i, b)
<1>1. /\ v.sessions[i] \in Session /\ SessionOK(r, v.sessions[i], v.held)
      /\ v.drawn \in Nat /\ v.m_Relays \in Seq(SSURouters)
      /\ v.m_Sessions \in [SSURouters -> 0 .. Len(v.sessions)]
      /\ v.sessions \in Seq(Session)
  BY DEF ServerOK, SessionOK
<1>2. CASE c = NoData
  BY <1>2 DEF ProcessSessionConfirmed, Good, Shares
<1>3. CASE c # NoData /\ b.data = c
  <2>1. c \in Data BY <1>1 DEF Session
  <2>2. Len(Garbage) = 2 /\ Len(Spoilt) = 1 BY DEF Garbage, Spoilt
  <2>3. \A x, y, t : Len(<<x, y, t>>) = 3 OBVIOUS
  <2>4. b.data # Garbage
    <3>1. c # Garbage
      <4>1. CASE c = Spoilt BY <2>2, <4>1
      <4>2. CASE c \in Pair \X Pair \X Nat
        <5>1. Len(c) = 3 BY <4>2, <2>3
        <5>2. Len(c) # Len(Garbage) BY <5>1, <2>2
        <5> QED BY <5>2
      <4> QED BY <1>3, <2>1, <4>1, <4>2 DEF Data
    <3> QED BY <1>3, <3>1
  <2>5. PICK f \in SSURouters, x \in Pair, y \in Pair, t \in Nat :
           c = <<x, y, t>> /\ DrawnBy(x, f) /\ {x, y} \in server[f].held
    BY <1>3, <2>4
  <2>6. c # Spoilt
    <3>1. Len(c) = 3 BY <2>3, <2>5
    <3>2. Len(c) # Len(Spoilt) BY <2>2, <3>1
    <3> QED BY <3>2
  <2>7. /\ v.sessions[i].m_SessionKey = {x, y}
        /\ DrawnByOrGarbage(x, v.sessions[i].m_RemoteEndpoint)
    <3>1. c[1] = x /\ c[2] = y BY <2>5
    <3> QED BY <1>1, <1>3, <2>6, <3>1 DEF SessionOK, ConfirmDataOK
  <2>8. x # Garbage BY <2>5, SSUSessionAssumption DEF DrawnBy, Garbage
  <2>9. v.sessions[i].m_RemoteEndpoint = f BY <2>5, <2>7, <2>8 DEF DrawnBy, DrawnByOrGarbage
  <2>10. w = Established(v, r, i) BY <1>3 DEF ProcessSessionConfirmed
  <2>11. v.sessions[i].m_SessionKey \in server[v.sessions[i].m_RemoteEndpoint].held
    BY <2>5, <2>7, <2>9
  <2> HIDE DEF w, c
  <2> QED BY <2>10, <2>11, EstablishedSound DEF w
<1>4. CASE c # NoData /\ b.data # c
  <2> DEFINE s == [v.sessions[i] EXCEPT !.m_SessionConfirmData = Spoilt]
  <2>1. /\ Shape(w) /\ w.sessions = [v.sessions EXCEPT ![i] = s]
        /\ w.m_Sessions = v.m_Sessions
        /\ w.m_Relays = v.m_Relays /\ w.session = v.session /\ w.scenario = v.scenario
        /\ w.drawn = v.drawn /\ w.garbage = v.garbage /\ w.sent = v.sent /\ w.held = v.held
    BY <1>4 DEF ServerOK, Shape, ProcessSessionConfirmed
  <2>2. SessionOK(r, s, v.held) /\ s.m_State = v.sessions[i].m_State
    <3>1. Spoilt \in Data BY DEF Data
    <3>2. /\ s \in Session /\ s.m_State = v.sessions[i].m_State
          /\ s.m_Timer = v.sessions[i].m_Timer
          /\ s.m_RemoteEndpoint = v.sessions[i].m_RemoteEndpoint
          /\ s.m_RemoteRouter = v.sessions[i].m_RemoteRouter
          /\ s.m_SessionKey = v.sessions[i].m_SessionKey /\ s.due = v.sessions[i].due
          /\ s.m_DHKeysPair = v.sessions[i].m_DHKeysPair
          /\ s.m_SessionConfirmData = Spoilt
      BY <1>1, <3>1 DEF Session
    <3> HIDE DEF s
    <3> QED BY <1>1, <3>2 DEF SessionOK, KeyOK, ConfirmDataOK, PairOK, TimerOK, IsOutbound
  <2> HIDE DEF w, s
  <2>3. Puts(r, v, i, s, w) BY <1>1, <2>1, <2>2 DEF Puts
  <2>4. Good(r, v, w) /\ SameStates(v, w) BY <2>2, <2>3, PutSession
  <2> QED BY <2>4, SameShares DEF w
<1> QED BY <1>2, <1>3, <1>4

\* A packet on session i, as it was sent by router q and understood.
Understood(r, v, i, q, p) ==
  /\ q \in SSURouters /\ q # r /\ SentBy(q, p, server[q].held)
  /\ p.to = r /\ p.key = MacKey(v.sessions[i], r)

\* An intro key is no session key.
LEMMA IntroKeyIsNoSessionKey ==
  ASSUME NEW r \in SSURouters, NEW g, NEW a, NEW z, DrawnBy(a, r)
  PROVE  {a, z} # IntroKey(g)
<1>1. a[1] # "intro" BY SSUSessionAssumption DEF DrawnBy
<1>2. a # <<"intro", g>> BY <1>1
<1> QED BY <1>2 DEF IntroKey

\* Data on a session: a DeliveryStatus comes from the router at its endpoint.
LEMMA DeliveryStatusSound ==
  ASSUME NEW r \in SSURouters, NEW v, ServerOK(r, v), NEW i \in 1 .. Len(v.sessions),
         NEW q, NEW p, Understood(r, v, i, q, p), p.type = "DeliveryStatus"
  PROVE  LET w == ProcessDeliveryStatus(v, r, i) IN Good(r, v, w) /\ Shares(v, w)
<1> DEFINE s == v.sessions[i]
           e == s.m_RemoteEndpoint
<1>1. CASE s.m_State = "Established"
  BY <1>1 DEF ProcessDeliveryStatus, Good, Shares
<1>2. CASE s.m_State # "Established"
  <2>1. SessionOK(r, s, v.held) BY DEF ServerOK
  <2>2. /\ q \in SSURouters /\ q # r /\ p.key = MacKey(s, r) /\ p.to = r
        /\ p.key # NoKey /\ p.key \in server[q].held
    BY DEF Understood, SentBy, MacKey, IntroKey, NoKey
  <2>3. PICK a, z \in Pair : p.key = {a, z} /\ DrawnBy(a, q)
    BY <2>2 DEF Understood, SentBy
  <2>4. s.m_SessionKey # NoKey /\ s.m_SessionKey = {a, z}
    <3>1. \A g : {a, z} # IntroKey(g) BY <2>2, <2>3, IntroKeyIsNoSessionKey
    <3> QED BY <2>2, <2>3, <3>1 DEF MacKey
  <2>5. PICK x, y \in Pair : /\ s.m_SessionKey = {x, y}
                             /\ DrawnBy(x, r) /\ DrawnByOrGarbage(y, e)
    BY <2>1, <2>4 DEF SessionOK, KeyOK
  <2>6. a[1] = q /\ x[1] = r /\ a \in {x, y}
    <3>1. {a, z} = {x, y} BY <2>4, <2>5
    <3> QED BY <2>3, <2>5, <3>1 DEF DrawnBy
  <2>7. a = y /\ a # Garbage BY <2>2, <2>6, SSUSessionAssumption DEF Garbage
  <2>8. q = e BY <2>5, <2>6, <2>7 DEF DrawnByOrGarbage
  <2>9. s.m_SessionKey \in server[e].held BY <2>2, <2>3, <2>4, <2>8
  <2>10. ProcessDeliveryStatus(v, r, i) = Established(v, r, i) BY <1>2 DEF ProcessDeliveryStatus
  <2> QED BY <2>9, <2>10, EstablishedSound
<1> QED BY <1>1, <1>2

\* SessionCreated from a router comes under its intro key.
LEMMA CreatedIsFromEndpoint ==
  ASSUME NEW r \in SSURouters, NEW v, ServerOK(r, v), NEW i \in 1 .. Len(v.sessions),
         NEW q, NEW p, Understood(r, v, i, q, p), p.type = "SessionCreated",
         IsOutbound(v.sessions[i]), v.sessions[i].m_DHKeysPair # NoPair
  PROVE  DrawnByOrGarbage(p.body.y, v.sessions[i].m_RemoteEndpoint)
<1> DEFINE s == v.sessions[i]
<1>1. SessionOK(r, s, v.held) BY DEF ServerOK
<1>2. /\ q \in SSURouters /\ p.key = MacKey(s, r) /\ p.key = IntroKey(q) /\ DrawnBy(p.body.y, q)
  BY DEF Understood, SentBy
<1>3. s.m_SessionKey = NoKey
  <2>1. SUFFICES ASSUME s.m_SessionKey # NoKey PROVE FALSE OBVIOUS
  <2>2. PICK a, z \in Pair : s.m_SessionKey = {a, z} /\ DrawnBy(a, r)
    BY <1>1, <2>1 DEF SessionOK, KeyOK
  <2>3. {a, z} # IntroKey(q) BY <2>2, IntroKeyIsNoSessionKey
  <2> QED BY <1>2, <2>1, <2>2, <2>3 DEF MacKey
<1>4. IntroKey(s.m_RemoteRouter) = IntroKey(q) BY <1>2, <1>3 DEF MacKey
<1>5. s.m_RemoteRouter = q
  <2>1. <<"intro", s.m_RemoteRouter>> = <<"intro", q>> BY <1>4 DEF IntroKey
  <2> QED BY <2>1
<1>6. s.m_RemoteEndpoint = q BY <1>1, <1>5 DEF SessionOK, PairOK
<1> QED BY <1>2, <1>6 DEF DrawnBy, DrawnByOrGarbage

LEMMA RelaySound ==
  ASSUME NEW r \in SSURouters, NEW v, ServerOK(r, v), NEW i \in 1 .. Len(v.sessions), NEW p
  PROVE  /\ LET w == ProcessRelayRequest(v, r, i, p) IN Good(r, v, w) /\ Shares(v, w)
         /\ LET w == ProcessRelayResponse(v, r, i) IN Good(r, v, w) /\ Shares(v, w)
         /\ LET w == ProcessRelayIntro(v, r, p) IN Good(r, v, w) /\ Shares(v, w)
<1>0. Good(r, v, v) /\ Shares(v, v) BY DEF Good, Shares
<1>1. LET w == ProcessRelayRequest(v, r, i, p) IN Good(r, v, w) /\ Shares(v, w)
  <2> DEFINE u == SendRelayResponse(v, r, i, p)
             to == IF v.sessions[i].m_State = "Established" THEN v.sessions[i].m_RemoteEndpoint
                   ELSE p.from
             key == IF v.sessions[i].m_State = "Established" THEN v.sessions[i].m_SessionKey
                    ELSE p.body.introKey
             c == v.m_Relays[p.body.tag]
             j == v.m_Sessions[c]
             w == SendRelayIntro(u, r, j, p.from)
  <2>1. u = Send(v, "RelayResponse", r, to, key, NoData) BY DEF SendRelayResponse
  <2> HIDE DEF u, to, key
  <2>2. Good(r, v, u) /\ SameStates(v, u) /\ ServerOK(r, u) BY <2>1, SendPlain DEF Good
  <2>3. Good(r, u, w) /\ SameStates(u, w) BY <2>2, SendPlain DEF SendRelayIntro
  <2>4. ProcessRelayRequest(v, r, i, p) \in {v, w}
    <3>1. CASE p.body.tag \in DOMAIN v.m_Relays BY <3>1 DEF ProcessRelayRequest, u
    <3>2. CASE p.body.tag \notin DOMAIN v.m_Relays BY <3>2 DEF ProcessRelayRequest
    <3> QED BY <3>1, <3>2
  <2> HIDE DEF w
  <2>5. Good(r, v, w) /\ Shares(v, w) BY <2>2, <2>3, Compose, SameShares
  <2> QED BY <1>0, <2>4, <2>5
<1>2. LET w == ProcessRelayResponse(v, r, i) IN Good(r, v, w) /\ Shares(v, w)
  BY <1>0, DeleteSound DEF ProcessRelayResponse
<1>3. LET w == ProcessRelayIntro(v, r, p) IN Good(r, v, w) /\ Shares(v, w)
  BY SendPlain, SameShares DEF ProcessRelayIntro
<1> QED BY <1>1, <1>2, <1>3

LEMMA DecryptedSound ==
  ASSUME NEW r \in SSURouters, NEW v, ServerOK(r, v), NEW i \in 1 .. Len(v.sessions),
         NEW q, NEW p, Understood(r, v, i, q, p), p.type # "HolePunch"
  PROVE  LET w == ProcessDecryptedMessage(v, r, i, p) IN Good(r, v, w) /\ Shares(v, w)
<1>1. p.type \in PacketTypes /\ p.from = q /\ q \in SSURouters BY DEF Understood, SentBy
<1>2. CASE p.type = "SessionRequest"
  <2>1. DrawnByOrGarbage(p.body, q) BY <1>2 DEF Understood, SentBy, DrawnBy, DrawnByOrGarbage
  <2>2. ProcessDecryptedMessage(v, r, i, p) = ProcessSessionRequest(v, r, i, p.body, q)
    BY <1>1, <1>2 DEF ProcessDecryptedMessage
  <2> QED BY <1>1, <2>1, <2>2, RequestSound, SameShares
<1>3. CASE p.type = "SessionCreated"
  <2> DEFINE b == p.body
  <2>1. b.tag \in Nat BY <1>3 DEF Understood, SentBy
  <2>2. IsOutbound(v.sessions[i]) /\ v.sessions[i].m_DHKeysPair # NoPair
          => DrawnByOrGarbage(b.y, v.sessions[i].m_RemoteEndpoint)
    BY <1>3, CreatedIsFromEndpoint
  <2>3. ProcessDecryptedMessage(v, r, i, p) = ProcessSessionCreated(v, r, i, b)
    BY <1>3 DEF ProcessDecryptedMessage
  <2> HIDE DEF b
  <2> QED BY <2>1, <2>2, <2>3, CreatedSound, SameShares
<1>4. CASE p.type = "SessionConfirmed"
  <2> DEFINE b == p.body
  <2>1. \E f \in SSURouters, x, y \in Pair, t \in Nat :
          b.data = <<x, y, t>> /\ DrawnBy(x, f) /\ {x, y} \in server[f].held
    <3>1. PICK x, y \in Pair, t \in Nat :
            p.body.data = <<x, y, t>> /\ p.key = {x, y} /\ DrawnBy(x, q)
      BY <1>4 DEF Understood, SentBy
    <3>2. p.key \in server[q].held BY <1>4 DEF Understood, SentBy
    <3> QED BY <1>1, <3>1, <3>2
  <2>2. ProcessDecryptedMessage(v, r, i, p) = ProcessSessionConfirmed(v, r, i, b)
    BY <1>4 DEF ProcessDecryptedMessage
  <2> HIDE DEF b
  <2> QED BY <2>1, <2>2, ConfirmedSound
<1>5. CASE p.type = "DeliveryStatus"
  <2>1. ProcessDecryptedMessage(v, r, i, p) = ProcessDeliveryStatus(v, r, i)
    BY <1>5 DEF ProcessDecryptedMessage
  <2> QED BY <1>5, <2>1, DeliveryStatusSound
<1>6. CASE p.type = "SessionDestroyed"
  <2>1. ProcessDecryptedMessage(v, r, i, p) = DeleteSession(v, r, i)
    BY <1>6 DEF ProcessDecryptedMessage
  <2> QED BY <2>1, DeleteSound
<1>7. CASE p.type = "RelayRequest"
  <2>1. ProcessDecryptedMessage(v, r, i, p) = ProcessRelayRequest(v, r, i, p)
    BY <1>7 DEF ProcessDecryptedMessage
  <2> QED BY <2>1, RelaySound
<1>8. CASE p.type = "RelayResponse"
  <2>1. ProcessDecryptedMessage(v, r, i, p) = ProcessRelayResponse(v, r, i)
    BY <1>8 DEF ProcessDecryptedMessage
  <2> QED BY <2>1, RelaySound
<1>9. CASE p.type = "RelayIntro"
  <2>1. ProcessDecryptedMessage(v, r, i, p) = ProcessRelayIntro(v, r, p)
    BY <1>9 DEF ProcessDecryptedMessage
  <2> QED BY <2>1, RelaySound
<1> QED BY <1>1, <1>2, <1>3, <1>4, <1>5, <1>6, <1>7, <1>8, <1>9 DEF PacketTypes

LEMMA AliveSound ==
  ASSUME NEW r \in SSURouters, NEW v, ServerOK(r, v), NEW i \in 1 .. Len(v.sessions)
  PROVE  LET w == Alive(v, i)
         IN /\ ServerOK(r, w) /\ Good(r, v, w) /\ SameStates(v, w)
            /\ MacKey(w.sessions[i], r) = MacKey(v.sessions[i], r)
            /\ w.sessions[i].m_DHKeysPair = v.sessions[i].m_DHKeysPair
<1>1. CASE v.sessions[i].m_State # "Established"
  BY <1>1 DEF Alive, Good, SameStates
<1>2. CASE v.sessions[i].m_State = "Established"
  <2> DEFINE w == Alive(v, i)
  <2>1. w = SetTimer(v, i, "termination") BY <1>2 DEF Alive, ScheduleTermination, SetTimer
  <2> HIDE DEF w
  <2>2. v.sessions[i].m_State = "Established" => "termination" = "termination" OBVIOUS
  <2>3. "termination" \in {"connect", "termination"} OBVIOUS
  <2>4. /\ Good(r, v, w) /\ SameStates(v, w)
        /\ w.sessions[i] = WithTimer(v.sessions[i], "termination")
    BY <2>1, <2>2, <2>3, TimerSound
  <2>5. v.sessions[i] \in Session BY DEF ServerOK, SessionOK
  <2>6. /\ w.sessions[i].m_SessionKey = v.sessions[i].m_SessionKey
        /\ w.sessions[i].m_RemoteRouter = v.sessions[i].m_RemoteRouter
        /\ w.sessions[i].m_DHKeysPair = v.sessions[i].m_DHKeysPair
    BY <2>4, <2>5 DEF WithTimer, Session
  <2> QED BY <2>4, <2>6 DEF w, Good, MacKey, IsOutbound
<1> QED BY <1>1, <1>2

\* A packet that is not decrypted is counted; it may establish a session under any
\* key or none.
LEMMA GarbageSound ==
  ASSUME NEW r \in SSURouters, NEW v, ServerOK(r, v), NEW i \in 1 .. Len(v.sessions),
         NEW p, p.from \in SSURouters, NEW type \in GarbageTypes
  PROVE  LET w == ProcessGarbage(v, r, i, p, type) IN Sane(r, v, w) /\ w.garbage # v.garbage
<1> DEFINE g == [v EXCEPT !.garbage = @ + 1]
           b == [y |-> Garbage, tag |-> 0, sig |-> NoData]
           d == [data |-> Garbage]
           w == ProcessGarbage(v, r, i, p, type)
<1>1. /\ Shape(g) /\ g.sessions = v.sessions /\ g.m_Sessions = v.m_Sessions
      /\ g.m_Relays = v.m_Relays /\ g.session = v.session /\ g.scenario = v.scenario
      /\ g.drawn = v.drawn /\ g.sent = v.sent /\ g.held = v.held
      /\ v.garbage \in Nat /\ g.garbage = v.garbage + 1
  BY DEF ServerOK, Shape
<1>2. /\ w \in {ProcessSessionRequest(g, r, i, Garbage, p.from), ProcessSessionCreated(g, r, i, b),
                ProcessSessionConfirmed(g, r, i, d), ProcessDeliveryStatus(g, r, i),
                DeleteSession(g, r, i), ProcessRelayResponse(g, r, i)}
  BY DEF ProcessGarbage, GarbageTypes
<1>3. b.y = Garbage /\ b.tag \in Nat /\ d.data = Garbage /\ Garbage \in Pair
  BY DEF Pair, Garbage
<1> HIDE DEF g, b, d, w
<1>4. ServerOK(r, g) /\ Sane(r, v, g) /\ i \in 1 .. Len(g.sessions)
  BY <1>1 DEF ServerOK, Sane
<1>5. Good(r, g, ProcessSessionRequest(g, r, i, Garbage, p.from))
  <2>1. DrawnByOrGarbage(Garbage, p.from) BY <1>3 DEF DrawnByOrGarbage
  <2> QED BY <1>4, <2>1, RequestSound
<1>6. Good(r, g, ProcessSessionCreated(g, r, i, b))
  <2>1. DrawnByOrGarbage(b.y, g.sessions[i].m_RemoteEndpoint) BY <1>3 DEF DrawnByOrGarbage
  <2> QED BY <1>3, <1>4, <2>1, CreatedSound
<1>7. Good(r, g, ProcessSessionConfirmed(g, r, i, d)) BY <1>3, <1>4, ConfirmedSound
<1>8. Good(r, g, ProcessDeliveryStatus(g, r, i))
  <2>1. Good(r, g, g) BY <1>4 DEF Good
  <2> QED BY <1>4, <2>1, EstablishedSound DEF ProcessDeliveryStatus
<1>9. Good(r, g, DeleteSession(g, r, i)) BY <1>4, DeleteSound
<1>10. Good(r, g, ProcessRelayResponse(g, r, i)) BY <1>4, RelaySound
<1>11. Good(r, g, w) BY <1>2, <1>5, <1>6, <1>7, <1>8, <1>9, <1>10
<1> QED BY <1>1, <1>4, <1>11 DEF Good, Sane, w

LEMMA IntroducedSound ==
  ASSUME NEW r \in SSURouters, NEW v, ServerOK(r, v), NEW i \in 1 .. Len(v.sessions),
         v.sessions[i].m_State = "Introduced"
  PROVE  LET w == Connect([v EXCEPT !.sessions[i].m_State = "Unknown"], r, i)
         IN Good(r, v, w) /\ Shares(v, w)
<1> DEFINE s == [v.sessions[i] EXCEPT !.m_State = "Unknown"]
           u == [v EXCEPT !.sessions[i].m_State = "Unknown"]
           w == Connect(u, r, i)
<1>1. /\ v.sessions[i] \in Session /\ SessionOK(r, v.sessions[i], v.held)
      /\ v.drawn \in Nat /\ v.m_Relays \in Seq(SSURouters)
      /\ v.m_Sessions \in [SSURouters -> 0 .. Len(v.sessions)]
      /\ v.sessions \in Seq(Session)
  BY DEF ServerOK, SessionOK
<1>2. /\ SessionOK(r, s, v.held) /\ s.m_State = "Unknown"
      /\ IsOutbound(s) /\ s.m_RemoteEndpoint = s.m_RemoteRouter
  <2>1. /\ s \in Session /\ s.m_State = "Unknown"
        /\ s.m_Timer = v.sessions[i].m_Timer
        /\ s.m_RemoteEndpoint = v.sessions[i].m_RemoteEndpoint
        /\ s.m_RemoteRouter = v.sessions[i].m_RemoteRouter
        /\ s.m_SessionKey = v.sessions[i].m_SessionKey /\ s.due = v.sessions[i].due
        /\ s.m_DHKeysPair = v.sessions[i].m_DHKeysPair
        /\ s.m_SessionConfirmData = v.sessions[i].m_SessionConfirmData
    BY <1>1 DEF Session
  <2> HIDE DEF s
  <2> QED BY <1>1, <2>1 DEF SessionOK, KeyOK, ConfirmDataOK, PairOK, TimerOK, IsOutbound
<1>3. /\ Shape(u) /\ u.sessions = [v.sessions EXCEPT ![i] = s]
      /\ u.m_Sessions = v.m_Sessions
      /\ u.m_Relays = v.m_Relays /\ u.session = v.session /\ u.scenario = v.scenario
      /\ u.drawn = v.drawn /\ u.garbage = v.garbage /\ u.sent = v.sent /\ u.held = v.held
  BY DEF ServerOK, Shape
<1> HIDE DEF u, s
<1>4. Puts(r, v, i, s, u) BY <1>1, <1>2, <1>3 DEF Puts
<1>5. Good(r, v, u) /\ u.sessions[i] = s
      /\ \A j \in 1 .. Len(v.sessions) : j # i => u.sessions[j] = v.sessions[j]
  BY <1>4, PutSession
<1>6. ServerOK(r, u) /\ i \in 1 .. Len(u.sessions) BY <1>5 DEF Good
<1>7. Good(r, u, w) /\ SameStates(u, w) BY <1>2, <1>5, <1>6, ConnectSound
<1> HIDE DEF w
<1>8. Good(r, v, w) BY <1>5, <1>7 DEF Good
<1>9. \A j \in 1 .. Len(v.sessions) : j # i => u.sessions[j] = v.sessions[j] BY <1>5
<1>10. Len(u.sessions) = Len(v.sessions) BY <1>5 DEF Good
<1>11. Shares(v, w) BY <1>2, <1>5, <1>7, <1>9, <1>10 DEF Shares, SameStates
<1> QED BY <1>8, <1>11 DEF w, u

LEMMA NextMessageSound ==
  ASSUME NEW r \in SSURouters, NEW v, ServerOK(r, v), NEW i \in 1 .. Len(v.sessions),
         NEW q \in SSURouters \ {r}, NEW p, SentBy(q, p, server[q].held), p.to = r,
         NEW w \in ProcessNextMessage(v, r, i, p)
  PROVE  Sane(r, v, w) /\ (w.garbage = v.garbage => Shares(v, w))
<1> DEFINE a == Alive(v, i)
<1>1. /\ ServerOK(r, a) /\ Good(r, v, a) /\ SameStates(v, a)
      /\ MacKey(a.sessions[i], r) = MacKey(v.sessions[i], r)
      /\ i \in 1 .. Len(a.sessions)
  BY AliveSound DEF Good
<1>2. p.from \in SSURouters BY DEF SentBy
<1>3. CASE v.sessions[i].m_State = "Introduced"
  <2>1. w = Connect([v EXCEPT !.sessions[i].m_State = "Unknown"], r, i)
    BY <1>3 DEF ProcessNextMessage
  <2>2. Good(r, v, w) /\ Shares(v, w) BY <1>3, <2>1, IntroducedSound
  <2> QED BY <2>2 DEF Good, Sane
<1>4. CASE v.sessions[i].m_State # "Introduced" /\ p.type = "HolePunch"
  BY <1>4 DEF ProcessNextMessage, Sane, Shares
<1>5. CASE /\ v.sessions[i].m_State # "Introduced" /\ p.type # "HolePunch"
           /\ p.key = MacKey(v.sessions[i], r)
  <2>1. w = ProcessDecryptedMessage(a, r, i, p) BY <1>5 DEF ProcessNextMessage
  <2>2. Understood(r, a, i, q, p) BY <1>1, <1>5 DEF Understood
  <2> HIDE DEF a
  <2>3. Good(r, a, w) /\ Shares(a, w) BY <1>1, <1>5, <2>1, <2>2, DecryptedSound
  <2>4. Good(r, v, w) /\ Shares(v, w) BY <1>1, <2>3, Compose
  <2> QED BY <2>4 DEF Good, Sane
<1>6. CASE /\ v.sessions[i].m_State # "Introduced" /\ p.type # "HolePunch"
           /\ p.key # MacKey(v.sessions[i], r)
  <2>1. \/ w = a
        \/ \E t \in GarbageTypes : w = ProcessGarbage(a, r, i, p, t)
    BY <1>6 DEF ProcessNextMessage
  <2> HIDE DEF a
  <2>2. CASE w = a BY <1>1, <2>2, SameShares DEF Good, Sane
  <2>3. ASSUME NEW t \in GarbageTypes, w = ProcessGarbage(a, r, i, p, t)
        PROVE  Sane(r, v, w) /\ w.garbage # v.garbage
    <3>1. Sane(r, a, w) /\ w.garbage # a.garbage BY <1>1, <1>2, <2>3, GarbageSound
    <3> QED BY <1>1, <3>1 DEF Good, Sane
  <2> QED BY <2>1, <2>2, <2>3
<1> QED BY <1>3, <1>4, <1>5, <1>6
-----------------------------------------------------------------------------
(***************************************************************************)
(* The steps.                                                              *)
(***************************************************************************)
\* The step of EstablishedSharesKey.
SharesKey ==
  \A r \in SSURouters : \A i \in DOMAIN server[r].sessions :
    LET old == server[r].sessions[i]
        new == server'[r].sessions[i]
        decrypted == server'[r].garbage = server[r].garbage
    IN old.m_State # "Established" /\ new.m_State = "Established" /\ decrypted
         => new.m_SessionKey \in server[new.m_RemoteEndpoint].held

LEMMA StepSound ==
  ASSUME SessionInv, NEW r \in SSURouters, NEW u, ServerOK(r, u),
         u.garbage = server[r].garbage => Shares(server[r], u),
         server' = [server EXCEPT ![r] = u]
  PROVE  SessionInv' /\ SharesKey
<1>1. /\ server'[r] = u /\ \A q \in SSURouters : q # r => server'[q] = server[q]
      /\ DOMAIN server' = SSURouters
  BY DEF SessionInv
<1>2. server' = [q \in SSURouters |-> server'[q]] BY DEF SessionInv
<1>3. \A q \in SSURouters : ServerOK(q, server'[q]) BY <1>1 DEF SessionInv
<1>4. SessionInv' BY <1>1, <1>2, <1>3 DEF SessionInv
<1>5. ASSUME NEW q \in SSURouters, NEW i \in DOMAIN server[q].sessions,
             server[q].sessions[i].m_State # "Established",
             server'[q].sessions[i].m_State = "Established",
             server'[q].garbage = server[q].garbage
      PROVE  server'[q].sessions[i].m_SessionKey
               \in server[server'[q].sessions[i].m_RemoteEndpoint].held
  <2>1. q = r BY <1>1, <1>5
  <2>2. i \in 1 .. Len(server[r].sessions) BY <2>1, <1>5 DEF SessionInv, ServerOK
  <2> QED BY <1>1, <1>5, <2>1, <2>2 DEF Shares
<1> QED BY <1>4, <1>5 DEF SharesKey

LEMMA BatchSound ==
  ASSUME NEW r \in SSURouters, NEW v, ServerOK(r, v), NEW n \in 0 .. Len(v.sessions)
  PROVE  LET w == [v EXCEPT !.session = n]
         IN ServerOK(r, w) /\ w.sessions = v.sessions /\ w.garbage = v.garbage
<1> DEFINE w == [v EXCEPT !.session = n]
<1>1. /\ Shape(w) /\ w.sessions = v.sessions /\ w.m_Sessions = v.m_Sessions
      /\ w.m_Relays = v.m_Relays /\ w.session = n /\ w.scenario = v.scenario
      /\ w.drawn = v.drawn /\ w.garbage = v.garbage /\ w.sent = v.sent /\ w.held = v.held
  BY DEF ServerOK, Shape
<1> HIDE DEF w
<1> QED BY <1>1 DEF ServerOK, w

LEMMA HandledSound ==
  ASSUME SessionInv, NEW r \in SSURouters, NEW v, Good(r, server[r], v), Shares(server[r], v),
         Handled(r, v)
  PROVE  SessionInv' /\ SharesKey
<1> DEFINE w == [v EXCEPT !.session = 0]
<1>1. ServerOK(r, v) /\ 0 \in 0 .. Len(v.sessions) BY DEF Good, ServerOK
<1>2. ServerOK(r, w) /\ w.sessions = v.sessions BY <1>1, BatchSound
<1>3. server' = [server EXCEPT ![r] = w] BY DEF Handled
<1> HIDE DEF w
<1>4. Shares(server[r], w) BY <1>2 DEF Shares
<1> QED BY <1>2, <1>3, <1>4, StepSound

\* A step that opens session s for endpoint e.
Opens(r, v, s, e, w) ==
  LET n == Len(v.sessions) + 1
  IN /\ Shape(w) /\ n <= v.scenario.maxSessions /\ SessionOK(r, s, v.held)
     /\ w.sessions \in Seq(Session) /\ Len(w.sessions) = n /\ w.sessions[n] = s
     /\ \A j \in 1 .. Len(v.sessions) : w.sessions[j] = v.sessions[j]
     /\ e \in SSURouters /\ w.m_Sessions = [v.m_Sessions EXCEPT ![e] = n]
     /\ w.scenario = v.scenario /\ w.session = v.session
     /\ w.drawn = v.drawn /\ w.garbage = v.garbage
     /\ w.m_Relays = v.m_Relays /\ w.held = v.held
     /\ \A p \in w.sent : p \in v.sent \/ SentBy(r, p, w.held)

LEMMA OpenSound ==
  ASSUME NEW r \in SSURouters, NEW v, ServerOK(r, v), NEW s, NEW e, NEW w,
         Opens(r, v, s, e, w)
  PROVE  ServerOK(r, w) /\ SameStates(v, w)
<1>1. w.m_Sessions \in [SSURouters -> 0 .. Len(w.sessions)] BY DEF ServerOK, Opens
<1>2. ASSUME NEW j \in 1 .. Len(w.sessions) PROVE SessionOK(r, w.sessions[j], w.held)
  <2>1. Len(v.sessions) \in Nat BY DEF ServerOK
  <2>2. j \in 1 .. Len(v.sessions) \/ j = Len(v.sessions) + 1 BY <2>1 DEF Opens
  <2>3. CASE j \in 1 .. Len(v.sessions)
    <3>1. w.sessions[j] = v.sessions[j] /\ w.held = v.held BY <2>3 DEF Opens
    <3> QED BY <2>3, <3>1 DEF ServerOK
  <2>4. CASE j = Len(v.sessions) + 1 BY <2>4 DEF Opens
  <2> QED BY <2>2, <2>3, <2>4
<1>3. w.session \in 0 .. Len(w.sessions) BY DEF ServerOK, Opens
<1>4. \A p \in w.sent : SentBy(r, p, w.held) BY DEF ServerOK, Opens
<1>5. ServerOK(r, w) BY <1>1, <1>2, <1>3, <1>4 DEF ServerOK, Opens
<1> QED BY <1>5 DEF SameStates, Opens

\* A new session, for its endpoint or one called through it.
LEMMA NewSessionSound ==
  ASSUME NEW r \in SSURouters, NEW e \in SSURouters, NEW to \in SSURouters \cup {NoRouter},
         NEW held
  PROVE  LET s == WithTimer(NewSession(e, to), "connect")
         IN /\ SessionOK(r, s, held) /\ s.m_State = "Unknown" /\ s.m_RemoteEndpoint = e
            /\ s.m_RemoteRouter = to
<1> DEFINE s == WithTimer(NewSession(e, to), "connect")
<1>1. /\ NoPair \in Pair /\ NoData \in Data /\ NoKey \in SUBSET Pair
  BY DEF NoPair, Pair, NoData, Data, NoKey
<1>2. /\ s \in Session /\ s.m_State = "Unknown" /\ s.m_Timer = "connect"
      /\ s.m_RemoteEndpoint = e /\ s.m_RemoteRouter = to
      /\ s.m_SessionKey = NoKey /\ s.m_DHKeysPair = NoPair /\ s.m_SessionConfirmData = NoData
  BY <1>1 DEF WithTimer, NewSession, Session
<1> HIDE DEF s
<1> QED BY <1>2 DEF SessionOK, KeyOK, ConfirmDataOK, PairOK, TimerOK, s

LEMMA WaitingSound ==
  ASSUME NEW r \in SSURouters, NEW to \in SSURouters, NEW held
  PROVE  SessionOK(r, WaitForIntroduction(NewSession(to, to)), held)
<1> DEFINE s == WaitForIntroduction(NewSession(to, to))
<1>1. /\ NoPair \in Pair /\ NoData \in Data /\ NoKey \in SUBSET Pair
  BY DEF NoPair, Pair, NoData, Data, NoKey
<1>2. /\ s \in Session /\ s.m_State = "Introduced" /\ s.m_Timer = "connect"
      /\ s.m_RemoteEndpoint = to /\ s.m_RemoteRouter = to
      /\ s.m_SessionKey = NoKey /\ s.m_DHKeysPair = NoPair /\ s.m_SessionConfirmData = NoData
  BY <1>1 DEF WaitForIntroduction, NewSession, Session
<1>3. to # NoRouter BY SSUSessionAssumption DEF NoRouter
<1> HIDE DEF s
<1> QED BY <1>2, <1>3 DEF SessionOK, KeyOK, ConfirmDataOK, PairOK, TimerOK, IsOutbound, s

\* The sessions after one more.
LEMMA Appended ==
  ASSUME NEW S \in Seq(Session), NEW s \in Session
  PROVE  /\ Append(S, s) \in Seq(Session) /\ Len(Append(S, s)) = Len(S) + 1
         /\ Append(S, s)[Len(S) + 1] = s
         /\ \A j \in 1 .. Len(S) : Append(S, s)[j] = S[j]
OBVIOUS

LEMMA InboundSound ==
  ASSUME NEW r \in SSURouters, NEW v, ServerOK(r, v), NEW from \in SSURouters,
         Len(v.sessions) + 1 <= v.scenario.maxSessions
  PROVE  LET w == NewInbound(v, from)
         IN /\ ServerOK(r, w) /\ SameStates(v, w) /\ Len(w.sessions) = Len(v.sessions) + 1
            /\ w.garbage = v.garbage
<1> DEFINE s == [NewSession(from, NoRouter) EXCEPT !.m_Timer = "connect"]
           w == NewInbound(v, from)
<1>1. SessionOK(r, s, v.held) BY NewSessionSound DEF WithTimer
<1>2. s \in Session BY <1>1 DEF SessionOK
<1>3. /\ Shape(w) /\ w.sessions = Append(v.sessions, s)
      /\ w.m_Sessions = [v.m_Sessions EXCEPT ![from] = Len(v.sessions) + 1]
      /\ w.m_Relays = v.m_Relays /\ w.session = v.session /\ w.scenario = v.scenario
      /\ w.drawn = v.drawn /\ w.garbage = v.garbage /\ w.sent = v.sent /\ w.held = v.held
  BY DEF ServerOK, Shape, NewInbound
<1> HIDE DEF w, s
<1>4. v.sessions \in Seq(Session) BY DEF ServerOK
<1>5. Opens(r, v, s, from, w) BY <1>1, <1>2, <1>3, <1>4, Appended DEF Opens
<1> QED BY <1>5, OpenSound DEF Opens, w

LEMMA ReceiveSound ==
  ASSUME SessionInv, NEW r \in SSURouters, HandleReceivedPackets(r)
  PROVE  SessionInv' /\ SharesKey
<1>0. PICK q \in SSURouters \ {r} : \E p \in server[q].sent : \E before \in {0, server[r].session} :
        p.to = r /\ HandleReceivedPacket(r, p, before)
  BY DEF HandleReceivedPackets
<1>1. PICK p \in server[q].sent : \E before \in {0, server[r].session} :
        p.to = r /\ HandleReceivedPacket(r, p, before)
  BY <1>0
<1>2. PICK before \in {0, server[r].session} : p.to = r /\ HandleReceivedPacket(r, p, before)
  BY <1>1
<1> DEFINE v == server[r]
           mine == before # 0 /\ v.sessions[before].m_RemoteEndpoint = p.from
           i == IF mine THEN before
                ELSE IF v.m_Sessions[p.from] # 0 THEN v.m_Sessions[p.from] ELSE before
           n == Len(v.sessions) + 1
<1>3. ServerOK(r, v) /\ SentBy(q, p, server[q].held) BY DEF SessionInv, ServerOK
<1>4. /\ p.from = q /\ before \in 0 .. Len(v.sessions) /\ v.m_Sessions[p.from] \in 0 .. Len(v.sessions)
      /\ Len(v.sessions) \in Nat
  BY <1>3 DEF SentBy, ServerOK
<1>5. /\ i = 0 => n <= v.scenario.maxSessions
      /\ \E w \in IF i = 0 THEN ProcessNextMessage(NewInbound(v, p.from), r, n, p)
                  ELSE ProcessNextMessage(v, r, i, p) :
           server' = [server EXCEPT ![r] = [w EXCEPT !.session = IF i = 0 THEN n ELSE i]]
  BY <1>2 DEF HandleReceivedPacket
<1>6. i \in 0 .. Len(v.sessions) BY <1>4
<1> HIDE DEF v, mine, i
<1>7. CASE i = 0
  <2> DEFINE a == NewInbound(v, q)
  <2>1. PICK w \in ProcessNextMessage(a, r, n, p) :
          server' = [server EXCEPT ![r] = [w EXCEPT !.session = n]]
    BY <1>4, <1>5, <1>7
  <2>2. ServerOK(r, a) /\ SameStates(v, a) /\ Len(a.sessions) = n /\ a.garbage = v.garbage
    BY <1>3, <1>5, <1>7, InboundSound
  <2>3. n \in 1 .. Len(a.sessions) BY <1>4, <2>2
  <2> HIDE DEF a, n
  <2>4. Sane(r, a, w) /\ (w.garbage = a.garbage => Shares(a, w))
    BY <1>2, <1>3, <2>1, <2>2, <2>3, NextMessageSound
  <2>5. n \in 0 .. Len(w.sessions) /\ ServerOK(r, w) BY <2>2, <2>3, <2>4 DEF Sane
  <2> DEFINE u == [w EXCEPT !.session = n]
  <2>6. ServerOK(r, u) /\ u.sessions = w.sessions /\ u.garbage = w.garbage BY <2>5, BatchSound
  <2> HIDE DEF u
  <2>7. u.garbage = v.garbage => Shares(v, u)
    <3>1. \A j \in 1 .. Len(v.sessions) :
            j \in 1 .. Len(a.sessions) /\ a.sessions[j].m_State = v.sessions[j].m_State
      BY <1>4, <2>2 DEF SameStates, n
    <3> QED BY <3>1, <2>2, <2>4, <2>6 DEF Shares
  <2> QED BY <2>1, <2>6, <2>7, StepSound DEF u, v
<1>8. CASE i # 0
  <2>1. PICK w \in ProcessNextMessage(v, r, i, p) :
          server' = [server EXCEPT ![r] = [w EXCEPT !.session = i]]
    BY <1>5, <1>8
  <2>2. i \in 1 .. Len(v.sessions) BY <1>4, <1>6, <1>8
  <2>3. Sane(r, v, w) /\ (w.garbage = v.garbage => Shares(v, w))
    BY <1>2, <1>3, <2>1, <2>2, NextMessageSound
  <2>4. i \in 0 .. Len(w.sessions) /\ ServerOK(r, w) BY <1>6, <2>3 DEF Sane
  <2> DEFINE u == [w EXCEPT !.session = i]
  <2>5. ServerOK(r, u) /\ u.sessions = w.sessions /\ u.garbage = w.garbage BY <2>4, BatchSound
  <2> HIDE DEF u
  <2>6. u.garbage = v.garbage => Shares(v, u) BY <2>3, <2>5 DEF Shares
  <2> QED BY <2>1, <2>5, <2>6, StepSound DEF u, v
<1> QED BY <1>7, <1>8

\* A direct call.
LEMMA CallSound ==
  ASSUME NEW r \in SSURouters, NEW v, ServerOK(r, v), NEW to \in SSURouters,
         Len(v.sessions) + 1 <= v.scenario.maxSessions
  PROVE  LET n == Len(v.sessions) + 1
             w == Connect([v EXCEPT !.sessions = Append(@, NewSession(to, to)),
                                    !.m_Sessions[to] = n], r, n)
         IN ServerOK(r, w) /\ Shares(v, w)
<1> DEFINE n == Len(v.sessions) + 1
           t == NewSession(to, to)
           s == WithTimer(t, "connect")
           o == [v EXCEPT !.sessions = Append(@, t), !.m_Sessions[to] = n]
           u == ScheduleConnectTimer(o, n)
           w == Connect(o, r, n)
<1>1. /\ SessionOK(r, s, v.held) /\ s.m_State = "Unknown"
      /\ s.m_RemoteEndpoint = to /\ s.m_RemoteRouter = to
  BY NewSessionSound
<1>2. t \in Session /\ t.m_State = "Unknown"
  <2>1. /\ NoPair \in Pair /\ NoData \in Data /\ NoKey \in SUBSET Pair
    BY DEF NoPair, Pair, NoData, Data, NoKey
  <2> QED BY <2>1 DEF NewSession, Session
<1>3. v.sessions \in Seq(Session) /\ s \in Session /\ Len(v.sessions) \in Nat
  BY <1>1 DEF ServerOK, SessionOK
<1>4. /\ Append(v.sessions, t) \in Seq(Session) /\ Len(Append(v.sessions, t)) = n
      /\ Append(v.sessions, t)[n] = t
      /\ \A j \in 1 .. Len(v.sessions) : Append(v.sessions, t)[j] = v.sessions[j]
  BY <1>2, <1>3, Appended
<1>5. o.sessions = Append(v.sessions, t)
  BY DEF ServerOK, Shape
<1>6. /\ Shape(u) /\ u.sessions = [Append(v.sessions, t) EXCEPT ![n] = s]
      /\ u.m_Sessions = [v.m_Sessions EXCEPT ![to] = n]
      /\ u.m_Relays = v.m_Relays /\ u.session = v.session /\ u.scenario = v.scenario
      /\ u.drawn = v.drawn /\ u.garbage = v.garbage /\ u.sent = v.sent /\ u.held = v.held
  <2> HIDE DEF t
  <2> QED BY <1>4 DEF ServerOK, Shape, ScheduleConnectTimer, WithTimer
<1>7. w = SendSessionRequest(u, r, n) BY <1>2, <1>4, <1>5 DEF Connect
<1> HIDE DEF t, s, o, u, w
<1>8. Opens(r, v, s, to, u)
  <2>1. /\ u.sessions \in Seq(Session) /\ Len(u.sessions) = n /\ u.sessions[n] = s
        /\ \A j \in 1 .. Len(v.sessions) : u.sessions[j] = v.sessions[j]
    <3> DEFINE A == Append(v.sessions, t)
    <3>1. A \in Seq(Session) /\ Len(A) = n /\ \A j \in 1 .. Len(v.sessions) : A[j] = v.sessions[j]
      BY <1>4
    <3>2. u.sessions = [A EXCEPT ![n] = s] BY <1>6
    <3> HIDE DEF A
    <3>3. n \in 1 .. Len(A) BY <1>3, <3>1
    <3>4. u.sessions \in Seq(Session) /\ Len(u.sessions) = n /\ u.sessions[n] = s
      BY <1>3, <3>1, <3>2, <3>3
    <3>5. \A j \in 1 .. Len(v.sessions) : j \in 1 .. Len(A) /\ j # n BY <1>3, <3>1
    <3>6. \A j \in 1 .. Len(v.sessions) : u.sessions[j] = v.sessions[j]
      BY <3>1, <3>2, <3>5
    <3> QED BY <3>4, <3>6
  <2> QED BY <1>1, <1>6, <2>1 DEF Opens
<1>9. ServerOK(r, u) /\ SameStates(v, u) /\ u.sessions[n] = s /\ n \in 1 .. Len(u.sessions)
  <2>1. ServerOK(r, u) /\ SameStates(v, u) BY <1>8, OpenSound
  <2>2. u.sessions[n] = s /\ Len(u.sessions) = n BY <1>8 DEF Opens
  <2>3. n \in 1 .. n BY <1>3
  <2> QED BY <2>1, <2>2, <2>3
<1>10. NoRouter \notin SSURouters BY SSUSessionAssumption DEF NoRouter
<1> HIDE DEF n
<1>11. Good(r, u, w) /\ SameStates(u, w)
  <2>1. /\ u.sessions[n].m_State # "Established" /\ IsOutbound(u.sessions[n])
        /\ u.sessions[n].m_RemoteEndpoint = u.sessions[n].m_RemoteRouter
    BY <1>1, <1>9, <1>10 DEF IsOutbound
  <2> QED BY <1>7, <1>9, <2>1, RequestSent
<1>12. SameStates(v, w)
  <2>1. \A j \in 1 .. Len(v.sessions) : j \in 1 .. Len(u.sessions)
    BY <1>3, <1>8 DEF Opens
  <2> QED BY <1>9, <1>11, <2>1 DEF SameStates
<1> QED BY <1>11, <1>12, SameShares DEF Good, w, o, n, t

\* The relay request to an introducer; it has a session, or one is made for it.
LEMMA IntroduceSound ==
  ASSUME NEW r \in SSURouters, NEW v, ServerOK(r, v), NEW k \in 1 .. Len(v.sessions), NEW tag
  PROVE  LET w == Introduce(v, r, k, tag) IN Good(r, v, w) /\ SameStates(v, w)
<1> DEFINE u == IF v.sessions[k].m_State = "Unknown" THEN ScheduleConnectTimer(v, k) ELSE v
           w == Introduce(v, r, k, tag)
<1>1. Good(r, v, u) /\ SameStates(v, u)
  <2>1. CASE v.sessions[k].m_State = "Unknown"
    <3>1. v.sessions[k].m_State = "Established" => "connect" = "termination" BY <2>1
    <3>2. "connect" \in {"connect", "termination"} OBVIOUS
    <3>3. u = SetTimer(v, k, "connect") BY <2>1 DEF ScheduleConnectTimer, SetTimer
    <3> HIDE DEF u
    <3> QED BY <3>1, <3>2, <3>3, TimerSound
  <2>2. CASE v.sessions[k].m_State # "Unknown" BY <2>2 DEF Good, SameStates
  <2> QED BY <2>1, <2>2
<1>2. \E to, key, body : w = Send(u, "RelayRequest", r, to, key, body)
  BY DEF Introduce, SendRelayRequest
<1> HIDE DEF u, w
<1>3. PICK to, key, body : w = Send(u, "RelayRequest", r, to, key, body) BY <1>2
<1>4. ServerOK(r, u) BY <1>1 DEF Good
<1>5. "RelayRequest" \in {"SessionDestroyed", "RelayRequest", "RelayResponse", "RelayIntro", "HolePunch"}
  OBVIOUS
<1>6. Good(r, u, w) /\ SameStates(u, w) BY <1>3, <1>4, <1>5, SendPlain
<1> QED BY <1>1, <1>6, Compose DEF w

\* A call through an introducer: the session waits for the introduction.
LEMMA WaitsSound ==
  ASSUME NEW r \in SSURouters, NEW v, ServerOK(r, v), NEW to \in SSURouters,
         Len(v.sessions) + 1 <= v.scenario.maxSessions
  PROVE  LET w == Waiting(v, to)
         IN /\ ServerOK(r, w) /\ SameStates(v, w) /\ Len(w.sessions) = Len(v.sessions) + 1
            /\ w.scenario = v.scenario
            /\ w.m_Sessions = [v.m_Sessions EXCEPT ![to] = Len(v.sessions) + 1]
<1> DEFINE s == WaitForIntroduction(NewSession(to, to))
           w == Waiting(v, to)
<1>1. SessionOK(r, s, v.held) BY WaitingSound
<1>2. s \in Session BY <1>1 DEF SessionOK
<1>3. /\ Shape(w) /\ w.sessions = Append(v.sessions, s)
      /\ w.m_Sessions = [v.m_Sessions EXCEPT ![to] = Len(v.sessions) + 1]
      /\ w.m_Relays = v.m_Relays /\ w.session = v.session /\ w.scenario = v.scenario
      /\ w.drawn = v.drawn /\ w.garbage = v.garbage /\ w.sent = v.sent /\ w.held = v.held
  BY DEF ServerOK, Shape, Waiting
<1> HIDE DEF w, s
<1>4. v.sessions \in Seq(Session) BY DEF ServerOK
<1>5. Opens(r, v, s, to, w) BY <1>1, <1>2, <1>3, <1>4, Appended DEF Opens
<1> QED BY <1>5, OpenSound DEF Opens, w

\* With its introducer it has no session yet: the new one is called for router `to`.
LEMMA NewIntroducerSound ==
  ASSUME NEW r \in SSURouters, NEW v, ServerOK(r, v), NEW to \in SSURouters,
         NEW b \in SSURouters, NEW tag,
         Len(v.sessions) + 1 <= v.scenario.maxSessions
  PROVE  LET n == Len(v.sessions) + 1
             o == [v EXCEPT !.sessions = Append(@, NewSession(b, to)), !.m_Sessions[b] = n]
             h == PunchHole(o, r, to)
             w == Introduce(h, r, n, tag)
         IN ServerOK(r, w) /\ SameStates(v, w)
<1> DEFINE n == Len(v.sessions) + 1
           t == NewSession(b, to)
           s == WithTimer(t, "connect")
           o == [v EXCEPT !.sessions = Append(@, t), !.m_Sessions[b] = n]
           p == Packet("HolePunch", r, to, NoKey, NoData)
           h == PunchHole(o, r, to)
           u == ScheduleConnectTimer(h, n)
           w == Introduce(h, r, n, tag)
           A == Append(v.sessions, t)
<1>1. SessionOK(r, s, v.held) BY NewSessionSound
<1>2. t \in Session /\ t.m_State = "Unknown"
  <2>1. /\ NoPair \in Pair /\ NoData \in Data /\ NoKey \in SUBSET Pair
    BY DEF NoPair, Pair, NoData, Data, NoKey
  <2> QED BY <2>1 DEF NewSession, Session
<1>3. v.sessions \in Seq(Session) /\ s \in Session /\ Len(v.sessions) \in Nat
  BY <1>1 DEF ServerOK, SessionOK
<1>4. /\ A \in Seq(Session) /\ Len(A) = n /\ A[n] = t
      /\ \A j \in 1 .. Len(v.sessions) : A[j] = v.sessions[j]
  BY <1>2, <1>3, Appended
<1>5. /\ Shape(o) /\ o.sessions = A
      /\ o.m_Sessions = [v.m_Sessions EXCEPT ![b] = n]
      /\ o.m_Relays = v.m_Relays /\ o.session = v.session /\ o.scenario = v.scenario
      /\ o.drawn = v.drawn /\ o.garbage = v.garbage /\ o.sent = v.sent /\ o.held = v.held
  <2> HIDE DEF t
  <2> QED BY DEF ServerOK, Shape
<1> HIDE DEF o, A, t
<1>6. /\ Shape(h) /\ h.sessions = A
      /\ h.m_Sessions = [v.m_Sessions EXCEPT ![b] = n]
      /\ h.m_Relays = v.m_Relays /\ h.session = v.session /\ h.scenario = v.scenario
      /\ h.drawn = v.drawn /\ h.garbage = v.garbage
      /\ h.sent \subseteq v.sent \cup {p} /\ h.held = v.held
  BY <1>5 DEF Shape, Send, PunchHole
<1> HIDE DEF h
<1>7. /\ Shape(u) /\ u.sessions = [A EXCEPT ![n] = s]
      /\ u.m_Sessions = [v.m_Sessions EXCEPT ![b] = n]
      /\ u.m_Relays = v.m_Relays /\ u.session = v.session /\ u.scenario = v.scenario
      /\ u.drawn = v.drawn /\ u.garbage = v.garbage
      /\ u.sent \subseteq v.sent \cup {p} /\ u.held = v.held
  BY <1>4, <1>6 DEF Shape, ScheduleConnectTimer, WithTimer
<1>8. \E x, key, body : w = Send(u, "RelayRequest", r, x, key, body)
  BY <1>2, <1>4, <1>6 DEF Introduce, SendRelayRequest
<1>9. SentBy(r, p, u.held) BY DEF SentBy, Packet, PacketTypes
<1> HIDE DEF u, s, w, p
<1>10. Opens(r, v, s, b, u)
  <2>1. n \in 1 .. Len(A) BY <1>3, <1>4
  <2>2. u.sessions \in Seq(Session) /\ Len(u.sessions) = n /\ u.sessions[n] = s
    BY <1>3, <1>4, <1>7, <2>1
  <2>3. \A j \in 1 .. Len(v.sessions) : j \in 1 .. Len(A) /\ j # n BY <1>3, <1>4
  <2>4. \A j \in 1 .. Len(v.sessions) : u.sessions[j] = v.sessions[j] BY <1>4, <1>7, <2>3
  <2>5. \A x \in u.sent : x \in v.sent \/ SentBy(r, x, u.held) BY <1>7, <1>9
  <2> QED BY <1>1, <1>7, <2>2, <2>4, <2>5 DEF Opens
<1>11. ServerOK(r, u) /\ SameStates(v, u) BY <1>10, OpenSound
<1>12. PICK x, key, body : w = Send(u, "RelayRequest", r, x, key, body) BY <1>8
<1>13. "RelayRequest" \in {"SessionDestroyed", "RelayRequest", "RelayResponse", "RelayIntro", "HolePunch"}
  OBVIOUS
<1>14. Good(r, u, w) /\ SameStates(u, w) BY <1>11, <1>12, <1>13, SendPlain
<1>15. \A j \in 1 .. Len(v.sessions) : j \in 1 .. Len(u.sessions)
  BY <1>3, <1>10 DEF Opens
<1>16. ServerOK(r, w) /\ SameStates(v, w) BY <1>11, <1>14, <1>15 DEF Good, SameStates
<1> QED BY <1>16 DEF w, h, o, t

LEMMA IntroducedBySound ==
  ASSUME NEW r \in SSURouters, NEW v, ServerOK(r, v), NEW to \in SSURouters,
         NEW b \in SSURouters, NEW tag,
         Len(v.sessions) + 1 <= v.scenario.maxSessions,
         v.m_Sessions[b] = 0 => Len(v.sessions) + 1 + 1 <= v.scenario.maxSessions
  PROVE  LET w == IntroducedBy(v, r, to, b, tag) IN ServerOK(r, w) /\ Shares(v, w)
<1> DEFINE u == Waiting(v, to)
           w == IntroducedBy(v, r, to, b, tag)
           h == PunchHole(u, r, to)
           n == Len(u.sessions) + 1
           o == [u EXCEPT !.sessions = Append(@, NewSession(b, to)), !.m_Sessions[b] = n]
           ho == PunchHole(o, r, to)
<1>1. /\ ServerOK(r, u) /\ SameStates(v, u) /\ Len(u.sessions) = Len(v.sessions) + 1
      /\ u.scenario = v.scenario
      /\ u.m_Sessions = [v.m_Sessions EXCEPT ![to] = Len(v.sessions) + 1]
  BY WaitsSound
<1>2. Len(v.sessions) \in Nat /\ v.m_Sessions \in [SSURouters -> 0 .. Len(v.sessions)]
  BY DEF ServerOK
<1>3. CASE u.m_Sessions[b] # 0
  <2> DEFINE k == u.m_Sessions[b]
  <2> HIDE DEF u
  <2>0. IntroducerSession(u, b, to) = u BY <1>3 DEF IntroducerSession
  <2>1. w = Introduce(h, r, k, tag) BY <2>0 DEF IntroducedBy, u
  <2>2. k \in 1 .. Len(u.sessions) BY <1>1, <1>3 DEF ServerOK
  <2>3. Good(r, u, h) /\ SameStates(u, h)
    <3>1. CASE r \in DOMAIN IntroducerOf BY <1>1, <3>1, SendPlain DEF PunchHole
    <3>2. CASE r \notin DOMAIN IntroducerOf BY <1>1, <3>2 DEF Good, SameStates, PunchHole
    <3> QED BY <3>1, <3>2
  <2>4. ServerOK(r, h) /\ k \in 1 .. Len(h.sessions) BY <2>2, <2>3 DEF Good
  <2> HIDE DEF h, k, w
  <2>5. Good(r, h, w) /\ SameStates(h, w) BY <2>1, <2>4, IntroduceSound
  <2>6. Good(r, u, w) /\ SameStates(u, w) BY <2>3, <2>5, Compose
  <2>7. \A j \in 1 .. Len(v.sessions) : j \in 1 .. Len(u.sessions) BY <1>1, <1>2
  <2>8. SameStates(v, w) BY <1>1, <2>6, <2>7 DEF SameStates
  <2> QED BY <2>6, <2>8, SameShares DEF Good, w
<1>4. CASE u.m_Sessions[b] = 0
  <2> HIDE DEF u
  <2>1. IntroducerSession(u, b, to) = o BY <1>4 DEF IntroducerSession
  <2>2. o.m_Sessions[b] = n
    <3>1. b \in DOMAIN u.m_Sessions /\ Shape(u) BY <1>1 DEF ServerOK
    <3> QED BY <3>1 DEF Shape
  <2>3. w = Introduce(ho, r, n, tag)
    <3> HIDE DEF o, n
    <3> QED BY <2>1, <2>2 DEF IntroducedBy, u
  <2>4. v.m_Sessions[b] = 0 BY <1>1, <1>2, <1>4
  <2>5. Len(u.sessions) + 1 <= u.scenario.maxSessions BY <1>1, <2>4
  <2>6. ServerOK(r, w) /\ SameStates(u, w)
    <3>1. ServerOK(r, Introduce(ho, r, n, tag)) /\ SameStates(u, Introduce(ho, r, n, tag))
      BY <1>1, <2>5, NewIntroducerSound
    <3> HIDE DEF ho, n, w
    <3> QED BY <2>3, <3>1
  <2> HIDE DEF w
  <2>7. \A j \in 1 .. Len(v.sessions) : j \in 1 .. Len(u.sessions) BY <1>1, <1>2
  <2>8. SameStates(v, w) BY <1>1, <2>6, <2>7 DEF SameStates
  <2> QED BY <2>6, <2>8, SameShares DEF w
<1> QED BY <1>3, <1>4

LEMMA GetSessionSound ==
  ASSUME SessionInv, NEW r \in SSURouters, NEW to \in SSURouters, GetSession(r, to)
  PROVE  SessionInv' /\ SharesKey
<1> DEFINE v == server[r]
           n == Len(v.sessions) + 1
           b == IntroducerOf[to]
           c == Connect([v EXCEPT !.sessions = Append(@, NewSession(to, to)),
                                  !.m_Sessions[to] = n], r, n)
<1>1. ServerOK(r, v) /\ n <= v.scenario.maxSessions BY DEF SessionInv, GetSession
<1>2. CASE /\ to \notin DOMAIN IntroducerOf /\ server' = [server EXCEPT ![r] = c]
  <2>1. ServerOK(r, c) /\ Shares(v, c) BY <1>1, CallSound
  <2> HIDE DEF c
  <2> QED BY <1>2, <2>1, StepSound
<1>3. ASSUME NEW tag, to \in DOMAIN IntroducerOf, v.m_Sessions[b] = 0 => n + 1 <= v.scenario.maxSessions,
             server' = [server EXCEPT ![r] = IntroducedBy(v, r, to, b, tag)]
      PROVE  SessionInv' /\ SharesKey
  <2> DEFINE w == IntroducedBy(v, r, to, b, tag)
  <2>1. b \in SSURouters BY <1>3, SSUSessionAssumption
  <2> HIDE DEF b
  <2>2. ServerOK(r, w) /\ Shares(v, w) BY <1>1, <1>3, <2>1, IntroducedBySound
  <2> HIDE DEF w
  <2> QED BY <1>3, <2>2, StepSound DEF w
<1> QED BY <1>2, <1>3 DEF GetSession

\* A timer expires, Done is called: a handler will run.
LEMMA DueSound ==
  ASSUME SessionInv, NEW r \in SSURouters, NEW i \in 1 .. Len(server[r].sessions),
         NEW x \in {"connect", "termination", "done"},
         NEW timer \in {"none", server[r].sessions[i].m_Timer},
         server' = [server EXCEPT ![r] =
           [server[r] EXCEPT !.sessions[i].m_Timer = timer, !.sessions[i].due = @ \cup {x}]]
  PROVE  SessionInv' /\ SharesKey
<1> DEFINE v == server[r]
           s == [v.sessions[i] EXCEPT !.m_Timer = timer, !.due = @ \cup {x}]
           w == [v EXCEPT !.sessions[i].m_Timer = timer, !.sessions[i].due = @ \cup {x}]
<1>0. ServerOK(r, v) BY DEF SessionInv
<1>1. /\ v.sessions[i] \in Session /\ SessionOK(r, v.sessions[i], v.held)
      /\ v.drawn \in Nat /\ v.m_Relays \in Seq(SSURouters)
      /\ v.m_Sessions \in [SSURouters -> 0 .. Len(v.sessions)]
  BY <1>0 DEF ServerOK, SessionOK
<1>2. SessionOK(r, s, v.held) /\ s.m_State = v.sessions[i].m_State
  <2>1. /\ s \in Session /\ s.m_State = v.sessions[i].m_State
        /\ s.m_RemoteEndpoint = v.sessions[i].m_RemoteEndpoint
        /\ s.m_RemoteRouter = v.sessions[i].m_RemoteRouter
        /\ s.m_SessionKey = v.sessions[i].m_SessionKey /\ s.due # {}
        /\ s.m_DHKeysPair = v.sessions[i].m_DHKeysPair
        /\ s.m_SessionConfirmData = v.sessions[i].m_SessionConfirmData
    BY <1>1 DEF Session
  <2> HIDE DEF s, v
  <2> QED BY <1>1, <2>1 DEF SessionOK, KeyOK, ConfirmDataOK, PairOK, TimerOK, IsOutbound
<1>3. /\ Shape(w) /\ w.sessions = [v.sessions EXCEPT ![i] = s]
      /\ w.m_Sessions = v.m_Sessions
      /\ w.m_Relays = v.m_Relays /\ w.session = v.session /\ w.scenario = v.scenario
      /\ w.drawn = v.drawn /\ w.garbage = v.garbage /\ w.sent = v.sent /\ w.held = v.held
  BY <1>0 DEF ServerOK, Shape
<1>4. server' = [server EXCEPT ![r] = w] OBVIOUS
<1> HIDE DEF w, s
<1>5. Puts(r, v, i, s, w) BY <1>1, <1>2, <1>3 DEF Puts
<1>6. ServerOK(r, w) /\ Shares(v, w)
  <2>1. i \in 1 .. Len(v.sessions) OBVIOUS
  <2> HIDE DEF v
  <2> QED BY <1>0, <1>2, <1>5, <2>1, PutSession, SameShares DEF Good
<1> QED BY <1>4, <1>6, StepSound

LEMMA TimerExpiresSound ==
  ASSUME SessionInv, NEW r \in SSURouters, NEW i \in 1 .. Len(server[r].sessions),
         TimerExpires(r, i)
  PROVE  SessionInv' /\ SharesKey
<1> DEFINE x == server[r].sessions[i].m_Timer
<1>1. server[r].sessions[i] \in Session BY DEF SessionInv, ServerOK, SessionOK
<1>2. x \in {"connect", "termination", "done"} BY <1>1 DEF TimerExpires, Session
<1>3. server' = [server EXCEPT ![r] =
        [server[r] EXCEPT !.sessions[i].m_Timer = "none", !.sessions[i].due = @ \cup {x}]]
  BY DEF TimerExpires
<1> QED BY <1>2, <1>3, DueSound

LEMMA DoneSound ==
  ASSUME SessionInv, NEW r \in SSURouters, NEW i \in 1 .. Len(server[r].sessions), Done(r, i)
  PROVE  SessionInv' /\ SharesKey
<1> DEFINE v == server[r]
           t == v.sessions[i].m_Timer
<1>1. v.sessions[i] \in Session /\ v.sessions \in Seq(Session) /\ Shape(v)
  BY DEF SessionInv, ServerOK, SessionOK
<1>2. [v EXCEPT !.sessions[i].due = @ \cup {"done"}]
        = [v EXCEPT !.sessions[i].m_Timer = t, !.sessions[i].due = @ \cup {"done"}]
  <2>1. [v.sessions[i] EXCEPT !.due = @ \cup {"done"}]
          = [v.sessions[i] EXCEPT !.m_Timer = t, !.due = @ \cup {"done"}]
    <3> HIDE DEF v
    <3> QED BY <1>1 DEF Session
  <2> HIDE DEF v
  <2>2. [v EXCEPT !.sessions[i].due = @ \cup {"done"}]
          = [v EXCEPT !.sessions = [v.sessions EXCEPT ![i] = [v.sessions[i] EXCEPT !.due = @ \cup {"done"}]]]
    BY <1>1 DEF Shape
  <2>3. [v EXCEPT !.sessions[i].m_Timer = t, !.sessions[i].due = @ \cup {"done"}]
          = [v EXCEPT !.sessions = [v.sessions EXCEPT ![i] =
               [v.sessions[i] EXCEPT !.m_Timer = t, !.due = @ \cup {"done"}]]]
    BY <1>1 DEF Shape
  <2> QED BY <2>1, <2>2, <2>3
<1>3. server' = [server EXCEPT ![r] = [v EXCEPT !.sessions[i].due = @ \cup {"done"}]]
  BY DEF Done, SessionInv
<1>4. server' = [server EXCEPT ![r] =
        [v EXCEPT !.sessions[i].m_Timer = t, !.sessions[i].due = @ \cup {"done"}]]
  BY <1>2, <1>3
<1>5. "done" \in {"connect", "termination", "done"} /\ t \in {"none", t} OBVIOUS
<1> QED BY <1>4, <1>5, DueSound

\* A handler that fails the session closes it, whether its timer is left or not.
LEMMA FailedSound ==
  ASSUME NEW r \in SSURouters, NEW v, ServerOK(r, v), NEW i \in 1 .. Len(v.sessions), NEW h
  PROVE  LET w == Failed([v EXCEPT !.sessions[i].due = @ \ {h}], r, i)
         IN Good(r, v, w) /\ Shares(v, w)
<1> DEFINE o == [v EXCEPT !.sessions[i].due = @ \ {h}]
           s == [v.sessions[i] EXCEPT !.due = @ \ {h}, !.m_State = "Closed", !.m_Timer = "none"]
           u == [o EXCEPT !.sessions[i].m_State = "Closed", !.sessions[i].m_Timer = "none"]
           x == SendSesionDestroyed(u, r, i)
           e == v.sessions[i].m_RemoteEndpoint
           w == Failed(o, r, i)
<1>1. /\ v.sessions[i] \in Session /\ SessionOK(r, v.sessions[i], v.held)
      /\ v.drawn \in Nat /\ v.m_Relays \in Seq(SSURouters)
      /\ v.m_Sessions \in [SSURouters -> 0 .. Len(v.sessions)]
      /\ v.sessions \in Seq(Session)
  BY DEF ServerOK, SessionOK
<1>2. SessionOK(r, s, v.held) /\ s.m_State = "Closed"
  <2>1. /\ s \in Session /\ s.m_State = "Closed"
        /\ s.m_RemoteEndpoint = v.sessions[i].m_RemoteEndpoint
        /\ s.m_RemoteRouter = v.sessions[i].m_RemoteRouter
        /\ s.m_SessionKey = v.sessions[i].m_SessionKey
        /\ s.m_DHKeysPair = v.sessions[i].m_DHKeysPair
        /\ s.m_SessionConfirmData = v.sessions[i].m_SessionConfirmData
    BY <1>1 DEF Session
  <2> HIDE DEF s
  <2> QED BY <1>1, <2>1 DEF SessionOK, KeyOK, ConfirmDataOK, PairOK, TimerOK, IsOutbound
<1>3. /\ Shape(u) /\ u.sessions = [v.sessions EXCEPT ![i] = s]
      /\ u.m_Sessions = v.m_Sessions
      /\ u.m_Relays = v.m_Relays /\ u.session = v.session /\ u.scenario = v.scenario
      /\ u.drawn = v.drawn /\ u.garbage = v.garbage /\ u.sent = v.sent /\ u.held = v.held
  BY <1>1 DEF ServerOK, Shape
<1>4. w = [x EXCEPT !.m_Sessions[e] = 0]
  <2>0. o.sessions = [v.sessions EXCEPT ![i] = [v.sessions[i] EXCEPT !.due = @ \ {h}]]
    BY <1>1 DEF ServerOK, Shape
  <2>1. o.sessions[i] = [v.sessions[i] EXCEPT !.due = @ \ {h}] BY <1>1, <2>0
  <2>2. o.sessions[i].m_State # "Failed" /\ o.sessions[i].m_RemoteEndpoint = e
    BY <1>1, <2>1 DEF Session
  <2> HIDE DEF o, e
  <2> QED BY <2>2 DEF Failed, DeleteSession, Close
<1> HIDE DEF o, s, u, w, x
<1>5. Puts(r, v, i, s, u) BY <1>1, <1>2, <1>3 DEF Puts
<1>6. Good(r, v, u) /\ Shares(v, u) BY <1>2, <1>5, PutSession
<1>7. ServerOK(r, u) /\ i \in 1 .. Len(u.sessions) BY <1>6 DEF Good
<1>8. Good(r, u, x) /\ x.sessions = u.sessions BY <1>7, DestroyedSound DEF x
<1>9. e \in SSURouters BY <1>1 DEF Session
<1>10. ServerOK(r, x) /\ 0 \in 0 .. Len(x.sessions) BY <1>8 DEF Good, ServerOK
<1> HIDE DEF e
<1>11. Good(r, x, w) /\ w.sessions = x.sessions BY <1>4, <1>9, <1>10, TableSound
<1>12. Good(r, v, w) /\ Shares(v, w) BY <1>6, <1>8, <1>11 DEF Good, Shares
<1> QED BY <1>12 DEF w, o

LEMMA HandleFailedSound ==
  ASSUME SessionInv, NEW r \in SSURouters, NEW i \in 1 .. Len(server[r].sessions),
         HandleFailed(r, i)
  PROVE  SessionInv' /\ SharesKey
<1>1. PICK h \in server[r].sessions[i].due :
        Handled(r, Failed([server[r] EXCEPT !.sessions[i].due = @ \ {h}], r, i))
  BY DEF HandleFailed
<1> DEFINE w == Failed([server[r] EXCEPT !.sessions[i].due = @ \ {h}], r, i)
<1>2. ServerOK(r, server[r]) BY DEF SessionInv
<1>3. Good(r, server[r], w) /\ Shares(server[r], w) BY <1>2, FailedSound
<1>4. Handled(r, w) BY <1>1
<1> HIDE DEF w
<1> QED BY <1>3, <1>4, HandledSound

\* The server stops: what it had in its table is closed.
LEMMA StopSound ==
  ASSUME SessionInv, NEW r \in SSURouters, StopServer(r)
  PROVE  SessionInv' /\ SharesKey
<1> DEFINE v == server[r]
           all == {v.m_Sessions[e] : e \in SSURouters} \ {0}
           cut == [i \in DOMAIN v.sessions |->
                     IF i \in all THEN Close(v, r, i).sessions[i] ELSE v.sessions[i]]
           sent == v.sent \cup UNION {Close(v, r, i).sent : i \in all}
           w == [v EXCEPT !.m_IsRunning = FALSE, !.m_Sessions = [e \in SSURouters |-> 0],
                          !.sessions = cut, !.sent = sent]
<1>1. ServerOK(r, v) BY DEF SessionInv
<1>2. Handled(r, w) BY DEF StopServer
<1>3. all \subseteq 1 .. Len(v.sessions) BY <1>1 DEF ServerOK
<1>4. ASSUME NEW i \in all
      PROVE  /\ ServerOK(r, Close(v, r, i)) /\ Close(v, r, i).held = v.held
             /\ SessionOK(r, Close(v, r, i).sessions[i], v.held)
             /\ Close(v, r, i).sessions[i].m_State = "Closed"
  <2> HIDE DEF v, all
  <2> QED BY <1>1, <1>3, CloseSound
<1>5. v.sessions \in Seq(Session) BY <1>1 DEF ServerOK
<1>6. /\ Shape(w) /\ w.sessions = cut /\ w.m_Sessions = [e \in SSURouters |-> 0]
      /\ w.m_Relays = v.m_Relays /\ w.session = v.session /\ w.scenario = v.scenario
      /\ w.drawn = v.drawn /\ w.garbage = v.garbage /\ w.sent = sent /\ w.held = v.held
  <2> HIDE DEF cut, sent
  <2> QED BY <1>1 DEF ServerOK, Shape
<1> HIDE DEF w
<1>7. \A i \in 1 .. Len(v.sessions) :
        SessionOK(r, cut[i], v.held) /\ (cut[i].m_State = "Established" => cut[i] = v.sessions[i])
  <2> HIDE DEF all
  <2>1. DOMAIN v.sessions = 1 .. Len(v.sessions) BY <1>5
  <2>2. \A i \in 1 .. Len(v.sessions) : SessionOK(r, v.sessions[i], v.held) BY <1>1 DEF ServerOK
  <2> HIDE DEF v
  <2> QED BY <1>4, <2>1, <2>2
<1>8. cut \in Seq(Session) /\ Len(cut) = Len(v.sessions)
  <2>1. \A i \in 1 .. Len(v.sessions) : cut[i] \in Session BY <1>7 DEF SessionOK
  <2>2. DOMAIN v.sessions = 1 .. Len(v.sessions) BY <1>5
  <2>3. cut = [i \in 1 .. Len(v.sessions) |-> cut[i]] BY <2>2
  <2> HIDE DEF cut
  <2>4. Len(v.sessions) \in Nat BY <1>5
  <2> QED BY <2>1, <2>3, <2>4
<1>9. \A p \in sent : SentBy(r, p, v.held)
  <2>1. ASSUME NEW p, NEW i \in all, p \in Close(v, r, i).sent PROVE SentBy(r, p, v.held)
    BY <1>4, <2>1 DEF ServerOK
  <2>2. \A p \in v.sent : SentBy(r, p, v.held) BY <1>1 DEF ServerOK
  <2> HIDE DEF v, all
  <2> QED BY <2>1, <2>2
<1> HIDE DEF cut, sent
<1>10. ServerOK(r, w)
  <2>1. w.m_Sessions \in [SSURouters -> 0 .. Len(w.sessions)] BY <1>5, <1>6, <1>8
  <2> QED BY <1>1, <1>6, <1>7, <1>8, <1>9, <2>1 DEF ServerOK
<1>11. Good(r, v, w) /\ Shares(v, w) BY <1>6, <1>7, <1>8, <1>10 DEF Good, Shares
<1> HIDE DEF v
<1> QED BY <1>2, <1>11, HandledSound DEF v
-----------------------------------------------------------------------------
(***************************************************************************)
(* The theorems.                                                           *)
(***************************************************************************)
LEMMA SessionInitInvariant == SessionInit => SessionInv
<1> SUFFICES ASSUME NEW k \in Scenarios, SessionInitWith(k) PROVE SessionInv
  BY DEF SessionInit
<1>1. ASSUME NEW r \in SSURouters PROVE ServerOK(r, NewServer(k[r]))
  <2>1. k[r].wanted \subseteq SSURouters /\ k[r].maxSessions \in Nat BY SSUSessionAssumption
  <2> DEFINE v == NewServer(k[r])
  <2>2. /\ Shape(v) /\ v.sessions = <<>> /\ v.m_Sessions = [e \in SSURouters |-> 0]
        /\ v.session = 0 /\ v.scenario = k[r] /\ v.drawn = 0 /\ v.garbage = 0
        /\ v.m_Relays = <<>> /\ v.sent = {}
    BY DEF NewServer, Shape
  <2> HIDE DEF v
  <2>3. v.sessions \in Seq(Session) /\ Len(v.sessions) = 0 /\ v.m_Relays \in Seq(SSURouters)
    BY <2>2
  <2>4. ServerOK(r, v) BY <2>1, <2>2, <2>3 DEF ServerOK
  <2> QED BY <2>4 DEF v
<1>2. server = [r \in SSURouters |-> NewServer(k[r])] BY DEF SessionInitWith
<1> QED BY <1>1, <1>2 DEF SessionInv

LEMMA SessionNextInvariant ==
  ASSUME SessionInv, [SessionNext]_sessionVars
  PROVE  SessionInv' /\ [SharesKey]_sessionVars
<1>1. CASE UNCHANGED sessionVars
  BY <1>1 DEF sessionVars, SessionInv, ServerOK
<1>2. ASSUME NEW r \in SSURouters, HandleReceivedPackets(r) PROVE SessionInv' /\ SharesKey
  BY <1>2, ReceiveSound
<1>3. ASSUME NEW r \in SSURouters, NEW to \in SSURouters, GetSession(r, to)
      PROVE  SessionInv' /\ SharesKey
  BY <1>3, GetSessionSound
<1>4. ASSUME NEW r \in SSURouters, NEW i \in DOMAIN server[r].sessions,
             TimerExpires(r, i) \/ Done(r, i) \/ HandleFailed(r, i)
      PROVE  SessionInv' /\ SharesKey
  <2>1. i \in 1 .. Len(server[r].sessions) BY DEF SessionInv, ServerOK
  <2> QED BY <1>4, <2>1, TimerExpiresSound, DoneSound, HandleFailedSound
<1>5. ASSUME NEW r \in SSURouters, StopServer(r) PROVE SessionInv' /\ SharesKey
  BY <1>5, StopSound
<1> QED BY <1>1, <1>2, <1>3, <1>4, <1>5 DEF SessionNext

\* The inductive invariant of the sessions holds in every reachable state.
THEOREM SessionInvariance == SessionSpec => []SessionInv
BY SessionInitInvariant, SessionNextInvariant, PTL DEF SessionSpec

LEMMA SessionTypes == SessionInv => SessionTypeOK
<1> SUFFICES ASSUME SessionInv PROVE SessionTypeOK OBVIOUS
<1> SUFFICES ASSUME NEW r \in SSURouters
             PROVE  /\ server[r].m_Sessions \in [SSURouters -> 0 .. Len(server[r].sessions)]
                    /\ server[r].session \in 0 .. Len(server[r].sessions)
                    /\ Len(server[r].sessions) <= server[r].scenario.maxSessions
                    /\ \A i \in 1 .. Len(server[r].sessions) : server[r].sessions[i] \in Session
                    /\ DOMAIN server[r].sessions = 1 .. Len(server[r].sessions)
  BY DEF SessionTypeOK, Session
<1> QED BY DEF SessionInv, ServerOK, SessionOK

LEMMA SessionTimers == SessionInv => EstablishedWillEnd /\ WaitingWillFail
<1> SUFFICES ASSUME SessionInv PROVE EstablishedWillEnd /\ WaitingWillFail OBVIOUS
<1>1. \A r \in SSURouters : /\ DOMAIN server[r].sessions = 1 .. Len(server[r].sessions)
                            /\ server[r].m_Sessions \in [SSURouters -> 0 .. Len(server[r].sessions)]
                            /\ Len(server[r].sessions) \in Nat
                            /\ \A i \in 1 .. Len(server[r].sessions) : TimerOK(server[r].sessions[i])
  BY DEF SessionInv, ServerOK, SessionOK
<1>2. EstablishedWillEnd BY <1>1 DEF EstablishedWillEnd, TimerOK
<1>3. \A r \in SSURouters, e \in SSURouters :
        server[r].m_Sessions[e] # 0 => server[r].m_Sessions[e] \in 1 .. Len(server[r].sessions)
  BY <1>1
<1>4. WaitingWillFail BY <1>1, <1>3 DEF WaitingWillFail, TimerOK
<1> QED BY <1>2, <1>4

\* The session tables stay well formed, and no session of a running server is left
\* without the timer that ends it (Established, Connect, WaitForConnect, the timers).
THEOREM SSUSessionsAreSafe == SessionSpec => []SSUSessionSafe
<1>1. SessionInv => SSUSessionSafe BY SessionTypes, SessionTimers DEF SSUSessionSafe
<1> QED BY <1>1, SessionInvariance, PTL

\* Sessions are established only under a key that both ends have agreed on
\* (ProcessSessionConfirmed, the DeliveryStatus of ProcessFragments).
THEOREM SessionsShareKeys == SessionSpec => EstablishedSharesKey
<1>1. SessionInv /\ [SessionNext]_sessionVars => [SharesKey]_sessionVars
  BY SessionNextInvariant
<1> QED BY <1>1, SessionInvariance, PTL DEF SessionSpec, EstablishedSharesKey, SharesKey


-----------------------------------------------------------------------------
(***************************************************************************)
(* Peer tests.  What a router does with a packet of a test.                *)
(***************************************************************************)
PTPeers(k, r) == {q \in PTRouters : {r, q} \in k.sessions /\ q # r}
Part == [role : {"Unknown", "Alice1", "Alice2", "Bob", "Charlie"},
         session : PTRouters \cup {PTNobody}]
PTPackets(k) ==
  [from : PTRouters, to : PTRouters, nonce : PTNonces(k), key : PTRouters \cup {"session"},
   about : PTRouters \cup {PTNobody}, port : BOOLEAN, introKey : PTRouters]
PTShape(t) ==
  DOMAIN t = {"m_PeerTests", "m_Status", "established", "contacted", "net", "misread",
              "unstarted", "faults", "case"}
TestState(k, t) ==
  /\ PTShape(t) /\ t.case = k
  /\ t.m_PeerTests \in [PTRouters -> [PTNonces(k) -> Part]]
  /\ t.m_Status \in [PTRouters -> {"Testing", "OK", "Firewalled"}]
  /\ t.established \in [PTRouters -> SUBSET PTRouters]
  /\ t.contacted \in [PTRouters -> SUBSET PTRouters]
  /\ t.misread \subseteq PTNonces(k)
  /\ t.net \subseteq PTPackets(k) /\ t.unstarted \subseteq k.starts /\ t.faults \in 0 .. k.faults

\* Types; sessions are only closed, which is a fault; a test that was not begun has
\* left no trace.
PTTyped(t) ==
  /\ t.case \in PTCases /\ TestState(t.case, t)
  /\ \A r \in PTRouters :
       /\ t.established[r] \subseteq PTPeers(t.case, r)
       /\ t.faults = t.case.faults => t.established[r] = PTPeers(t.case, r)
       /\ PTPeers(t.case, r) \subseteq t.contacted[r]
       /\ \A n \in PTNonces(t.case) :
            t.m_PeerTests[r][n].role = "Bob" => t.m_PeerTests[r][n].session \in PTRouters
  /\ \A s \in t.unstarted :
       /\ \A r \in PTRouters : t.m_PeerTests[r][s[3]] = NoPart
       /\ \A p \in t.net : p.nonce # s[3]

\* A router behind a firewall whose sessions are all up, while nobody else begins a
\* test: it sends to its peers and itself only, and nobody but its peers is, or is
\* taken for, an Alice or a Bob.
PTQuiet(t, r) ==
  /\ r \in t.case.firewalled /\ \A s \in t.case.starts : s[1] = r
  /\ t.established[r] = PTPeers(t.case, r)
Near(t, r) == PTPeers(t.case, r) \cup {r}
BobIsNear(t, r, x, part) ==
  part.role = "Bob" => \/ x = r /\ part.session \in PTPeers(t.case, r)
                       \/ x \in PTPeers(t.case, r) /\ part.session = r
PacketIsNear(t, r, p) ==
  /\ p.about \in Near(t, r) \cup {PTNobody} \/ (p.key # "session" /\ p.about = p.to)
  /\ ~p.port => \/ p.from = r /\ p.to \in PTPeers(t.case, r)
                \/ p.to = r /\ p.from \in PTPeers(t.case, r)
  /\ p.from = r /\ p.to = r => t.m_PeerTests[r][p.nonce].role # "Alice1"
PTShut(t, r) ==
  PTQuiet(t, r) =>
    /\ t.m_Status[r] # "OK" /\ t.contacted[r] \subseteq Near(t, r)
    /\ \A n \in PTNonces(t.case) : t.m_PeerTests[r][n].role # "Alice2"
    /\ \A x \in PTRouters, n \in PTNonces(t.case) : BobIsNear(t, r, x, t.m_PeerTests[x][n])
    /\ \A p \in t.net : PacketIsNear(t, r, p)

PTPacket(from, to, n, key, about, port, introKey) ==
  [from |-> from, to |-> to, nonce |-> n, key |-> key, about |-> about, port |-> port,
   introKey |-> introKey]

\* The packets of test s with Charlie c.
Ask(s)        == PTPacket(s[1], s[2], s[3], "session", PTNobody, FALSE, s[1])
Forward(s, c) == PTPacket(s[2], c, s[3], "session", s[1], TRUE, s[1])
Report1(s, c) == PTPacket(c, s[2], s[3], "session", s[1], TRUE, s[1])
Report2(s)    == PTPacket(s[2], s[1], s[3], "session", s[1], TRUE, s[1])
Call(s, c)    == PTPacket(c, s[1], s[3], s[1], s[1], TRUE, c)
Reply(s, c)   == PTPacket(s[1], c, s[3], c, PTNobody, TRUE, s[1])

Asked(t, s) ==
  /\ Ask(s) \in t.net /\ \A p \in t.net : p.nonce = s[3] => p = Ask(s)
  /\ t.m_PeerTests[s[1]][s[3]].role = "Alice1"
  /\ \A x \in PTRouters \ {s[1]} : t.m_PeerTests[x][s[3]].role = "Unknown"
Underway(t, s, c) ==
  LET part(r) == t.m_PeerTests[r][s[3]] IN
  /\ \A p \in t.net : p.nonce = s[3] =>
       p \in {Forward(s, c), Report1(s, c), Report2(s), Call(s, c), Reply(s, c)}
  /\ Forward(s, c) \in t.net =>
       /\ part(c).role = "Unknown" /\ part(s[1]).role = "Alice1"
       /\ \A p \in t.net : p.nonce = s[3] => p = Forward(s, c)
  /\ Forward(s, c) \notin t.net => part(c).role = "Charlie"
  /\ Forward(s, c) \in t.net \/ Report1(s, c) \in t.net =>
       part(s[2]) = [role |-> "Bob", session |-> s[1]]
  /\ part(s[1]).role \in {"Alice1", "Alice2"}
  /\ Call(s, c) \in t.net => part(s[1]).role = "Alice1"
  /\ s[1] \notin t.case.firewalled =>
       Forward(s, c) \in t.net \/ Call(s, c) \in t.net \/ t.m_Status[s[1]] = "OK"
  /\ s[1] \in t.case.firewalled =>
       \/ {Forward(s, c), Report1(s, c), Report2(s)} \cap t.net # {}
       \/ t.m_Status[s[1]] # "Testing"

\* A test that nothing disturbs is on its way from Alice through Bob and Charlie.
Undisturbed(t, s) ==
  /\ t.faults = t.case.faults /\ s[3] \notin t.misread /\ s \in t.case.starts \ t.unstarted
  /\ t.established[s[2]] # {s[1]} /\ t.established[s[1]] = {s[2]}
  /\ s[1] \in t.case.firewalled => \A q \in t.case.starts : q[1] = s[1]
PTTrack(t, s) ==
  Undisturbed(t, s) =>
    Asked(t, s) \/ \E c \in PTPeers(t.case, s[2]) \ {s[1]} : Underway(t, s, c)

PTGood(t) ==
  /\ PTTyped(t)
  /\ \A r \in PTRouters : PTShut(t, r)
  /\ \A s \in t.case.starts : PTTrack(t, s)
PTInv == PTGood(tests)

-----------------------------------------------------------------------------
(***************************************************************************)
(* What the steps do: the part that router r has in test n, its status,    *)
(* what is sent and to whom.                                               *)
(***************************************************************************)
Does(t, u, r, n, part, status, sent, to) ==
  /\ PTShape(u)
  /\ u.m_PeerTests = [t.m_PeerTests EXCEPT ![r] = [t.m_PeerTests[r] EXCEPT ![n] = part]]
  /\ u.m_Status = [t.m_Status EXCEPT ![r] = status]
  /\ u.contacted = [t.contacted EXCEPT ![r] = t.contacted[r] \cup to]
  /\ u.net = t.net \cup sent /\ u.established = t.established
  /\ u.unstarted = t.unstarted /\ u.faults = t.faults /\ u.misread = t.misread /\ u.case = t.case

APart(role, session) == [role |-> role, session |-> session]

Ignored(t, r, p, up, part, status, sent, to) ==
  /\ part = t.m_PeerTests[r][p.nonce] /\ status = t.m_Status[r] /\ sent = {} /\ to = {}
  /\ \/ p.port /\ p.about = PTNobody
     \/ part.role = "Unknown" /\ ~up
     \/ part.role = "Alice2" /\ up
     \/ part.role = "Unknown" /\ ~p.port /\ t.established[r] = {p.from}
Reported(t, r, p, up, part, status, sent, to) ==
  /\ part = t.m_PeerTests[r][p.nonce] /\ part.role = "Alice1" /\ up
  /\ status = IF t.m_Status[r] = "Testing" THEN "Firewalled" ELSE t.m_Status[r]
  /\ sent = {} /\ to = {}
Called(t, r, p, up, part, status, sent, to) ==
  /\ t.m_PeerTests[r][p.nonce].role = "Alice1" /\ ~up
  /\ part = APart("Alice2", PTNobody) /\ status = "OK" /\ to = {p.from}
  /\ sent = {PTPacket(r, p.from, p.nonce, p.introKey, PTNobody, TRUE, r)}
CalledAgain(t, r, p, up, part, status, sent, to) ==
  /\ t.m_PeerTests[r][p.nonce].role = "Alice2" /\ ~up
  /\ part = NoPart /\ status = "OK" /\ sent = {} /\ to = {}
BobReports(t, r, p, up, part, status, sent, to) ==
  LET a == t.m_PeerTests[r][p.nonce].session IN
  /\ t.m_PeerTests[r][p.nonce].role = "Bob" /\ part = NoPart /\ status = t.m_Status[r]
  /\ IF a \in t.established[r]
     THEN /\ sent = {PTPacket(r, a, p.nonce, "session", p.about, p.port, p.introKey)}
          /\ to = {a}
     ELSE sent = {} /\ to = {}
CharlieCalls(t, r, p, up, part, status, sent, to) ==
  /\ t.m_PeerTests[r][p.nonce].role = "Charlie" /\ part = NoPart /\ status = t.m_Status[r]
  /\ sent = {PTPacket(r, p.from, p.nonce, p.introKey, p.from, TRUE, r)} /\ to = {p.from}
BecomesCharlie(t, r, p, up, part, status, sent, to) ==
  /\ t.m_PeerTests[r][p.nonce].role = "Unknown" /\ up /\ p.port
  /\ part = APart("Charlie", PTNobody) /\ status = t.m_Status[r] /\ to = {p.from, p.about}
  /\ sent = {PTPacket(r, p.from, p.nonce, "session", p.about, TRUE, p.introKey),
             PTPacket(r, p.about, p.nonce, p.introKey, p.about, TRUE, r)}
BecomesBob(t, r, p, up, part, status, sent, to) ==
  /\ t.m_PeerTests[r][p.nonce].role = "Unknown" /\ up /\ ~p.port
  /\ part = APart("Bob", p.from) /\ status = t.m_Status[r]
  /\ \E c \in t.established[r] \ {p.from} :
       /\ sent = {PTPacket(r, c, p.nonce, "session", p.from, TRUE, p.introKey)} /\ to = {c}

Outcome(t, r, p, up, part, status, sent, to) ==
  \/ Ignored(t, r, p, up, part, status, sent, to)
  \/ /\ ~(p.port /\ p.about = PTNobody)
     /\ \/ Reported(t, r, p, up, part, status, sent, to)
        \/ Called(t, r, p, up, part, status, sent, to)
        \/ CalledAgain(t, r, p, up, part, status, sent, to)
        \/ BobReports(t, r, p, up, part, status, sent, to)
        \/ CharlieCalls(t, r, p, up, part, status, sent, to)
        \/ BecomesCharlie(t, r, p, up, part, status, sent, to)
        \/ BecomesBob(t, r, p, up, part, status, sent, to)

\* A packet that is ignored: the form holds with nothing changed.
LEMMA NothingDone ==
  ASSUME NEW k, NEW t, TestState(k, t), NEW r \in PTRouters, NEW n \in PTNonces(k)
  PROVE  Does(t, t, r, n, t.m_PeerTests[r][n], t.m_Status[r], {}, {})
<1>1. /\ t.m_PeerTests \in [PTRouters -> [PTNonces(k) -> Part]]
      /\ t.m_Status \in [PTRouters -> {"Testing", "OK", "Firewalled"}]
      /\ t.contacted \in [PTRouters -> SUBSET PTRouters]
  BY DEF TestState
<1> DEFINE f == t.m_PeerTests
           s == t.m_Status
           c == t.contacted
<1> HIDE DEF f, s, c
<1>2. [f[r] EXCEPT ![n] = f[r][n]] = f[r] BY <1>1 DEF f
<1>3. [f EXCEPT ![r] = f[r]] = f BY <1>1 DEF f
<1>4. [s EXCEPT ![r] = s[r]] = s BY <1>1 DEF s
<1>5. c[r] \cup {} = c[r] /\ [c EXCEPT ![r] = c[r]] = c BY <1>1 DEF c
<1> QED BY <1>2, <1>3, <1>4, <1>5 DEF Does, TestState, f, s, c

\* NewPeerTest, UpdatePeerTest and RemovePeerTest change the part.
LEMMA SetPartDoes ==
  ASSUME NEW k, NEW t, TestState(k, t), NEW r \in PTRouters, NEW n \in PTNonces(k),
         NEW u, NEW part, NEW status, NEW sent, NEW to, Does(t, u, r, n, part, status, sent, to),
         NEW role, NEW session
  PROVE  Does(t, SetPart(u, r, n, role, session), r, n, APart(role, session), status, sent, to)
<1> DEFINE w == SetPart(u, r, n, role, session)
           f == t.m_PeerTests
           g == u.m_PeerTests
           a == APart(role, session)
<1>1. /\ PTShape(w) /\ w.m_PeerTests = [g EXCEPT ![r] = [g[r] EXCEPT ![n] = a]]
      /\ w.m_Status = u.m_Status /\ w.contacted = u.contacted
      /\ w.net = u.net /\ w.established = u.established
      /\ w.unstarted = u.unstarted /\ w.faults = u.faults /\ w.misread = u.misread
      /\ w.case = u.case
  BY DEF SetPart, Does, PTShape, APart
<1> HIDE DEF w
<1>2. g = [f EXCEPT ![r] = [f[r] EXCEPT ![n] = part]] BY DEF Does
<1>3. f \in [PTRouters -> [PTNonces(k) -> Part]] BY DEF TestState
<1> HIDE DEF f, g, a
<1>4. g[r] = [f[r] EXCEPT ![n] = part] BY <1>2, <1>3
<1>5. [g[r] EXCEPT ![n] = a] = [f[r] EXCEPT ![n] = a] BY <1>3, <1>4
<1>6. [g EXCEPT ![r] = [f[r] EXCEPT ![n] = a]] = [f EXCEPT ![r] = [f[r] EXCEPT ![n] = a]]
  BY <1>2, <1>3
<1> QED BY <1>1, <1>5, <1>6 DEF Does, w, f, g, a

\* SetStatus changes the status.
LEMMA SetStatusDoes ==
  ASSUME NEW k, NEW t, TestState(k, t), NEW r \in PTRouters, NEW n \in PTNonces(k), NEW status
  PROVE  Does(t, [t EXCEPT !.m_Status[r] = status], r, n, t.m_PeerTests[r][n], status, {}, {})
<1> DEFINE u == [t EXCEPT !.m_Status[r] = status]
<1>1. /\ PTShape(u) /\ u.m_Status = [t.m_Status EXCEPT ![r] = status]
      /\ u.m_PeerTests = t.m_PeerTests /\ u.contacted = t.contacted
      /\ u.net = t.net /\ u.established = t.established
      /\ u.unstarted = t.unstarted /\ u.faults = t.faults /\ u.misread = t.misread
      /\ u.case = t.case
  BY DEF TestState, PTShape
<1> HIDE DEF u
<1>2. Does(t, t, r, n, t.m_PeerTests[r][n], t.m_Status[r], {}, {}) BY NothingDone
<1> QED BY <1>1, <1>2 DEF Does, u

\* A packet that is sent besides.
LEMMA SendToDoes ==
  ASSUME NEW k, NEW t, TestState(k, t), NEW r \in PTRouters, NEW n \in PTNonces(k),
         NEW u, NEW part, NEW status, NEW sent, NEW others,
         Does(t, u, r, n, part, status, sent, others),
         NEW to, NEW key, NEW about, NEW port, NEW introKey
  PROVE  Does(t, SendTo(u, r, to, n, key, about, port, introKey), r, n, part, status,
              sent \cup {PTPacket(r, to, n, key, about, port, introKey)}, others \cup {to})
<1> DEFINE w == SendTo(u, r, to, n, key, about, port, introKey)
           pk == PTPacket(r, to, n, key, about, port, introKey)
<1>1. /\ PTShape(w) /\ w.m_PeerTests = u.m_PeerTests /\ w.m_Status = u.m_Status
      /\ w.contacted = [u.contacted EXCEPT ![r] = u.contacted[r] \cup {to}]
      /\ w.net = u.net \cup {pk} /\ w.established = u.established
      /\ w.unstarted = u.unstarted /\ w.faults = u.faults /\ w.misread = u.misread
      /\ w.case = u.case
  BY DEF SendTo, PTPacket, Does, PTShape
<1> HIDE DEF w, pk
<1>2. /\ t.contacted \in [PTRouters -> SUBSET PTRouters]
      /\ u.contacted = [t.contacted EXCEPT ![r] = t.contacted[r] \cup others]
  BY DEF TestState, Does
<1>3. w.contacted = [t.contacted EXCEPT ![r] = t.contacted[r] \cup (others \cup {to})]
  <2> DEFINE c == t.contacted
             d == u.contacted
  <2> HIDE DEF c, d
  <2>1. d = [c EXCEPT ![r] = c[r] \cup others] /\ r \in DOMAIN c BY <1>2 DEF c, d
  <2>2. d[r] = c[r] \cup others BY <2>1
  <2>3. [d EXCEPT ![r] = d[r] \cup {to}] = [c EXCEPT ![r] = d[r] \cup {to}] BY <2>1
  <2>4. d[r] \cup {to} = c[r] \cup (others \cup {to}) BY <2>2
  <2> QED BY <1>1, <2>3, <2>4 DEF c, d
<1>4. w.net = t.net \cup (sent \cup {pk}) BY <1>1 DEF Does
<1> QED BY <1>1, <1>3, <1>4 DEF Does, w, pk

\* Whatever ProcessPeerTest does has the form, with one of the outcomes.
LEMMA ProcessDoes ==
  ASSUME NEW k, NEW t, TestState(k, t), NEW p \in PTPackets(k), NEW r \in PTRouters,
         NEW up \in BOOLEAN, NEW u \in ProcessPeerTest(t, r, p, up)
  PROVE  \E part, status, sent, to :
           /\ Does(t, u, r, p.nonce, part, status, sent, to)
           /\ Outcome(t, r, p, up, part, status, sent, to)
<1> DEFINE n == p.nonce
           old == t.m_PeerTests[r][n]
           st == t.m_Status[r]
           Found(part, status, sent, to) ==
             /\ Does(t, u, r, n, part, status, sent, to)
             /\ Outcome(t, r, p, up, part, status, sent, to)
           quiet == ~(p.port /\ p.about = PTNobody)
<1>1. n \in PTNonces(k) /\ p.port \in BOOLEAN BY DEF PTPackets
<1>2. old \in Part
  <2>1. t.m_PeerTests \in [PTRouters -> [PTNonces(k) -> Part]] BY DEF TestState
  <2> DEFINE f == t.m_PeerTests
  <2>2. f \in [PTRouters -> [PTNonces(k) -> Part]] BY <2>1
  <2> HIDE DEF f
  <2>3. f[r][n] \in Part BY <1>1, <2>2
  <2> QED BY <2>3 DEF f
<1>3. old.role \in {"Unknown", "Alice1", "Alice2", "Bob", "Charlie"} BY <1>2 DEF Part
<1>4. Does(t, t, r, n, old, st, {}, {}) BY <1>1, NothingDone
<1>5. ASSUME u = t, Ignored(t, r, p, up, old, st, {}, {})
      PROVE  \E part, status, sent, to : Found(part, status, sent, to)
  BY <1>4, <1>5 DEF Outcome
<1>6. CASE ~quiet
  <2>1. u = t BY <1>1, <1>6 DEF ProcessPeerTest
  <2> QED BY <1>5, <1>6, <2>1 DEF Ignored
<1>7. CASE quiet /\ old.role = "Alice1"
  <2>1. u = Alice1(t, r, p, up) BY <1>7 DEF ProcessPeerTest
  <2>2. CASE up
    <3> DEFINE s == IF st = "Testing" THEN "Firewalled" ELSE st
    <3>1. u = [t EXCEPT !.m_Status[r] = s] BY <2>1, <2>2 DEF Alice1
    <3> HIDE DEF s
    <3>2. Does(t, u, r, n, old, s, {}, {}) BY <1>1, <3>1, SetStatusDoes
    <3>3. Outcome(t, r, p, up, old, s, {}, {}) BY <1>7, <2>2 DEF Outcome, Reported, s
    <3> QED BY <3>2, <3>3
  <2>3. CASE ~up
    <3> DEFINE x == [t EXCEPT !.m_Status[r] = "OK"]
               y == SetPart(x, r, n, "Alice2", PTNobody)
               sent == {PTPacket(r, p.from, n, p.introKey, PTNobody, TRUE, r)}
    <3>1. u = SendTo(y, r, p.from, n, p.introKey, PTNobody, TRUE, r)
      BY <2>1, <2>3 DEF Alice1, SendPeerTestToAddress
    <3>2. Does(t, x, r, n, old, "OK", {}, {}) BY <1>1, SetStatusDoes
    <3> HIDE DEF x
    <3>3. Does(t, y, r, n, APart("Alice2", PTNobody), "OK", {}, {}) BY <1>1, <3>2, SetPartDoes
    <3> HIDE DEF y
    <3>4. Does(t, u, r, n, APart("Alice2", PTNobody), "OK", {} \cup sent, {} \cup {p.from})
      BY <1>1, <3>1, <3>3, SendToDoes
    <3>5. {} \cup sent = sent /\ {} \cup {p.from} = {p.from} OBVIOUS
    <3> HIDE DEF sent
    <3>6. Outcome(t, r, p, up, APart("Alice2", PTNobody), "OK", sent, {p.from})
      BY <1>7, <2>3 DEF Outcome, Called, sent
    <3> QED BY <3>4, <3>5, <3>6
  <2> QED BY <2>2, <2>3
<1>8. CASE quiet /\ old.role = "Alice2"
  <2>1. u = IF up THEN t ELSE RemovePeerTest([t EXCEPT !.m_Status[r] = "OK"], r, n)
    BY <1>8 DEF ProcessPeerTest
  <2>2. CASE up BY <1>5, <1>8, <2>1, <2>2 DEF Ignored
  <2>3. CASE ~up
    <3> DEFINE x == [t EXCEPT !.m_Status[r] = "OK"]
    <3>1. u = SetPart(x, r, n, "Unknown", PTNobody) BY <2>1, <2>3 DEF RemovePeerTest
    <3>2. Does(t, x, r, n, old, "OK", {}, {}) BY <1>1, SetStatusDoes
    <3> HIDE DEF x
    <3>3. Does(t, u, r, n, NoPart, "OK", {}, {}) BY <1>1, <3>1, <3>2, SetPartDoes DEF NoPart, APart
    <3>4. Outcome(t, r, p, up, NoPart, "OK", {}, {}) BY <1>8, <2>3 DEF Outcome, CalledAgain
    <3> QED BY <3>3, <3>4
  <2> QED BY <2>2, <2>3
<1>9. CASE quiet /\ old.role = "Bob"
  <2> DEFINE a == old.session
             x == SendTo(t, r, a, n, "session", p.about, p.port, p.introKey)
             sent == {PTPacket(r, a, n, "session", p.about, p.port, p.introKey)}
  <2>1. u = RemovePeerTest(IF a \in t.established[r] THEN x ELSE t, r, n)
    BY <1>9 DEF ProcessPeerTest
  <2>2. CASE a \in t.established[r]
    <3>1. Does(t, x, r, n, old, st, {} \cup sent, {} \cup {a}) BY <1>1, <1>4, SendToDoes
    <3>2. {} \cup sent = sent /\ {} \cup {a} = {a} OBVIOUS
    <3> HIDE DEF x
    <3>3. u = SetPart(x, r, n, "Unknown", PTNobody) BY <2>1, <2>2 DEF RemovePeerTest
    <3>4. Outcome(t, r, p, up, NoPart, st, sent, {a}) BY <1>9, <2>2 DEF Outcome, BobReports
    <3> HIDE DEF sent, a
    <3>5. Does(t, u, r, n, NoPart, st, sent, {a}) BY <1>1, <3>1, <3>2, <3>3, SetPartDoes DEF NoPart, APart
    <3> QED BY <3>4, <3>5
  <2>3. CASE a \notin t.established[r]
    <3>1. u = SetPart(t, r, n, "Unknown", PTNobody) BY <2>1, <2>3 DEF RemovePeerTest
    <3>2. Does(t, u, r, n, NoPart, st, {}, {}) BY <1>1, <1>4, <3>1, SetPartDoes DEF NoPart, APart
    <3>3. Outcome(t, r, p, up, NoPart, st, {}, {}) BY <1>9, <2>3 DEF Outcome, BobReports
    <3> QED BY <3>2, <3>3
  <2> QED BY <2>2, <2>3
<1>10. CASE quiet /\ old.role = "Charlie"
  <2> DEFINE x == SendTo(t, r, p.from, n, p.introKey, p.from, TRUE, r)
             sent == {PTPacket(r, p.from, n, p.introKey, p.from, TRUE, r)}
  <2>1. u = SetPart(x, r, n, "Unknown", PTNobody)
    BY <1>10 DEF ProcessPeerTest, SendPeerTestToAddress, RemovePeerTest
  <2>2. Does(t, x, r, n, old, st, {} \cup sent, {} \cup {p.from}) BY <1>1, <1>4, SendToDoes
  <2>3. {} \cup sent = sent /\ {} \cup {p.from} = {p.from} OBVIOUS
  <2>4. Outcome(t, r, p, up, NoPart, st, sent, {p.from}) BY <1>10 DEF Outcome, CharlieCalls
  <2> HIDE DEF x, sent
  <2>5. Does(t, u, r, n, NoPart, st, sent, {p.from})
    BY <1>1, <2>1, <2>2, <2>3, SetPartDoes DEF NoPart, APart
  <2> QED BY <2>4, <2>5
<1>11. CASE quiet /\ old.role = "Unknown" /\ ~up
  <2>1. u = t BY <1>11 DEF ProcessPeerTest
  <2> QED BY <1>5, <1>11, <2>1 DEF Ignored
<1>12. CASE quiet /\ old.role = "Unknown" /\ up /\ p.port
  <2> DEFINE x == SetPart(t, r, n, "Charlie", PTNobody)
             y == SendTo(x, r, p.from, n, "session", p.about, TRUE, p.introKey)
             one == PTPacket(r, p.from, n, "session", p.about, TRUE, p.introKey)
             two == PTPacket(r, p.about, n, p.introKey, p.about, TRUE, r)
             c == APart("Charlie", PTNobody)
  <2>1. u = SendTo(y, r, p.about, n, p.introKey, p.about, TRUE, r)
    BY <1>12 DEF ProcessPeerTest, SendPeerTestToAddress
  <2>2. Does(t, x, r, n, c, st, {}, {}) BY <1>1, <1>4, SetPartDoes
  <2> HIDE DEF x, c
  <2>3. Does(t, y, r, n, c, st, {} \cup {one}, {} \cup {p.from}) BY <1>1, <2>2, SendToDoes
  <2> HIDE DEF y
  <2>4. Does(t, u, r, n, c, st, ({} \cup {one}) \cup {two}, ({} \cup {p.from}) \cup {p.about})
    BY <1>1, <2>1, <2>3, SendToDoes
  <2>5. Outcome(t, r, p, up, c, st, {one, two}, {p.from, p.about})
    BY <1>12 DEF Outcome, BecomesCharlie, c
  <2> HIDE DEF one, two
  <2>6. ({} \cup {one}) \cup {two} = {one, two} /\ ({} \cup {p.from}) \cup {p.about} = {p.from, p.about}
    OBVIOUS
  <2> QED BY <2>4, <2>5, <2>6
<1>13. CASE quiet /\ old.role = "Unknown" /\ up /\ ~p.port
  <2>1. CASE t.established[r] = {p.from}
    <3>1. u = t BY <1>13, <2>1 DEF ProcessPeerTest
    <3> QED BY <1>5, <1>13, <2>1, <3>1 DEF Ignored
  <2>2. CASE t.established[r] # {p.from}
    <3> DEFINE x == SetPart(t, r, n, "Bob", p.from)
    <3>1. PICK c \in t.established[r] \ {p.from} :
            u = SendTo(x, r, c, n, "session", p.from, TRUE, p.introKey)
      BY <1>13, <2>2 DEF ProcessPeerTest
    <3> DEFINE sent == {PTPacket(r, c, n, "session", p.from, TRUE, p.introKey)}
               b == APart("Bob", p.from)
    <3>2. Does(t, x, r, n, b, st, {}, {}) BY <1>1, <1>4, SetPartDoes
    <3> HIDE DEF x
    <3>3. Outcome(t, r, p, up, b, st, sent, {c}) BY <1>13, <3>1 DEF Outcome, BecomesBob
    <3> HIDE DEF b
    <3>4. Does(t, u, r, n, b, st, {} \cup sent, {} \cup {c}) BY <1>1, <3>1, <3>2, SendToDoes
    <3>5. {} \cup sent = sent /\ {} \cup {c} = {c} OBVIOUS
    <3> QED BY <3>3, <3>4, <3>5
  <2> QED BY <2>1, <2>2
<1> QED BY <1>3, <1>6, <1>7, <1>8, <1>9, <1>10, <1>11, <1>12, <1>13
-----------------------------------------------------------------------------
(***************************************************************************)
(* Types.                                                                  *)
(***************************************************************************)
\* What the assumption says of the names.
LEMMA PTNames ==
  ASSUME NEW k \in PTCases
  PROVE  /\ PTNobody \notin PTRouters /\ "session" \notin PTRouters
         /\ \A r \in PTRouters : PTPeers(k, r) \subseteq PTRouters /\ r \notin PTPeers(k, r)
         /\ \A r, q \in PTRouters : q \in PTPeers(k, r) => r \in PTPeers(k, q)
         /\ \A s \in k.starts : /\ s[1] \in PTRouters /\ s[2] \in PTRouters
                                /\ s[3] \in PTNonces(k)
                                /\ \A q \in k.starts : q[3] = s[3] => q = s
<1>1. \A r, q \in PTRouters : {r, q} = {q, r} OBVIOUS
<1> QED BY <1>1, PeerTestAssumption DEF PTNobody, PTPeers, PTNonces

\* The fields of a packet.
LEMMA PacketFields ==
  ASSUME NEW k, NEW from \in PTRouters, NEW to \in PTRouters, NEW n \in PTNonces(k),
         NEW key \in PTRouters \cup {"session"}, NEW about \in PTRouters \cup {PTNobody},
         NEW port \in BOOLEAN, NEW introKey \in PTRouters
  PROVE  LET p == PTPacket(from, to, n, key, about, port, introKey)
         IN /\ p \in PTPackets(k) /\ p.from = from /\ p.to = to /\ p.nonce = n /\ p.key = key
            /\ p.about = about /\ p.port = port /\ p.introKey = introKey
BY DEF PTPacket, PTPackets

\* What a step may put into the state.
Fits(k, t, n, part, status, sent, to) ==
  /\ part \in Part /\ (part.role = "Bob" => part.session \in PTRouters)
  /\ status \in {"Testing", "OK", "Firewalled"} /\ to \subseteq PTRouters
  /\ sent \subseteq PTPackets(k) /\ \A q \in sent : q.nonce = n

\* A router's part before a step.
LEMMA OldPart ==
  ASSUME NEW t, PTTyped(t), NEW r \in PTRouters, NEW n \in PTNonces(t.case)
  PROVE  /\ t.m_PeerTests[r][n] \in Part
         /\ t.m_PeerTests[r][n].role = "Bob" => t.m_PeerTests[r][n].session \in PTRouters
         /\ t.m_Status[r] \in {"Testing", "OK", "Firewalled"}
         /\ t.established[r] \subseteq PTRouters
<1>1. /\ t.m_PeerTests \in [PTRouters -> [PTNonces(t.case) -> Part]]
      /\ t.m_Status \in [PTRouters -> {"Testing", "OK", "Firewalled"}]
      /\ t.established \in [PTRouters -> SUBSET PTRouters]
  BY DEF PTTyped, TestState
<1> DEFINE f == t.m_PeerTests
<1>2. f \in [PTRouters -> [PTNonces(t.case) -> Part]] BY <1>1
<1> HIDE DEF f
<1>3. f[r][n] \in Part BY <1>2
<1> QED BY <1>1, <1>3 DEF PTTyped, f

\* Every outcome is of the right types.
LEMMA OutcomeFits ==
  ASSUME NEW t, PTTyped(t), NEW p \in PTPackets(t.case), NEW r \in PTRouters, NEW up,
         NEW part, NEW status, NEW sent, NEW to,
         Outcome(t, r, p, up, part, status, sent, to)
  PROVE  Fits(t.case, t, p.nonce, part, status, sent, to)
<1> DEFINE k == t.case
           n == p.nonce
           old == t.m_PeerTests[r][n]
<1>1. /\ n \in PTNonces(k) /\ p.from \in PTRouters /\ p.to \in PTRouters /\ p.port \in BOOLEAN
      /\ p.introKey \in PTRouters /\ p.about \in PTRouters \cup {PTNobody}
  BY DEF PTPackets
<1>2. /\ old \in Part /\ (old.role = "Bob" => old.session \in PTRouters)
      /\ t.m_Status[r] \in {"Testing", "OK", "Firewalled"} /\ t.established[r] \subseteq PTRouters
  BY <1>1, OldPart
<1>3. /\ NoPart \in Part /\ NoPart.role # "Bob"
      /\ APart("Alice2", PTNobody) \in Part /\ APart("Charlie", PTNobody) \in Part
      /\ APart("Alice2", PTNobody).role # "Bob" /\ APart("Charlie", PTNobody).role # "Bob"
      /\ APart("Bob", p.from) \in Part /\ APart("Bob", p.from).session = p.from
  BY <1>1 DEF NoPart, APart, Part
<1> HIDE DEF old
<1>5. CASE Ignored(t, r, p, up, part, status, sent, to) BY <1>2, <1>5 DEF Ignored, Fits, old
<1>6. CASE Reported(t, r, p, up, part, status, sent, to) BY <1>2, <1>6 DEF Reported, Fits, old
<1>7. CASE Called(t, r, p, up, part, status, sent, to)
  <2>1. PTPacket(r, p.from, p.nonce, p.introKey, PTNobody, TRUE, r) \in PTPackets(t.case) /\ PTPacket(r, p.from, p.nonce, p.introKey, PTNobody, TRUE, r).nonce = p.nonce
    BY <1>1 DEF PTPacket, PTPackets
  <2> QED BY <1>1, <1>3, <1>7, <2>1 DEF Called, Fits
<1>8. CASE CalledAgain(t, r, p, up, part, status, sent, to) BY <1>3, <1>8 DEF CalledAgain, Fits
<1>9. CASE BobReports(t, r, p, up, part, status, sent, to)
  <2> DEFINE a == old.session
  <2>1. CASE a \in t.established[r]
    <3>1. a \in PTRouters BY <1>2, <2>1
    <3> HIDE DEF a
    <3>2. PTPacket(r, a, p.nonce, "session", p.about, p.port, p.introKey) \in PTPackets(t.case)
      BY <1>1, <3>1 DEF PTPacket, PTPackets
    <3>3. PTPacket(r, a, p.nonce, "session", p.about, p.port, p.introKey).nonce = p.nonce
      BY DEF PTPacket
    <3>4. /\ part = NoPart /\ status = t.m_Status[r] /\ to = {a}
          /\ sent = {PTPacket(r, a, p.nonce, "session", p.about, p.port, p.introKey)}
      BY <1>9, <2>1 DEF BobReports, a, old
    <3> QED BY <1>2, <1>3, <3>1, <3>2, <3>3, <3>4 DEF Fits
  <2>2. CASE a \notin t.established[r]
    BY <1>2, <1>3, <1>9, <2>2 DEF BobReports, Fits, old
  <2> QED BY <2>1, <2>2
<1>10. CASE CharlieCalls(t, r, p, up, part, status, sent, to)
  <2>1. PTPacket(r, p.from, p.nonce, p.introKey, p.from, TRUE, r) \in PTPackets(t.case) /\ PTPacket(r, p.from, p.nonce, p.introKey, p.from, TRUE, r).nonce = p.nonce
    BY <1>1 DEF PTPacket, PTPackets
  <2> QED BY <1>1, <1>2, <1>3, <1>10, <2>1 DEF CharlieCalls, Fits
<1>11. CASE /\ ~(p.port /\ p.about = PTNobody)
            /\ BecomesCharlie(t, r, p, up, part, status, sent, to)
  <2>1. p.about \in PTRouters BY <1>1, <1>11 DEF BecomesCharlie
  <2>2. PTPacket(r, p.from, p.nonce, "session", p.about, TRUE, p.introKey) \in PTPackets(t.case) /\ PTPacket(r, p.from, p.nonce, "session", p.about, TRUE, p.introKey).nonce = p.nonce
    BY <1>1, <2>1 DEF PTPacket, PTPackets
  <2>3. PTPacket(r, p.about, p.nonce, p.introKey, p.about, TRUE, r) \in PTPackets(t.case) /\ PTPacket(r, p.about, p.nonce, p.introKey, p.about, TRUE, r).nonce = p.nonce
    BY <1>1, <2>1 DEF PTPacket, PTPackets
  <2> QED BY <1>1, <1>2, <1>3, <1>11, <2>1, <2>2, <2>3 DEF BecomesCharlie, Fits
<1>12. CASE BecomesBob(t, r, p, up, part, status, sent, to)
  <2>1. PICK c \in t.established[r] \ {p.from} :
          /\ sent = {PTPacket(r, c, p.nonce, "session", p.from, TRUE, p.introKey)} /\ to = {c}
    BY <1>12 DEF BecomesBob
  <2>2. c \in PTRouters BY <1>2, <2>1
  <2>3. PTPacket(r, c, p.nonce, "session", p.from, TRUE, p.introKey) \in PTPackets(t.case) /\ PTPacket(r, c, p.nonce, "session", p.from, TRUE, p.introKey).nonce = p.nonce
    BY <1>1, <2>2 DEF PTPacket, PTPackets
  <2> QED BY <1>1, <1>2, <1>3, <1>12, <2>1, <2>2, <2>3 DEF BecomesBob, Fits
<1> QED BY <1>5, <1>6, <1>7, <1>8, <1>9, <1>10, <1>11, <1>12 DEF Outcome

\* The part, status and contacts of all routers after a step.
After(t, u, r, n, part, status, to) ==
  /\ u.m_PeerTests[r][n] = part /\ u.m_Status[r] = status
  /\ u.contacted[r] = t.contacted[r] \cup to
  /\ \A x \in PTRouters, m \in PTNonces(t.case) :
       x # r \/ m # n => u.m_PeerTests[x][m] = t.m_PeerTests[x][m]
  /\ \A x \in PTRouters \ {r} : /\ u.m_Status[x] = t.m_Status[x]
                                /\ u.contacted[x] = t.contacted[x]

\* A step in that form, read field by field.
LEMMA AfterDoes ==
  ASSUME NEW t, PTTyped(t), NEW r \in PTRouters, NEW n \in PTNonces(t.case), NEW u,
         NEW part, NEW status, NEW sent, NEW to, Does(t, u, r, n, part, status, sent, to)
  PROVE  After(t, u, r, n, part, status, to)
<1>1. /\ t.m_PeerTests \in [PTRouters -> [PTNonces(t.case) -> Part]]
      /\ t.m_Status \in [PTRouters -> {"Testing", "OK", "Firewalled"}]
      /\ t.contacted \in [PTRouters -> SUBSET PTRouters]
  BY DEF PTTyped, TestState
<1> DEFINE f == t.m_PeerTests
           g == u.m_PeerTests
<1>2. g = [f EXCEPT ![r] = [f[r] EXCEPT ![n] = part]] BY DEF Does
<1>3. f \in [PTRouters -> [PTNonces(t.case) -> Part]] BY <1>1
<1> HIDE DEF f, g
<1>4. g[r] = [f[r] EXCEPT ![n] = part] /\ \A x \in PTRouters \ {r} : g[x] = f[x] BY <1>2, <1>3
<1>5. g[r][n] = part /\ \A m \in PTNonces(t.case) : m # n => g[r][m] = f[r][m] BY <1>3, <1>4
<1>6. \A x \in PTRouters, m \in PTNonces(t.case) : x # r \/ m # n => g[x][m] = f[x][m]
  BY <1>4, <1>5
<1> QED BY <1>1, <1>5, <1>6 DEF Does, After, f, g

\* A step whose outcome fits keeps the types.
LEMMA DoesTyped ==
  ASSUME NEW t, PTTyped(t), NEW r \in PTRouters, NEW n \in PTNonces(t.case), NEW u,
         NEW part, NEW status, NEW sent, NEW to, Does(t, u, r, n, part, status, sent, to),
         Fits(t.case, t, n, part, status, sent, to), \A s \in t.unstarted : s[3] # n
  PROVE  PTTyped(u)
<1> DEFINE k == t.case
           f == t.m_PeerTests
           g == u.m_PeerTests
<1>1. /\ k \in PTCases /\ TestState(k, t)
      /\ f \in [PTRouters -> [PTNonces(k) -> Part]]
      /\ t.m_Status \in [PTRouters -> {"Testing", "OK", "Firewalled"}]
      /\ t.contacted \in [PTRouters -> SUBSET PTRouters]
  BY DEF PTTyped, TestState
<1>2. /\ g = [f EXCEPT ![r] = [f[r] EXCEPT ![n] = part]]
      /\ u.m_Status = [t.m_Status EXCEPT ![r] = status]
      /\ u.contacted = [t.contacted EXCEPT ![r] = t.contacted[r] \cup to]
      /\ u.net = t.net \cup sent /\ u.established = t.established
      /\ u.unstarted = t.unstarted /\ u.faults = t.faults /\ u.misread = t.misread
      /\ u.case = t.case /\ PTShape(u)
  BY DEF Does
<1>3. /\ part \in Part /\ (part.role = "Bob" => part.session \in PTRouters)
      /\ status \in {"Testing", "OK", "Firewalled"} /\ to \subseteq PTRouters
      /\ sent \subseteq PTPackets(k) /\ \A q \in sent : q.nonce = n
  BY DEF Fits
<1>4. g \in [PTRouters -> [PTNonces(k) -> Part]]
  <2> HIDE DEF f, g, k
  <2>1. [f[r] EXCEPT ![n] = part] \in [PTNonces(k) -> Part] BY <1>1, <1>3
  <2> QED BY <1>1, <1>2, <2>1
<1>5. TestState(k, u)
  <2> HIDE DEF f, g, k
  <2>1. u.m_Status \in [PTRouters -> {"Testing", "OK", "Firewalled"}] BY <1>1, <1>2, <1>3
  <2>2. u.contacted \in [PTRouters -> SUBSET PTRouters] BY <1>1, <1>2, <1>3
  <2> QED BY <1>1, <1>2, <1>3, <1>4, <2>1, <2>2 DEF TestState, g, k
<1>6. /\ u.m_PeerTests[r][n] = part /\ u.contacted[r] = t.contacted[r] \cup to
      /\ \A x \in PTRouters, m \in PTNonces(k) :
           x # r \/ m # n => u.m_PeerTests[x][m] = t.m_PeerTests[x][m]
      /\ \A x \in PTRouters \ {r} : u.contacted[x] = t.contacted[x]
  <2>1. After(t, u, r, n, part, status, to) BY AfterDoes
  <2> QED BY <2>1 DEF After
<1>7. \A x \in PTRouters :
        /\ u.established[x] \subseteq PTPeers(k, x)
        /\ u.faults = k.faults => u.established[x] = PTPeers(k, x)
        /\ PTPeers(k, x) \subseteq u.contacted[x]
        /\ \A m \in PTNonces(k) :
             u.m_PeerTests[x][m].role = "Bob" => u.m_PeerTests[x][m].session \in PTRouters
  <2> SUFFICES ASSUME NEW x \in PTRouters
               PROVE  /\ u.established[x] \subseteq PTPeers(k, x)
                      /\ u.faults = k.faults => u.established[x] = PTPeers(k, x)
                      /\ PTPeers(k, x) \subseteq u.contacted[x]
                      /\ \A m \in PTNonces(k) :
                           u.m_PeerTests[x][m].role = "Bob" => u.m_PeerTests[x][m].session \in PTRouters
    OBVIOUS
  <2>1. /\ t.established[x] \subseteq PTPeers(k, x)
        /\ t.faults = k.faults => t.established[x] = PTPeers(k, x)
        /\ PTPeers(k, x) \subseteq t.contacted[x]
        /\ \A m \in PTNonces(k) :
             t.m_PeerTests[x][m].role = "Bob" => t.m_PeerTests[x][m].session \in PTRouters
    BY DEF PTTyped
  <2> HIDE DEF f, g, k
  <2>2. PTPeers(k, x) \subseteq u.contacted[x] BY <1>6, <2>1
  <2>3. ASSUME NEW m \in PTNonces(k), u.m_PeerTests[x][m].role = "Bob"
        PROVE  u.m_PeerTests[x][m].session \in PTRouters
    <3>1. CASE x = r /\ m = n BY <1>3, <1>6, <2>3, <3>1
    <3>2. CASE x # r \/ m # n BY <1>6, <2>1, <2>3, <3>2
    <3> QED BY <3>1, <3>2
  <2> QED BY <1>2, <2>1, <2>2, <2>3
<1>8. ASSUME NEW s \in u.unstarted
      PROVE  /\ \A x \in PTRouters : u.m_PeerTests[x][s[3]] = NoPart
             /\ \A q \in u.net : q.nonce # s[3]
  <2>1. s \in t.unstarted /\ s[3] # n BY <1>2, <1>8
  <2>2. /\ \A x \in PTRouters : t.m_PeerTests[x][s[3]] = NoPart
        /\ \A q \in t.net : q.nonce # s[3]
    BY <2>1 DEF PTTyped
  <2>3. s[3] \in PTNonces(k)
    <3>1. s \in k.starts BY <2>1 DEF PTTyped, TestState
    <3> QED BY <3>1 DEF PTNonces
  <2> HIDE DEF k, f, g
  <2> QED BY <1>2, <1>3, <1>6, <2>1, <2>2, <2>3
<1> QED BY <1>1, <1>2, <1>5, <1>7, <1>8 DEF PTTyped
-----------------------------------------------------------------------------
(***************************************************************************)
(* A router behind its firewall.                                           *)
(***************************************************************************)
\* Packet p comes in at its receiver.
Heard(t, p, up) ==
  /\ p \in PTPackets(t.case) /\ up \in BOOLEAN /\ up = (p.from \in t.established[p.to])
  /\ p.to \in t.case.firewalled => p.from \in t.contacted[p.to]
  /\ p.key = IF p.from \in t.established[p.to] THEN "session" ELSE p.to

\* What a step at router x may do about a router r that is shut.
StaysShut(t, r, x, n, part, status, sent, to) ==
  /\ x = r => status # "OK" /\ to \subseteq Near(t, r) /\ part.role # "Alice2"
  /\ BobIsNear(t, r, x, part)
  /\ part.role = "Alice1" => \/ t.m_PeerTests[x][n].role = "Alice1"
                              \/ \A q \in t.net : q.nonce # n
  /\ \A q \in sent :
       /\ q.about \in Near(t, r) \cup {PTNobody} \/ (q.key # "session" /\ q.about = q.to)
       /\ ~q.port => \/ q.from = r /\ q.to \in PTPeers(t.case, r)
                     \/ q.to = r /\ q.from \in PTPeers(t.case, r)
       /\ q.from = x /\ q.nonce = n /\ (x = r /\ q.to = r => part.role # "Alice1")

\* No packet that comes in opens a router that is shut.
LEMMA OutcomeShut ==
  ASSUME NEW t, PTTyped(t), NEW r \in PTRouters, PTShut(t, r), PTQuiet(t, r),
         NEW p, NEW up, Heard(t, p, up), PacketIsNear(t, r, p),
         NEW part, NEW status, NEW sent, NEW to,
         Outcome(t, p.to, p, up, part, status, sent, to)
  PROVE  StaysShut(t, r, p.to, p.nonce, part, status, sent, to)
<1> DEFINE k == t.case
           x == p.to
           n == p.nonce
           P == PTPeers(k, r)
           old == t.m_PeerTests[x][n]
<1>1. /\ n \in PTNonces(k) /\ p.from \in PTRouters /\ x \in PTRouters
      /\ p.introKey \in PTRouters /\ p.about \in PTRouters \cup {PTNobody}
      /\ p.port \in BOOLEAN
  BY DEF PTPackets, Heard
<1>2. /\ r \notin P /\ "session" \notin PTRouters /\ P \subseteq PTRouters
      /\ PTNobody \notin PTRouters
  BY PTNames DEF PTTyped
<1>3. t.established[r] = P /\ r \in k.firewalled BY DEF PTQuiet
<1>4. /\ t.m_Status[r] # "OK" /\ t.contacted[r] \subseteq P \cup {r}
      /\ x = r => old.role # "Alice2"
      /\ BobIsNear(t, r, x, old)
  BY <1>1 DEF PTShut, Near
<1>5. /\ p.about \in P \cup {r, PTNobody} \/ (p.key # "session" /\ p.about = x)
      /\ ~p.port => \/ p.from = r /\ x \in P
                    \/ x = r /\ p.from \in P
      /\ p.from = r /\ x = r => old.role # "Alice1"
  BY DEF PacketIsNear, Near
<1>6. /\ up = (p.from \in t.established[x]) /\ (x = r => p.from \in t.contacted[r])
      /\ p.key = IF p.from \in t.established[x] THEN "session" ELSE x
  BY <1>3 DEF Heard
<1>7. Near(t, r) = P \cup {r} BY DEF Near
<1> DEFINE Goal == StaysShut(t, r, x, n, part, status, sent, to)
<1>8. \A g : \/ x = r /\ g \in P
             \/ x \in P /\ g = r => BobIsNear(t, r, x, APart("Bob", g))
  BY DEF BobIsNear, APart
<1>9. ASSUME NEW a, a.role # "Bob" PROVE BobIsNear(t, r, x, a) BY <1>9 DEF BobIsNear
<1> SUFFICES Goal OBVIOUS
<1> HIDE DEF P, x, n, old, k
<1>10. CASE Ignored(t, x, p, up, part, status, sent, to)
  BY <1>4, <1>10 DEF Ignored, StaysShut, old, n
<1>11. CASE Reported(t, x, p, up, part, status, sent, to)
  BY <1>4, <1>11 DEF Reported, StaysShut, old, n
<1>12. CASE Called(t, x, p, up, part, status, sent, to)
  <2>1. x # r
    <3>1. SUFFICES ASSUME x = r PROVE FALSE OBVIOUS
    <3>2. p.from \in P \cup {r} /\ p.from \notin P BY <1>3, <1>4, <1>6, <1>12, <3>1 DEF Called
    <3> QED BY <1>5, <1>12, <3>1, <3>2 DEF Called, old, n
  <2> DEFINE q == PTPacket(x, p.from, n, p.introKey, PTNobody, TRUE, x)
  <2>2. /\ sent = {q} /\ part.role = "Alice2" BY <1>12 DEF Called, APart, n
  <2>3. q.about = PTNobody /\ q.port /\ q.from = x /\ q.nonce = n BY DEF PTPacket
  <2>4. BobIsNear(t, r, x, part) BY <1>9, <2>2
  <2> HIDE DEF q
  <2> QED BY <2>1, <2>2, <2>3, <2>4 DEF StaysShut
<1>13. CASE CalledAgain(t, x, p, up, part, status, sent, to)
  <2>1. x # r /\ sent = {} /\ part.role = "Unknown" BY <1>4, <1>13 DEF CalledAgain, NoPart, old, n
  <2>2. BobIsNear(t, r, x, part) BY <1>9, <2>1
  <2> QED BY <2>1, <2>2 DEF StaysShut
<1>14. CASE BobReports(t, x, p, up, part, status, sent, to)
  <2> DEFINE a == old.session
             q == PTPacket(x, a, n, "session", p.about, p.port, p.introKey)
  <2>1. /\ part.role = "Unknown" /\ status = t.m_Status[x]
        /\ \/ sent = {q} /\ to = {a}
           \/ sent = {} /\ to = {}
    BY <1>14 DEF BobReports, NoPart, old, n
  <2>2. \/ x = r /\ a \in P
        \/ x \in P /\ a = r
    BY <1>4, <1>14 DEF BobReports, BobIsNear, old, n, P, k
  <2>3. /\ q.about = p.about /\ q.port = p.port /\ q.from = x /\ q.to = a /\ q.nonce = n
    BY DEF PTPacket
  <2>4. BobIsNear(t, r, x, part) BY <1>9, <2>1
  <2> HIDE DEF q, a
  <2>5. p.about \in P \cup {r, PTNobody} BY <1>5, <2>2
  <2> QED BY <1>2, <1>4, <1>7, <2>1, <2>2, <2>3, <2>4, <2>5 DEF StaysShut, P, k
<1>15. CASE CharlieCalls(t, x, p, up, part, status, sent, to)
  <2> DEFINE q == PTPacket(x, p.from, n, p.introKey, p.from, TRUE, x)
  <2>1. sent = {q} /\ to = {p.from} /\ part.role = "Unknown" /\ status = t.m_Status[x]
    BY <1>15 DEF CharlieCalls, NoPart, n
  <2>2. /\ q.about = q.to /\ q.key = p.introKey /\ q.port /\ q.from = x /\ q.nonce = n
    BY DEF PTPacket
  <2>3. BobIsNear(t, r, x, part) BY <1>9, <2>1
  <2> HIDE DEF q
  <2>4. q.key # "session" BY <1>1, <1>2, <2>2
  <2>5. x = r => status # "OK" /\ to \subseteq Near(t, r) /\ part.role # "Alice2"
    BY <1>4, <1>6, <1>7, <2>1
  <2> QED BY <2>1, <2>2, <2>3, <2>4, <2>5 DEF StaysShut
<1>16. CASE /\ ~(p.port /\ p.about = PTNobody)
            /\ BecomesCharlie(t, x, p, up, part, status, sent, to)
  <2> DEFINE q1 == PTPacket(x, p.from, n, "session", p.about, TRUE, p.introKey)
             q2 == PTPacket(x, p.about, n, p.introKey, p.about, TRUE, x)
  <2>1. /\ sent = {q1, q2} /\ to = {p.from, p.about} /\ part.role = "Charlie"
        /\ status = t.m_Status[x] /\ up /\ p.port
    BY <1>16 DEF BecomesCharlie, APart, n
  <2>2. p.about \in P \cup {r} BY <1>5, <1>6, <1>16, <2>1
  <2>3. /\ q1.about = p.about /\ q1.port /\ q1.from = x /\ q1.nonce = n
        /\ q2.about = p.about /\ q2.port /\ q2.from = x /\ q2.nonce = n
    BY DEF PTPacket
  <2>4. BobIsNear(t, r, x, part) BY <1>9, <2>1
  <2> HIDE DEF q1, q2
  <2>5. x = r => status # "OK" /\ to \subseteq Near(t, r) /\ part.role # "Alice2"
    BY <1>3, <1>4, <1>6, <1>7, <2>1, <2>2
  <2> QED BY <1>7, <2>1, <2>2, <2>3, <2>4, <2>5 DEF StaysShut
<1>17. CASE BecomesBob(t, x, p, up, part, status, sent, to)
  <2>1. PICK c \in t.established[x] \ {p.from} :
          sent = {PTPacket(x, c, n, "session", p.from, TRUE, p.introKey)} /\ to = {c}
    BY <1>17 DEF BecomesBob, n
  <2> DEFINE q == PTPacket(x, c, n, "session", p.from, TRUE, p.introKey)
  <2>2. part = APart("Bob", p.from) /\ status = t.m_Status[x] /\ ~p.port
    BY <1>17 DEF BecomesBob
  <2>3. part.role = "Bob" BY <2>2 DEF APart
  <2>4. \/ x = r /\ p.from \in P
        \/ x \in P /\ p.from = r
    BY <1>5, <2>2
  <2>5. BobIsNear(t, r, x, part) BY <2>2, <2>4 DEF BobIsNear, APart, P, k
  <2>6. q.about = p.from /\ q.port /\ q.from = x /\ q.nonce = n /\ sent = {q} BY <2>1 DEF PTPacket
  <2> HIDE DEF q
  <2>7. x = r => status # "OK" /\ to \subseteq Near(t, r) /\ part.role # "Alice2"
    BY <1>3, <1>4, <1>7, <2>1, <2>2, <2>3
  <2> QED BY <1>7, <2>3, <2>4, <2>5, <2>6, <2>7 DEF StaysShut
<1>18. Outcome(t, x, p, up, part, status, sent, to) BY DEF x
<1> QED BY <1>10, <1>11, <1>12, <1>13, <1>14, <1>15, <1>16, <1>17, <1>18 DEF Outcome

\* A step that respects a shut router keeps it shut.
LEMMA DoesShut ==
  ASSUME NEW t, PTTyped(t), NEW r \in PTRouters, PTShut(t, r), NEW x \in PTRouters,
         NEW n \in PTNonces(t.case), NEW u, NEW part, NEW status, NEW sent, NEW to,
         Does(t, u, x, n, part, status, sent, to), sent \subseteq PTPackets(t.case),
         t.net \subseteq PTPackets(t.case),
         PTQuiet(t, r) => StaysShut(t, r, x, n, part, status, sent, to)
  PROVE  PTShut(u, r)
<1> SUFFICES ASSUME PTQuiet(u, r)
             PROVE  /\ u.m_Status[r] # "OK" /\ u.contacted[r] \subseteq Near(u, r)
                    /\ \A m \in PTNonces(u.case) : u.m_PeerTests[r][m].role # "Alice2"
                    /\ \A y \in PTRouters, m \in PTNonces(u.case) : BobIsNear(u, r, y, u.m_PeerTests[y][m])
                    /\ \A p \in u.net : PacketIsNear(u, r, p)
  BY DEF PTShut
<1>1. u.case = t.case /\ u.established = t.established /\ u.net = t.net \cup sent BY DEF Does
<1>2. PTQuiet(t, r) BY <1>1 DEF PTQuiet
<1>3. StaysShut(t, r, x, n, part, status, sent, to) BY <1>2
<1>4. /\ t.m_Status[r] # "OK" /\ t.contacted[r] \subseteq Near(t, r)
      /\ \A m \in PTNonces(t.case) : t.m_PeerTests[r][m].role # "Alice2"
      /\ \A y \in PTRouters, m \in PTNonces(t.case) : BobIsNear(t, r, y, t.m_PeerTests[y][m])
      /\ \A p \in t.net : PacketIsNear(t, r, p)
  BY <1>2 DEF PTShut
<1>5. After(t, u, x, n, part, status, to) BY AfterDoes
<1>6. Near(u, r) = Near(t, r) /\ PTPeers(u.case, r) = PTPeers(t.case, r) BY <1>1 DEF Near
<1>7. u.m_Status[r] # "OK" /\ u.contacted[r] \subseteq Near(t, r)
  BY <1>3, <1>4, <1>5 DEF After, StaysShut
<1>8. ASSUME NEW m \in PTNonces(t.case) PROVE u.m_PeerTests[r][m].role # "Alice2"
  <2>1. CASE x = r /\ m = n BY <1>3, <1>5, <2>1 DEF After, StaysShut
  <2>2. CASE x # r \/ m # n BY <1>4, <1>5, <2>2 DEF After
  <2> QED BY <2>1, <2>2
<1>9. ASSUME NEW y \in PTRouters, NEW m \in PTNonces(t.case)
      PROVE  BobIsNear(u, r, y, u.m_PeerTests[y][m])
  <2>1. BobIsNear(t, r, y, u.m_PeerTests[y][m])
    <3>1. CASE y = x /\ m = n BY <1>3, <1>5, <3>1 DEF After, StaysShut
    <3>2. CASE y # x \/ m # n BY <1>4, <1>5, <3>2 DEF After
    <3> QED BY <3>1, <3>2
  <2> QED BY <1>6, <2>1 DEF BobIsNear
<1>10. ASSUME NEW p \in u.net PROVE PacketIsNear(u, r, p)
  <2>1. p \in PTPackets(t.case) BY <1>1
  <2>2. p.nonce \in PTNonces(t.case) BY <2>1 DEF PTPackets
  <2>3. p \in t.net /\ u.m_PeerTests[r][p.nonce].role = "Alice1"
          => t.m_PeerTests[r][p.nonce].role = "Alice1"
    <3>1. CASE x = r /\ p.nonce = n BY <1>3, <1>5, <3>1 DEF After, StaysShut
    <3>2. CASE x # r \/ p.nonce # n BY <1>5, <2>2, <3>2 DEF After
    <3> QED BY <3>1, <3>2
  <2>4. CASE p \in t.net BY <1>4, <1>6, <2>3, <2>4 DEF PacketIsNear
  <2>5. CASE p \in sent
    <3>1. /\ p.about \in Near(t, r) \cup {PTNobody} \/ (p.key # "session" /\ p.about = p.to)
          /\ ~p.port => \/ p.from = r /\ p.to \in PTPeers(t.case, r)
                        \/ p.to = r /\ p.from \in PTPeers(t.case, r)
          /\ p.from = x /\ p.nonce = n /\ (x = r /\ p.to = r => part.role # "Alice1")
      BY <1>3, <2>5 DEF StaysShut
    <3>2. u.m_PeerTests[x][n] = part BY <1>5 DEF After
    <3> QED BY <1>6, <3>1, <3>2 DEF PacketIsNear
  <2> QED BY <1>1, <2>4, <2>5
<1> QED BY <1>1, <1>6, <1>7, <1>8, <1>9, <1>10
-----------------------------------------------------------------------------
(***************************************************************************)
(* The way of a test that nothing disturbs.                                *)
(***************************************************************************)
LEMMA NoncesOfTest ==
  ASSUME NEW s, NEW c
  PROVE  /\ Ask(s).nonce = s[3] /\ Forward(s, c).nonce = s[3] /\ Report1(s, c).nonce = s[3]
         /\ Report2(s).nonce = s[3] /\ Call(s, c).nonce = s[3] /\ Reply(s, c).nonce = s[3]
BY DEF PTPacket, Ask, Forward, Report1, Report2, Call, Reply

\* What happens to another test does not disturb this one.
SameTest(t, u, s) ==
  /\ \A q \in u.net : q.nonce = s[3] => q \in t.net
  /\ \A q \in t.net : q.nonce = s[3] => q \in u.net
  /\ \A x \in PTRouters : u.m_PeerTests[x][s[3]] = t.m_PeerTests[x][s[3]]
StatusKept(t, u, s) ==
  /\ t.m_Status[s[1]] = "OK" => u.m_Status[s[1]] = "OK"
  /\ t.m_Status[s[1]] # "Testing" => u.m_Status[s[1]] # "Testing"

LEMMA OtherTest ==
  ASSUME NEW t, NEW s, PTTrack(t, s), s[1] \in PTRouters, s[2] \in PTRouters,
         NEW u, u.case = t.case, u.established = t.established, u.faults = t.faults,
         t.misread \subseteq u.misread, s \notin u.unstarted => s \notin t.unstarted,
         SameTest(t, u, s), StatusKept(t, u, s)
  PROVE  PTTrack(u, s)
<1> SUFFICES ASSUME Undisturbed(u, s)
             PROVE  Asked(u, s) \/ \E c \in PTPeers(u.case, s[2]) \ {s[1]} : Underway(u, s, c)
  BY DEF PTTrack
<1>1. Undisturbed(t, s) BY DEF Undisturbed
<1>2. Asked(t, s) \/ \E c \in PTPeers(t.case, s[2]) \ {s[1]} : Underway(t, s, c)
  BY <1>1 DEF PTTrack
<1>3. ASSUME NEW q, q.nonce = s[3] PROVE q \in u.net <=> q \in t.net BY <1>3 DEF SameTest
<1>4. \A x \in PTRouters : u.m_PeerTests[x][s[3]] = t.m_PeerTests[x][s[3]] BY DEF SameTest
<1>5. CASE Asked(t, s)
  <2>1. Ask(s) \in u.net BY <1>3, <1>5, NoncesOfTest DEF Asked
  <2>2. \A p \in u.net : p.nonce = s[3] => p = Ask(s) BY <1>3, <1>5 DEF Asked
  <2> QED BY <1>4, <1>5, <2>1, <2>2 DEF Asked
<1>6. ASSUME NEW c \in PTPeers(t.case, s[2]) \ {s[1]}, Underway(t, s, c)
      PROVE  Underway(u, s, c)
  <2> DEFINE F == Forward(s, c)
             R1 == Report1(s, c)
             R2 == Report2(s)
             C == Call(s, c)
  <2>1. /\ F \in u.net <=> F \in t.net
        /\ R1 \in u.net <=> R1 \in t.net
        /\ R2 \in u.net <=> R2 \in t.net
        /\ C \in u.net <=> C \in t.net
    BY <1>3, NoncesOfTest
  <2>2. c \in PTRouters BY DEF PTPeers
  <2>3. \A p \in u.net : p.nonce = s[3] => p \in {F, R1, R2, C, Reply(s, c)}
    BY <1>3, <1>6 DEF Underway
  <2>4. F \in u.net => \A p \in u.net : p.nonce = s[3] => p = F
    BY <1>3, <1>6, <2>1 DEF Underway
  <2>5. {F, R1, R2} \cap u.net # {} <=> {F, R1, R2} \cap t.net # {} BY <2>1
  <2> HIDE DEF F, R1, R2, C
  <2> QED BY <1>4, <1>6, <2>1, <2>2, <2>3, <2>4, <2>5
          DEF Underway, StatusKept, F, R1, R2, C
<1> QED BY <1>2, <1>5, <1>6

\* Who takes part in a test that nothing disturbs: Bob may choose Charlie c.
Roles(t, s, c) ==
  /\ s[1] \in PTRouters /\ s[2] \in PTRouters /\ c \in PTRouters
  /\ s[1] # s[2] /\ c # s[1] /\ c # s[2]
  /\ s[1] \in t.established[s[2]] /\ s[2] \in t.established[s[1]]
  /\ c \in t.established[s[2]] /\ s[2] \in t.established[c]
  /\ c \notin t.established[s[1]] /\ s[1] \notin t.established[c]
  /\ s[3] \in PTNonces(t.case) /\ PTNobody \notin PTRouters /\ "session" \notin PTRouters
  /\ \A x \in PTRouters : t.established[x] \subseteq t.contacted[x]

\* The peers of an undisturbed test are what Roles says.
LEMMA RolesAreTaken ==
  ASSUME NEW t, PTTyped(t), NEW s, Undisturbed(t, s)
  PROVE  /\ s[1] \in PTRouters /\ s[2] \in PTRouters /\ s[1] # s[2]
         /\ s[1] \in t.established[s[2]] /\ t.established[s[2]] \ {s[1]} # {}
         /\ t.established[s[2]] = PTPeers(t.case, s[2])
         /\ s[1] \in t.contacted[s[2]] /\ s[3] \in PTNonces(t.case)
         /\ \A c \in PTPeers(t.case, s[2]) \ {s[1]} : Roles(t, s, c)
<1> DEFINE k == t.case
<1>1. /\ PTNobody \notin PTRouters /\ "session" \notin PTRouters
      /\ \A r \in PTRouters : PTPeers(k, r) \subseteq PTRouters /\ r \notin PTPeers(k, r)
      /\ \A r, q \in PTRouters : q \in PTPeers(k, r) => r \in PTPeers(k, q)
      /\ s[1] \in PTRouters /\ s[2] \in PTRouters /\ s[3] \in PTNonces(k)
  BY PTNames DEF PTTyped, Undisturbed
<1>2. \A x \in PTRouters : t.established[x] = PTPeers(k, x) /\ PTPeers(k, x) \subseteq t.contacted[x]
  BY DEF PTTyped, Undisturbed
<1>3. t.established[s[2]] # {s[1]} /\ t.established[s[1]] = {s[2]} BY DEF Undisturbed
<1> HIDE DEF k
<1>4. s[2] \in PTPeers(k, s[1]) /\ s[1] \in PTPeers(k, s[2]) /\ s[1] # s[2] BY <1>1, <1>2, <1>3
<1>5. ASSUME NEW c \in PTPeers(k, s[2]) \ {s[1]} PROVE Roles(t, s, c)
  <2>1. c \in PTRouters /\ c # s[2] /\ s[2] \in PTPeers(k, c) BY <1>1
  <2>2. c \notin PTPeers(k, s[1]) BY <1>1, <1>2, <1>3, <2>1
  <2>3. s[1] \notin PTPeers(k, c) BY <1>1, <2>1, <2>2
  <2> QED BY <1>1, <1>2, <1>4, <2>1, <2>2, <2>3 DEF Roles, k
<1> QED BY <1>1, <1>2, <1>3, <1>4, <1>5 DEF k

\* Packet p comes in, and passes and is processed or is dropped.
GetsThrough(t, p) ==
  /\ p.to \in t.case.firewalled => p.from \in t.contacted[p.to]
  /\ p.key = IF p.from \in t.established[p.to] THEN "session" ELSE p.to
PacketHandled(t, p, part, status, sent) ==
  \/ /\ ~GetsThrough(t, p)
     /\ part = t.m_PeerTests[p.to][p.nonce] /\ status = t.m_Status[p.to] /\ sent = {}
  \/ /\ GetsThrough(t, p)
     /\ \E to : Outcome(t, p.to, p, p.from \in t.established[p.to], part, status, sent, to)

\* Bob takes Alice's question and asks a Charlie.
LEMMA AskHandled ==
  ASSUME NEW t, PTTyped(t), NEW s, Undisturbed(t, s), Asked(t, s),
         NEW part, NEW status, NEW sent, PacketHandled(t, Ask(s), part, status, sent)
  PROVE  /\ part = APart("Bob", s[1])
         /\ \E c \in PTPeers(t.case, s[2]) \ {s[1]} : sent = {Forward(s, c)}
<1> DEFINE p == Ask(s)
<1>1. /\ p.from = s[1] /\ p.to = s[2] /\ p.nonce = s[3] /\ p.key = "session"
      /\ p.about = PTNobody /\ p.port = FALSE /\ p.introKey = s[1]
  BY DEF Ask, PTPacket
<1>2. /\ s[1] \in PTRouters /\ s[2] \in PTRouters /\ s[1] # s[2]
      /\ s[1] \in t.established[s[2]] /\ t.established[s[2]] # {s[1]}
      /\ t.established[s[2]] = PTPeers(t.case, s[2]) /\ s[1] \in t.contacted[s[2]]
  BY RolesAreTaken DEF Undisturbed
<1>3. t.m_PeerTests[s[2]][s[3]].role = "Unknown" BY <1>2 DEF Asked
<1>4. PacketHandled(t, p, part, status, sent) OBVIOUS
<1> HIDE DEF p
<1>5. GetsThrough(t, p) BY <1>1, <1>2 DEF GetsThrough
<1>6. PICK to : Outcome(t, p.to, p, TRUE, part, status, sent, to)
  <2>1. (p.from \in t.established[p.to]) = TRUE BY <1>1, <1>2
  <2> QED BY <1>4, <1>5, <2>1 DEF PacketHandled
<1>7. BecomesBob(t, p.to, p, TRUE, part, status, sent, to)
  <2>1. ~Ignored(t, p.to, p, TRUE, part, status, sent, to) BY <1>1, <1>2, <1>3 DEF Ignored
  <2>2. /\ ~Reported(t, p.to, p, TRUE, part, status, sent, to)
        /\ ~Called(t, p.to, p, TRUE, part, status, sent, to)
        /\ ~CalledAgain(t, p.to, p, TRUE, part, status, sent, to)
        /\ ~BobReports(t, p.to, p, TRUE, part, status, sent, to)
        /\ ~CharlieCalls(t, p.to, p, TRUE, part, status, sent, to)
        /\ ~BecomesCharlie(t, p.to, p, TRUE, part, status, sent, to)
    BY <1>1, <1>3 DEF Reported, Called, CalledAgain, BobReports, CharlieCalls, BecomesCharlie
  <2> QED BY <1>6, <2>1, <2>2 DEF Outcome
<1>8. PICK c \in t.established[s[2]] \ {s[1]} :
        sent = {PTPacket(s[2], c, s[3], "session", s[1], TRUE, s[1])}
  BY <1>1, <1>7 DEF BecomesBob
<1>9. part = APart("Bob", s[1]) BY <1>1, <1>7 DEF BecomesBob
<1> QED BY <1>2, <1>8, <1>9 DEF Forward

\* Charlie reports to Bob and calls Alice.
LEMMA ForwardHandled ==
  ASSUME NEW t, NEW s, NEW c, Roles(t, s, c), t.m_PeerTests[c][s[3]].role = "Unknown",
         NEW part, NEW status, NEW sent, PacketHandled(t, Forward(s, c), part, status, sent)
  PROVE  part.role = "Charlie" /\ sent = {Report1(s, c), Call(s, c)}
<1> DEFINE p == Forward(s, c)
<1>1. /\ p.from = s[2] /\ p.to = c /\ p.nonce = s[3] /\ p.key = "session"
      /\ p.about = s[1] /\ p.port = TRUE /\ p.introKey = s[1]
  BY DEF Forward, PTPacket
<1>2. PacketHandled(t, p, part, status, sent) OBVIOUS
<1> HIDE DEF p
<1>3. GetsThrough(t, p) BY <1>1 DEF GetsThrough, Roles
<1>4. PICK to : Outcome(t, p.to, p, TRUE, part, status, sent, to)
  <2>1. (p.from \in t.established[p.to]) = TRUE BY <1>1 DEF Roles
  <2> QED BY <1>2, <1>3, <2>1 DEF PacketHandled
<1>5. BecomesCharlie(t, p.to, p, TRUE, part, status, sent, to)
  <2>1. ~Ignored(t, p.to, p, TRUE, part, status, sent, to) BY <1>1 DEF Ignored, Roles
  <2>2. /\ ~Reported(t, p.to, p, TRUE, part, status, sent, to)
        /\ ~Called(t, p.to, p, TRUE, part, status, sent, to)
        /\ ~CalledAgain(t, p.to, p, TRUE, part, status, sent, to)
        /\ ~BobReports(t, p.to, p, TRUE, part, status, sent, to)
        /\ ~CharlieCalls(t, p.to, p, TRUE, part, status, sent, to)
        /\ ~BecomesBob(t, p.to, p, TRUE, part, status, sent, to)
    BY <1>1 DEF Reported, Called, CalledAgain, BobReports, CharlieCalls, BecomesBob
  <2> QED BY <1>4, <2>1, <2>2 DEF Outcome
<1>6. part = APart("Charlie", PTNobody) BY <1>5 DEF BecomesCharlie
<1>7. sent = {PTPacket(c, s[2], s[3], "session", s[1], TRUE, s[1]),
              PTPacket(c, s[1], s[3], s[1], s[1], TRUE, c)}
  BY <1>1, <1>5 DEF BecomesCharlie
<1> QED BY <1>6, <1>7 DEF APart, Report1, Call

\* Bob passes Charlie's report on to Alice.
LEMMA Report1Handled ==
  ASSUME NEW t, NEW s, NEW c, Roles(t, s, c),
         t.m_PeerTests[s[2]][s[3]] = [role |-> "Bob", session |-> s[1]],
         NEW part, NEW status, NEW sent, PacketHandled(t, Report1(s, c), part, status, sent)
  PROVE  sent = {Report2(s)}
<1> DEFINE p == Report1(s, c)
<1>1. /\ p.from = c /\ p.to = s[2] /\ p.nonce = s[3] /\ p.key = "session"
      /\ p.about = s[1] /\ p.port = TRUE /\ p.introKey = s[1]
  BY DEF Report1, PTPacket
<1>0. LET old == t.m_PeerTests[s[2]][s[3]] IN old.role = "Bob" /\ old.session = s[1]
  OBVIOUS
<1>2. PacketHandled(t, p, part, status, sent) OBVIOUS
<1> HIDE DEF p
<1>3. GetsThrough(t, p) BY <1>1 DEF GetsThrough, Roles
<1>4. PICK to : Outcome(t, p.to, p, TRUE, part, status, sent, to)
  <2>1. (p.from \in t.established[p.to]) = TRUE BY <1>1 DEF Roles
  <2> QED BY <1>2, <1>3, <2>1 DEF PacketHandled
<1>5. BobReports(t, p.to, p, TRUE, part, status, sent, to)
  <2>1. ~Ignored(t, p.to, p, TRUE, part, status, sent, to) BY <1>1 DEF Ignored, Roles
  <2>2. /\ ~Reported(t, p.to, p, TRUE, part, status, sent, to)
        /\ ~Called(t, p.to, p, TRUE, part, status, sent, to)
        /\ ~CalledAgain(t, p.to, p, TRUE, part, status, sent, to)
        /\ ~BecomesCharlie(t, p.to, p, TRUE, part, status, sent, to)
        /\ ~CharlieCalls(t, p.to, p, TRUE, part, status, sent, to)
        /\ ~BecomesBob(t, p.to, p, TRUE, part, status, sent, to)
    BY <1>0, <1>1 DEF Reported, Called, CalledAgain, BecomesCharlie, CharlieCalls, BecomesBob
  <2> QED BY <1>4, <2>1, <2>2 DEF Outcome
<1>6. sent = {PTPacket(s[2], s[1], s[3], "session", s[1], TRUE, s[1])}
  BY <1>0, <1>1, <1>5 DEF BobReports, Roles
<1> QED BY <1>6 DEF Report2

\* Alice takes the report; it counts only if nothing has called her yet.
LEMMA Report2Handled ==
  ASSUME NEW t, NEW s, NEW c, Roles(t, s, c), t.m_PeerTests[s[1]][s[3]].role \in {"Alice1", "Alice2"},
         s[1] \in t.case.firewalled => t.m_PeerTests[s[1]][s[3]].role = "Alice1",
         NEW part, NEW status, NEW sent, PacketHandled(t, Report2(s), part, status, sent)
  PROVE  /\ part = t.m_PeerTests[s[1]][s[3]] /\ sent = {}
         /\ t.m_Status[s[1]] # "Testing" => status = t.m_Status[s[1]]
         /\ s[1] \in t.case.firewalled => status # "Testing"
<1> DEFINE p == Report2(s)
<1>1. /\ p.from = s[2] /\ p.to = s[1] /\ p.nonce = s[3] /\ p.key = "session"
      /\ p.about = s[1] /\ p.port = TRUE /\ p.introKey = s[1]
  BY DEF Report2, PTPacket
<1>2. PacketHandled(t, p, part, status, sent) OBVIOUS
<1> HIDE DEF p
<1>3. GetsThrough(t, p) BY <1>1 DEF GetsThrough, Roles
<1>4. PICK to : Outcome(t, p.to, p, TRUE, part, status, sent, to)
  <2>1. (p.from \in t.established[p.to]) = TRUE BY <1>1 DEF Roles
  <2> QED BY <1>2, <1>3, <2>1 DEF PacketHandled
<1>5. \/ Reported(t, p.to, p, TRUE, part, status, sent, to)
      \/ Ignored(t, p.to, p, TRUE, part, status, sent, to)
  <2>1. /\ ~BobReports(t, p.to, p, TRUE, part, status, sent, to)
        /\ ~Called(t, p.to, p, TRUE, part, status, sent, to)
        /\ ~CalledAgain(t, p.to, p, TRUE, part, status, sent, to)
        /\ ~BecomesCharlie(t, p.to, p, TRUE, part, status, sent, to)
        /\ ~CharlieCalls(t, p.to, p, TRUE, part, status, sent, to)
        /\ ~BecomesBob(t, p.to, p, TRUE, part, status, sent, to)
    BY <1>1 DEF BobReports, Called, CalledAgain, BecomesCharlie, CharlieCalls, BecomesBob
  <2> QED BY <1>4, <2>1 DEF Outcome
<1>6. Ignored(t, p.to, p, TRUE, part, status, sent, to) => s[1] \notin t.case.firewalled
  BY <1>1 DEF Ignored, Roles
<1> QED BY <1>1, <1>5, <1>6 DEF Reported, Ignored

\* Charlie's call makes Alice answer, or her firewall keeps it out.
LEMMA CallHandled ==
  ASSUME NEW t, NEW s, NEW c, Roles(t, s, c), t.m_PeerTests[s[1]][s[3]].role = "Alice1",
         s[1] \in t.case.firewalled => c \notin t.contacted[s[1]],
         NEW part, NEW status, NEW sent, PacketHandled(t, Call(s, c), part, status, sent)
  PROVE  IF s[1] \in t.case.firewalled
         THEN part = t.m_PeerTests[s[1]][s[3]] /\ status = t.m_Status[s[1]] /\ sent = {}
         ELSE part.role = "Alice2" /\ status = "OK" /\ sent = {Reply(s, c)}
<1> DEFINE p == Call(s, c)
<1>1. /\ p.from = c /\ p.to = s[1] /\ p.nonce = s[3] /\ p.key = s[1]
      /\ p.about = s[1] /\ p.port = TRUE /\ p.introKey = c
  BY DEF Call, PTPacket
<1>2. PacketHandled(t, p, part, status, sent) OBVIOUS
<1> HIDE DEF p
<1>3. CASE s[1] \in t.case.firewalled
  <2>1. ~GetsThrough(t, p) BY <1>1, <1>3 DEF GetsThrough
  <2> QED BY <1>1, <1>2, <1>3, <2>1 DEF PacketHandled
<1>4. CASE s[1] \notin t.case.firewalled
  <2>1. GetsThrough(t, p) BY <1>1, <1>4 DEF GetsThrough, Roles
  <2>2. PICK to : Outcome(t, p.to, p, FALSE, part, status, sent, to)
    <3>1. (p.from \in t.established[p.to]) = FALSE BY <1>1 DEF Roles
    <3> QED BY <1>2, <2>1, <3>1 DEF PacketHandled
  <2>3. Called(t, p.to, p, FALSE, part, status, sent, to)
    <3>1. ~Ignored(t, p.to, p, FALSE, part, status, sent, to) BY <1>1 DEF Ignored, Roles
    <3>2. /\ ~Reported(t, p.to, p, FALSE, part, status, sent, to)
          /\ ~BobReports(t, p.to, p, FALSE, part, status, sent, to)
          /\ ~CalledAgain(t, p.to, p, FALSE, part, status, sent, to)
          /\ ~BecomesCharlie(t, p.to, p, FALSE, part, status, sent, to)
          /\ ~CharlieCalls(t, p.to, p, FALSE, part, status, sent, to)
          /\ ~BecomesBob(t, p.to, p, FALSE, part, status, sent, to)
      BY <1>1 DEF Reported, BobReports, CalledAgain, BecomesCharlie, CharlieCalls, BecomesBob
    <3> QED BY <2>2, <3>1, <3>2 DEF Outcome
  <2>4. /\ part = APart("Alice2", PTNobody) /\ status = "OK"
        /\ sent = {PTPacket(s[1], c, s[3], c, PTNobody, TRUE, s[1])}
    BY <1>1, <2>3 DEF Called
  <2> QED BY <1>4, <2>4 DEF APart, Reply
<1> QED BY <1>3, <1>4

\* Alice's answer to Charlie is always dropped.
LEMMA ReplyHandled ==
  ASSUME NEW t, NEW s, NEW c, NEW part, NEW status, NEW sent,
         PacketHandled(t, Reply(s, c), part, status, sent)
  PROVE  part = t.m_PeerTests[c][s[3]] /\ status = t.m_Status[c] /\ sent = {}
<1> DEFINE p == Reply(s, c)
<1>1. p.to = c /\ p.nonce = s[3] /\ p.about = PTNobody /\ p.port = TRUE
  BY DEF Reply, PTPacket
<1>2. PacketHandled(t, p, part, status, sent) OBVIOUS
<1> HIDE DEF p
<1> QED BY <1>1, <1>2 DEF PacketHandled, Outcome, Ignored

\* What a step with packet p leaves.
Takes(t, u, p, part, status, sent) ==
  /\ u.net = (t.net \ {p}) \cup sent
  /\ u.m_PeerTests[p.to][p.nonce] = part /\ u.m_Status[p.to] = status
  /\ \A x \in PTRouters, m \in PTNonces(t.case) :
       x # p.to \/ m # p.nonce => u.m_PeerTests[x][m] = t.m_PeerTests[x][m]
  /\ \A x \in PTRouters \ {p.to} : u.m_Status[x] = t.m_Status[x]
  /\ u.established = t.established /\ u.unstarted = t.unstarted
  /\ u.faults = t.faults /\ u.misread = t.misread /\ u.case = t.case

\* The packets of a test are different and are for whom they should be.
LEMMA OwnPackets ==
  ASSUME NEW t, NEW s, NEW c, Roles(t, s, c)
  PROVE  /\ Ask(s).to = s[2] /\ Forward(s, c).to = c /\ Report1(s, c).to = s[2]
         /\ Report2(s).to = s[1] /\ Call(s, c).to = s[1] /\ Reply(s, c).to = c
         /\ Forward(s, c) # Report1(s, c) /\ Forward(s, c) # Report2(s)
         /\ Forward(s, c) # Call(s, c) /\ Forward(s, c) # Reply(s, c)
         /\ Report1(s, c) # Report2(s) /\ Report1(s, c) # Call(s, c)
         /\ Report1(s, c) # Reply(s, c) /\ Report2(s) # Call(s, c)
         /\ Report2(s) # Reply(s, c) /\ Call(s, c) # Reply(s, c)
<1>1. /\ Ask(s).to = s[2] /\ Forward(s, c).to = c /\ Report1(s, c).to = s[2]
      /\ Report2(s).to = s[1] /\ Call(s, c).to = s[1] /\ Reply(s, c).to = c
  BY DEF Ask, Forward, Report1, Report2, Call, Reply, PTPacket
<1>2. /\ Forward(s, c).key = "session" /\ Report1(s, c).key = "session"
      /\ Report2(s).key = "session" /\ Call(s, c).key = s[1] /\ Reply(s, c).key = c
  BY DEF Forward, Report1, Report2, Call, Reply, PTPacket
<1>3. /\ s[1] # "session" /\ c # "session" /\ s[1] # s[2] /\ c # s[1] /\ c # s[2] BY DEF Roles
<1> QED BY <1>1, <1>2, <1>3

\* From the question to the test underway.
LEMMA AskedMovesOn ==
  ASSUME NEW t, PTTyped(t), NEW s, Undisturbed(t, s), Asked(t, s),
         NEW u, NEW part, NEW status, NEW sent,
         Takes(t, u, Ask(s), part, status, sent), PacketHandled(t, Ask(s), part, status, sent)
  PROVE  \E c \in PTPeers(t.case, s[2]) \ {s[1]} : Underway(u, s, c)
<1>1. /\ part = APart("Bob", s[1])
      /\ \E c \in PTPeers(t.case, s[2]) \ {s[1]} : sent = {Forward(s, c)}
  BY AskHandled
<1>2. PICK c \in PTPeers(t.case, s[2]) \ {s[1]} : sent = {Forward(s, c)} BY <1>1
<1>3. Roles(t, s, c) BY RolesAreTaken
<1> DEFINE p == Ask(s)
           F == Forward(s, c)
           f == t.m_PeerTests
           g == u.m_PeerTests
           n == s[3]
<1>4. /\ p.to = s[2] /\ p.nonce = n BY <1>3, OwnPackets, NoncesOfTest
<1>5. /\ F # Report1(s, c) /\ F # Report2(s) /\ F # Call(s, c) /\ F # Reply(s, c) /\ F.nonce = n
  BY <1>3, OwnPackets, NoncesOfTest
<1>6. \A q \in u.net : q.nonce = n => q = F BY <1>2 DEF Takes, Asked
<1>7. F \in u.net BY <1>2 DEF Takes
<1> HIDE DEF F
<1>8. /\ g[s[2]][n] = APart("Bob", s[1]) /\ g[s[1]][n] = f[s[1]][n] /\ g[c][n] = f[c][n]
  BY <1>1, <1>3, <1>4 DEF Takes, Roles
<1>9. g[s[1]][n].role = "Alice1" /\ g[c][n].role = "Unknown" BY <1>3, <1>8 DEF Asked, Roles
<1>10. Call(s, c) \notin u.net BY <1>5, <1>6, NoncesOfTest
<1> QED BY <1>6, <1>7, <1>8, <1>9, <1>10 DEF Underway, APart, F

\* A test underway stays underway with each of its packets.
LEMMA UnderwayMovesOn ==
  ASSUME NEW t, NEW s, NEW c, Roles(t, s, c), Underway(t, s, c),
         s[1] \in t.case.firewalled =>
           c \notin t.contacted[s[1]] /\ t.m_PeerTests[s[1]][s[3]].role # "Alice2",
         NEW p \in t.net, p.nonce = s[3], NEW u, NEW part, NEW status, NEW sent,
         Takes(t, u, p, part, status, sent), PacketHandled(t, p, part, status, sent)
  PROVE  Underway(u, s, c)
<1> DEFINE n == s[3]
           A == s[1]
           B == s[2]
           f == t.m_PeerTests
           g == u.m_PeerTests
           F == Forward(s, c)
           R1 == Report1(s, c)
           R2 == Report2(s)
           C == Call(s, c)
           R == Reply(s, c)
           Own == {F, R1, R2, C, R}
           Goal == Underway(u, s, c)
<1>1. /\ A \in PTRouters /\ B \in PTRouters /\ c \in PTRouters /\ A # B /\ c # A /\ c # B
      /\ n \in PTNonces(t.case)
  BY DEF Roles
<1>2. /\ F.to = c /\ R1.to = B /\ R2.to = A /\ C.to = A /\ R.to = c
      /\ F # R1 /\ F # R2 /\ F # C /\ F # R /\ R1 # R2 /\ R1 # C /\ R1 # R /\ R2 # C /\ R2 # R /\ C # R
      /\ F.nonce = n /\ R1.nonce = n /\ R2.nonce = n /\ C.nonce = n /\ R.nonce = n
  BY OwnPackets, NoncesOfTest
<1>3. /\ \A q \in t.net : q.nonce = n => q \in Own
      /\ F \in t.net =>
           /\ f[c][n].role = "Unknown" /\ f[A][n].role = "Alice1"
           /\ \A q \in t.net : q.nonce = n => q = F
      /\ F \notin t.net => f[c][n].role = "Charlie"
      /\ F \in t.net \/ R1 \in t.net => f[B][n] = [role |-> "Bob", session |-> A]
      /\ f[A][n].role \in {"Alice1", "Alice2"}
      /\ C \in t.net => f[A][n].role = "Alice1"
      /\ A \notin t.case.firewalled => F \in t.net \/ C \in t.net \/ t.m_Status[A] = "OK"
      /\ A \in t.case.firewalled => {F, R1, R2} \cap t.net # {} \/ t.m_Status[A] # "Testing"
  BY DEF Underway
<1>4. /\ u.net = (t.net \ {p}) \cup sent /\ u.case = t.case
      /\ g[p.to][n] = part /\ u.m_Status[p.to] = status
      /\ \A x \in PTRouters \ {p.to} : g[x][n] = f[x][n] /\ u.m_Status[x] = t.m_Status[x]
  BY <1>1 DEF Takes
<1>5. ASSUME /\ \A q \in u.net : q.nonce = n => q \in Own
             /\ F \notin u.net /\ g[c][n].role = "Charlie"
             /\ R1 \in u.net => g[B][n] = [role |-> "Bob", session |-> A]
             /\ g[A][n].role \in {"Alice1", "Alice2"}
             /\ C \in u.net => g[A][n].role = "Alice1"
             /\ A \notin t.case.firewalled => C \in u.net \/ u.m_Status[A] = "OK"
             /\ A \in t.case.firewalled => {R1, R2} \cap u.net # {} \/ u.m_Status[A] # "Testing"
      PROVE  Goal
  <2>1. {R1, R2} \cap u.net # {} => {F, R1, R2} \cap u.net # {} OBVIOUS
  <2> HIDE DEF F, R1, R2, C
  <2> QED BY <1>4, <1>5, <2>1 DEF Underway, F, R1, R2, C
<1>0. p \in t.net /\ p.nonce = n OBVIOUS
<1>6. A \in t.case.firewalled => c \notin t.contacted[A] /\ f[A][n].role # "Alice2" OBVIOUS
<1> SUFFICES Goal OBVIOUS
<1>7. p \in Own BY <1>3
<1> HIDE DEF Goal, F, R1, R2, C, R, f, g, A, B, n
<1>8. CASE p = F
  <2>1. part.role = "Charlie" /\ sent = {R1, C}
    BY <1>3, <1>8, ForwardHandled DEF F, R1, C, f, n
  <2>2. /\ \A q \in u.net : q.nonce = n => q \in {R1, C}
        /\ R1 \in u.net /\ C \in u.net
    BY <1>3, <1>4, <1>8, <2>1
  <2>3. /\ g[c][n].role = "Charlie" /\ g[A][n].role = "Alice1"
        /\ g[B][n] = [role |-> "Bob", session |-> A]
    BY <1>1, <1>2, <1>3, <1>4, <1>8, <2>1
  <2>4. F \notin u.net BY <1>2, <2>2
  <2> QED BY <1>5, <2>2, <2>3, <2>4
<1>9. ASSUME p # F PROVE F \notin t.net BY <1>0, <1>3, <1>9
<1>10. CASE p = R1
  <2>1. sent = {R2} BY <1>3, <1>10, Report1Handled DEF R1, R2, f, n, B, A
  <2>2. /\ F \notin t.net /\ F \notin u.net /\ R1 \notin u.net /\ R2 \in u.net
        /\ C \in u.net <=> C \in t.net
        /\ \A q \in u.net : q.nonce = n => q \in Own
    BY <1>2, <1>3, <1>4, <1>9, <1>10, <2>1
  <2>3. /\ g[c][n] = f[c][n] /\ g[A][n] = f[A][n] /\ u.m_Status[A] = t.m_Status[A]
    BY <1>1, <1>2, <1>4, <1>10
  <2> QED BY <1>3, <1>5, <2>2, <2>3
<1>11. CASE p = R2
  <2>1. /\ part = f[A][n] /\ sent = {}
        /\ t.m_Status[A] # "Testing" => status = t.m_Status[A]
        /\ A \in t.case.firewalled => status # "Testing"
    BY <1>3, <1>6, <1>11, Report2Handled DEF R2, f, n, A
  <2>2. /\ F \notin t.net /\ F \notin u.net
        /\ C \in u.net <=> C \in t.net
        /\ R1 \in u.net <=> R1 \in t.net
        /\ \A q \in u.net : q.nonce = n => q \in Own
    BY <1>2, <1>3, <1>4, <1>9, <1>11, <2>1
  <2>3. /\ g[c][n] = f[c][n] /\ g[A][n] = f[A][n] /\ g[B][n] = f[B][n] /\ u.m_Status[A] = status
    BY <1>1, <1>2, <1>4, <1>11, <2>1
  <2> QED BY <1>3, <1>5, <2>1, <2>2, <2>3
<1>12. CASE p = C
  <2>1. f[A][n].role = "Alice1" /\ F \notin t.net BY <1>2, <1>3, <1>9, <1>12
  <2>2. IF A \in t.case.firewalled
        THEN part = f[A][n] /\ status = t.m_Status[A] /\ sent = {}
        ELSE part.role = "Alice2" /\ status = "OK" /\ sent = {R}
    BY <1>6, <1>12, <2>1, CallHandled DEF C, R, f, n, A
  <2>3. /\ F \notin u.net /\ C \notin u.net
        /\ R1 \in u.net <=> R1 \in t.net
        /\ R2 \in u.net <=> R2 \in t.net
        /\ \A q \in u.net : q.nonce = n => q \in Own
    BY <1>2, <1>3, <1>4, <1>12, <2>1, <2>2
  <2>4. /\ g[c][n] = f[c][n] /\ g[B][n] = f[B][n] /\ g[A][n] = part /\ u.m_Status[A] = status
    BY <1>1, <1>2, <1>4, <1>12
  <2> QED BY <1>3, <1>5, <2>1, <2>2, <2>3, <2>4
<1>13. CASE p = R
  <2>1. part = f[c][n] /\ status = t.m_Status[c] /\ sent = {}
    BY <1>13, ReplyHandled DEF R, f, n
  <2>2. /\ F \notin t.net /\ F \notin u.net
        /\ C \in u.net <=> C \in t.net
        /\ R1 \in u.net <=> R1 \in t.net
        /\ R2 \in u.net <=> R2 \in t.net
        /\ \A q \in u.net : q.nonce = n => q \in Own
    BY <1>2, <1>3, <1>4, <1>9, <1>13, <2>1
  <2>3. /\ g[c][n] = f[c][n] /\ g[A][n] = f[A][n] /\ g[B][n] = f[B][n]
        /\ u.m_Status[A] = t.m_Status[A]
    BY <1>1, <1>2, <1>4, <1>13, <2>1
  <2> QED BY <1>3, <1>5, <2>2, <2>3
<1> QED BY <1>7, <1>8, <1>10, <1>11, <1>12, <1>13

\* A status never goes back.
LEMMA StatusIsKept ==
  ASSUME NEW t, NEW p, NEW part, NEW status, NEW sent, PacketHandled(t, p, part, status, sent)
  PROVE  /\ t.m_Status[p.to] = "OK" => status = "OK"
         /\ t.m_Status[p.to] # "Testing" => status # "Testing"
BY DEF PacketHandled, Outcome, Ignored, Reported, Called, CalledAgain, BobReports, CharlieCalls,
       BecomesCharlie, BecomesBob

\* A packet of any test keeps an undisturbed test on its way.
LEMMA TrackHandled ==
  ASSUME NEW t, PTTyped(t), NEW s \in t.case.starts, PTShut(t, s[1]), PTTrack(t, s),
         NEW p \in t.net, NEW u, NEW part, NEW status, NEW sent, \A q \in sent : q.nonce = p.nonce,
         Takes(t, u, p, part, status, sent), PacketHandled(t, p, part, status, sent)
  PROVE  PTTrack(u, s)
<1>1. s[1] \in PTRouters /\ s[2] \in PTRouters /\ s[3] \in PTNonces(t.case)
  BY PTNames DEF PTTyped
<1>2. /\ u.case = t.case /\ u.established = t.established /\ u.faults = t.faults
      /\ u.misread = t.misread
      /\ u.unstarted = t.unstarted
  BY DEF Takes
<1>3. CASE p.nonce # s[3]
  <2>1. SameTest(t, u, s) BY <1>1, <1>3 DEF SameTest, Takes
  <2>2. StatusKept(t, u, s)
    <3>1. CASE p.to = s[1] BY <3>1, StatusIsKept DEF StatusKept, Takes
    <3>2. CASE p.to # s[1] BY <1>1, <3>2 DEF StatusKept, Takes
    <3> QED BY <3>1, <3>2
  <2> QED BY <1>1, <1>2, <2>1, <2>2, OtherTest
<1>4. CASE p.nonce = s[3]
  <2> SUFFICES ASSUME Undisturbed(u, s)
               PROVE  \E c \in PTPeers(u.case, s[2]) \ {s[1]} : Underway(u, s, c)
    BY DEF PTTrack
  <2>1. Undisturbed(t, s) BY <1>2 DEF Undisturbed
  <2>2. CASE Asked(t, s)
    <3>1. p = Ask(s) BY <1>4, <2>2 DEF Asked
    <3> QED BY <1>2, <2>1, <2>2, <3>1, AskedMovesOn
  <2>3. ASSUME NEW c \in PTPeers(t.case, s[2]) \ {s[1]}, Underway(t, s, c)
        PROVE  Underway(u, s, c)
    <3>1. Roles(t, s, c) BY <2>1, RolesAreTaken
    <3>2. ASSUME s[1] \in t.case.firewalled
          PROVE  c \notin t.contacted[s[1]] /\ t.m_PeerTests[s[1]][s[3]].role # "Alice2"
      <4>1. t.established[s[1]] = PTPeers(t.case, s[1]) BY <1>1, <2>1 DEF PTTyped, Undisturbed
      <4>2. PTQuiet(t, s[1]) BY <2>1, <3>2, <4>1 DEF PTQuiet, Undisturbed
      <4>3. /\ t.contacted[s[1]] \subseteq Near(t, s[1])
            /\ \A n \in PTNonces(t.case) : t.m_PeerTests[s[1]][n].role # "Alice2"
        BY <4>2 DEF PTShut
      <4>4. c \notin Near(t, s[1]) BY <3>1, <4>1 DEF Near, Roles
      <4> QED BY <1>1, <4>3, <4>4
    <3> QED BY <1>4, <2>3, <3>1, <3>2, UnderwayMovesOn
  <2> QED BY <1>2, <2>1, <2>2, <2>3 DEF PTTrack
<1> QED BY <1>3, <1>4
-----------------------------------------------------------------------------
(***************************************************************************)
(* The steps.                                                              *)
(***************************************************************************)
\* A packet is taken off the network.
Without(t, p) == [t EXCEPT !.net = @ \ {p}]

\* Types and firewalls do not depend on one packet.
LEMMA WithoutPacket ==
  ASSUME NEW t, PTTyped(t), NEW p
  PROVE  LET v == Without(t, p) IN
         /\ v.net = t.net \ {p} /\ v.m_PeerTests = t.m_PeerTests /\ v.m_Status = t.m_Status
         /\ v.contacted = t.contacted /\ v.established = t.established
         /\ v.unstarted = t.unstarted /\ v.faults = t.faults /\ v.misread = t.misread
         /\ v.case = t.case
         /\ PTTyped(v) /\ \A r \in PTRouters : PTShut(t, r) => PTShut(v, r)
<1> DEFINE v == Without(t, p)
<1>1. /\ v.net = t.net \ {p} /\ v.m_PeerTests = t.m_PeerTests /\ v.m_Status = t.m_Status
      /\ v.contacted = t.contacted /\ v.established = t.established
      /\ v.unstarted = t.unstarted /\ v.faults = t.faults /\ v.misread = t.misread
      /\ v.case = t.case /\ PTShape(v)
  BY DEF Without, PTTyped, TestState, PTShape
<1> HIDE DEF v
<1>2. PTTyped(v)
  <2>1. TestState(v.case, v) BY <1>1 DEF PTTyped, TestState
  <2>2. \A r \in PTRouters :
          /\ v.established[r] \subseteq PTPeers(v.case, r)
          /\ v.faults = v.case.faults => v.established[r] = PTPeers(v.case, r)
          /\ PTPeers(v.case, r) \subseteq v.contacted[r]
          /\ \A n \in PTNonces(v.case) :
               v.m_PeerTests[r][n].role = "Bob" => v.m_PeerTests[r][n].session \in PTRouters
    BY <1>1 DEF PTTyped
  <2>3. \A s \in v.unstarted :
          /\ \A r \in PTRouters : v.m_PeerTests[r][s[3]] = NoPart
          /\ \A q \in v.net : q.nonce # s[3]
    BY <1>1 DEF PTTyped
  <2> QED BY <1>1, <2>1, <2>2, <2>3 DEF PTTyped
<1>3. ASSUME NEW r \in PTRouters, PTShut(t, r) PROVE PTShut(v, r)
  <2>1. Near(v, r) = Near(t, r) BY <1>1 DEF Near
  <2>2. PTQuiet(v, r) <=> PTQuiet(t, r) BY <1>1 DEF PTQuiet
  <2>3. \A x, part : BobIsNear(t, r, x, part) => BobIsNear(v, r, x, part) BY <1>1 DEF BobIsNear
  <2>4. \A q : PacketIsNear(t, r, q) => PacketIsNear(v, r, q) BY <1>1, <2>1 DEF PacketIsNear
  <2> QED BY <1>1, <1>3, <2>1, <2>2, <2>3, <2>4 DEF PTShut
<1> QED BY <1>1, <1>2, <1>3 DEF v

\* The outcome does not depend on the network.
LEMMA OutcomeSame ==
  ASSUME NEW t, NEW v, v.m_PeerTests = t.m_PeerTests, v.m_Status = t.m_Status,
         v.established = t.established,
         NEW r, NEW p, NEW up, NEW part, NEW status, NEW sent, NEW to,
         Outcome(v, r, p, up, part, status, sent, to)
  PROVE  Outcome(t, r, p, up, part, status, sent, to)
<1>1. /\ Ignored(v, r, p, up, part, status, sent, to) => Ignored(t, r, p, up, part, status, sent, to)
      /\ Reported(v, r, p, up, part, status, sent, to) => Reported(t, r, p, up, part, status, sent, to)
  BY DEF Ignored, Reported
<1>2. /\ Called(v, r, p, up, part, status, sent, to) => Called(t, r, p, up, part, status, sent, to)
      /\ CalledAgain(v, r, p, up, part, status, sent, to)
           => CalledAgain(t, r, p, up, part, status, sent, to)
  BY DEF Called, CalledAgain
<1>3. BobReports(v, r, p, up, part, status, sent, to)
        => BobReports(t, r, p, up, part, status, sent, to)
  BY DEF BobReports
<1>4. CharlieCalls(v, r, p, up, part, status, sent, to)
        => CharlieCalls(t, r, p, up, part, status, sent, to)
  BY DEF CharlieCalls
<1>5. BecomesCharlie(v, r, p, up, part, status, sent, to)
        => BecomesCharlie(t, r, p, up, part, status, sent, to)
  BY DEF BecomesCharlie
<1>6. BecomesBob(v, r, p, up, part, status, sent, to)
        => BecomesBob(t, r, p, up, part, status, sent, to)
  BY DEF BecomesBob
<1> QED BY <1>1, <1>2, <1>3, <1>4, <1>5, <1>6 DEF Outcome

\* A packet is processed: what that does to types and firewalls.
LEMMA ProcessGood ==
  ASSUME NEW t, PTTyped(t), \A r \in PTRouters : PTShut(t, r), NEW p \in t.net,
         NEW v, v = t \/ v = Without(t, p),
         GetsThrough(t, p), NEW u \in ProcessPeerTest(v, p.to, p, p.from \in v.established[p.to])
  PROVE  /\ PTTyped(u) /\ \A r \in PTRouters : PTShut(u, r)
         /\ u.case = t.case /\ u.faults = t.faults /\ u.misread = t.misread
         /\ v = Without(t, p) =>
              \E part, status, sent :
                /\ \A q \in sent : q.nonce = p.nonce
                /\ Takes(t, u, p, part, status, sent) /\ PacketHandled(t, p, part, status, sent)
<1> DEFINE up == p.from \in v.established[p.to]
           k == t.case
           x == p.to
           n == p.nonce
<1>1. /\ v = Without(t, p) => v.net = t.net \ {p}
      /\ v.net \subseteq t.net /\ v.m_PeerTests = t.m_PeerTests /\ v.m_Status = t.m_Status
      /\ v.contacted = t.contacted /\ v.established = t.established
      /\ v.unstarted = t.unstarted /\ v.faults = t.faults /\ v.misread = t.misread
      /\ v.case = t.case
      /\ PTTyped(v) /\ \A r \in PTRouters : PTShut(v, r)
  BY WithoutPacket
<1>2. /\ p \in PTPackets(k) /\ TestState(k, v) /\ v.net \subseteq PTPackets(k)
  BY <1>1 DEF PTTyped, TestState
<1>3. x \in PTRouters /\ n \in PTNonces(k) /\ up \in BOOLEAN BY <1>2 DEF PTPackets
<1> HIDE DEF up
<1>4. u \in ProcessPeerTest(v, x, p, up) BY DEF up
<1>5. PICK part, status, sent, to :
        /\ Does(v, u, x, n, part, status, sent, to) /\ Outcome(v, x, p, up, part, status, sent, to)
  BY <1>2, <1>3, <1>4, ProcessDoes
<1>6. Fits(k, v, n, part, status, sent, to) BY <1>1, <1>2, <1>3, <1>5, OutcomeFits
<1>7. \A s \in v.unstarted : s[3] # n BY <1>1 DEF PTTyped
<1>8. PTTyped(u) BY <1>1, <1>3, <1>5, <1>6, <1>7, DoesTyped
<1>9. Heard(v, p, up) BY <1>1, <1>2, <1>3 DEF Heard, GetsThrough, up
<1>10. ASSUME NEW r \in PTRouters PROVE PTShut(u, r)
  <2>1. PTQuiet(v, r) => StaysShut(v, r, x, n, part, status, sent, to)
    <3> SUFFICES ASSUME PTQuiet(v, r) PROVE StaysShut(v, r, x, n, part, status, sent, to)
      OBVIOUS
    <3>1. PTShut(v, r) BY <1>1
    <3>2. PacketIsNear(v, r, p)
      <4>1. PTQuiet(t, r) BY <1>1 DEF PTQuiet
      <4>2. PacketIsNear(t, r, p) BY <4>1 DEF PTShut
      <4> QED BY <1>1, <4>2 DEF PacketIsNear, Near
    <3> QED BY <1>1, <1>5, <1>9, <3>1, <3>2, OutcomeShut
  <2>2. sent \subseteq PTPackets(k) BY <1>6 DEF Fits
  <2> QED BY <1>1, <1>2, <1>3, <1>5, <2>1, <2>2, DoesShut
<1>11. u.case = t.case /\ u.faults = t.faults /\ u.misread = t.misread BY <1>1, <1>5 DEF Does
<1>12. ASSUME v = Without(t, p)
       PROVE  /\ \A q \in sent : q.nonce = n
              /\ Takes(t, u, p, part, status, sent) /\ PacketHandled(t, p, part, status, sent)
  <2>1. After(v, u, x, n, part, status, to) BY <1>1, <1>3, <1>5, AfterDoes
  <2>2. /\ u.net = (t.net \ {p}) \cup sent /\ u.established = t.established
        /\ u.unstarted = t.unstarted
    BY <1>1, <1>5, <1>12 DEF Does
  <2>3. Takes(t, u, p, part, status, sent) BY <1>1, <1>11, <2>1, <2>2 DEF After, Takes
  <2>4. Outcome(t, x, p, up, part, status, sent, to)
    <3>1. /\ v.m_PeerTests = t.m_PeerTests /\ v.m_Status = t.m_Status
          /\ v.established = t.established
      BY <1>1
    <3> QED BY <1>5, <3>1, OutcomeSame
  <2>5. PacketHandled(t, p, part, status, sent) BY <1>1, <2>4 DEF PacketHandled, up
  <2> QED BY <1>6, <2>3, <2>5 DEF Fits
<1> QED BY <1>8, <1>10, <1>11, <1>12

\* A fault disturbs every test.
LEMMA FaultDone ==
  ASSUME NEW w, PTTyped(w), \A r \in PTRouters : PTShut(w, r), w.faults > 0,
         NEW u, u = [w EXCEPT !.faults = @ - 1]
  PROVE  PTGood(u)
<1>1. /\ u.m_PeerTests = w.m_PeerTests /\ u.m_Status = w.m_Status /\ u.contacted = w.contacted
      /\ u.established = w.established /\ u.net = w.net /\ u.unstarted = w.unstarted
      /\ u.case = w.case /\ u.faults = w.faults - 1 /\ u.misread = w.misread /\ PTShape(u)
  BY DEF PTTyped, TestState, PTShape
<1>2. w.case.faults \in Nat /\ w.faults \in 0 .. w.case.faults
  BY PeerTestAssumption DEF PTTyped, TestState
<1>3. u.faults \in 0 .. w.case.faults /\ u.faults # w.case.faults BY <1>1, <1>2
<1> HIDE DEF PTShape
<1>4. PTTyped(u)
  <2>1. TestState(u.case, u) BY <1>1, <1>3 DEF PTTyped, TestState
  <2>2. \A r \in PTRouters :
          /\ u.established[r] \subseteq PTPeers(u.case, r)
          /\ u.faults = u.case.faults => u.established[r] = PTPeers(u.case, r)
          /\ PTPeers(u.case, r) \subseteq u.contacted[r]
          /\ \A n \in PTNonces(u.case) :
               u.m_PeerTests[r][n].role = "Bob" => u.m_PeerTests[r][n].session \in PTRouters
    BY <1>1, <1>3 DEF PTTyped
  <2>3. \A s \in u.unstarted :
          /\ \A r \in PTRouters : u.m_PeerTests[r][s[3]] = NoPart
          /\ \A q \in u.net : q.nonce # s[3]
    BY <1>1 DEF PTTyped
  <2> QED BY <1>1, <2>1, <2>2, <2>3 DEF PTTyped
<1>5. ASSUME NEW r \in PTRouters PROVE PTShut(u, r)
  <2>1. Near(u, r) = Near(w, r) BY <1>1 DEF Near
  <2>2. PTQuiet(u, r) <=> PTQuiet(w, r) BY <1>1 DEF PTQuiet
  <2>3. \A x, part : BobIsNear(w, r, x, part) => BobIsNear(u, r, x, part) BY <1>1 DEF BobIsNear
  <2>4. \A q : PacketIsNear(w, r, q) => PacketIsNear(u, r, q) BY <1>1, <2>1 DEF PacketIsNear
  <2> QED BY <1>1, <2>1, <2>2, <2>3, <2>4 DEF PTShut
<1>6. \A s \in u.case.starts : PTTrack(u, s) BY <1>1, <1>3 DEF PTTrack, Undisturbed
<1> QED BY <1>4, <1>5, <1>6 DEF PTGood

\* A packet that is given to another session leaves its test to chance.
LEMMA Misread ==
  ASSUME NEW w, PTTyped(w), \A r \in PTRouters : PTShut(w, r), NEW n \in PTNonces(w.case),
         NEW u, u = [w EXCEPT !.misread = @ \cup {n}]
  PROVE  /\ PTTyped(u) /\ \A r \in PTRouters : PTShut(u, r)
         /\ u.misread = w.misread \cup {n} /\ u.m_PeerTests = w.m_PeerTests
         /\ u.m_Status = w.m_Status /\ u.established = w.established /\ u.net = w.net
         /\ u.unstarted = w.unstarted /\ u.case = w.case /\ u.faults = w.faults
<1>1. /\ u.m_PeerTests = w.m_PeerTests /\ u.m_Status = w.m_Status /\ u.contacted = w.contacted
      /\ u.established = w.established /\ u.net = w.net /\ u.unstarted = w.unstarted
      /\ u.case = w.case /\ u.faults = w.faults /\ u.misread = w.misread \cup {n} /\ PTShape(u)
  BY DEF PTTyped, TestState, PTShape
<1> HIDE DEF PTShape
<1>2. PTTyped(u)
  <2>1. TestState(u.case, u) BY <1>1 DEF PTTyped, TestState
  <2>2. \A r \in PTRouters :
          /\ u.established[r] \subseteq PTPeers(u.case, r)
          /\ u.faults = u.case.faults => u.established[r] = PTPeers(u.case, r)
          /\ PTPeers(u.case, r) \subseteq u.contacted[r]
          /\ \A m \in PTNonces(u.case) :
               u.m_PeerTests[r][m].role = "Bob" => u.m_PeerTests[r][m].session \in PTRouters
    BY <1>1 DEF PTTyped
  <2>3. \A s \in u.unstarted :
          /\ \A r \in PTRouters : u.m_PeerTests[r][s[3]] = NoPart
          /\ \A q \in u.net : q.nonce # s[3]
    BY <1>1 DEF PTTyped
  <2> QED BY <1>1, <2>1, <2>2, <2>3 DEF PTTyped
<1>3. ASSUME NEW r \in PTRouters PROVE PTShut(u, r)
  <2>1. Near(u, r) = Near(w, r) BY <1>1 DEF Near
  <2>2. PTQuiet(u, r) <=> PTQuiet(w, r) BY <1>1 DEF PTQuiet
  <2>3. \A x, part : BobIsNear(w, r, x, part) => BobIsNear(u, r, x, part) BY <1>1 DEF BobIsNear
  <2>4. \A q : PacketIsNear(w, r, q) => PacketIsNear(u, r, q) BY <1>1, <2>1 DEF PacketIsNear
  <2> QED BY <1>1, <2>1, <2>2, <2>3, <2>4 DEF PTShut
<1> QED BY <1>1, <1>2, <1>3

\* ReceivePeerTest keeps the invariant.
LEMMA ReceiveGood ==
  ASSUME PTInv, NEW p \in tests.net, ReceivePeerTest(p)
  PROVE  PTInv'
<1> DEFINE t == tests
           u == tests'
           v == Without(t, p)
<1>1. PTTyped(t) /\ (\A r \in PTRouters : PTShut(t, r)) /\ \A s \in t.case.starts : PTTrack(t, s)
  BY DEF PTInv, PTGood
<1>2. Passes(p) <=> GetsThrough(t, p) BY DEF Passes, GetsThrough
<1>3. CASE GetsThrough(t, p) /\ u \in ProcessPeerTest(v, p.to, p, p.from \in v.established[p.to])
  <2>1. u \in ProcessPeerTest(v, p.to, p, p.from \in v.established[p.to])
    BY <1>3
  <2> HIDE DEF u, t
  <2>2. /\ PTTyped(u) /\ \A r \in PTRouters : PTShut(u, r)
        /\ u.case = t.case
        /\ v = Without(t, p) =>
             \E part, status, sent :
               /\ \A q \in sent : q.nonce = p.nonce
               /\ Takes(t, u, p, part, status, sent) /\ PacketHandled(t, p, part, status, sent)
    <3>1. p \in t.net BY DEF t
    <3> HIDE DEF v
    <3> QED BY <1>1, <1>3, <2>1, <3>1, ProcessGood DEF v
  <2>3. PICK part, status, sent :
          /\ \A q \in sent : q.nonce = p.nonce
          /\ Takes(t, u, p, part, status, sent) /\ PacketHandled(t, p, part, status, sent)
    BY <2>2
  <2>4. ASSUME NEW s \in t.case.starts PROVE PTTrack(u, s)
    <3>1. s[1] \in PTRouters BY <1>1, PTNames DEF PTTyped
    <3>2. p \in t.net BY DEF t
    <3> QED BY <1>1, <2>3, <3>1, <3>2, TrackHandled
  <2> QED BY <2>2, <2>4 DEF PTInv, PTGood, u
<1>4. CASE ~GetsThrough(t, p) /\ u = v
  <2>1. u = v BY <1>4
  <2>2. p \in t.net OBVIOUS
  <2> HIDE DEF u, t
  <2>3. /\ v.net = t.net \ {p} /\ v.m_PeerTests = t.m_PeerTests /\ v.m_Status = t.m_Status
        /\ v.contacted = t.contacted /\ v.established = t.established
        /\ v.unstarted = t.unstarted /\ v.faults = t.faults /\ v.misread = t.misread
        /\ v.case = t.case
        /\ PTTyped(v) /\ \A r \in PTRouters : PTShut(t, r) => PTShut(v, r)
    BY <1>1, WithoutPacket
  <2> HIDE DEF v
  <2> DEFINE part == t.m_PeerTests[p.to][p.nonce]
             status == t.m_Status[p.to]
  <2>4. Takes(t, v, p, part, status, {}) BY <2>3 DEF Takes
  <2>5. PacketHandled(t, p, part, status, {}) BY <1>4 DEF PacketHandled
  <2> HIDE DEF part, status
  <2>6. ASSUME NEW s \in t.case.starts PROVE PTTrack(v, s)
    <3>1. s[1] \in PTRouters BY <1>1, PTNames DEF PTTyped
    <3>2. \A q \in {} : q.nonce = p.nonce OBVIOUS
    <3> QED BY <1>1, <2>2, <2>4, <2>5, <3>1, <3>2, TrackHandled
  <2>7. PTGood(v) BY <1>1, <2>3, <2>6 DEF PTGood
  <2> QED BY <2>1, <2>7 DEF PTInv, u
<1>5. CASE u = [v EXCEPT !.misread = @ \cup {p.nonce}]
  <2>1. p \in t.net /\ p.nonce \in PTNonces(t.case) BY <1>1 DEF PTTyped, TestState, PTPackets
  <2> HIDE DEF t, u
  <2>2. /\ v.net = t.net \ {p} /\ v.m_PeerTests = t.m_PeerTests /\ v.m_Status = t.m_Status
        /\ v.established = t.established /\ v.unstarted = t.unstarted /\ v.faults = t.faults
        /\ v.misread = t.misread /\ v.case = t.case
        /\ PTTyped(v) /\ \A r \in PTRouters : PTShut(v, r)
    BY <1>1, WithoutPacket
  <2> HIDE DEF v
  <2>3. /\ PTTyped(u) /\ \A r \in PTRouters : PTShut(u, r)
        /\ u.misread = v.misread \cup {p.nonce} /\ u.m_PeerTests = v.m_PeerTests
        /\ u.m_Status = v.m_Status /\ u.established = v.established /\ u.net = v.net
        /\ u.unstarted = v.unstarted /\ u.case = v.case /\ u.faults = v.faults
    BY <1>5, <2>1, <2>2, Misread
  <2>4. ASSUME NEW s \in t.case.starts PROVE PTTrack(u, s)
    <3>1. s[1] \in PTRouters /\ s[2] \in PTRouters BY <1>1, PTNames DEF PTTyped
    <3>2. CASE s[3] = p.nonce BY <2>3, <3>2 DEF PTTrack, Undisturbed
    <3>3. CASE s[3] # p.nonce
      <4>1. SameTest(t, u, s) BY <2>2, <2>3, <3>3 DEF SameTest
      <4>2. StatusKept(t, u, s) BY <2>2, <2>3 DEF StatusKept
      <4> QED BY <1>1, <2>2, <2>3, <3>1, <4>1, <4>2, OtherTest
    <3> QED BY <3>2, <3>3
  <2> QED BY <2>2, <2>3, <2>4 DEF PTInv, PTGood, u
<1>6. \/ GetsThrough(t, p) /\ u \in ProcessPeerTest(v, p.to, p, p.from \in v.established[p.to])
      \/ ~GetsThrough(t, p) /\ u = v
      \/ u = [v EXCEPT !.misread = @ \cup {p.nonce}]
  BY <1>2 DEF ReceivePeerTest, Without
<1> QED BY <1>3, <1>4, <1>5, <1>6

\* So does a packet that comes twice,
LEMMA RepeatGood ==
  ASSUME PTInv, NEW p \in tests.net, RepeatPacket(p)
  PROVE  PTInv'
<1>1. PTTyped(tests) /\ \A r \in PTRouters : PTShut(tests, r) BY DEF PTInv, PTGood
<1>2. GetsThrough(tests, p) /\ tests.faults > 0 BY DEF RepeatPacket, Passes, GetsThrough
<1>3. PICK w \in ProcessPeerTest(tests, p.to, p, p.from \in tests.established[p.to]) :
        tests' = [w EXCEPT !.faults = @ - 1]
  BY DEF RepeatPacket
<1>4. /\ PTTyped(w) /\ \A r \in PTRouters : PTShut(w, r)
      /\ w.case = tests.case /\ w.faults = tests.faults /\ w.misread = tests.misread
  <2> DEFINE t == tests
             up == p.from \in t.established[p.to]
  <2>1. p \in t.net /\ w \in ProcessPeerTest(t, p.to, p, p.from \in t.established[p.to])
    BY <1>3
  <2> HIDE DEF t
  <2> QED BY <1>1, <1>2, <2>1, ProcessGood DEF t
<1>5. PTGood(tests') BY <1>2, <1>3, <1>4, FaultDone
<1> QED BY <1>5 DEF PTInv

\* or never,
LEMMA LoseGood ==
  ASSUME PTInv, NEW p \in tests.net, LosePacket(p)
  PROVE  PTInv'
<1> DEFINE w == Without(tests, p)
<1>1. PTTyped(tests) /\ \A r \in PTRouters : PTShut(tests, r) BY DEF PTInv, PTGood
<1>2. tests.faults > 0 /\ tests' = [w EXCEPT !.faults = @ - 1]
  BY DEF LosePacket, Fault, Without
<1>3. PTTyped(w) /\ (\A r \in PTRouters : PTShut(w, r)) /\ w.faults = tests.faults
                 /\ w.misread = tests.misread
  BY <1>1, WithoutPacket
<1> HIDE DEF w
<1>4. PTGood(tests') BY <1>2, <1>3, FaultDone
<1> QED BY <1>4 DEF PTInv

\* and a part that the cleanup timer removes.
LEMMA CleanupGood ==
  ASSUME PTInv, NEW r \in PTRouters, NEW n \in PTNonces(tests.case), HandlePeerTestsCleanupTimer(r, n)
  PROVE  PTInv'
<1> DEFINE t == tests
           w == RemovePeerTest(t, r, n)
           st == t.m_Status[r]
<1>1. PTTyped(t) /\ \A x \in PTRouters : PTShut(t, x) BY DEF PTInv, PTGood
<1>2. t.faults > 0 /\ tests' = [w EXCEPT !.faults = @ - 1] /\ t.m_PeerTests[r][n] # NoPart
  BY DEF HandlePeerTestsCleanupTimer, Fault
<1>3. TestState(t.case, t) /\ t.net \subseteq PTPackets(t.case) BY <1>1 DEF PTTyped, TestState
<1>4. n \in PTNonces(t.case) OBVIOUS
<1> HIDE DEF t
<1>5. Does(t, w, r, n, NoPart, st, {}, {})
  <2>1. Does(t, t, r, n, t.m_PeerTests[r][n], st, {}, {}) BY <1>3, <1>4, NothingDone
  <2>2. Does(t, SetPart(t, r, n, "Unknown", PTNobody), r, n, APart("Unknown", PTNobody), st, {}, {})
    BY <1>3, <1>4, <2>1, SetPartDoes
  <2> QED BY <2>2 DEF RemovePeerTest, APart, NoPart
<1>6. st \in {"Testing", "OK", "Firewalled"} BY <1>1, <1>4, OldPart
<1>7. Fits(t.case, t, n, NoPart, st, {}, {}) BY <1>6 DEF Fits, NoPart, Part
<1>8. \A s \in t.unstarted : s[3] # n BY <1>1, <1>2 DEF PTTyped
<1> HIDE DEF w
<1>9. PTTyped(w) BY <1>1, <1>4, <1>5, <1>7, <1>8, DoesTyped
<1>10. ASSUME NEW x \in PTRouters PROVE PTShut(w, x)
  <2>1. PTQuiet(t, x) => StaysShut(t, x, r, n, NoPart, st, {}, {})
    BY <1>1 DEF PTShut, StaysShut, BobIsNear, NoPart
  <2> QED BY <1>1, <1>3, <1>4, <1>5, <2>1, DoesShut
<1>11. w.faults = t.faults /\ w.misread = t.misread BY <1>5 DEF Does
<1>12. PTGood(tests') BY <1>2, <1>9, <1>10, <1>11, FaultDone
<1> QED BY <1>12 DEF PTInv

\* A session that is closed leaves its router quiet no longer.
LEMMA CloseGood ==
  ASSUME PTInv, NEW r \in PTRouters, NEW q \in PTRouters, CloseSSU(r, q)
  PROVE  PTInv'
<1> DEFINE t == tests
           u == tests'
           k == t.case
<1>1. PTTyped(t) /\ \A x \in PTRouters : PTShut(t, x) BY DEF PTInv, PTGood
<1>2. /\ u.m_PeerTests = t.m_PeerTests /\ u.m_Status = t.m_Status /\ u.contacted = t.contacted
      /\ u.established = [t.established EXCEPT ![r] = @ \ {q}] /\ u.net = t.net
      /\ u.unstarted = t.unstarted /\ u.case = t.case /\ u.faults = t.faults - 1
      /\ u.misread = t.misread /\ PTShape(u)
      /\ t.faults > 0 /\ q \in t.established[r]
  <2>1. PTShape(t) BY <1>1 DEF PTTyped, TestState
  <2>2. /\ t.faults > 0 /\ q \in t.established[r]
        /\ u = [[t EXCEPT !.established[r] = @ \ {q}] EXCEPT !.faults = @ - 1]
    BY DEF CloseSSU, Fault
  <2> HIDE DEF t, u
  <2> QED BY <2>1, <2>2 DEF PTShape
<1> HIDE DEF t, u
<1>3. t.faults \in 0 .. k.faults /\ k.faults \in Nat
  BY <1>1, PeerTestAssumption DEF PTTyped, TestState
<1>4. u.faults \in 0 .. k.faults /\ u.faults # k.faults BY <1>2, <1>3
<1>5. /\ t.established \in [PTRouters -> SUBSET PTRouters]
      /\ \A x \in PTRouters : t.established[x] \subseteq PTPeers(k, x)
  BY <1>1 DEF PTTyped, TestState
<1>6. /\ u.established \in [PTRouters -> SUBSET PTRouters]
      /\ u.established[r] = t.established[r] \ {q}
      /\ \A x \in PTRouters \ {r} : u.established[x] = t.established[x]
  BY <1>2, <1>5
<1>7. \A x \in PTRouters : u.established[x] \subseteq t.established[x] BY <1>6
<1> HIDE DEF PTShape
<1>8. PTTyped(u)
  <2>1. TestState(u.case, u) BY <1>1, <1>2, <1>4, <1>6 DEF PTTyped, TestState
  <2>2. \A x \in PTRouters :
          /\ u.established[x] \subseteq PTPeers(u.case, x)
          /\ u.faults = u.case.faults => u.established[x] = PTPeers(u.case, x)
          /\ PTPeers(u.case, x) \subseteq u.contacted[x]
          /\ \A n \in PTNonces(u.case) :
               u.m_PeerTests[x][n].role = "Bob" => u.m_PeerTests[x][n].session \in PTRouters
    BY <1>1, <1>2, <1>4, <1>5, <1>7 DEF PTTyped
  <2>3. \A s \in u.unstarted :
          /\ \A x \in PTRouters : u.m_PeerTests[x][s[3]] = NoPart
          /\ \A p \in u.net : p.nonce # s[3]
    BY <1>1, <1>2 DEF PTTyped
  <2> QED BY <1>1, <1>2, <2>1, <2>2, <2>3 DEF PTTyped
<1>9. ASSUME NEW x \in PTRouters PROVE PTShut(u, x)
  <2>1. PTQuiet(u, x) => PTQuiet(t, x)
    <3> SUFFICES ASSUME PTQuiet(u, x) PROVE PTQuiet(t, x) OBVIOUS
    <3>1. u.established[x] = PTPeers(k, x) BY <1>2 DEF PTQuiet
    <3>2. t.established[x] = PTPeers(k, x) BY <1>5, <1>7, <3>1
    <3> QED BY <1>2, <3>2 DEF PTQuiet
  <2>2. Near(u, x) = Near(t, x) BY <1>2 DEF Near
  <2>3. \A y, part : BobIsNear(t, x, y, part) => BobIsNear(u, x, y, part) BY <1>2 DEF BobIsNear
  <2>4. \A p : PacketIsNear(t, x, p) => PacketIsNear(u, x, p) BY <1>2, <2>2 DEF PacketIsNear
  <2> QED BY <1>1, <1>2, <2>1, <2>2, <2>3, <2>4 DEF PTShut
<1>10. \A s \in u.case.starts : PTTrack(u, s) BY <1>2, <1>4 DEF PTTrack, Undisturbed
<1> QED BY <1>8, <1>9, <1>10 DEF PTInv, PTGood, u

\* SendPeerTest begins a test with a nonce that nobody has met.
LEMMA StartGood ==
  ASSUME PTInv, NEW s \in tests.unstarted, StartPeerTest(s)
  PROVE  PTInv'
<1> DEFINE t == tests
           u == tests'
           k == t.case
           v == [t EXCEPT !.unstarted = @ \ {s}]
           A == s[1]
           B == s[2]
           n == s[3]
           part == APart("Alice1", PTNobody)
           st == t.m_Status[A]
           sent == {Ask(s)}
<1>1. /\ PTTyped(t) /\ (\A x \in PTRouters : PTShut(t, x))
      /\ \A x \in k.starts : PTTrack(t, x)
  BY DEF PTInv, PTGood
<1>2. /\ B \in t.established[A] /\ s \in t.unstarted
      /\ u = SendTo(SetPart(v, A, n, "Alice1", PTNobody), A, B, n, "session", PTNobody, FALSE, A)
  BY DEF StartPeerTest
<1> HIDE DEF t, u
<1>3. /\ v.m_PeerTests = t.m_PeerTests /\ v.m_Status = t.m_Status /\ v.contacted = t.contacted
      /\ v.established = t.established /\ v.net = t.net /\ v.unstarted = t.unstarted \ {s}
      /\ v.case = t.case /\ v.faults = t.faults /\ v.misread = t.misread /\ PTShape(v)
  BY <1>1 DEF PTTyped, TestState, PTShape
<1> HIDE DEF v
<1>4. /\ k \in PTCases /\ s \in k.starts /\ A \in PTRouters /\ B \in PTRouters /\ n \in PTNonces(k)
      /\ PTNobody \notin PTRouters /\ "session" \notin PTRouters
      /\ \A q \in k.starts : q[3] = n => q = s
      /\ t.unstarted \subseteq k.starts
      /\ \A x \in PTRouters : x \notin PTPeers(k, x)
  <2>1. k \in PTCases /\ t.unstarted \subseteq k.starts BY <1>1 DEF PTTyped, TestState
  <2>2. s \in k.starts BY <1>2, <2>1
  <2> QED BY <2>1, <2>2, PTNames
<1>5. /\ \A x \in PTRouters : t.m_PeerTests[x][n] = NoPart
      /\ \A p \in t.net : p.nonce # n
  BY <1>1, <1>2 DEF PTTyped
<1>6. B \in PTPeers(k, A) BY <1>1, <1>2, <1>4 DEF PTTyped
<1>7. PTTyped(v)
  <2>1. TestState(v.case, v) BY <1>1, <1>3 DEF PTTyped, TestState
  <2>2. \A x \in PTRouters :
          /\ v.established[x] \subseteq PTPeers(v.case, x)
          /\ v.faults = v.case.faults => v.established[x] = PTPeers(v.case, x)
          /\ PTPeers(v.case, x) \subseteq v.contacted[x]
          /\ \A m \in PTNonces(v.case) :
               v.m_PeerTests[x][m].role = "Bob" => v.m_PeerTests[x][m].session \in PTRouters
    BY <1>1, <1>3 DEF PTTyped
  <2>3. \A q \in v.unstarted :
          /\ \A x \in PTRouters : v.m_PeerTests[x][q[3]] = NoPart
          /\ \A p \in v.net : p.nonce # q[3]
    BY <1>1, <1>3 DEF PTTyped
  <2> QED BY <1>1, <1>3, <2>1, <2>2, <2>3 DEF PTTyped
<1>8. TestState(k, v) /\ v.net \subseteq PTPackets(k) BY <1>3, <1>7 DEF PTTyped, TestState
<1>9. Does(v, u, A, n, part, st, sent, {B})
  <2> DEFINE w == SetPart(v, A, n, "Alice1", PTNobody)
  <2>1. Does(v, v, A, n, v.m_PeerTests[A][n], st, {}, {}) BY <1>3, <1>4, <1>8, NothingDone
  <2>2. Does(v, w, A, n, part, st, {}, {}) BY <1>4, <1>8, <2>1, SetPartDoes
  <2> HIDE DEF w, part, st
  <2>3. Does(v, SendTo(w, A, B, n, "session", PTNobody, FALSE, A), A, n, part, st,
             {} \cup {PTPacket(A, B, n, "session", PTNobody, FALSE, A)}, {} \cup {B})
    BY <1>4, <1>8, <2>2, SendToDoes
  <2>4. {} \cup {PTPacket(A, B, n, "session", PTNobody, FALSE, A)} = sent /\ {} \cup {B} = {B}
    BY DEF Ask
  <2> QED BY <1>2, <2>3, <2>4 DEF w
<1>10. /\ Ask(s).from = A /\ Ask(s).to = B /\ Ask(s).nonce = n /\ Ask(s).about = PTNobody
       /\ Ask(s).port = FALSE /\ Ask(s) \in PTPackets(k)
  BY <1>4 DEF Ask, PTPacket, PTPackets
<1>11. part.role = "Alice1" /\ part \in Part BY DEF APart, Part
<1> HIDE DEF part, sent, A, B, n
<1>12. st \in {"Testing", "OK", "Firewalled"} BY <1>1, <1>4, OldPart
<1>13. sent \subseteq PTPackets(k) /\ \A q \in sent : q.nonce = n BY <1>10 DEF sent
<1>14. Fits(k, v, n, part, st, sent, {B}) BY <1>4, <1>11, <1>12, <1>13 DEF Fits
<1>15. \A q \in v.unstarted : q[3] # n BY <1>3, <1>4
<1>16. PTTyped(u) BY <1>3, <1>4, <1>7, <1>9, <1>14, <1>15, DoesTyped
<1>17. ASSUME NEW x \in PTRouters PROVE PTShut(u, x)
  <2>1. PTShut(v, x)
    <3>1. Near(v, x) = Near(t, x) BY <1>3 DEF Near
    <3>2. PTQuiet(v, x) <=> PTQuiet(t, x) BY <1>3 DEF PTQuiet
    <3>3. \A y, a : BobIsNear(t, x, y, a) => BobIsNear(v, x, y, a) BY <1>3 DEF BobIsNear
    <3>4. \A q : PacketIsNear(t, x, q) => PacketIsNear(v, x, q) BY <1>3, <3>1 DEF PacketIsNear
    <3> QED BY <1>1, <1>3, <3>1, <3>2, <3>3, <3>4 DEF PTShut
  <2>2. ASSUME PTQuiet(v, x) PROVE StaysShut(v, x, A, n, part, st, sent, {B})
    <3>1. x = A BY <1>3, <1>4, <2>2 DEF PTQuiet, A
    <3>2. st # "OK" BY <1>3, <2>1, <2>2, <3>1 DEF PTShut
    <3>3. {B} \subseteq Near(v, x) BY <1>3, <1>6, <3>1 DEF Near
    <3>4. B # A /\ B \in PTPeers(v.case, x) BY <1>3, <1>4, <1>6, <3>1
    <3>5. \A q \in v.net : q.nonce # n BY <1>3, <1>5
    <3>6. BobIsNear(v, x, A, part) BY <1>11 DEF BobIsNear
    <3> QED BY <1>10, <1>11, <3>1, <3>2, <3>3, <3>4, <3>5, <3>6 DEF StaysShut, sent
  <2> QED BY <1>3, <1>4, <1>7, <1>8, <1>9, <1>13, <2>1, <2>2, DoesShut
<1>18. After(v, u, A, n, part, st, {B}) BY <1>3, <1>4, <1>7, <1>9, AfterDoes
<1>19. /\ u.case = k /\ u.established = t.established /\ u.faults = t.faults
       /\ u.misread = t.misread
       /\ u.net = t.net \cup sent /\ u.unstarted = t.unstarted \ {s}
  BY <1>3, <1>9 DEF Does
<1>20. ASSUME NEW q \in k.starts PROVE PTTrack(u, q)
  <2>1. CASE q = s
    <3>1. Ask(s) \in u.net /\ \A p \in u.net : p.nonce = n => p = Ask(s)
      BY <1>5, <1>19 DEF sent
    <3>2. u.m_PeerTests[A][n].role = "Alice1" BY <1>11, <1>18 DEF After
    <3>3. \A x \in PTRouters \ {A} : u.m_PeerTests[x][n].role = "Unknown"
      BY <1>3, <1>4, <1>5, <1>18 DEF After, NoPart
    <3>4. Asked(u, s) BY <3>1, <3>2, <3>3 DEF Asked, A, n
    <3> QED BY <2>1, <3>4 DEF PTTrack
  <2>2. CASE q # s
    <3>1. q[3] # n /\ q[1] \in PTRouters /\ q[2] \in PTRouters /\ q[3] \in PTNonces(k)
      BY <1>4, <2>2, PTNames
    <3>2. SameTest(t, u, q) BY <1>3, <1>13, <1>18, <1>19, <3>1 DEF SameTest, After
    <3>3. u.m_Status[q[1]] = t.m_Status[q[1]]
      <4>1. CASE q[1] = A BY <1>18, <4>1 DEF After
      <4>2. CASE q[1] # A BY <1>3, <1>18, <3>1, <4>2 DEF After
      <4> QED BY <4>1, <4>2
    <3>4. StatusKept(t, u, q) BY <3>3 DEF StatusKept
    <3>5. q \notin u.unstarted => q \notin t.unstarted BY <1>19, <2>2
    <3> QED BY <1>1, <1>19, <3>1, <3>2, <3>4, <3>5, OtherTest
  <2> QED BY <2>1, <2>2
<1> QED BY <1>16, <1>17, <1>19, <1>20 DEF PTInv, PTGood, u

\* The initial states.
LEMMA InitGood ==
  ASSUME PeerTestInit
  PROVE  PTInv
<1>1. PICK k \in PTCases : PeerTestInitWith(k) BY DEF PeerTestInit
<1> DEFINE t == tests
           peers(r) == {q \in PTRouters : {r, q} \in k.sessions /\ q # r}
<1>2. /\ t.m_PeerTests = [r \in PTRouters |-> [n \in PTNonces(k) |-> NoPart]]
      /\ t.m_Status = [r \in PTRouters |-> "Testing"]
      /\ t.established = [r \in PTRouters |-> PTPeers(k, r)]
      /\ t.contacted = [r \in PTRouters |-> PTPeers(k, r)]
      /\ t.net = {} /\ t.misread = {} /\ t.unstarted = k.starts /\ t.faults = k.faults
      /\ t.case = k /\ PTShape(t)
  BY <1>1 DEF PeerTestInitWith, PTPeers, PTShape
<1> HIDE DEF t
<1>3. k.faults \in Nat BY PeerTestAssumption
<1>4. NoPart \in Part /\ NoPart.role = "Unknown" BY DEF NoPart, Part
<1>5. /\ t.m_PeerTests \in [PTRouters -> [PTNonces(k) -> Part]]
      /\ \A r \in PTRouters, n \in PTNonces(k) : t.m_PeerTests[r][n] = NoPart
  BY <1>2, <1>4
<1>6. \A r \in PTRouters : PTPeers(k, r) \subseteq PTRouters BY DEF PTPeers
<1>7. TestState(k, t) BY <1>2, <1>3, <1>5, <1>6 DEF TestState
<1>8. \A s \in k.starts : s[3] \in PTNonces(k) BY DEF PTNonces
<1>9. PTTyped(t) BY <1>2, <1>4, <1>5, <1>7, <1>8 DEF PTTyped
<1>10. ASSUME NEW r \in PTRouters PROVE PTShut(t, r)
  BY <1>2, <1>4, <1>5 DEF PTShut, Near, BobIsNear
<1>11. \A s \in k.starts : PTTrack(t, s) BY <1>2 DEF PTTrack, Undisturbed
<1> QED BY <1>2, <1>9, <1>10, <1>11 DEF PTInv, PTGood, t

\* Every step of every router, and every fault, keeps the stages of the tests and the
\* firewalls as PTInv says (SSUSession::ProcessPeerTest, SSUServer's table).
THEOREM PeerTestInvariance == PeerTestSpec => []PTInv
<1>1. PeerTestInit => PTInv BY InitGood
<1>2. PTInv /\ [PeerTestNext]_peerTestVars => PTInv'
  <2> SUFFICES ASSUME PTInv, [PeerTestNext]_peerTestVars PROVE PTInv' OBVIOUS
  <2>1. ASSUME NEW s \in tests.unstarted, StartPeerTest(s) PROVE PTInv' BY <2>1, StartGood
  <2>2. ASSUME NEW p \in tests.net, ReceivePeerTest(p) PROVE PTInv' BY <2>2, ReceiveGood
  <2>3. ASSUME NEW p \in tests.net, LosePacket(p) PROVE PTInv' BY <2>3, LoseGood
  <2>4. ASSUME NEW p \in tests.net, RepeatPacket(p) PROVE PTInv' BY <2>4, RepeatGood
  <2>5. ASSUME NEW r \in PTRouters, NEW q \in PTRouters, CloseSSU(r, q) PROVE PTInv'
    BY <2>5, CloseGood
  <2>6. ASSUME NEW r \in PTRouters, NEW n \in PTNonces(tests.case),
               HandlePeerTestsCleanupTimer(r, n)
        PROVE  PTInv'
    BY <2>6, CleanupGood
  <2>7. CASE UNCHANGED peerTestVars BY <2>7 DEF PTInv, peerTestVars
  <2> QED BY <2>1, <2>2, <2>3, <2>4, <2>5, <2>6, <2>7 DEF PeerTestNext
<1> QED BY <1>1, <1>2, PTL DEF PeerTestSpec

\* When its packets are gone, a test underway has told Alice the truth.
LEMMA PTSettled ==
  ASSUME PTInv
  PROVE  SettledIsTrue
<1> DEFINE t == tests
           k == t.case
<1>1. PTTyped(t) /\ (\A x \in PTRouters : PTShut(t, x)) /\ \A x \in k.starts : PTTrack(t, x)
  BY DEF PTInv, PTGood
<1> SUFFICES ASSUME t.net = {}, t.faults = k.faults, NEW s \in Started(k),
                    t.established[s[2]] # {s[1]}, t.established[s[1]] = {s[2]}, s[3] \notin t.misread,
                    s[1] \notin k.firewalled \/ OnlyAlice(s[1])
             PROVE  t.m_Status[s[1]] = IF s[1] \in k.firewalled THEN "Firewalled" ELSE "OK"
  BY DEF SettledIsTrue
<1>2. s \in k.starts \ t.unstarted BY DEF Started
<1>3. Undisturbed(t, s) BY <1>2 DEF Undisturbed, OnlyAlice
<1>4. s[1] \in PTRouters /\ s[3] \in PTNonces(k) BY <1>1, <1>2, PTNames DEF PTTyped
<1> HIDE DEF t, k
<1>5. PICK c : Underway(t, s, c)
  <2>1. Asked(t, s) \/ \E c \in PTPeers(t.case, s[2]) \ {s[1]} : Underway(t, s, c)
    BY <1>1, <1>2, <1>3 DEF PTTrack
  <2> QED BY <2>1 DEF Asked
<1>6. CASE s[1] \notin k.firewalled BY <1>5, <1>6 DEF Underway, k
<1>7. CASE s[1] \in k.firewalled
  <2>1. t.m_Status[s[1]] # "Testing"
    <3> DEFINE gone == {Forward(s, c), Report1(s, c), Report2(s)}
    <3>1. gone \cap t.net # {} \/ t.m_Status[s[1]] # "Testing" BY <1>5, <1>7 DEF Underway, k
    <3> HIDE DEF gone
    <3> QED BY <3>1
  <2>2. t.established[s[1]] = PTPeers(k, s[1]) BY <1>1, <1>3, <1>4 DEF PTTyped, Undisturbed, k
  <2>3. PTQuiet(t, s[1]) BY <1>3, <1>7, <2>2 DEF PTQuiet, Undisturbed, k
  <2>4. t.m_Status[s[1]] # "OK" BY <1>1, <1>4, <2>3 DEF PTShut
  <2>5. t.m_Status[s[1]] \in {"Testing", "OK", "Firewalled"} BY <1>1, <1>4, OldPart DEF k
  <2> QED BY <1>7, <2>1, <2>4, <2>5
<1> QED BY <1>6, <1>7

\* A router that is shut does not believe it can be reached.
LEMMA PTFirewalled ==
  ASSUME PTInv
  PROVE  FirewalledIsNeverOK
<1> SUFFICES ASSUME NEW r \in tests.case.firewalled, OnlyAlice(r),
                    \A q \in PTRouters : {r, q} \in tests.case.sessions => q \in tests.established[r]
             PROVE  tests.m_Status[r] # "OK"
  BY DEF FirewalledIsNeverOK
<1>1. PTTyped(tests) /\ \A x \in PTRouters : PTShut(tests, x) BY DEF PTInv, PTGood
<1>2. r \in PTRouters BY <1>1, PeerTestAssumption DEF PTTyped
<1>3. tests.established[r] = PTPeers(tests.case, r) BY <1>1, <1>2 DEF PTTyped, PTPeers
<1>4. PTQuiet(tests, r) BY <1>3 DEF PTQuiet, OnlyAlice
<1> QED BY <1>1, <1>2, <1>4 DEF PTShut

\* The types that the run checks.
LEMMA PTTypes ==
  ASSUME PTInv
  PROVE  PeerTestTypeOK
<1> DEFINE t == tests
<1>1. PTTyped(t) BY DEF PTInv, PTGood
<1>2. t.faults \in 0 .. t.case.faults /\ t.misread \subseteq PTNonces(t.case)
  BY <1>1 DEF PTTyped, TestState
<1>3. ASSUME NEW r \in PTRouters PROVE t.m_Status[r] \in {"Testing", "OK", "Firewalled"}
  BY <1>1 DEF PTTyped, TestState
<1>4. ASSUME NEW r \in PTRouters, NEW n \in PTNonces(t.case)
      PROVE  t.m_PeerTests[r][n].role \in {"Unknown", "Alice1", "Alice2", "Bob", "Charlie"}
  <2>1. t.m_PeerTests[r][n] \in Part BY <1>1, <1>4, OldPart
  <2> QED BY <2>1 DEF Part
<1> QED BY <1>2, <1>3, <1>4 DEF PeerTestTypeOK

\* What a router comes to believe of itself is true: after a test that nothing disturbed,
\* and always behind a firewall, while its sessions are up (ProcessPeerTest).
THEOREM PeerTestsAreTrue == PeerTestSpec => []PeerTestSafe
<1>1. PTInv => PeerTestSafe BY PTSettled, PTFirewalled, PTTypes DEF PeerTestSafe
<1> QED BY <1>1, PeerTestInvariance, PTL
=============================================================================
