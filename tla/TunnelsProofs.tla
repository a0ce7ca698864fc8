--------------------------- MODULE TunnelsProofs ---------------------------
(***************************************************************************)
(* Our own tunnels (Tunnels.tla), for any slots, pools, quotas and         *)
(* timeouts: a tunnel is listed once, a pool holds only live tunnels of    *)
(* its own, and its leases lead to tunnels that it holds.                  *)
(*                                                                         *)
(* What a pool may hand out is decided on two threads, so the invariant    *)
(* follows one object through its life (SlotOK), one object as one pool    *)
(* sees it (MemberOK), one pool (PoolOK), and what the tunnels thread      *)
(* carries from one of its steps to the next (StepOK).  The last one is    *)
(* why a tunnel whose insertion into a pool is pending when the owner      *)
(* stops that pool is still a tunnel of that pool.                         *)
(*                                                                         *)
(* Under it, the queue of the tunnels thread (TunnelDispatch.tla): however *)
(* Run regroups what the sessions queued, a tunnel gets its messages in    *)
(* order and none stays behind when the loop is done.  And building a      *)
(* tunnel (TunnelBuild.tla): whatever hops it has and however the records  *)
(* are shuffled, the layers that are put on come off.                      *)
(***************************************************************************)
EXTENDS Tunnels, TunnelDispatch, TunnelBuild, SequenceTheorems, FiniteSetTheorems,
        WellFoundedInduction, TLAPS

TunnelRecord ==
  [m_State : TunnelState \cup {"None"}, age : 0 .. TUNNEL_EXPIRATION_TIMEOUT + 1,
   m_Pool : Pools \cup {NoPool}, m_IsRecreated : BOOLEAN]
PoolRecord ==
  [m_IsActive : BOOLEAN, m_LocalDestination : BOOLEAN, tunnels : SUBSET Slots,
   m_Tests : SUBSET (Outbound \X Inbound), m_LeaseSet : SUBSET Inbound]
Stages == {"Run", "TunnelCreated", "ManageInboundTunnels", "ManageOutboundTunnels",
           "ManageTunnelPools", "TestTunnels"}

\* Objects that were never listed, and those a pool may hold.
Unbuilt == {"None", "Pending", "BuildFailed"}
Live == {"Established", "TestFailed", "Expiring"}

TestEnds(tests) == UNION {{x[1], x[2]} : x \in tests}

Types ==
  /\ tunnel \in [Slots -> TunnelRecord]
  /\ m_PendingTunnels \subseteq Slots
  /\ m_Tunnels \in [Slots -> 0 .. 1]
  /\ m_Pools \subseteq Pools
  /\ pool \in [Pools -> PoolRecord]
  /\ detaching \in [Pools -> {"no", "inbound", "outbound"}]
  /\ step \in [at : Stages, todo : SUBSET Pools, tunnel : SUBSET (Slots \cup Pools)]

\* The object x of a slot, whether it is pending, how often it is listed.
SlotOK(x, pending, listed, pools, at) ==
  /\ x.m_State = "None" => x = NoTunnel /\ ~pending
  /\ x.m_State \in Unbuilt => listed = 0
  /\ x.m_State = "Pending" => pending
  /\ x.m_Pool \in pools \cup {NoPool}
  /\ pending /\ x.m_State \notin Unbuilt => listed = 1
  /\ pending /\ at \in {"ManageInboundTunnels", "ManageOutboundTunnels"}
       => x.m_State = "Pending"

\* The object x of slot t, as pool p, whose object is q, sees it.
MemberOK(p, q, t, x, listed) ==
  /\ t \in q.tunnels => listed = 1 /\ x.m_Pool = p /\ x.m_State \in Live
  /\ t \in TestEnds(q.m_Tests) => x.m_State \notin Unbuilt /\ x.m_Pool \in {p, NoPool}

PoolOK(p, q, tn, pools, stage) ==
  /\ p \notin pools => q = NewPool /\ stage = "no"
  /\ p = Exploratory => q.m_LeaseSet = {}
  /\ stage # "no" => ~q.m_LocalDestination
  /\ q.m_LocalDestination => \A i \in q.m_LeaseSet : i \in q.tunnels /\ ~Ended(tn, i)

\* The tunnel that is on its way into its pool was listed by the same thread.
StepOK(st, tn, listed, pools, pl) ==
  /\ st.at = "Run" => st = Idle
  /\ st.todo \subseteq pools
  /\ st.at = "TestTunnels" => st.tunnel \subseteq pools
  /\ st.at = "TunnelCreated" =>
       \A t \in st.tunnel : /\ t \in Slots /\ tn[t].m_State = "Established"
                            /\ tn[t].m_Pool \in pools /\ listed[t] = 1
                            /\ \A p \in Pools : t \notin pl[p].tunnels

SlotsOK ==
  \A t \in Slots : SlotOK(tunnel[t], t \in m_PendingTunnels, m_Tunnels[t], m_Pools, step.at)
MembersOK ==
  \A p \in Pools, t \in Slots : MemberOK(p, pool[p], t, tunnel[t], m_Tunnels[t])
PoolsOK == \A p \in Pools : PoolOK(p, pool[p], tunnel, m_Pools, detaching[p])
IInv == Types /\ SlotsOK /\ MembersOK /\ PoolsOK /\ StepOK(step, tunnel, m_Tunnels, m_Pools, pool)
-----------------------------------------------------------------------------
(***************************************************************************)
(* Facts about the operators of the actions.                               *)
(***************************************************************************)
\* Min of two integers, the only use of Min in the actions that matters here.
LEMMA MinOfTwo ==
  ASSUME NEW a \in Int, NEW b \in Int
  PROVE  Min({a, b}) \in {a, b} /\ Min({a, b}) <= a /\ Min({a, b}) <= b
<1>1. \E m \in {a, b} : \A y \in {a, b} : m <= y
  <2>1. CASE a <= b BY <2>1
  <2>2. CASE b <= a BY <2>2
  <2> QED BY <2>1, <2>2
<1> QED BY <1>1 DEF Min

\* A pool with another LeaseSet.
LEMMA LeaseSetChanges ==
  ASSUME NEW q \in PoolRecord, NEW L \in SUBSET Inbound, NEW r, r = [q EXCEPT !.m_LeaseSet = L]
  PROVE  /\ r \in PoolRecord
         /\ r.tunnels = q.tunnels /\ r.m_Tests = q.m_Tests /\ r.m_LeaseSet = L
         /\ r.m_LocalDestination = q.m_LocalDestination /\ r.m_IsActive = q.m_IsActive
BY DEF PoolRecord

\* What a test holds is what the tests of some pool hold.
LEMMA HeldByTests ==
  ASSUME NEW pl, NEW t
  PROVE  t \in Held(pl) <=> \E p \in Pools : t \in TestEnds(pl[p].m_Tests)
BY DEF Held, TestEnds

\* All wanted tunnels are for the pools in P, or for none.
WantedFor(want, P) == \A x \in DOMAIN want : want[x] \in P \cup {NoPool}

\* What f creates are new objects in the slots N for those pools.
CreatesIn(f, want, N, P) ==
  /\ \A pending : AddPendingTunnels(pending, f) = pending \cup N
  /\ \A tn : /\ Created(tn, f, want) = [t \in Slots |-> Created(tn, f, want)[t]]
             /\ \A t \in Slots :
                  /\ t \in N => \E p \in P \cup {NoPool} : Created(tn, f, want)[t] = NewTunnel(p)
                  /\ t \notin N => Created(tn, f, want)[t] = tn[t]

\* CreateTunnel puts new pending objects into slots that were free, for the
\* pools that asked, and touches nothing else.
LEMMA CreationIsNew ==
  ASSUME NEW D, NEW want, NEW optional, NEW f \in Creations(D, want, optional), NEW P,
         WantedFor(want, P)
  PROVE  \E N \in SUBSET Free(D) : CreatesIn(f, want, N, P)
<1>1. PICK w \in SUBSET DOMAIN want : f \in [w -> Free(D)] BY DEF Creations
<1> DEFINE N == {f[x] : x \in DOMAIN f}
<1>2. N \subseteq Free(D) BY <1>1
<1>3. \A pending : AddPendingTunnels(pending, f) = pending \cup N BY DEF AddPendingTunnels
<1>4. ASSUME NEW tn, NEW t \in Slots
      PROVE  /\ t \in N => \E p \in P \cup {NoPool} : Created(tn, f, want)[t] = NewTunnel(p)
             /\ t \notin N => Created(tn, f, want)[t] = tn[t]
  <2>1. ASSUME t \in N PROVE \E p \in P \cup {NoPool} : Created(tn, f, want)[t] = NewTunnel(p)
    <3>1. \E x \in DOMAIN f : f[x] = t BY <2>1
    <3> DEFINE y == CHOOSE x \in DOMAIN f : f[x] = t
    <3>2. y \in DOMAIN f /\ f[y] = t BY <3>1
    <3>3. want[y] \in P \cup {NoPool} BY <3>2, <1>1 DEF WantedFor
    <3>4. Created(tn, f, want)[t] = NewTunnel(want[y]) BY <3>1 DEF Created
    <3> QED BY <3>3, <3>4
  <2>2. ASSUME t \notin N PROVE Created(tn, f, want)[t] = tn[t] BY <2>2 DEF Created
  <2> QED BY <2>1, <2>2
<1>5. \A tn : \A t \in Slots :
        /\ t \in N => \E p \in P \cup {NoPool} : Created(tn, f, want)[t] = NewTunnel(p)
        /\ t \notin N => Created(tn, f, want)[t] = tn[t]
  BY <1>4
<1>6. \A tn : Created(tn, f, want) = [t \in Slots |-> Created(tn, f, want)[t]] BY DEF Created
<1> HIDE DEF N
<1> QED BY <1>2, <1>3, <1>5, <1>6 DEF CreatesIn

LEMMA NoTunnelIs ==
  NoTunnel \in TunnelRecord /\ NoTunnel.m_State = "None" /\ NoTunnel.m_Pool = NoPool
BY TunnelsAssumption DEF NoTunnel, TunnelRecord

\* The object that CreateTunnel makes.
LEMMA NewTunnelIs ==
  ASSUME NEW p \in Pools \cup {NoPool}
  PROVE  /\ NewTunnel(p) \in TunnelRecord
         /\ NewTunnel(p).m_State = "Pending" /\ NewTunnel(p).m_Pool = p
<1>1. NoTunnel \in TunnelRecord BY NoTunnelIs
<1> QED BY <1>1 DEF NewTunnel, TunnelRecord, TunnelState
-----------------------------------------------------------------------------
(***************************************************************************)
(* Each action keeps the invariant.                                        *)
(***************************************************************************)
\* Time makes tunnels older and takes the leases that ended from the LeaseSets.
LEMMA TickSound == ASSUME IInv, Tick PROVE IInv'
<1> DEFINE older ==
      [t \in Slots |-> IF tunnel[t].m_State = "None" THEN NoTunnel
                       ELSE [tunnel[t] EXCEPT !.age = Min({@ + 1, TUNNEL_EXPIRATION_TIMEOUT + 1})]]
<1>1. /\ step = Idle /\ tunnel' = older
      /\ pool' = [p \in Pools |-> [pool[p] EXCEPT !.m_LeaseSet = {i \in @ : ~Ended(older, i)}]]
      /\ UNCHANGED <<m_PendingTunnels, m_Tunnels, m_Pools, detaching, step>>
  BY DEF Tick
<1>2. TUNNEL_EXPIRATION_TIMEOUT \in Nat BY TunnelsAssumption
<1>3. \A t \in Slots : /\ older[t] \in TunnelRecord
                       /\ older[t].m_State = tunnel[t].m_State
                       /\ older[t].m_Pool = tunnel[t].m_Pool
                       /\ tunnel[t].m_State = "None" => older[t] = NoTunnel
  <2> SUFFICES ASSUME NEW t \in Slots
               PROVE  /\ older[t] \in TunnelRecord
                      /\ older[t].m_State = tunnel[t].m_State
                      /\ older[t].m_Pool = tunnel[t].m_Pool
                      /\ tunnel[t].m_State = "None" => older[t] = NoTunnel
    OBVIOUS
  <2> DEFINE m == Min({tunnel[t].age + 1, TUNNEL_EXPIRATION_TIMEOUT + 1})
  <2>1. tunnel[t] \in TunnelRecord BY DEF IInv, Types
  <2>2. CASE tunnel[t].m_State = "None"
    BY <2>1, <2>2, NoTunnelIs DEF IInv, SlotsOK, SlotOK
  <2>3. CASE tunnel[t].m_State # "None"
    <3>1. m \in 0 .. TUNNEL_EXPIRATION_TIMEOUT + 1
      <4>1. tunnel[t].age \in 0 .. TUNNEL_EXPIRATION_TIMEOUT + 1 BY <2>1 DEF TunnelRecord
      <4> DEFINE a == tunnel[t].age + 1
                 b == TUNNEL_EXPIRATION_TIMEOUT + 1
      <4>2. a \in 1 .. b + 1 /\ b \in Nat BY <4>1, <1>2
      <4>3. m = Min({a, b}) OBVIOUS
      <4> HIDE DEF m, a, b
      <4>4. a \in Int /\ b \in Int BY <4>2
      <4>5. m \in {a, b} /\ m <= b BY <4>3, <4>4, MinOfTwo
      <4>6. m \in 0 .. b BY <4>2, <4>5
      <4> QED BY <4>6 DEF b
    <3> HIDE DEF m
    <3>2. older[t] = [tunnel[t] EXCEPT !.age = m] BY <2>3 DEF m
    <3> QED BY <2>1, <2>3, <3>1, <3>2 DEF TunnelRecord
  <2> QED BY <2>2, <2>3
<1> HIDE DEF older
<1>4. \A p \in Pools :
        /\ pool'[p] = [pool[p] EXCEPT !.m_LeaseSet = {i \in pool[p].m_LeaseSet : ~Ended(older, i)}]
        /\ pool[p] \in PoolRecord
  BY <1>1 DEF IInv, Types
<1>5. \A p \in Pools :
        /\ pool'[p] \in PoolRecord
        /\ pool'[p].tunnels = pool[p].tunnels /\ pool'[p].m_Tests = pool[p].m_Tests
        /\ pool'[p].m_LocalDestination = pool[p].m_LocalDestination
        /\ pool'[p].m_LeaseSet = {i \in pool[p].m_LeaseSet : ~Ended(older, i)}
  <2> SUFFICES ASSUME NEW p \in Pools
               PROVE  LET q == pool'[p] IN
                      /\ q \in PoolRecord
                      /\ q.tunnels = pool[p].tunnels /\ q.m_Tests = pool[p].m_Tests
                      /\ q.m_LocalDestination = pool[p].m_LocalDestination
                      /\ q.m_LeaseSet = {i \in pool[p].m_LeaseSet : ~Ended(older, i)}
    OBVIOUS
  <2> DEFINE L == {i \in pool[p].m_LeaseSet : ~Ended(older, i)}
  <2>1. L \in SUBSET Inbound BY <1>4 DEF PoolRecord
  <2>2. pool'[p] = [pool[p] EXCEPT !.m_LeaseSet = L] /\ pool[p] \in PoolRecord BY <1>4
  <2> HIDE DEF L
  <2>3. /\ pool'[p] \in PoolRecord
        /\ pool'[p].tunnels = pool[p].tunnels /\ pool'[p].m_Tests = pool[p].m_Tests
        /\ pool'[p].m_LeaseSet = L
        /\ pool'[p].m_LocalDestination = pool[p].m_LocalDestination
    BY <2>1, <2>2, LeaseSetChanges
  <2> QED BY <2>3 DEF L
<1>6. Types'
  <2>1. older \in [Slots -> TunnelRecord] BY <1>3 DEF older
  <2>2. pool' \in [Pools -> PoolRecord] BY <1>1, <1>5
  <2> QED BY <1>1, <2>1, <2>2 DEF IInv, Types
<1>7. SlotsOK' BY <1>1, <1>3 DEF IInv, SlotsOK, SlotOK
<1>8. MembersOK' BY <1>1, <1>3, <1>5 DEF IInv, MembersOK, MemberOK
<1>9. PoolsOK'
  <2> SUFFICES ASSUME NEW p \in Pools
               PROVE  PoolOK(p, pool'[p], older, m_Pools, detaching[p])
    BY <1>1 DEF PoolsOK
  <2>1. PoolOK(p, pool[p], tunnel, m_Pools, detaching[p]) BY DEF IInv, PoolsOK
  <2>2. p \notin m_Pools => pool'[p] = NewPool
    BY <2>1, <1>4 DEF PoolOK, NewPool
  <2> QED BY <2>1, <2>2, <1>5 DEF PoolOK
<1>10. StepOK(step', tunnel', m_Tunnels', m_Pools', pool') BY <1>1 DEF IInv, StepOK, Idle
<1> QED BY <1>6, <1>7, <1>8, <1>9, <1>10 DEF IInv

\* The object of one slot changes to x.
LEMMA OneSlot ==
  ASSUME Types, NEW t \in Slots, NEW x \in TunnelRecord, tunnel' = [tunnel EXCEPT ![t] = x]
  PROVE  /\ tunnel' \in [Slots -> TunnelRecord] /\ tunnel'[t] = x
         /\ \A u \in Slots : u # t => tunnel'[u] = tunnel[u]
BY DEF Types

\* A declined build leaves a pending tunnel that failed.
LEMMA HandleBuildDeclinedSound ==
  ASSUME IInv, NEW t \in Slots, HandleBuildDeclined(t) PROVE IInv'
<1> DEFINE x == [tunnel[t] EXCEPT !.m_State = "BuildFailed"]
<1>1. tunnel[t] \in TunnelRecord BY DEF IInv, Types
<1>2. x \in TunnelRecord /\ x.m_State = "BuildFailed" /\ x.m_Pool = tunnel[t].m_Pool
      /\ x.age = tunnel[t].age
  BY <1>1 DEF TunnelRecord, TunnelState
<1> HIDE DEF x
<1>3. /\ step = Idle /\ tunnel[t].m_State = "Pending" /\ tunnel' = [tunnel EXCEPT ![t] = x]
      /\ UNCHANGED <<m_PendingTunnels, m_Tunnels, m_Pools, pool, detaching, step>>
  BY DEF HandleBuildDeclined, GetPendingTunnel, x
<1>4. /\ tunnel' \in [Slots -> TunnelRecord] /\ tunnel'[t] = x
      /\ \A u \in Slots : u # t => tunnel'[u] = tunnel[u]
  BY <1>2, <1>3, OneSlot DEF IInv
<1>5. Types' BY <1>3, <1>4 DEF IInv, Types
<1>6. SlotsOK' BY <1>2, <1>3, <1>4 DEF IInv, SlotsOK, SlotOK, Idle, Unbuilt
<1>7. MembersOK' BY <1>2, <1>3, <1>4 DEF IInv, MembersOK, MemberOK, Unbuilt, Live
<1>8. PoolsOK'
  <2>1. \A i \in Slots : Ended(tunnel', i) <=> Ended(tunnel, i) BY <1>2, <1>4 DEF Ended
  <2>2. \A p \in Pools : pool[p].tunnels \subseteq Slots BY DEF IInv, Types, PoolRecord
  <2> QED BY <1>3, <2>1, <2>2 DEF IInv, PoolsOK, PoolOK
<1>9. StepOK(step', tunnel', m_Tunnels', m_Pools', pool') BY <1>3 DEF IInv, StepOK, Idle
<1> QED BY <1>5, <1>6, <1>7, <1>8, <1>9 DEF IInv

\* UpdateLeaseSet changes one pool, whose leases are then of its own tunnels.
LEMMA LeaseSetUpdated ==
  ASSUME NEW pl \in [Pools -> PoolRecord], NEW tn, NEW p \in Pools, NEW r,
         r = SetLeaseSetUpdated(pl, tn, p)
  PROVE  /\ r \in [Pools -> PoolRecord]
         /\ \A q \in Pools : q # p => r[q] = pl[q]
         /\ r[p].tunnels = pl[p].tunnels /\ r[p].m_Tests = pl[p].m_Tests
         /\ r[p].m_LocalDestination = pl[p].m_LocalDestination
         /\ p = Exploratory => r[p] = pl[p]
         /\ ~pl[p].m_LocalDestination => r[p] = pl[p]
         /\ pl[p].m_LocalDestination /\ p # Exploratory =>
              \A i \in r[p].m_LeaseSet : i \in pl[p].tunnels /\ ~Ended(tn, i)
<1>1. CASE pl[p].m_LocalDestination /\ p # Exploratory
  <2> DEFINE L == {i \in pl[p].tunnels \cap Inbound : IsEstablished(tn, i) /\ ~Ended(tn, i)}
             x == [pl[p] EXCEPT !.m_LeaseSet = L]
  <2>1. r = [pl EXCEPT ![p].m_LeaseSet = L] BY <1>1 DEF SetLeaseSetUpdated
  <2>2. L \in SUBSET Inbound /\ \A i \in L : i \in pl[p].tunnels /\ ~Ended(tn, i) OBVIOUS
  <2>3. r = [pl EXCEPT ![p] = x] BY <2>1
  <2> HIDE DEF L
  <2>4. /\ x \in PoolRecord /\ x.tunnels = pl[p].tunnels /\ x.m_Tests = pl[p].m_Tests
        /\ x.m_LeaseSet = L /\ x.m_LocalDestination = pl[p].m_LocalDestination
    BY <2>2, LeaseSetChanges
  <2> HIDE DEF x
  <2> QED BY <1>1, <2>2, <2>3, <2>4
<1>2. CASE ~(pl[p].m_LocalDestination /\ p # Exploratory)
  <2>1. r = pl BY <1>2 DEF SetLeaseSetUpdated
  <2> QED BY <2>1, <1>2
<1> QED BY <1>1, <1>2

\* The tunnel t that the tunnels thread carries goes into the pool it was
\* built for, or not at all if the pool was stopped in between.
LEMMA TunnelCreatedSound == ASSUME IInv, TunnelCreated PROVE IInv'
<1>1. /\ step.at = "TunnelCreated" /\ step' = Idle
      /\ UNCHANGED <<tunnel, m_PendingTunnels, m_Tunnels, m_Pools, detaching>>
  BY DEF TunnelCreated
<1> DEFINE p(t) == tunnel[t].m_Pool
           added(t) == [pool EXCEPT ![p(t)].tunnels = @ \cup {t}]
<1>2. PICK t \in step.tunnel :
        \/ pool' = IF t \in Inbound THEN SetLeaseSetUpdated(added(t), tunnel, p(t)) ELSE added(t)
        \/ pool' = pool
  BY DEF TunnelCreated
<1>3. /\ t \in Slots /\ tunnel[t].m_State = "Established" /\ p(t) \in m_Pools /\ m_Tunnels[t] = 1
      /\ p(t) \in Pools
  BY <1>1 DEF IInv, StepOK, Types
<1>4. StepOK(step', tunnel', m_Tunnels', m_Pools', pool') BY <1>1 DEF IInv, StepOK, Idle
<1>5. SlotsOK' BY <1>1 DEF IInv, SlotsOK, SlotOK, Idle
<1>6. step' \in [at : Stages, todo : SUBSET Pools, tunnel : SUBSET (Slots \cup Pools)]
  BY <1>1 DEF Idle, Stages
<1>7. CASE pool' = pool
  BY <1>1, <1>4, <1>5, <1>6, <1>7 DEF IInv, Types, MembersOK, PoolsOK
<1>8. CASE pool' # pool
  <2> DEFINE a == added(t)
             y == [pool[p(t)] EXCEPT !.tunnels = @ \cup {t}]
  <2>1. pool' = IF t \in Inbound THEN SetLeaseSetUpdated(a, tunnel, p(t)) ELSE a
    BY <1>2, <1>8
  <2>2. a = [pool EXCEPT ![p(t)] = y] OBVIOUS
  <2>3. pool \in [Pools -> PoolRecord] BY DEF IInv, Types
  <2>4. /\ y \in PoolRecord /\ y.tunnels = pool[p(t)].tunnels \cup {t}
        /\ y.m_Tests = pool[p(t)].m_Tests /\ y.m_LeaseSet = pool[p(t)].m_LeaseSet
        /\ y.m_LocalDestination = pool[p(t)].m_LocalDestination
    BY <1>3, <2>3 DEF PoolRecord
  <2> HIDE DEF y, a, added
  <2>5. /\ a \in [Pools -> PoolRecord] /\ a[p(t)] = y
        /\ \A q \in Pools : q # p(t) => a[q] = pool[q]
    BY <1>3, <2>2, <2>3, <2>4
  <2>6. /\ pool' \in [Pools -> PoolRecord]
        /\ \A q \in Pools : q # p(t) => pool'[q] = pool[q]
        /\ pool'[p(t)].tunnels = pool[p(t)].tunnels \cup {t}
        /\ pool'[p(t)].m_Tests = pool[p(t)].m_Tests
        /\ pool'[p(t)].m_LocalDestination = pool[p(t)].m_LocalDestination
        /\ p(t) = Exploratory => pool'[p(t)].m_LeaseSet = pool[p(t)].m_LeaseSet
        /\ \/ pool'[p(t)].m_LeaseSet = pool[p(t)].m_LeaseSet
           \/ pool'[p(t)].m_LocalDestination =>
                \A i \in pool'[p(t)].m_LeaseSet : i \in pool'[p(t)].tunnels /\ ~Ended(tunnel, i)
    <3>1. CASE t \in Inbound
      <4>1. pool' = SetLeaseSetUpdated(a, tunnel, p(t)) BY <2>1, <3>1
      <4> QED BY <4>1, <1>3, <2>4, <2>5, LeaseSetUpdated
    <3>2. CASE t \notin Inbound BY <3>2, <2>1, <2>4, <2>5
    <3> QED BY <3>1, <3>2
  <2>7. MembersOK'
    <3> SUFFICES ASSUME NEW q \in Pools, NEW u \in Slots
                 PROVE  MemberOK(q, pool'[q], u, tunnel[u], m_Tunnels[u])
      BY <1>1 DEF MembersOK
    <3>1. MemberOK(q, pool[q], u, tunnel[u], m_Tunnels[u]) BY DEF IInv, MembersOK
    <3> QED BY <3>1, <1>3, <2>6 DEF MemberOK, Live
  <2>8. PoolsOK'
    <3> SUFFICES ASSUME NEW q \in Pools
                 PROVE  PoolOK(q, pool'[q], tunnel, m_Pools, detaching[q])
      BY <1>1 DEF PoolsOK
    <3>1. PoolOK(q, pool[q], tunnel, m_Pools, detaching[q]) BY DEF IInv, PoolsOK
    <3> QED BY <3>1, <1>3, <2>6 DEF PoolOK
  <2> QED BY <1>1, <1>4, <1>5, <1>6, <2>6, <2>7, <2>8 DEF IInv, Types
<1> QED BY <1>7, <1>8

\* A tunnel that answers is established again, and one that nothing refers to
\* any more, once a test is over, is gone.
LEMMA AnswersSound ==
  ASSUME IInv, step = Idle,
         UNCHANGED <<m_PendingTunnels, m_Tunnels, m_Pools, detaching, step>>,
         tunnel' = [t \in Slots |-> tunnel'[t]], pool' \in [Pools -> PoolRecord],
         \A p \in Pools :
           /\ pool'[p].tunnels = pool[p].tunnels /\ pool'[p].m_LeaseSet = pool[p].m_LeaseSet
           /\ pool'[p].m_LocalDestination = pool[p].m_LocalDestination
           /\ pool'[p].m_Tests \subseteq pool[p].m_Tests
           /\ pool[p] = NewPool => pool'[p] = pool[p],
         \A t \in Slots :
           \/ tunnel'[t] = tunnel[t]
           \/ /\ tunnel[t].m_State \in {"Failed", "TestFailed"}
              /\ tunnel'[t] = [tunnel[t] EXCEPT !.m_State = "Established"]
           \/ /\ tunnel'[t] = NoTunnel /\ t \notin m_PendingTunnels /\ m_Tunnels[t] = 0
              /\ \A p \in Pools : t \notin TestEnds(pool'[p].m_Tests)
  PROVE  IInv'
<1> DEFINE Gone(t) == /\ tunnel'[t] = NoTunnel /\ t \notin m_PendingTunnels /\ m_Tunnels[t] = 0
                      /\ \A p \in Pools : t \notin TestEnds(pool'[p].m_Tests)
           Again(t) == /\ tunnel[t].m_State \in {"Failed", "TestFailed"}
                       /\ tunnel'[t].m_State = "Established"
                       /\ tunnel'[t].m_Pool = tunnel[t].m_Pool /\ tunnel'[t].age = tunnel[t].age
                       /\ tunnel'[t] \in TunnelRecord
<1>1. \A t \in Slots : tunnel[t] \in TunnelRecord BY DEF IInv, Types
<1>2. \A t \in Slots : tunnel'[t] = tunnel[t] \/ Again(t) \/ Gone(t)
  <2> SUFFICES ASSUME NEW t \in Slots, ~Gone(t), tunnel'[t] # tunnel[t] PROVE Again(t)
    OBVIOUS
  <2>1. /\ tunnel[t].m_State \in {"Failed", "TestFailed"}
        /\ tunnel'[t] = [tunnel[t] EXCEPT !.m_State = "Established"]
    OBVIOUS
  <2> QED BY <1>1, <2>1 DEF TunnelRecord, TunnelState
<1>3. Types'
  <2>1. \A t \in Slots : tunnel'[t] \in TunnelRecord BY <1>1, <1>2, NoTunnelIs
  <2>2. tunnel' \in [Slots -> TunnelRecord] BY <2>1
  <2> QED BY <2>2 DEF IInv, Types
<1>4. SlotsOK'
  <2> SUFFICES ASSUME NEW t \in Slots
               PROVE  SlotOK(tunnel'[t], t \in m_PendingTunnels, m_Tunnels[t], m_Pools, "Run")
    BY DEF SlotsOK, Idle
  <2>1. SlotOK(tunnel[t], t \in m_PendingTunnels, m_Tunnels[t], m_Pools, "Run")
    BY DEF IInv, SlotsOK, Idle
  <2> QED BY <1>2, <2>1, NoTunnelIs DEF SlotOK, Unbuilt
<1>5. MembersOK'
  <2> SUFFICES ASSUME NEW p \in Pools, NEW t \in Slots
               PROVE  MemberOK(p, pool'[p], t, tunnel'[t], m_Tunnels[t])
    BY DEF MembersOK
  <2>1. MemberOK(p, pool[p], t, tunnel[t], m_Tunnels[t]) BY DEF IInv, MembersOK
  <2>2. TestEnds(pool'[p].m_Tests) \subseteq TestEnds(pool[p].m_Tests) BY DEF TestEnds
  <2> QED BY <1>2, <2>1, <2>2 DEF MemberOK, Unbuilt, Live
<1>6. PoolsOK'
  <2> SUFFICES ASSUME NEW p \in Pools
               PROVE  PoolOK(p, pool'[p], tunnel', m_Pools, detaching[p])
    BY DEF PoolsOK
  <2>1. PoolOK(p, pool[p], tunnel, m_Pools, detaching[p]) BY DEF IInv, PoolsOK
  <2>2. ASSUME NEW i \in pool[p].tunnels, ~Ended(tunnel, i) PROVE ~Ended(tunnel', i)
    <3>1. i \in Slots BY DEF IInv, Types, PoolRecord
    <3>2. m_Tunnels[i] = 1 BY <3>1 DEF IInv, MembersOK, MemberOK
    <3>3. tunnel'[i].age = tunnel[i].age BY <1>2, <3>1, <3>2
    <3> QED BY <2>2, <3>3 DEF Ended
  <2> QED BY <2>1, <2>2 DEF PoolOK
<1>7. StepOK(step', tunnel', m_Tunnels', m_Pools', pool') BY DEF IInv, StepOK, Idle
<1> QED BY <1>3, <1>4, <1>5, <1>6, <1>7 DEF IInv

\* Tunnel data for an inbound tunnel that failed.
LEMMA HandleTunnelDataMsgSound ==
  ASSUME IInv, NEW i \in Inbound, HandleTunnelDataMsg(i) PROVE IInv'
<1>1. /\ step = Idle /\ i \in Slots /\ tunnel[i].m_State = "Failed"
      /\ tunnel' = [tunnel EXCEPT ![i].m_State = "Established"]
      /\ UNCHANGED <<m_PendingTunnels, m_Tunnels, m_Pools, pool, detaching, step>>
  BY DEF HandleTunnelDataMsg, Revived, Listed
<1>2. tunnel' = [t \in Slots |-> tunnel'[t]] BY <1>1 DEF IInv, Types
<1>3. \A t \in Slots : \/ tunnel'[t] = tunnel[t]
                       \/ /\ tunnel[t].m_State \in {"Failed", "TestFailed"}
                          /\ tunnel'[t] = [tunnel[t] EXCEPT !.m_State = "Established"]
  BY <1>1 DEF IInv, Types
<1>4. pool' = pool /\ pool' \in [Pools -> PoolRecord] BY <1>1 DEF IInv, Types
<1> QED BY <1>1, <1>2, <1>3, <1>4, AnswersSound

\* The answer of a test.
LEMMA ProcessDeliveryStatusSound ==
  ASSUME IInv, NEW p \in Pools, NEW x \in pool[p].m_Tests, ProcessDeliveryStatus(p, x)
  PROVE  IInv'
<1> DEFINE alive == Revived(tunnel, x[2])
           restored == [t \in Slots |->
                          IF t \in {x[1], x[2]} /\ alive[t].m_State = "TestFailed"
                          THEN [alive[t] EXCEPT !.m_State = "Established"] ELSE alive[t]]
           q == [pool[p] EXCEPT !.m_Tests = @ \ {x}]
           pl == [pool EXCEPT ![p].m_Tests = @ \ {x}]
           gone == {x[1], x[2]} \ (Held(pl) \cup Listed \cup m_PendingTunnels)
<1>1. /\ step = Idle /\ x[2] \in Slots /\ pool' = pl /\ tunnel' = Drop(restored, gone)
      /\ UNCHANGED <<m_PendingTunnels, m_Tunnels, m_Pools, detaching, step>>
  BY DEF ProcessDeliveryStatus, Listed
<1>2. tunnel \in [Slots -> TunnelRecord] /\ pool \in [Pools -> PoolRecord] BY DEF IInv, Types
<1>3. \A t \in Slots :
        \/ alive[t] = tunnel[t]
        \/ /\ tunnel[t].m_State = "Failed"
           /\ alive[t] = [tunnel[t] EXCEPT !.m_State = "Established"]
           /\ alive[t].m_State = "Established"
  <2>1. CASE tunnel[x[2]].m_State = "Failed"
    <3>1. alive = [tunnel EXCEPT ![x[2]].m_State = "Established"] BY <2>1 DEF Revived
    <3> HIDE DEF alive
    <3> QED BY <1>1, <1>2, <2>1, <3>1 DEF TunnelRecord
  <2>2. CASE tunnel[x[2]].m_State # "Failed" BY <2>2 DEF Revived
  <2> QED BY <2>1, <2>2
<1> HIDE DEF alive
<1>4. \A t \in Slots :
        \/ restored[t] = tunnel[t]
        \/ /\ tunnel[t].m_State \in {"Failed", "TestFailed"}
           /\ restored[t] = [tunnel[t] EXCEPT !.m_State = "Established"]
  <2> SUFFICES ASSUME NEW t \in Slots
               PROVE  \/ restored[t] = tunnel[t]
                      \/ /\ tunnel[t].m_State \in {"Failed", "TestFailed"}
                         /\ restored[t] = [tunnel[t] EXCEPT !.m_State = "Established"]
    OBVIOUS
  <2>1. CASE t \in {x[1], x[2]} /\ alive[t].m_State = "TestFailed" BY <1>3, <2>1
  <2>2. CASE ~(t \in {x[1], x[2]} /\ alive[t].m_State = "TestFailed") BY <1>3, <2>2
  <2> QED BY <2>1, <2>2
<1> HIDE DEF restored
<1>5. pl = [pool EXCEPT ![p] = q] OBVIOUS
<1>6. /\ q \in PoolRecord /\ q.tunnels = pool[p].tunnels /\ q.m_LeaseSet = pool[p].m_LeaseSet
      /\ q.m_LocalDestination = pool[p].m_LocalDestination
      /\ q.m_Tests = pool[p].m_Tests \ {x}
  BY <1>2 DEF PoolRecord
<1> HIDE DEF q, pl
<1>7. /\ pl \in [Pools -> PoolRecord] /\ pl[p] = q
      /\ \A r \in Pools : r # p => pl[r] = pool[r]
  BY <1>2, <1>5, <1>6
<1>8. pool[p] # NewPool BY DEF NewPool
<1>9. \A t \in gone : /\ t \notin m_PendingTunnels
                      /\ t \in Slots => m_Tunnels[t] = 0
                      /\ \A r \in Pools : t \notin TestEnds(pl[r].m_Tests)
  BY HeldByTests DEF IInv, Types, Listed
<1>10. tunnel' = [t \in Slots |-> tunnel'[t]] BY <1>1 DEF Drop
<1>11. \A t \in Slots : tunnel'[t] = IF t \in gone THEN NoTunnel ELSE restored[t]
  BY <1>1 DEF Drop
<1> HIDE DEF gone
<1>12. \A t \in Slots :
         \/ tunnel'[t] = tunnel[t]
         \/ /\ tunnel[t].m_State \in {"Failed", "TestFailed"}
            /\ tunnel'[t] = [tunnel[t] EXCEPT !.m_State = "Established"]
         \/ /\ tunnel'[t] = NoTunnel /\ t \notin m_PendingTunnels /\ m_Tunnels[t] = 0
            /\ \A r \in Pools : t \notin TestEnds(pool'[r].m_Tests)
  BY <1>1, <1>4, <1>9, <1>11
<1> QED BY <1>1, <1>6, <1>7, <1>8, <1>10, <1>12, AnswersSound

\* The loop of ManageTunnelPools passes over a pool that was stopped.
LEMMA SkipPoolSound == ASSUME IInv, NEW p \in Pools, SkipPool(p) PROVE IInv'
<1>1. /\ step.at = "ManageTunnelPools" /\ step' = NextPool(step.todo \ {p})
      /\ UNCHANGED <<tunnel, m_PendingTunnels, m_Tunnels, m_Pools, pool, detaching>>
  BY DEF SkipPool
<1>2. step' \in [at : Stages, todo : SUBSET Pools, tunnel : SUBSET (Slots \cup Pools)]
      /\ (step' = Idle \/ (step'.at = "ManageTunnelPools" /\ step'.todo \subseteq step.todo))
  <2>1. step.todo \in SUBSET Pools BY DEF IInv, Types
  <2>2. CASE step.todo \ {p} = {} BY <1>1, <2>2 DEF NextPool, Idle, Stages
  <2>3. CASE step.todo \ {p} # {}
    <3>1. step' = [Idle EXCEPT !.at = "ManageTunnelPools", !.todo = step.todo \ {p}]
      BY <1>1, <2>3 DEF NextPool
    <3> QED BY <2>1, <3>1 DEF Idle, Stages
  <2> QED BY <2>2, <2>3
<1>3. StepOK(step', tunnel', m_Tunnels', m_Pools', pool')
  BY <1>1, <1>2 DEF IInv, StepOK, Idle
<1>4. SlotsOK' BY <1>1, <1>2 DEF IInv, SlotsOK, SlotOK, Idle
<1> QED BY <1>1, <1>2, <1>3, <1>4 DEF IInv, Types, MembersOK, PoolsOK

\* The flags of a pool that is created or stopped, and its entry in m_Pools.
LEMMA PoolFlagsSound ==
  ASSUME IInv, NEW p \in Pools, NEW on \in BOOLEAN, NEW stage \in {"no", "inbound"},
         p \in m_Pools', m_Pools' = m_Pools \cup {p}, detaching' = [detaching EXCEPT ![p] = stage],
         on => p \notin m_Pools /\ stage = "no",
         pool' = [pool EXCEPT ![p] = [pool[p] EXCEPT !.m_IsActive = on, !.m_LocalDestination = on]],
         UNCHANGED <<tunnel, m_PendingTunnels, m_Tunnels, step>>
  PROVE  IInv'
<1> DEFINE q == [pool[p] EXCEPT !.m_IsActive = on, !.m_LocalDestination = on]
<1>1. pool \in [Pools -> PoolRecord] /\ detaching \in [Pools -> {"no", "inbound", "outbound"}]
  BY DEF IInv, Types
<1>2. /\ q \in PoolRecord /\ q.tunnels = pool[p].tunnels /\ q.m_LeaseSet = pool[p].m_LeaseSet
      /\ q.m_LocalDestination = on /\ q.m_Tests = pool[p].m_Tests
  BY <1>1 DEF PoolRecord
<1>3. pool' = [pool EXCEPT ![p] = q] OBVIOUS
<1> HIDE DEF q
<1>4. /\ pool' \in [Pools -> PoolRecord] /\ pool'[p] = q
      /\ \A r \in Pools : r # p => pool'[r] = pool[r] /\ detaching'[r] = detaching[r]
      /\ detaching' \in [Pools -> {"no", "inbound", "outbound"}]
  BY <1>1, <1>2, <1>3
<1>5. Types' BY <1>4 DEF IInv, Types
<1>6. SlotsOK' BY DEF IInv, SlotsOK, SlotOK
<1>7. MembersOK'
  <2> SUFFICES ASSUME NEW r \in Pools, NEW t \in Slots
               PROVE  MemberOK(r, pool'[r], t, tunnel[t], m_Tunnels[t])
    BY DEF MembersOK
  <2>1. MemberOK(r, pool[r], t, tunnel[t], m_Tunnels[t]) BY DEF IInv, MembersOK
  <2> QED BY <1>2, <1>4, <2>1 DEF MemberOK
<1>8. PoolsOK'
  <2> SUFFICES ASSUME NEW r \in Pools
               PROVE  PoolOK(r, pool'[r], tunnel, m_Pools', detaching'[r])
    BY DEF PoolsOK
  <2>1. PoolOK(r, pool[r], tunnel, m_Pools, detaching[r]) BY DEF IInv, PoolsOK
  <2>2. on => pool[p].m_LeaseSet = {}
    <3>1. PoolOK(p, pool[p], tunnel, m_Pools, detaching[p]) BY DEF IInv, PoolsOK
    <3> QED BY <3>1 DEF PoolOK, NewPool
  <2> QED BY <1>2, <1>4, <2>1, <2>2 DEF PoolOK
<1>9. StepOK(step', tunnel', m_Tunnels', m_Pools', pool')
  <2>1. \A r \in Pools : pool'[r].tunnels = pool[r].tunnels BY <1>2, <1>4
  <2> QED BY <2>1 DEF IInv, StepOK
<1> QED BY <1>5, <1>6, <1>7, <1>8, <1>9 DEF IInv

\* The pool of a new destination.
LEMMA CreateTunnelPoolSound == ASSUME IInv, NEW p \in Pools, CreateTunnelPool(p) PROVE IInv'
<1>1. /\ p \notin m_Pools /\ m_Pools' = m_Pools \cup {p}
      /\ pool' = [pool EXCEPT ![p].m_IsActive = TRUE, ![p].m_LocalDestination = TRUE]
      /\ UNCHANGED <<tunnel, m_PendingTunnels, m_Tunnels, detaching, step>>
  BY DEF CreateTunnelPool
<1>2. pool' = [pool EXCEPT ![p] = [pool[p] EXCEPT !.m_IsActive = TRUE, !.m_LocalDestination = TRUE]]
  BY <1>1 DEF IInv, Types, PoolRecord
<1>3. detaching[p] = "no" BY <1>1 DEF IInv, PoolsOK, PoolOK
<1>4. detaching' = [detaching EXCEPT ![p] = "no"] BY <1>1, <1>3 DEF IInv, Types
<1> QED BY <1>1, <1>2, <1>4, PoolFlagsSound

\* The owner's thread begins to stop a pool.
LEMMA SetInactiveSound == ASSUME IInv, NEW p \in Pools, SetInactive(p) PROVE IInv'
<1>1. /\ p \in m_Pools /\ detaching' = [detaching EXCEPT ![p] = "inbound"]
      /\ pool' = [pool EXCEPT ![p].m_IsActive = FALSE, ![p].m_LocalDestination = FALSE]
      /\ UNCHANGED <<tunnel, m_PendingTunnels, m_Tunnels, m_Pools, step>>
  BY DEF SetInactive
<1>2. pool' = [pool EXCEPT ![p] = [pool[p] EXCEPT !.m_IsActive = FALSE, !.m_LocalDestination = FALSE]]
  BY <1>1 DEF IInv, Types, PoolRecord
<1>3. m_Pools' = m_Pools \cup {p} BY <1>1
<1> QED BY <1>1, <1>2, <1>3, PoolFlagsSound

\* The owner's thread takes the tunnels of one direction out of a stopped pool;
\* its tests go with the last of them.
LEMMA DetachSound ==
  ASSUME IInv, NEW p \in Pools, NEW D \in {Inbound, Outbound}, Detach(p, D),
         detaching[p] # "no", NEW stage \in {"no", "outbound"},
         detaching' = [detaching EXCEPT ![p] = stage],
         NEW tests \in SUBSET pool[p].m_Tests,
         pool' = [pool EXCEPT ![p] = [pool[p] EXCEPT !.tunnels = @ \ D, !.m_Tests = tests]]
  PROVE  IInv'
<1> DEFINE q == [pool[p] EXCEPT !.tunnels = @ \ D, !.m_Tests = tests]
           x(t) == [tunnel[t] EXCEPT !.m_Pool = NoPool]
<1>1. /\ tunnel \in [Slots -> TunnelRecord] /\ pool \in [Pools -> PoolRecord]
      /\ detaching \in [Pools -> {"no", "inbound", "outbound"}]
  BY DEF IInv, Types
<1>2. /\ q \in PoolRecord /\ q.tunnels = pool[p].tunnels \ D /\ q.m_LeaseSet = pool[p].m_LeaseSet
      /\ q.m_LocalDestination = pool[p].m_LocalDestination /\ q.m_Tests = tests
  BY <1>1 DEF PoolRecord
<1>3. pool' = [pool EXCEPT ![p] = q] OBVIOUS
<1> HIDE DEF q
<1>4. /\ pool' \in [Pools -> PoolRecord] /\ pool'[p] = q
      /\ \A r \in Pools : r # p => pool'[r] = pool[r] /\ detaching'[r] = detaching[r]
      /\ detaching' \in [Pools -> {"no", "inbound", "outbound"}]
  BY <1>1, <1>2, <1>3
<1>5. \A t \in Slots : /\ x(t) \in TunnelRecord /\ x(t).m_State = tunnel[t].m_State
                       /\ x(t).m_Pool = NoPool /\ x(t).age = tunnel[t].age
  BY <1>1 DEF TunnelRecord
<1>6. /\ tunnel' = [t \in Slots |-> IF t \in pool[p].tunnels \cap D THEN x(t) ELSE tunnel[t]]
      /\ UNCHANGED <<m_PendingTunnels, m_Tunnels, m_Pools, step>>
  BY DEF Detach
<1> HIDE DEF x
<1>7. \A t \in Slots : /\ tunnel'[t] \in TunnelRecord
                       /\ tunnel'[t].m_State = tunnel[t].m_State /\ tunnel'[t].age = tunnel[t].age
                       /\ \/ tunnel'[t] = tunnel[t]
                          \/ t \in pool[p].tunnels \cap D /\ tunnel'[t].m_Pool = NoPool
                       /\ t \in pool[p].tunnels \cap D => tunnel'[t].m_Pool = NoPool
  BY <1>1, <1>5, <1>6
<1>8. Types'
  <2>1. tunnel' \in [Slots -> TunnelRecord] BY <1>6, <1>7
  <2> QED BY <1>4, <1>6, <2>1 DEF IInv, Types
<1>9. \A t \in Slots : t \in pool[p].tunnels => tunnel[t].m_State \in Live /\ tunnel[t].m_Pool = p
  BY DEF IInv, MembersOK, MemberOK
<1>10. SlotsOK' BY <1>6, <1>7, <1>9 DEF IInv, SlotsOK, SlotOK, Live
<1>11. MembersOK'
  <2> SUFFICES ASSUME NEW r \in Pools, NEW t \in Slots
               PROVE  MemberOK(r, pool'[r], t, tunnel'[t], m_Tunnels[t])
    BY <1>6 DEF MembersOK
  <2>1. MemberOK(r, pool[r], t, tunnel[t], m_Tunnels[t]) BY DEF IInv, MembersOK
  <2>2. TestEnds(pool'[r].m_Tests) \subseteq TestEnds(pool[r].m_Tests)
    BY <1>2, <1>4 DEF TestEnds
  <2>3. /\ pool'[r].tunnels \subseteq pool[r].tunnels
        /\ r = p => pool'[r].tunnels = pool[p].tunnels \ D
    BY <1>2, <1>4
  <2>4. t \in pool'[r].tunnels => tunnel'[t] = tunnel[t]
    BY <1>7, <1>9, <2>1, <2>3 DEF MemberOK
  <2> QED BY <1>7, <2>1, <2>2, <2>3, <2>4 DEF MemberOK
<1>12. PoolsOK'
  <2> SUFFICES ASSUME NEW r \in Pools
               PROVE  PoolOK(r, pool'[r], tunnel', m_Pools, detaching'[r])
    BY <1>6 DEF PoolsOK
  <2>1. PoolOK(r, pool[r], tunnel, m_Pools, detaching[r]) BY DEF IInv, PoolsOK
  <2>2. \A i \in pool[r].m_LeaseSet : Ended(tunnel', i) <=> Ended(tunnel, i)
    <3>1. pool[r].m_LeaseSet \subseteq Slots BY <1>1 DEF PoolRecord, Slots
    <3> QED BY <1>7, <3>1 DEF Ended
  <2>3. CASE r = p
    <3>1. p \in m_Pools /\ ~pool[p].m_LocalDestination BY <2>1, <2>3 DEF PoolOK
    <3> QED BY <1>2, <1>4, <2>1, <2>3, <3>1 DEF PoolOK
  <2>4. CASE r # p BY <1>4, <2>1, <2>2, <2>4 DEF PoolOK
  <2> QED BY <2>3, <2>4
<1>13. StepOK(step', tunnel', m_Tunnels', m_Pools', pool')
  <2>1. \A r \in Pools : pool'[r].tunnels \subseteq pool[r].tunnels BY <1>2, <1>4
  <2> QED BY <1>6, <1>7, <2>1 DEF IInv, StepOK
<1> QED BY <1>8, <1>10, <1>11, <1>12, <1>13 DEF IInv

LEMMA DetachInboundSound == ASSUME IInv, NEW p \in Pools, DetachInbound(p) PROVE IInv'
<1>1. /\ detaching[p] = "inbound" /\ Detach(p, Inbound)
      /\ pool' = [pool EXCEPT ![p].tunnels = @ \ Inbound]
      /\ detaching' = [detaching EXCEPT ![p] = "outbound"]
  BY DEF DetachInbound
<1>2. pool[p] \in PoolRecord BY DEF IInv, Types
<1>3. [pool[p] EXCEPT !.tunnels = @ \ Inbound]
        = [pool[p] EXCEPT !.tunnels = @ \ Inbound, !.m_Tests = pool[p].m_Tests]
  BY <1>2 DEF PoolRecord
<1>4. pool' = [pool EXCEPT ![p] = [pool[p] EXCEPT !.tunnels = @ \ Inbound]]
  BY <1>1 DEF IInv, Types
<1>5. pool' = [pool EXCEPT ![p] = [pool[p] EXCEPT !.tunnels = @ \ Inbound, !.m_Tests = pool[p].m_Tests]]
  BY <1>3, <1>4
<1> QED BY <1>1, <1>5, DetachSound

LEMMA DetachOutboundSound == ASSUME IInv, NEW p \in Pools, DetachOutbound(p) PROVE IInv'
<1>1. /\ detaching[p] = "outbound" /\ Detach(p, Outbound)
      /\ pool' = [pool EXCEPT ![p].tunnels = @ \ Outbound, ![p].m_Tests = {}]
      /\ detaching' = [detaching EXCEPT ![p] = "no"]
  BY DEF DetachOutbound
<1>2. pool' = [pool EXCEPT ![p] = [pool[p] EXCEPT !.tunnels = @ \ Outbound, !.m_Tests = {}]]
  BY <1>1 DEF IInv, Types, PoolRecord
<1>3. {} \in SUBSET pool[p].m_Tests OBVIOUS
<1> QED BY <1>1, <1>2, <1>3, DetachSound

\* A new object is in its place.
LEMMA NewSlotOK ==
  ASSUME NEW pools \in SUBSET Pools, NEW p \in pools \cup {NoPool}, NEW at
  PROVE  NewTunnel(p) \in TunnelRecord /\ SlotOK(NewTunnel(p), TRUE, 0, pools, at)
BY NewTunnelIs DEF SlotOK, Unbuilt

\* A tunnel is established: it is listed, and the tunnels thread carries it to
\* its pool, or it loses its pool and perhaps gets a symmetric tunnel, in N.
AcceptedStep(t, N, x) ==
  /\ GetPendingTunnel(t) /\ step = Idle
  /\ m_Tunnels' = [m_Tunnels EXCEPT ![t] = 1]
  /\ m_PendingTunnels' = m_PendingTunnels \cup N
  /\ tunnel' = [u \in Slots |-> tunnel'[u]]
  /\ tunnel'[t] = x /\ x.m_State = "Established"
  /\ \/ step' = [step EXCEPT !.at = "TunnelCreated", !.tunnel = {t}] /\ x.m_Pool \in m_Pools
     \/ step' = step /\ x.m_Pool = NoPool
  /\ \A u \in N : \E p \in m_Pools \cup {NoPool} : tunnel'[u] = NewTunnel(p)
  /\ \A u \in Slots \ N : u # t => tunnel'[u] = tunnel[u]
  /\ UNCHANGED <<m_Pools, pool, detaching>>

LEMMA AcceptedSound ==
  ASSUME IInv, NEW t \in Slots, NEW N \in SUBSET Free(Slots), NEW x \in TunnelRecord,
         AcceptedStep(t, N, x)
  PROVE  IInv'
<1> USE DEF AcceptedStep
<1>1. /\ tunnel \in [Slots -> TunnelRecord] /\ m_Tunnels \in [Slots -> 0 .. 1]
      /\ m_Pools \in SUBSET Pools /\ pool \in [Pools -> PoolRecord]
      /\ m_PendingTunnels \subseteq Slots
  BY DEF IInv, Types
<1>2. m_Tunnels' \in [Slots -> 0 .. 1] /\ m_Tunnels'[t] = 1
      /\ \A u \in Slots : u # t => m_Tunnels'[u] = m_Tunnels[u]
  BY <1>1
<1>3. tunnel[t].m_State = "Pending" /\ t \in m_PendingTunnels /\ t \notin N
  BY DEF GetPendingTunnel, Free
<1>4. \A u \in N : u \in Slots /\ u # t /\ tunnel[u].m_State = "None" /\ m_Tunnels[u] = 0
  BY <1>3 DEF Free, IInv, SlotsOK, SlotOK, Unbuilt
<1>5. \A p \in Pools : /\ pool[p].tunnels \cap (N \cup {t}) = {}
                       /\ TestEnds(pool[p].m_Tests) \cap (N \cup {t}) = {}
  <2>1. \A p \in Pools : \A u \in N \cup {t} : MemberOK(p, pool[p], u, tunnel[u], m_Tunnels[u])
    BY <1>4 DEF IInv, MembersOK
  <2> QED BY <1>3, <1>4, <2>1 DEF MemberOK, Live, Unbuilt
<1>6. /\ step' \in [at : Stages, todo : SUBSET Pools, tunnel : SUBSET (Slots \cup Pools)]
      /\ step'.at \in {"Run", "TunnelCreated"}
  <2>1. step \in [at : Stages, todo : SUBSET Pools, tunnel : SUBSET (Slots \cup Pools)]
        /\ step.at = "Run"
    BY DEF IInv, Types, Idle
  <2>2. CASE step' = step BY <2>1, <2>2
  <2>3. CASE step' = [step EXCEPT !.at = "TunnelCreated", !.tunnel = {t}]
    <3>1. {t} \in SUBSET (Slots \cup Pools) OBVIOUS
    <3> QED BY <2>1, <2>3, <3>1 DEF Stages
  <2> QED BY <2>2, <2>3
<1>7. \A u \in Slots :
        /\ tunnel'[u] \in TunnelRecord
        /\ SlotOK(tunnel'[u], u \in m_PendingTunnels', m_Tunnels'[u], m_Pools, step'.at)
  <2> TAKE u \in Slots
  <2>1. SlotOK(tunnel[u], u \in m_PendingTunnels, m_Tunnels[u], m_Pools, step.at)
    BY DEF IInv, SlotsOK
  <2>2. u \notin N => /\ tunnel'[u] \in TunnelRecord
                      /\ SlotOK(tunnel'[u], u \in m_PendingTunnels, m_Tunnels'[u], m_Pools, step'.at)
    <3>1. CASE u = t BY <1>2, <1>3, <1>6, <3>1 DEF SlotOK, Unbuilt
    <3>2. CASE u # t BY <1>1, <1>2, <1>6, <2>1, <3>2 DEF SlotOK
    <3> QED BY <3>1, <3>2
  <2>3. CASE u \in N
    <3>1. PICK p \in m_Pools \cup {NoPool} : tunnel'[u] = NewTunnel(p) BY <2>3
    <3>2. (u \in m_PendingTunnels') = TRUE /\ m_Tunnels'[u] = 0 BY <1>2, <1>4, <2>3
    <3> QED BY <1>1, <3>1, <3>2, NewSlotOK
  <2>4. CASE u \notin N
    <3>1. (u \in m_PendingTunnels') = (u \in m_PendingTunnels) BY <2>4
    <3> QED BY <2>2, <2>4, <3>1
  <2> QED BY <2>3, <2>4
<1>8. Types'
  <2>1. tunnel' \in [Slots -> TunnelRecord] BY <1>7
  <2> QED BY <1>1, <1>2, <1>4, <1>6, <2>1 DEF IInv, Types
<1>9. SlotsOK' BY <1>7 DEF SlotsOK
<1>10. MembersOK'
  <2> SUFFICES ASSUME NEW p \in Pools, NEW u \in Slots
               PROVE  MemberOK(p, pool[p], u, tunnel'[u], m_Tunnels'[u])
    BY DEF MembersOK
  <2>1. MemberOK(p, pool[p], u, tunnel[u], m_Tunnels[u]) BY DEF IInv, MembersOK
  <2>2. CASE u \in N \cup {t} BY <1>5, <2>2 DEF MemberOK
  <2>3. CASE u \notin N \cup {t} BY <1>2, <2>1, <2>3
  <2> QED BY <2>2, <2>3
<1>11. PoolsOK'
  <2> SUFFICES ASSUME NEW p \in Pools
               PROVE  PoolOK(p, pool[p], tunnel', m_Pools, detaching[p])
    BY DEF PoolsOK
  <2>1. PoolOK(p, pool[p], tunnel, m_Pools, detaching[p]) BY DEF IInv, PoolsOK
  <2>2. \A i \in pool[p].tunnels : tunnel'[i] = tunnel[i] BY <1>1, <1>5 DEF PoolRecord
  <2> QED BY <2>1, <2>2 DEF PoolOK, Ended
<1>12. StepOK(step', tunnel', m_Tunnels', m_Pools', pool')
  <2>1. CASE step' = step BY <2>1 DEF StepOK, Idle
  <2>2. CASE step' = [step EXCEPT !.at = "TunnelCreated", !.tunnel = {t}] /\ x.m_Pool \in m_Pools
    BY <1>2, <1>5, <2>2 DEF StepOK, Idle
  <2> QED BY <2>1, <2>2
<1> QED BY <1>8, <1>9, <1>10, <1>11, <1>12 DEF IInv

LEMMA HandleBuildAcceptedSound ==
  ASSUME IInv, NEW t \in Slots, HandleBuildAccepted(t) PROVE IInv'
<1> DEFINE p == tunnel[t].m_Pool
           tn == [tunnel EXCEPT ![t].m_State = "Established"]
           want == IF t \in Inbound /\ p = NoPool THEN [x \in {t} |-> NoPool] ELSE <<>>
           e == [tunnel[t] EXCEPT !.m_State = "Established"]
           o == [e EXCEPT !.m_Pool = NoPool]
<1>1. /\ step = Idle /\ GetPendingTunnel(t)
      /\ m_Tunnels' = [m_Tunnels EXCEPT ![t] = IF t \in Inbound THEN 1 ELSE @ + 1]
      /\ IF JoinsPool(p)
         THEN /\ tunnel' = tn
              /\ step' = [step EXCEPT !.at = "TunnelCreated", !.tunnel = {t}]
              /\ UNCHANGED m_PendingTunnels
         ELSE \E f \in Creations(Outbound, want, {}) :
                /\ tunnel' = Created([tn EXCEPT ![t].m_Pool = NoPool], f, want)
                /\ m_PendingTunnels' = AddPendingTunnels(m_PendingTunnels, f)
                /\ UNCHANGED step
      /\ UNCHANGED <<m_Pools, pool, detaching>>
  BY DEF HandleBuildAccepted
<1>2. tunnel \in [Slots -> TunnelRecord] /\ m_Tunnels \in [Slots -> 0 .. 1] BY DEF IInv, Types
<1>3. SlotOK(tunnel[t], t \in m_PendingTunnels, m_Tunnels[t], m_Pools, step.at)
  BY DEF IInv, SlotsOK
<1>4. tunnel[t].m_State = "Pending" /\ m_Tunnels[t] = 0 /\ p \in m_Pools \cup {NoPool}
  BY <1>1, <1>3 DEF GetPendingTunnel, SlotOK, Unbuilt
<1>5. m_Tunnels' = [m_Tunnels EXCEPT ![t] = 1] BY <1>1, <1>2, <1>4
<1>6. e \in TunnelRecord /\ e.m_State = "Established" /\ e.m_Pool = p
  BY <1>2 DEF TunnelRecord, TunnelState
<1>7. tn = [tunnel EXCEPT ![t] = e] OBVIOUS
<1> HIDE DEF e
<1>8. o \in TunnelRecord /\ o.m_State = "Established" /\ o.m_Pool = NoPool
  BY <1>6 DEF TunnelRecord
<1>9. [tn EXCEPT ![t].m_Pool = NoPool] = [tunnel EXCEPT ![t] = o] BY <1>2, <1>7
<1> HIDE DEF o, tn
<1>10. CASE JoinsPool(p)
  <2>1. /\ tunnel' = [tunnel EXCEPT ![t] = e] /\ m_PendingTunnels' = m_PendingTunnels \cup {}
        /\ step' = [step EXCEPT !.at = "TunnelCreated", !.tunnel = {t}]
        /\ e.m_Pool \in m_Pools
    BY <1>1, <1>4, <1>6, <1>7, <1>10 DEF JoinsPool
  <2>2. /\ tunnel' = [u \in Slots |-> tunnel'[u]] /\ tunnel'[t] = e
        /\ \A u \in Slots \ {} : u # t => tunnel'[u] = tunnel[u]
    BY <1>2, <2>1
  <2>3. {} \in SUBSET Free(Slots) OBVIOUS
  <2>4. \A u \in {} : \E r \in m_Pools \cup {NoPool} : tunnel'[u] = NewTunnel(r) OBVIOUS
  <2>5. AcceptedStep(t, {}, e) BY <1>1, <1>5, <1>6, <2>1, <2>2, <2>4 DEF AcceptedStep
  <2> QED BY <1>6, <2>3, <2>5, AcceptedSound
<1>11. CASE ~JoinsPool(p)
  <2>1. PICK f \in Creations(Outbound, want, {}) :
          /\ tunnel' = Created([tunnel EXCEPT ![t] = o], f, want)
          /\ m_PendingTunnels' = AddPendingTunnels(m_PendingTunnels, f)
          /\ UNCHANGED step
    BY <1>1, <1>9, <1>11
  <2>2. WantedFor(want, m_Pools) BY DEF WantedFor
  <2> HIDE DEF want
  <2>3. PICK N \in SUBSET Free(Outbound) : CreatesIn(f, want, N, m_Pools)
    BY <2>2, CreationIsNew
  <2>4. N \in SUBSET Free(Slots) /\ t \notin N /\ N \subseteq Slots
    BY <1>4 DEF Free, Slots
  <2>5. /\ \A u \in N : \E r \in m_Pools \cup {NoPool} : tunnel'[u] = NewTunnel(r)
        /\ \A u \in Slots \ N : tunnel'[u] = [tunnel EXCEPT ![t] = o][u]
        /\ m_PendingTunnels' = m_PendingTunnels \cup N
    BY <2>1, <2>3, <2>4 DEF CreatesIn
  <2>6. tunnel' = [u \in Slots |-> tunnel'[u]] BY <2>1, <2>3 DEF CreatesIn
  <2>7. tunnel'[t] = o /\ \A u \in Slots \ N : u # t => tunnel'[u] = tunnel[u]
    BY <1>2, <2>4, <2>5
  <2>8. AcceptedStep(t, N, o)
    BY <1>1, <1>5, <1>8, <2>1, <2>5, <2>6, <2>7 DEF AcceptedStep
  <2> QED BY <1>8, <2>4, <2>8, AcceptedSound
<1> QED BY <1>10, <1>11

\* A pending tunnel leaves its map when it timed out, failed, or is listed.
LEMMA ManagePendingTunnelsSound == ASSUME IInv, ManagePendingTunnels PROVE IInv'
<1> DEFINE gone == {t \in m_PendingTunnels : TimedOut(t)}
<1>1. /\ step = Idle /\ m_PendingTunnels' = m_PendingTunnels \ gone
      /\ tunnel' = [t \in Slots |-> IF t \in gone \ Listed THEN NoTunnel ELSE tunnel[t]]
      /\ step' = [Idle EXCEPT !.at = "ManageInboundTunnels"]
      /\ UNCHANGED <<m_Tunnels, m_Pools, pool, detaching>>
  BY DEF ManagePendingTunnels, Drop
<1>2. /\ tunnel \in [Slots -> TunnelRecord] /\ m_Tunnels \in [Slots -> 0 .. 1]
      /\ m_PendingTunnels \subseteq Slots
      /\ pool \in [Pools -> PoolRecord]
  BY DEF IInv, Types
<1>3. \A t \in Slots : SlotOK(tunnel[t], t \in m_PendingTunnels, m_Tunnels[t], m_Pools, "Run")
  BY <1>1 DEF IInv, SlotsOK, Idle
<1>4. \A t \in Slots : t \in Listed <=> m_Tunnels[t] = 1 BY <1>2 DEF Listed
<1>5. \A t \in Slots : t \in gone \ Listed =>
        tunnel[t].m_State \in {"Pending", "BuildFailed"} /\ m_Tunnels[t] = 0
  BY <1>2, <1>3, <1>4 DEF SlotOK, Unbuilt
<1>6. \A t \in Slots : t \in m_PendingTunnels \ gone => tunnel[t].m_State = "Pending"
  BY DEF TimedOut
<1>7. step'.at = "ManageInboundTunnels" /\ step'.todo = {} /\ step'.tunnel = {}
      /\ step' \in [at : Stages, todo : SUBSET Pools, tunnel : SUBSET (Slots \cup Pools)]
  BY <1>1 DEF Idle, Stages
<1>8. \A t \in gone : t \in m_PendingTunnels OBVIOUS
<1> HIDE DEF gone
<1>9. \A t \in Slots : tunnel'[t] = IF t \in gone \ Listed THEN NoTunnel ELSE tunnel[t]
  BY <1>1
<1>10. \A t \in Slots : tunnel'[t] \in TunnelRecord BY <1>2, <1>9, NoTunnelIs
<1>11. Types'
  <2>1. tunnel' \in [Slots -> TunnelRecord] BY <1>1, <1>10
  <2>2. m_PendingTunnels' \subseteq Slots BY <1>1, <1>2
  <2> QED BY <1>1, <1>7, <2>1, <2>2 DEF IInv, Types
<1>12. SlotsOK'
  <2> SUFFICES ASSUME NEW t \in Slots
               PROVE  SlotOK(tunnel'[t], t \in m_PendingTunnels', m_Tunnels[t], m_Pools,
                             "ManageInboundTunnels")
    BY <1>1, <1>7 DEF SlotsOK
  <2>1. CASE t \in gone \ Listed
    <3>1. t \notin m_PendingTunnels' /\ tunnel'[t] = NoTunnel /\ m_Tunnels[t] = 0
      BY <1>1, <1>5, <1>9, <2>1
    <3> QED BY <3>1, NoTunnelIs DEF SlotOK, Unbuilt
  <2>2. CASE t \notin gone \ Listed
    <3>1. tunnel'[t] = tunnel[t] BY <1>9, <2>2
    <3>2. t \in m_PendingTunnels' <=> t \in m_PendingTunnels \ gone BY <1>1
    <3>3. tunnel[t].m_State = "Pending" => m_Tunnels[t] = 0 /\ t \in m_PendingTunnels
      BY <1>3 DEF SlotOK, Unbuilt
    <3>4. tunnel[t].m_State = "Pending" => t \in m_PendingTunnels \ gone
      BY <1>4, <2>2, <3>3
    <3> QED BY <1>3, <1>6, <3>1, <3>2, <3>4 DEF SlotOK
  <2> QED BY <2>1, <2>2
<1>13. MembersOK'
  <2> SUFFICES ASSUME NEW p \in Pools, NEW t \in Slots
               PROVE  MemberOK(p, pool[p], t, tunnel'[t], m_Tunnels[t])
    BY <1>1 DEF MembersOK
  <2>1. MemberOK(p, pool[p], t, tunnel[t], m_Tunnels[t]) BY DEF IInv, MembersOK
  <2> QED BY <1>5, <1>9, <2>1 DEF MemberOK, Live, Unbuilt
<1>14. PoolsOK'
  <2> SUFFICES ASSUME NEW p \in Pools
               PROVE  PoolOK(p, pool[p], tunnel', m_Pools, detaching[p])
    BY <1>1 DEF PoolsOK
  <2>1. PoolOK(p, pool[p], tunnel, m_Pools, detaching[p]) BY DEF IInv, PoolsOK
  <2>2. \A i \in pool[p].tunnels : i \in Slots /\ tunnel'[i] = tunnel[i]
    <3>1. \A i \in pool[p].tunnels : i \in Slots BY <1>2 DEF PoolRecord
    <3>2. \A i \in pool[p].tunnels : m_Tunnels[i] = 1 BY <3>1 DEF IInv, MembersOK, MemberOK
    <3> QED BY <1>5, <1>9, <3>1, <3>2
  <2> QED BY <2>1, <2>2 DEF PoolOK, Ended
<1>15. StepOK(step', tunnel', m_Tunnels', m_Pools', pool') BY <1>7 DEF StepOK
<1> QED BY <1>11, <1>12, <1>13, <1>14, <1>15 DEF IInv

\* An expired tunnel was listed, is not pending, and its lease has ended.
LEMMA ExpiredIs ==
  ASSUME IInv, step.at \in {"ManageInboundTunnels", "ManageOutboundTunnels"}, NEW D,
         NEW t \in Expired(D)
  PROVE  /\ t \in Slots /\ m_Tunnels[t] = 1 /\ t \notin m_PendingTunnels
         /\ tunnel[t].m_State \notin Unbuilt /\ Ended(tunnel, t)
<1>1. t \in Slots /\ m_Tunnels[t] = 1 /\ tunnel[t].age > TUNNEL_EXPIRATION_TIMEOUT
  BY DEF Expired, Listed, IInv, Types
<1>2. SlotOK(tunnel[t], t \in m_PendingTunnels, m_Tunnels[t], m_Pools, step.at)
  BY <1>1 DEF IInv, SlotsOK
<1>3. tunnel[t].m_State \notin Unbuilt /\ t \notin m_PendingTunnels
  BY <1>1, <1>2 DEF SlotOK, Unbuilt
<1>4. Ended(tunnel, t)
  <2>1. tunnel[t].age \in Nat BY <1>1, TunnelsAssumption DEF IInv, Types, TunnelRecord
  <2> QED BY <1>1, <2>1, TunnelsAssumption DEF Ended
<1> QED BY <1>1, <1>3, <1>4

\* What the loop over the listed tunnels does to the object of slot t.
LEMMA ManagedIs ==
  ASSUME IInv, step.at \in {"ManageInboundTunnels", "ManageOutboundTunnels"}, NEW D,
         NEW t \in Slots
  PROVE  LET x == tunnel[t]
             y == Managed(D)[t]
         IN \/ t \in Expired(D) /\ y = NoTunnel /\ \A p \in Pools : t \notin TestEnds(pool[p].m_Tests)
            \/ /\ y \in TunnelRecord /\ y.age = x.age
               /\ y.m_State = x.m_State \/ (x.m_State = "Established" /\ y.m_State = "Expiring")
               /\ y.m_Pool = IF t \in Expired(D) THEN NoPool ELSE x.m_Pool
               /\ x.m_State = "None" => y = NoTunnel
<1> DEFINE x == tunnel[t]
           y == Managed(D)[t]
           a == x.m_IsRecreated \/ t \in Recreated(D)
           b == IF t \in Expiring(D) THEN "Expiring" ELSE x.m_State
           c == IF t \in Expired(D) THEN NoPool ELSE x.m_Pool
           marked == [x EXCEPT !.m_IsRecreated = a, !.m_State = b, !.m_Pool = c]
           gone == Expired(D) \ (Held(pool) \cup m_PendingTunnels)
<1>1. x \in TunnelRecord /\ SlotOK(x, t \in m_PendingTunnels, m_Tunnels[t], m_Pools, step.at)
  BY DEF IInv, Types, SlotsOK
<1>2. y = IF t \in gone THEN NoTunnel ELSE marked BY DEF Managed, Drop
<1>3. /\ a \in BOOLEAN /\ b \in TunnelState \cup {"None"} /\ c \in Pools \cup {NoPool}
      /\ b = x.m_State \/ (x.m_State = "Established" /\ b = "Expiring")
  <2>1. t \in Expiring(D) => x.m_State = "Established" BY DEF Expiring, IsEstablished
  <2>2. x.m_State \in TunnelState \cup {"None"} /\ x.m_Pool \in Pools \cup {NoPool}
        /\ x.m_IsRecreated \in BOOLEAN
    BY <1>1 DEF TunnelRecord
  <2> QED BY <2>1, <2>2 DEF TunnelState
<1>4. x.m_State = "None" => /\ x = NoTunnel /\ t \notin Expired(D)
                            /\ a = x.m_IsRecreated /\ b = x.m_State /\ c = x.m_Pool
  <2>1. x.m_State = "None" => m_Tunnels[t] = 0 /\ x = NoTunnel BY <1>1 DEF SlotOK, Unbuilt
  <2>2. m_Tunnels[t] = 0 => t \notin Listed BY DEF Listed
  <2>3. x.m_IsRecreated \in BOOLEAN BY <1>1 DEF TunnelRecord
  <2> QED BY <2>1, <2>2, <2>3 DEF Expired, Expiring, Recreated
<1> HIDE DEF a, b
<1>5. c = IF t \in Expired(D) THEN NoPool ELSE x.m_Pool OBVIOUS
<1> HIDE DEF c
<1>6. /\ marked \in TunnelRecord /\ marked.age = x.age /\ marked.m_State = b
      /\ marked.m_Pool = c
  BY <1>1, <1>3 DEF TunnelRecord
<1>7. x.m_State = "None" => marked = x BY <1>1, <1>4 DEF TunnelRecord
<1>8. t \in gone => t \in Expired(D) /\ \A p \in Pools : t \notin TestEnds(pool[p].m_Tests)
  BY HeldByTests
<1> HIDE DEF marked, gone
<1>9. CASE t \in gone BY <1>2, <1>8, <1>9
<1>10. CASE t \notin gone BY <1>2, <1>3, <1>4, <1>5, <1>6, <1>7, <1>10
<1> QED BY <1>9, <1>10

\* One half of ManageTunnels, for the tunnels of D: N are the replacements.
ManageStep(D, N) ==
  /\ step.at \in {"ManageInboundTunnels", "ManageOutboundTunnels"}
  /\ m_Tunnels' = [t \in Slots |-> IF t \in Expired(D) THEN 0 ELSE m_Tunnels[t]]
  /\ m_PendingTunnels' = m_PendingTunnels \cup N
  /\ tunnel' = [t \in Slots |-> tunnel'[t]]
  /\ \A t \in N : \E p \in m_Pools \cup {NoPool} : tunnel'[t] = NewTunnel(p)
  /\ \A t \in Slots \ N : tunnel'[t] = Managed(D)[t]
  /\ m_Pools \subseteq m_Pools' /\ m_Pools' \subseteq Pools
  /\ pool' \in [Pools -> PoolRecord]
  /\ \A p \in Pools :
       /\ pool'[p].tunnels = pool[p].tunnels \ Expired(D)
       /\ pool'[p].m_Tests = pool[p].m_Tests /\ pool'[p].m_LeaseSet = pool[p].m_LeaseSet
       /\ pool'[p].m_LocalDestination =>
            pool[p].m_LocalDestination \/ (p = Exploratory /\ p \notin m_Pools)
       /\ p \notin m_Pools' => pool'[p] = NewPool
  /\ step' \in [at : Stages, todo : SUBSET Pools, tunnel : SUBSET (Slots \cup Pools)]
  /\ step'.at \in {"ManageOutboundTunnels", "ManageTunnelPools", "Run"}
  /\ step'.todo \subseteq m_Pools' /\ (step'.at = "Run" => step' = Idle)
  /\ UNCHANGED detaching

LEMMA ManageSound ==
  ASSUME IInv, NEW D, NEW N \in SUBSET Free(Slots), ManageStep(D, N) PROVE IInv'
<1> USE DEF ManageStep
<1>1. /\ tunnel \in [Slots -> TunnelRecord] /\ m_Tunnels \in [Slots -> 0 .. 1]
      /\ m_Pools \in SUBSET Pools /\ pool \in [Pools -> PoolRecord]
      /\ m_PendingTunnels \subseteq Slots
  BY DEF IInv, Types
<1>2. \A t \in Slots : m_Tunnels'[t] = IF t \in Expired(D) THEN 0 ELSE m_Tunnels[t]
  OBVIOUS
<1>3. \A t \in N : t \in Slots /\ tunnel[t].m_State = "None" /\ m_Tunnels[t] = 0
  BY DEF Free, IInv, SlotsOK, SlotOK, Unbuilt
<1>4. \A p \in Pools : /\ pool[p].tunnels \cap N = {}
                       /\ TestEnds(pool[p].m_Tests) \cap N = {}
  <2>1. \A p \in Pools : \A u \in N : MemberOK(p, pool[p], u, tunnel[u], m_Tunnels[u])
    BY <1>3 DEF IInv, MembersOK
  <2> QED BY <1>3, <2>1 DEF MemberOK, Live, Unbuilt
<1> DEFINE Gone(t) == /\ t \in Expired(D) /\ tunnel'[t] = NoTunnel
                      /\ \A p \in Pools : t \notin TestEnds(pool[p].m_Tests)
           Kept(t) ==
             LET x == tunnel[t]
                 y == tunnel'[t]
             IN /\ y \in TunnelRecord /\ y.age = x.age
                /\ y.m_State = x.m_State \/ (x.m_State = "Established" /\ y.m_State = "Expiring")
                /\ y.m_Pool = IF t \in Expired(D) THEN NoPool ELSE x.m_Pool
                /\ x.m_State = "None" => y = NoTunnel
<1>5. \A t \in Slots \ N : Gone(t) \/ Kept(t) BY ManagedIs
<1>6. \A t \in Expired(D) : /\ t \in Slots /\ m_Tunnels[t] = 1 /\ t \notin m_PendingTunnels
                            /\ tunnel[t].m_State \notin Unbuilt /\ Ended(tunnel, t)
  BY ExpiredIs
<1>7. \A t \in Slots :
        /\ tunnel'[t] \in TunnelRecord
        /\ SlotOK(tunnel'[t], t \in m_PendingTunnels', m_Tunnels'[t], m_Pools', step'.at)
  <2> TAKE t \in Slots
  <2>1. SlotOK(tunnel[t], t \in m_PendingTunnels, m_Tunnels[t], m_Pools, step.at)
    BY DEF IInv, SlotsOK
  <2>2. CASE t \in N
    <3>1. PICK p \in m_Pools \cup {NoPool} : tunnel'[t] = NewTunnel(p) BY <2>2
    <3>2. (t \in m_PendingTunnels') = TRUE /\ m_Tunnels'[t] = 0 BY <1>2, <1>3, <2>2
    <3>3. p \in m_Pools' \cup {NoPool} OBVIOUS
    <3>4. m_Pools' \in SUBSET Pools OBVIOUS
    <3>5. NewTunnel(p) \in TunnelRecord /\ SlotOK(NewTunnel(p), TRUE, 0, m_Pools', step'.at)
      BY <3>3, <3>4, NewSlotOK
    <3> HIDE DEF ManageStep
    <3> QED BY <3>1, <3>2, <3>5
  <2>3. CASE t \notin N /\ Gone(t)
    <3>1. (t \in m_PendingTunnels') = FALSE /\ m_Tunnels'[t] = 0 BY <1>2, <1>6, <2>3
    <3> QED BY <2>3, <3>1, NoTunnelIs DEF SlotOK, Unbuilt
  <2>4. CASE t \notin N /\ Kept(t)
    <3>1. (t \in m_PendingTunnels') = (t \in m_PendingTunnels) BY <2>4
    <3>2. CASE t \in Expired(D)
      <4>1. ~(t \in m_PendingTunnels') /\ m_Tunnels'[t] = 0 BY <1>2, <1>6, <3>1, <3>2
      <4>2. tunnel'[t].m_State \notin Unbuilt /\ tunnel'[t].m_Pool = NoPool
        BY <1>6, <2>4, <3>2 DEF Unbuilt
      <4> QED BY <2>4, <4>1, <4>2 DEF SlotOK, Unbuilt
    <3>3. CASE t \notin Expired(D)
      <4>1. m_Tunnels'[t] = m_Tunnels[t] BY <1>2, <3>3
      <4>2. tunnel'[t].m_Pool = tunnel[t].m_Pool BY <2>4, <3>3
      <4>3. t \in m_PendingTunnels => tunnel[t].m_State = "Pending" BY <2>1 DEF SlotOK
      <4>4. tunnel'[t].m_State = "None" => tunnel[t].m_State = "None" BY <2>4
      <4> QED BY <2>1, <2>4, <3>1, <4>1, <4>2, <4>3, <4>4, NoTunnelIs DEF SlotOK, Unbuilt
    <3> QED BY <3>2, <3>3
  <2> QED BY <1>5, <2>2, <2>3, <2>4
<1>8. Types'
  <2>1. tunnel' \in [Slots -> TunnelRecord] BY <1>7
  <2>2. m_Tunnels' \in [Slots -> 0 .. 1]
    <3>1. \A t \in Slots : m_Tunnels'[t] \in 0 .. 1 BY <1>1, <1>2
    <3> QED BY <3>1
  <2> QED BY <1>1, <1>3, <2>1, <2>2 DEF IInv, Types
<1>9. SlotsOK' BY <1>7 DEF SlotsOK
<1>10. MembersOK'
  <2> SUFFICES ASSUME NEW p \in Pools, NEW t \in Slots
               PROVE  MemberOK(p, pool'[p], t, tunnel'[t], m_Tunnels'[t])
    BY DEF MembersOK
  <2>1. MemberOK(p, pool[p], t, tunnel[t], m_Tunnels[t]) BY DEF IInv, MembersOK
  <2>2. pool'[p].tunnels = pool[p].tunnels \ Expired(D) /\ pool'[p].m_Tests = pool[p].m_Tests
    OBVIOUS
  <2>3. CASE t \in N BY <1>4, <2>2, <2>3 DEF MemberOK
  <2>4. CASE t \notin N /\ Gone(t) BY <2>2, <2>4 DEF MemberOK
  <2>5. CASE t \notin N /\ Kept(t) BY <1>2, <2>1, <2>2, <2>5 DEF MemberOK, Live, Unbuilt
  <2> QED BY <1>5, <2>3, <2>4, <2>5
<1>11. PoolsOK'
  <2> SUFFICES ASSUME NEW p \in Pools
               PROVE  PoolOK(p, pool'[p], tunnel', m_Pools', detaching[p])
    BY DEF PoolsOK
  <2>1. PoolOK(p, pool[p], tunnel, m_Pools, detaching[p]) BY DEF IInv, PoolsOK
  <2>2. ASSUME NEW i \in pool[p].tunnels, ~Ended(tunnel, i)
        PROVE  i \in pool'[p].tunnels /\ ~Ended(tunnel', i)
    <3>1. i \in Slots /\ i \notin Expired(D) /\ i \notin N
      BY <1>1, <1>4, <1>6, <2>2 DEF PoolRecord
    <3>2. tunnel'[i].age = tunnel[i].age BY <1>5, <3>1
    <3> QED BY <2>2, <3>1, <3>2 DEF Ended
  <2>3. p = Exploratory => pool'[p].m_LeaseSet = {} BY <2>1 DEF PoolOK
  <2>4. p \notin m_Pools' => pool'[p] = NewPool /\ detaching[p] = "no" BY <2>1 DEF PoolOK
  <2>5. detaching[p] # "no" => ~pool'[p].m_LocalDestination BY <2>1 DEF PoolOK
  <2>6. pool'[p].m_LocalDestination =>
          \A i \in pool'[p].m_LeaseSet : i \in pool'[p].tunnels /\ ~Ended(tunnel', i)
    BY <2>1, <2>2, <2>3 DEF PoolOK
  <2> QED BY <2>3, <2>4, <2>5, <2>6 DEF PoolOK
<1>12. StepOK(step', tunnel', m_Tunnels', m_Pools', pool') BY DEF StepOK
<1> QED BY <1>8, <1>9, <1>10, <1>11, <1>12 DEF IInv

\* What the first half may have added to the pools.
LEMMA PoolsManaged ==
  ASSUME IInv, NEW D, NEW p \in Pools
  PROVE  LET q == ManagedPools(D)[p]
         IN /\ q \in PoolRecord /\ q.tunnels = pool[p].tunnels \ Expired(D)
            /\ q.m_Tests = pool[p].m_Tests /\ q.m_LeaseSet = pool[p].m_LeaseSet
            /\ q.m_LocalDestination = pool[p].m_LocalDestination
            /\ p \notin m_Pools => q = NewPool
<1> DEFINE q == ManagedPools(D)[p]
<1>1. pool[p] \in PoolRecord BY DEF IInv, Types
<1>2. q = [pool[p] EXCEPT !.tunnels = pool[p].tunnels \ Expired(D)]
  BY DEF ManagedPools, TunnelExpired
<1>3. p \notin m_Pools => pool[p] = NewPool BY DEF IInv, PoolsOK, PoolOK
<1>4. p \notin m_Pools => q = pool[p]
  <2>1. p \notin m_Pools => pool[p].tunnels = {} BY <1>3 DEF NewPool
  <2> QED BY <1>1, <1>2, <2>1 DEF PoolRecord
<1> HIDE DEF q
<1>5. /\ q \in PoolRecord /\ q.tunnels = pool[p].tunnels \ Expired(D)
      /\ q.m_Tests = pool[p].m_Tests /\ q.m_LeaseSet = pool[p].m_LeaseSet
      /\ q.m_LocalDestination = pool[p].m_LocalDestination
  BY <1>1, <1>2 DEF PoolRecord
<1> QED BY <1>3, <1>4, <1>5 DEF q

LEMMA ManageInboundTunnelsSound == ASSUME IInv, ManageInboundTunnels PROVE IInv'
<1> DEFINE left  == (Listed \cap Inbound) \ Expired(Inbound)
           short == left = {} \/ Listed \cap Outbound = {} \/ Cardinality(left) < MinTunnels
           want  == [x \in DOMAIN Replaced(Inbound) \cup (IF short THEN {"new"} ELSE {}) |->
                       IF x = "new" THEN NoPool ELSE tunnel[x].m_Pool]
           asks  == left = {} /\ Exploratory \in Pools \ m_Pools
<1>1. /\ step.at = "ManageInboundTunnels"
      /\ step' = [step EXCEPT !.at = "ManageOutboundTunnels"]
      /\ m_Tunnels' = [t \in Slots |-> IF t \in Expired(Inbound) THEN 0 ELSE m_Tunnels[t]]
      /\ UNCHANGED detaching
  BY DEF ManageInboundTunnels
<1>2. PICK f \in Creations(Inbound, want, {}) :
        /\ tunnel' = Created(Managed(Inbound), f, want)
        /\ m_PendingTunnels' = AddPendingTunnels(m_PendingTunnels, f)
  BY DEF ManageInboundTunnels
<1>3. IF asks
      THEN /\ m_Pools' = m_Pools \cup {Exploratory}
           /\ pool' = [ManagedPools(Inbound) EXCEPT ![Exploratory].m_IsActive = TRUE,
                                                    ![Exploratory].m_LocalDestination = TRUE]
      ELSE pool' = ManagedPools(Inbound) /\ UNCHANGED m_Pools
  BY DEF ManageInboundTunnels
<1>4. WantedFor(want, m_Pools)
  <2>1. \A x \in DOMAIN Replaced(Inbound) : x \in Slots
    BY DEF Replaced, Recreated, Listed
  <2>2. \A t \in Slots : tunnel[t].m_Pool \in m_Pools \cup {NoPool}
    BY DEF IInv, SlotsOK, SlotOK
  <2> QED BY <2>1, <2>2 DEF WantedFor
<1> HIDE DEF want, short, asks
<1>5. PICK N \in SUBSET Free(Inbound) : CreatesIn(f, want, N, m_Pools)
  BY <1>4, CreationIsNew
<1>6. N \in SUBSET Free(Slots) /\ N \subseteq Slots BY DEF Free, Slots
<1>7. /\ m_PendingTunnels' = m_PendingTunnels \cup N
      /\ tunnel' = [t \in Slots |-> tunnel'[t]]
      /\ \A t \in N : \E p \in m_Pools \cup {NoPool} : tunnel'[t] = NewTunnel(p)
      /\ \A t \in Slots \ N : tunnel'[t] = Managed(Inbound)[t]
  BY <1>2, <1>5, <1>6 DEF CreatesIn
<1>8. /\ m_Pools \subseteq m_Pools' /\ m_Pools' \subseteq Pools
      /\ pool' \in [Pools -> PoolRecord]
      /\ \A p \in Pools :
           /\ pool'[p].tunnels = pool[p].tunnels \ Expired(Inbound)
           /\ pool'[p].m_Tests = pool[p].m_Tests /\ pool'[p].m_LeaseSet = pool[p].m_LeaseSet
           /\ pool'[p].m_LocalDestination =>
                pool[p].m_LocalDestination \/ (p = Exploratory /\ p \notin m_Pools)
           /\ p \notin m_Pools' => pool'[p] = NewPool
  <2> DEFINE q(p) == ManagedPools(Inbound)[p]
             e == [q(Exploratory) EXCEPT !.m_IsActive = TRUE, !.m_LocalDestination = TRUE]
  <2>1. m_Pools \subseteq Pools BY DEF IInv, Types
  <2>2. ManagedPools(Inbound) = [p \in Pools |-> q(p)] BY DEF ManagedPools, TunnelExpired
  <2>3. \A p \in Pools :
          /\ q(p) \in PoolRecord /\ q(p).tunnels = pool[p].tunnels \ Expired(Inbound)
          /\ q(p).m_Tests = pool[p].m_Tests /\ q(p).m_LeaseSet = pool[p].m_LeaseSet
          /\ q(p).m_LocalDestination = pool[p].m_LocalDestination
          /\ p \notin m_Pools => q(p) = NewPool
    BY PoolsManaged
  <2> HIDE DEF q
  <2>4. CASE asks
    <3>1. Exploratory \in Pools /\ Exploratory \notin m_Pools BY <2>4 DEF asks
    <3>2. /\ e \in PoolRecord /\ e.tunnels = q(Exploratory).tunnels
          /\ e.m_Tests = q(Exploratory).m_Tests /\ e.m_LeaseSet = q(Exploratory).m_LeaseSet
      BY <2>3, <3>1 DEF PoolRecord
    <3>3. pool' = [[p \in Pools |-> q(p)] EXCEPT ![Exploratory] = e]
      BY <1>3, <2>2, <2>4, <3>1
    <3> HIDE DEF e
    <3>4. pool'[Exploratory] = e /\ \A p \in Pools : p # Exploratory => pool'[p] = q(p)
      BY <3>1, <3>3
    <3>5. pool' \in [Pools -> PoolRecord] BY <2>3, <3>2, <3>3
    <3> QED BY <1>3, <2>1, <2>3, <2>4, <3>1, <3>2, <3>4, <3>5
  <2>5. CASE ~asks
    <3>1. pool' = [p \in Pools |-> q(p)] /\ m_Pools' = m_Pools BY <1>3, <2>2, <2>5
    <3> QED BY <2>1, <2>3, <3>1
  <2> QED BY <2>4, <2>5
<1>9. /\ step' \in [at : Stages, todo : SUBSET Pools, tunnel : SUBSET (Slots \cup Pools)]
      /\ step'.at = "ManageOutboundTunnels" /\ step'.todo \subseteq m_Pools'
  BY <1>1, <1>8 DEF IInv, Types, StepOK, Stages
<1>10. ManageStep(Inbound, N) BY <1>1, <1>7, <1>8, <1>9 DEF ManageStep
<1> QED BY <1>6, <1>10, ManageSound

\* The pools that ManageTunnelPools has to go through.
LEMMA NextPoolIs ==
  ASSUME NEW todo \in SUBSET Pools
  PROVE  /\ NextPool(todo) \in [at : Stages, todo : SUBSET Pools, tunnel : SUBSET (Slots \cup Pools)]
         /\ NextPool(todo) = Idle \/ NextPool(todo).at = "ManageTunnelPools"
         /\ NextPool(todo).todo \subseteq todo
         /\ NextPool(todo).at \in {"Run", "ManageTunnelPools"}
<1>1. CASE todo = {} BY <1>1 DEF NextPool, Idle, Stages
<1>2. CASE todo # {}
  <2>1. NextPool(todo) = [Idle EXCEPT !.at = "ManageTunnelPools", !.todo = todo]
    BY <1>2 DEF NextPool
  <2> QED BY <2>1 DEF Idle, Stages
<1> QED BY <1>1, <1>2

LEMMA ManageOutboundTunnelsSound == ASSUME IInv, ManageOutboundTunnels PROVE IInv'
<1> DEFINE short == /\ Cardinality((Listed \cap Outbound) \ Expired(Outbound)) < MinTunnels
                    /\ HasNextInboundTunnel
           want  == [x \in DOMAIN Replaced(Outbound) \cup (IF short THEN {"new"} ELSE {}) |->
                       IF x = "new" THEN NoPool ELSE tunnel[x].m_Pool]
<1>1. /\ step.at = "ManageOutboundTunnels" /\ step' = NextPool(m_Pools)
      /\ m_Tunnels' = [t \in Slots |-> IF t \in Expired(Outbound) THEN 0 ELSE m_Tunnels[t]]
      /\ pool' = ManagedPools(Outbound)
      /\ UNCHANGED <<m_Pools, detaching>>
  BY DEF ManageOutboundTunnels
<1>2. PICK f \in Creations(Outbound, want, {"new"}) :
        /\ tunnel' = Created(Managed(Outbound), f, want)
        /\ m_PendingTunnels' = AddPendingTunnels(m_PendingTunnels, f)
  BY DEF ManageOutboundTunnels
<1>3. WantedFor(want, m_Pools)
  <2>1. \A x \in DOMAIN Replaced(Outbound) : x \in Slots
    BY DEF Replaced, Recreated, Listed
  <2>2. \A t \in Slots : tunnel[t].m_Pool \in m_Pools \cup {NoPool}
    BY DEF IInv, SlotsOK, SlotOK
  <2> QED BY <2>1, <2>2 DEF WantedFor
<1> HIDE DEF want, short
<1>4. PICK N \in SUBSET Free(Outbound) : CreatesIn(f, want, N, m_Pools)
  BY <1>3, CreationIsNew
<1>5. N \in SUBSET Free(Slots) /\ N \subseteq Slots BY DEF Free, Slots
<1>6. /\ m_PendingTunnels' = m_PendingTunnels \cup N
      /\ tunnel' = [t \in Slots |-> tunnel'[t]]
      /\ \A t \in N : \E p \in m_Pools \cup {NoPool} : tunnel'[t] = NewTunnel(p)
      /\ \A t \in Slots \ N : tunnel'[t] = Managed(Outbound)[t]
  BY <1>2, <1>4, <1>5 DEF CreatesIn
<1>7. m_Pools \in SUBSET Pools BY DEF IInv, Types
<1>8. /\ pool' \in [Pools -> PoolRecord]
      /\ \A p \in Pools :
           /\ pool'[p].tunnels = pool[p].tunnels \ Expired(Outbound)
           /\ pool'[p].m_Tests = pool[p].m_Tests /\ pool'[p].m_LeaseSet = pool[p].m_LeaseSet
           /\ pool'[p].m_LocalDestination = pool[p].m_LocalDestination
           /\ p \notin m_Pools => pool'[p] = NewPool
  <2>1. pool' = [p \in Pools |-> pool'[p]] BY <1>1 DEF ManagedPools, TunnelExpired
  <2> QED BY <1>1, <2>1, PoolsManaged
<1>9. /\ step' \in [at : Stages, todo : SUBSET Pools, tunnel : SUBSET (Slots \cup Pools)]
      /\ step'.at \in {"Run", "ManageTunnelPools"} /\ step'.todo \subseteq m_Pools'
      /\ step'.at = "Run" => step' = Idle
  BY <1>1, <1>7, NextPoolIs
<1>10. ManageStep(Outbound, N) BY <1>1, <1>6, <1>7, <1>8, <1>9 DEF ManageStep
<1> QED BY <1>5, <1>10, ManageSound

\* CreateTunnels for an active pool: new pending tunnels in both directions.
LEMMA CreateTunnelsSound == ASSUME IInv, NEW p \in Pools, CreateTunnels(p) PROVE IInv'
<1> DEFINE wantIn  == [x \in Needed(p, Inbound, m_NumInboundTunnels) |-> p]
           wantOut == [x \in IF HasNextInboundTunnel
                             THEN Needed(p, Outbound, m_NumOutboundTunnels) ELSE {} |-> p]
<1>1. /\ step.at = "ManageTunnelPools" /\ p \in step.todo
      /\ step' = [step EXCEPT !.at = "TestTunnels", !.todo = @ \ {p}, !.tunnel = {p}]
      /\ UNCHANGED <<m_Tunnels, m_Pools, pool, detaching>>
  BY DEF CreateTunnels
<1>2. PICK f \in Creations(Inbound, wantIn, DOMAIN wantIn),
           g \in Creations(Outbound, wantOut, DOMAIN wantOut) :
        /\ tunnel' = Created(Created(tunnel, f, wantIn), g, wantOut)
        /\ m_PendingTunnels' = AddPendingTunnels(AddPendingTunnels(m_PendingTunnels, f), g)
  BY DEF CreateTunnels
<1>3. p \in m_Pools /\ m_Pools \in SUBSET Pools BY <1>1 DEF IInv, StepOK, Types
<1>4. WantedFor(wantIn, m_Pools) /\ WantedFor(wantOut, m_Pools) BY <1>3 DEF WantedFor
<1> HIDE DEF wantIn, wantOut
<1>5. PICK M \in SUBSET Free(Inbound) : CreatesIn(f, wantIn, M, m_Pools)
  BY <1>4, CreationIsNew
<1>6. PICK N \in SUBSET Free(Outbound) : CreatesIn(g, wantOut, N, m_Pools)
  BY <1>4, CreationIsNew
<1> DEFINE NewOnes == M \cup N
<1>7. /\ m_PendingTunnels' = m_PendingTunnels \cup NewOnes
      /\ tunnel' = [t \in Slots |-> tunnel'[t]]
  BY <1>2, <1>5, <1>6 DEF CreatesIn
<1>8. \A t \in NewOnes : t \in Slots /\ tunnel[t].m_State = "None" BY DEF Free, Slots
<1>9. /\ \A t \in NewOnes : \E r \in m_Pools \cup {NoPool} : tunnel'[t] = NewTunnel(r)
      /\ \A t \in Slots \ NewOnes : tunnel'[t] = tunnel[t]
  <2> DEFINE c == Created(tunnel, f, wantIn)
  <2>1. \A t \in Slots : /\ t \in N => \E r \in m_Pools \cup {NoPool} : tunnel'[t] = NewTunnel(r)
                         /\ t \notin N => tunnel'[t] = c[t]
    BY <1>2, <1>6 DEF CreatesIn
  <2>2. \A t \in Slots : /\ t \in M => \E r \in m_Pools \cup {NoPool} : c[t] = NewTunnel(r)
                         /\ t \notin M => c[t] = tunnel[t]
    BY <1>5 DEF CreatesIn
  <2> HIDE DEF c
  <2> QED BY <1>8, <2>1, <2>2
<1> HIDE DEF NewOnes
<1>10. \A t \in NewOnes : m_Tunnels[t] = 0 BY <1>8 DEF IInv, SlotsOK, SlotOK, Unbuilt
<1>11. \A r \in Pools : /\ pool[r].tunnels \cap NewOnes = {}
                        /\ TestEnds(pool[r].m_Tests) \cap NewOnes = {}
  <2>1. \A r \in Pools : \A u \in NewOnes : MemberOK(r, pool[r], u, tunnel[u], m_Tunnels[u])
    BY <1>8 DEF IInv, MembersOK
  <2> QED BY <1>8, <2>1 DEF MemberOK, Live, Unbuilt
<1>12. /\ step' \in [at : Stages, todo : SUBSET Pools, tunnel : SUBSET (Slots \cup Pools)]
       /\ step'.at = "TestTunnels" /\ step'.todo \subseteq m_Pools /\ step'.tunnel = {p}
  BY <1>1, <1>3 DEF IInv, Types, StepOK, Stages
<1>13. \A t \in Slots :
         /\ tunnel'[t] \in TunnelRecord
         /\ SlotOK(tunnel'[t], t \in m_PendingTunnels', m_Tunnels[t], m_Pools, "TestTunnels")
  <2> TAKE t \in Slots
  <2>1. /\ SlotOK(tunnel[t], t \in m_PendingTunnels, m_Tunnels[t], m_Pools, step.at)
        /\ tunnel[t] \in TunnelRecord
    BY DEF IInv, SlotsOK, Types
  <2>2. CASE t \in NewOnes
    <3>1. PICK r \in m_Pools \cup {NoPool} : tunnel'[t] = NewTunnel(r) BY <1>9, <2>2
    <3>2. (t \in m_PendingTunnels') = TRUE /\ m_Tunnels[t] = 0 BY <1>7, <1>10, <2>2
    <3> QED BY <1>3, <3>1, <3>2, NewSlotOK
  <2>3. CASE t \notin NewOnes
    <3>1. (t \in m_PendingTunnels') = (t \in m_PendingTunnels) BY <1>7, <2>3
    <3>2. tunnel'[t] = tunnel[t] BY <1>9, <2>3
    <3> QED BY <2>1, <3>1, <3>2 DEF SlotOK
  <2> QED BY <2>2, <2>3
<1>14. Types'
  <2>1. tunnel' \in [Slots -> TunnelRecord] BY <1>7, <1>13
  <2>2. m_PendingTunnels' \subseteq Slots BY <1>7, <1>8 DEF IInv, Types
  <2> QED BY <1>1, <1>12, <2>1, <2>2 DEF IInv, Types
<1>15. SlotsOK' BY <1>1, <1>12, <1>13 DEF SlotsOK
<1>16. MembersOK' BY <1>1, <1>9, <1>11 DEF IInv, MembersOK, MemberOK
<1>17. PoolsOK'
  <2> SUFFICES ASSUME NEW r \in Pools
               PROVE  PoolOK(r, pool[r], tunnel', m_Pools, detaching[r])
    BY <1>1 DEF PoolsOK
  <2>1. PoolOK(r, pool[r], tunnel, m_Pools, detaching[r]) BY DEF IInv, PoolsOK
  <2>2. pool[r].tunnels \subseteq Slots BY DEF IInv, Types, PoolRecord
  <2>3. \A i \in pool[r].tunnels : tunnel'[i] = tunnel[i] BY <1>9, <1>11, <2>2
  <2> QED BY <2>1, <2>3 DEF PoolOK, Ended
<1>18. StepOK(step', tunnel', m_Tunnels', m_Pools', pool') BY <1>1, <1>3, <1>12 DEF StepOK
<1> QED BY <1>14, <1>15, <1>16, <1>17, <1>18 DEF IInv

\* The tests of a pool whose answer did not come: their tunnels fail a little
\* or for good, the latter leave the pool and its leases, and new tests begin.
LEMMA TestTunnelsSound == ASSUME IInv, TestTunnels PROVE IInv'
<1>1. /\ step.at = "TestTunnels" /\ step' = NextPool(step.todo)
      /\ UNCHANGED <<m_PendingTunnels, m_Tunnels, m_Pools, detaching>>
  BY DEF TestTunnels
<1> DEFINE open(p)   == TestEnds(pool[p].m_Tests)
           failed(p) == {t \in open(p) : tunnel[t].m_State = "TestFailed"}
           tested(p) == [t \in Slots |->
                           IF t \notin open(p) THEN tunnel[t]
                           ELSE [tunnel[t] EXCEPT !.m_State =
                                   IF t \in failed(p) THEN "Failed" ELSE "TestFailed"]]
<1>2. PICK p \in step.tunnel :
        \E tests \in NewTests(tested(p), TestedPools(tested(p), p, failed(p))[p].tunnels) :
          /\ pool' = [TestedPools(tested(p), p, failed(p)) EXCEPT ![p].m_Tests = tests]
          /\ tunnel' = Drop(tested(p), open(p) \ (Held(pool') \cup Listed \cup m_PendingTunnels))
  BY DEF TestTunnels, TestEnds
<1> DEFINE after == tested(p)
           bad   == failed(p)
           left  == TestedPools(after, p, bad)
           gone  == open(p) \ (Held(pool') \cup Listed \cup m_PendingTunnels)
<1>3. PICK tests \in NewTests(after, left[p].tunnels) :
        pool' = [left EXCEPT ![p].m_Tests = tests] /\ tunnel' = Drop(after, gone)
  BY <1>2
<1>4. /\ tunnel \in [Slots -> TunnelRecord] /\ pool \in [Pools -> PoolRecord]
      /\ m_Tunnels \in [Slots -> 0 .. 1] /\ m_Pools \in SUBSET Pools
      /\ p \in m_Pools /\ p \in Pools /\ step.todo \in SUBSET Pools /\ step.todo \subseteq m_Pools
  BY <1>1 DEF IInv, Types, StepOK
<1>5. open(p) \subseteq Slots
  <2>1. \A x \in pool[p].m_Tests : x[1] \in Outbound /\ x[2] \in Inbound
    BY <1>4 DEF PoolRecord
  <2> QED BY <2>1 DEF TestEnds, Slots
<1>6. \A t \in open(p) : tunnel[t].m_State \notin Unbuilt /\ tunnel[t].m_Pool \in {p, NoPool}
  BY <1>4, <1>5 DEF IInv, MembersOK, MemberOK
<1>7. \A t \in Slots :
        /\ after[t] \in TunnelRecord /\ after[t].age = tunnel[t].age
        /\ after[t].m_Pool = tunnel[t].m_Pool
        /\ t \notin open(p) => after[t] = tunnel[t]
        /\ t \in open(p) => after[t].m_State = IF t \in bad THEN "Failed" ELSE "TestFailed"
  <2> TAKE t \in Slots
  <2> DEFINE s == IF t \in bad THEN "Failed" ELSE "TestFailed"
  <2>1. t \in open(p) => after[t] = [tunnel[t] EXCEPT !.m_State = s] OBVIOUS
  <2>2. t \notin open(p) => after[t] = tunnel[t] OBVIOUS
  <2>3. s \in {"Failed", "TestFailed"} /\ tunnel[t] \in TunnelRecord BY <1>4
  <2>4. s = IF t \in bad THEN "Failed" ELSE "TestFailed" OBVIOUS
  <2> HIDE DEF after, s, bad
  <2> QED BY <2>1, <2>2, <2>3, <2>4 DEF TunnelRecord, TunnelState
<1>8. bad \subseteq open(p) OBVIOUS
<1> HIDE DEF after
<1>9. \A i \in Slots : Ended(after, i) <=> Ended(tunnel, i) BY <1>7 DEF Ended
<1> DEFINE y == [pool[p] EXCEPT !.tunnels = @ \ bad]
           a == [pool EXCEPT ![p] = y]
<1>10. left = IF bad \cap Inbound # {} THEN SetLeaseSetUpdated(a, after, p) ELSE a
  BY <1>4 DEF TestedPools
<1>11. /\ y \in PoolRecord /\ y.tunnels = pool[p].tunnels \ bad /\ y.m_Tests = pool[p].m_Tests
       /\ y.m_LocalDestination = pool[p].m_LocalDestination
       /\ y.m_LeaseSet = pool[p].m_LeaseSet
  BY <1>4 DEF PoolRecord
<1> HIDE DEF y
<1>12. /\ a \in [Pools -> PoolRecord] /\ a[p] = y
       /\ \A r \in Pools : r # p => a[r] = pool[r]
  BY <1>4, <1>11
<1>13. PoolOK(p, pool[p], tunnel, m_Pools, detaching[p]) BY <1>4 DEF IInv, PoolsOK
<1> HIDE DEF a, left, bad, open
<1>14. /\ left \in [Pools -> PoolRecord] /\ \A r \in Pools : r # p => left[r] = pool[r]
       /\ left[p].tunnels = pool[p].tunnels \ bad /\ left[p].m_Tests = pool[p].m_Tests
       /\ left[p].m_LocalDestination = pool[p].m_LocalDestination
       /\ p = Exploratory => left[p].m_LeaseSet = {}
       /\ left[p].m_LocalDestination =>
            \A i \in left[p].m_LeaseSet : i \in left[p].tunnels /\ ~Ended(after, i)
  <2>1. CASE bad \cap Inbound # {}
    <3>1. left = SetLeaseSetUpdated(a, after, p) BY <1>10, <2>1
    <3>2. p = Exploratory => y.m_LeaseSet = {} BY <1>11, <1>13 DEF PoolOK
    <3> QED BY <1>4, <1>11, <1>12, <3>1, <3>2, LeaseSetUpdated
  <2>2. CASE bad \cap Inbound = {}
    <3>1. left = a BY <1>10, <2>2
    <3>2. pool[p].m_LeaseSet \subseteq Inbound BY <1>4 DEF PoolRecord
    <3>3. \A i \in Inbound : Ended(after, i) <=> Ended(tunnel, i) BY <1>9 DEF Slots
    <3> QED BY <1>11, <1>12, <1>13, <2>2, <3>1, <3>2, <3>3 DEF PoolOK
  <2> QED BY <2>1, <2>2
<1>15. /\ tests \in SUBSET (Outbound \X Inbound)
       /\ TestEnds(tests) \subseteq left[p].tunnels
  <2> DEFINE outs == {o \in left[p].tunnels \cap Outbound : after[o].m_State # "Failed"}
             ins  == {i \in left[p].tunnels \cap Inbound : after[i].m_State # "Failed"}
  <2>1. tests \in SUBSET (outs \X ins) BY DEF NewTests
  <2>2. \A x \in tests : x[1] \in outs /\ x[2] \in ins BY <2>1
  <2> QED BY <2>1, <2>2 DEF TestEnds
<1> DEFINE z == [left[p] EXCEPT !.m_Tests = tests]
<1>16. /\ z \in PoolRecord /\ z.tunnels = left[p].tunnels /\ z.m_Tests = tests
       /\ z.m_LocalDestination = left[p].m_LocalDestination
       /\ z.m_LeaseSet = left[p].m_LeaseSet
  BY <1>4, <1>14, <1>15 DEF PoolRecord
<1>17. pool' = [left EXCEPT ![p] = z] BY <1>3
<1> HIDE DEF z
<1>18. /\ pool' \in [Pools -> PoolRecord] /\ pool'[p] = z
       /\ \A r \in Pools : r # p => pool'[r] = pool[r]
  BY <1>4, <1>14, <1>16, <1>17
<1>19. /\ \A t \in Slots : tunnel'[t] = IF t \in gone THEN NoTunnel ELSE after[t]
       /\ tunnel' = [t \in Slots |-> tunnel'[t]]
  BY <1>3 DEF Drop
<1>20. \A t \in gone : /\ t \in open(p) /\ t \in Slots /\ m_Tunnels[t] = 0 /\ t \notin m_PendingTunnels
                       /\ \A r \in Pools : t \notin TestEnds(pool'[r].m_Tests)
  <2>1. \A t \in Slots \ Listed : m_Tunnels[t] = 0 BY <1>4 DEF Listed
  <2> QED BY <1>5, <2>1, HeldByTests
<1> HIDE DEF gone
<1>21. /\ step' \in [at : Stages, todo : SUBSET Pools, tunnel : SUBSET (Slots \cup Pools)]
       /\ step'.at \in {"Run", "ManageTunnelPools"} /\ step'.todo \subseteq m_Pools
       /\ step'.at = "Run" => step' = Idle
  BY <1>1, <1>4, NextPoolIs
<1>22. Types'
  <2>1. \A t \in Slots : tunnel'[t] \in TunnelRecord BY <1>7, <1>19, NoTunnelIs
  <2>2. tunnel' \in [Slots -> TunnelRecord] BY <1>19, <2>1
  <2> QED BY <1>1, <1>18, <1>21, <2>2 DEF IInv, Types
<1>23. SlotsOK'
  <2> SUFFICES ASSUME NEW t \in Slots
               PROVE  SlotOK(tunnel'[t], t \in m_PendingTunnels, m_Tunnels[t], m_Pools, step'.at)
    BY <1>1 DEF SlotsOK
  <2>1. SlotOK(tunnel[t], t \in m_PendingTunnels, m_Tunnels[t], m_Pools, step.at)
    BY DEF IInv, SlotsOK
  <2>2. CASE t \in gone
    <3>1. t \notin m_PendingTunnels /\ m_Tunnels[t] = 0 /\ tunnel'[t] = NoTunnel
      BY <1>19, <1>20, <2>2
    <3> QED BY <3>1, NoTunnelIs DEF SlotOK, Unbuilt
  <2>3. CASE t \notin gone /\ t \in open(p)
    <3>1. /\ tunnel'[t].m_State \in {"Failed", "TestFailed"}
          /\ tunnel'[t].m_Pool = tunnel[t].m_Pool
      BY <1>7, <1>19, <2>3
    <3>2. tunnel[t].m_State \notin Unbuilt BY <1>6, <2>3
    <3> QED BY <1>21, <2>1, <3>1, <3>2 DEF SlotOK, Unbuilt
  <2>4. CASE t \notin gone /\ t \notin open(p)
    <3>1. tunnel'[t] = tunnel[t] BY <1>7, <1>19, <2>4
    <3> QED BY <1>21, <2>1, <3>1 DEF SlotOK
  <2> QED BY <2>2, <2>3, <2>4
<1>24. \A r \in Pools : /\ pool'[r].tunnels \subseteq pool[r].tunnels
                        /\ r = p => pool'[r].tunnels \cap bad = {}
  BY <1>14, <1>16, <1>18
<1>25. MembersOK'
  <2> SUFFICES ASSUME NEW r \in Pools, NEW t \in Slots
               PROVE  MemberOK(r, pool'[r], t, tunnel'[t], m_Tunnels[t])
    BY <1>1 DEF MembersOK
  <2>1. MemberOK(r, pool[r], t, tunnel[t], m_Tunnels[t]) BY DEF IInv, MembersOK
  <2>2. t \in gone => m_Tunnels[t] = 0 /\ \A q \in Pools : t \notin TestEnds(pool'[q].m_Tests)
    BY <1>20
  <2>3. ASSUME t \in pool'[r].tunnels
        PROVE  m_Tunnels[t] = 1 /\ tunnel'[t].m_Pool = r /\ tunnel'[t].m_State \in Live
    <3>1. /\ m_Tunnels[t] = 1 /\ tunnel[t].m_Pool = r /\ tunnel[t].m_State \in Live
          /\ t \notin gone
      BY <1>24, <2>1, <2>2, <2>3 DEF MemberOK
    <3>2. CASE t \notin open(p) BY <1>7, <1>19, <3>1, <3>2
    <3>3. CASE t \in open(p)
      <4>1. r = p BY <1>6, <3>1, <3>3, TunnelsAssumption
      <4>2. t \notin bad BY <1>24, <2>3, <4>1
      <4> QED BY <1>7, <1>19, <3>1, <3>3, <4>2 DEF Live
    <3> QED BY <3>2, <3>3
  <2>4. ASSUME t \in TestEnds(pool'[r].m_Tests)
        PROVE  tunnel'[t].m_State \notin Unbuilt /\ tunnel'[t].m_Pool \in {r, NoPool}
    <3>1. t \notin gone BY <2>2, <2>4
    <3>2. tunnel[t].m_State \notin Unbuilt /\ tunnel[t].m_Pool \in {r, NoPool}
      <4>1. CASE r = p
        <5>1. t \in pool[p].tunnels BY <1>14, <1>15, <1>16, <1>18, <2>4, <4>1
        <5> QED BY <2>1, <4>1, <5>1 DEF MemberOK, Live, Unbuilt
      <4>2. CASE r # p
        <5>1. t \in TestEnds(pool[r].m_Tests) BY <1>18, <2>4, <4>2
        <5> QED BY <2>1, <5>1 DEF MemberOK
      <4> QED BY <4>1, <4>2
    <3> QED BY <1>7, <1>19, <3>1, <3>2 DEF Unbuilt
  <2> QED BY <2>3, <2>4 DEF MemberOK
<1>26. PoolsOK'
  <2> SUFFICES ASSUME NEW r \in Pools
               PROVE  PoolOK(r, pool'[r], tunnel', m_Pools, detaching[r])
    BY <1>1 DEF PoolsOK
  <2>1. PoolOK(r, pool[r], tunnel, m_Pools, detaching[r]) BY DEF IInv, PoolsOK
  <2>2. \A i \in pool'[r].tunnels : i \in Slots /\ tunnel'[i] = after[i]
    <3>1. \A i \in pool'[r].tunnels : i \in Slots BY <1>18 DEF PoolRecord
    <3>2. \A i \in pool'[r].tunnels : m_Tunnels[i] = 1
      BY <1>1, <1>25, <3>1 DEF MembersOK, MemberOK
    <3>3. \A i \in gone : m_Tunnels[i] = 0 BY <1>20
    <3> QED BY <1>19, <3>1, <3>2, <3>3
  <2>3. \A i \in pool'[r].tunnels : Ended(tunnel', i) <=> Ended(after, i)
    BY <2>2 DEF Ended
  <2>4. CASE r = p
    <3>1. /\ pool'[r].m_LeaseSet = left[p].m_LeaseSet /\ pool'[r].tunnels = left[p].tunnels
          /\ pool'[r].m_LocalDestination = left[p].m_LocalDestination
      BY <1>16, <1>18, <2>4
    <3> QED BY <1>4, <1>14, <2>1, <2>3, <2>4, <3>1 DEF PoolOK
  <2>5. CASE r # p
    <3>1. pool'[r] = pool[r] BY <1>18, <2>5
    <3> QED BY <1>9, <2>1, <2>2, <2>3, <3>1 DEF PoolOK
  <2> QED BY <2>4, <2>5
<1>27. StepOK(step', tunnel', m_Tunnels', m_Pools', pool') BY <1>1, <1>21 DEF StepOK
<1> QED BY <1>22, <1>23, <1>25, <1>26, <1>27 DEF IInv
-----------------------------------------------------------------------------
(***************************************************************************)
(* The theorems.                                                           *)
(***************************************************************************)
LEMMA InitSound == Init => IInv
<1> SUFFICES ASSUME Init PROVE IInv OBVIOUS
<1>1. NewPool \in PoolRecord /\ NewPool.tunnels = {} /\ NewPool.m_Tests = {}
      /\ NewPool.m_LeaseSet = {} /\ NewPool.m_LocalDestination = FALSE
  BY DEF NewPool, PoolRecord
<1>2. Idle \in [at : Stages, todo : SUBSET Pools, tunnel : SUBSET (Slots \cup Pools)]
      /\ Idle.at = "Run" /\ Idle.todo = {}
  BY DEF Idle, Stages
<1>3. Types BY <1>1, <1>2, NoTunnelIs DEF Init, Types
<1>4. SlotsOK BY <1>2, NoTunnelIs DEF Init, SlotsOK, SlotOK, Unbuilt
<1>5. MembersOK BY <1>1 DEF Init, MembersOK, MemberOK, TestEnds
<1>6. PoolsOK BY <1>1 DEF Init, PoolsOK, PoolOK
<1>7. StepOK(step, tunnel, m_Tunnels, m_Pools, pool) BY <1>2 DEF Init, StepOK
<1> QED BY <1>3, <1>4, <1>5, <1>6, <1>7 DEF IInv

LEMMA NextSound == IInv /\ [Next]_vars => IInv'
<1> SUFFICES ASSUME IInv, [Next]_vars PROVE IInv' OBVIOUS
<1>1. CASE Tick BY <1>1, TickSound
<1>2. CASE \E t \in Slots : HandleBuildDeclined(t) \/ HandleBuildAccepted(t)
  BY <1>2, HandleBuildDeclinedSound, HandleBuildAcceptedSound
<1>3. CASE TunnelCreated BY <1>3, TunnelCreatedSound
<1>4. CASE \E i \in Inbound : HandleTunnelDataMsg(i) BY <1>4, HandleTunnelDataMsgSound
<1>5. CASE \E p \in Pools : \E x \in pool[p].m_Tests : ProcessDeliveryStatus(p, x)
  BY <1>5, ProcessDeliveryStatusSound
<1>6. CASE ManagePendingTunnels BY <1>6, ManagePendingTunnelsSound
<1>7. CASE ManageInboundTunnels BY <1>7, ManageInboundTunnelsSound
<1>8. CASE ManageOutboundTunnels BY <1>8, ManageOutboundTunnelsSound
<1>9. CASE \E p \in Pools : SkipPool(p) \/ CreateTunnels(p)
  BY <1>9, SkipPoolSound, CreateTunnelsSound
<1>10. CASE TestTunnels BY <1>10, TestTunnelsSound
<1>11. CASE \E p \in Pools : \/ CreateTunnelPool(p) \/ SetInactive(p)
                             \/ DetachInbound(p) \/ DetachOutbound(p)
  BY <1>11, CreateTunnelPoolSound, SetInactiveSound, DetachInboundSound, DetachOutboundSound
<1>12. CASE UNCHANGED vars
  BY <1>12 DEF vars, IInv, Types, SlotsOK, MembersOK, PoolsOK
<1> QED BY <1>1, <1>2, <1>3, <1>4, <1>5, <1>6, <1>7, <1>8, <1>9, <1>10, <1>11, <1>12 DEF Next

\* However the two threads interleave, each object, pool and hand-over between
\* the steps of the tunnels thread is sound.
THEOREM Invariance == Spec => []IInv
BY InitSound, NextSound, PTL DEF Spec

\* A pool never hands out a tunnel that is gone, of another pool, or failed.
THEOREM PoolTunnelsLive == Spec => []PoolTunnelsAreLive
<1>1. IInv => PoolTunnelsAreLive
  <2> SUFFICES ASSUME IInv, NEW p \in Pools, NEW t \in pool[p].tunnels
               PROVE  /\ t \in Listed /\ tunnel[t].m_Pool = p
                      /\ tunnel[t].m_State \in {"Established", "TestFailed", "Expiring"}
    BY DEF PoolTunnelsAreLive
  <2>1. t \in Slots BY DEF IInv, Types, PoolRecord
  <2> QED BY <2>1 DEF IInv, MembersOK, MemberOK, Live, Listed
<1> QED BY <1>1, Invariance, PTL

\* A tunnel is listed once however often its reply comes, and a lease that has
\* not ended leads to a tunnel of the pool.
THEOREM TunnelsAreSafe == Spec => []TunnelsSafe
<1>1. IInv => TypeOK BY DEF IInv, Types, TypeOK, TunnelRecord, PoolRecord
<1>2. IInv => ListedOnce BY DEF IInv, Types, ListedOnce
<1>3. IInv => LeasesAreUsable BY DEF IInv, PoolsOK, PoolOK, LeasesAreUsable
<1>4. IInv => TunnelsSafe BY <1>1, <1>2, <1>3 DEF TunnelsSafe
<1> QED BY <1>4, Invariance, PTL
-----------------------------------------------------------------------------
(***************************************************************************)
(* The queue of the tunnels thread.  Induction on a set of numbers, for    *)
(* the functions that run through a sequence.                              *)
(***************************************************************************)
LEMMA Induction ==
  ASSUME NEW S \in SUBSET Nat, 0 \in S, \A n \in S : n + 1 \in S
  PROVE  S = Nat
<1> DEFINE T == Nat \ S
<1> SUFFICES ASSUME T # {} PROVE FALSE OBVIOUS
<1>1. PICK n \in T : \A m \in T : ~(<<m, n>> \in OpToRel(<, Nat))
  BY NatLessThanWellFounded, WFMin
<1>2. \A m \in T : ~(m < n) BY <1>1 DEF OpToRel
<1>3. n # 0 /\ n - 1 \in Nat /\ n - 1 \notin T BY <1>2
<1>4. (n - 1) + 1 \in S BY <1>3
<1> QED BY <1>4
-----------------------------------------------------------------------------
(***************************************************************************)
(* Sequences of messages in order.  Values(q) are the messages in q.       *)
(***************************************************************************)
Values(q) == {q[i] : i \in 1 .. Len(q)}
Before(x, y) == x.from = y.from /\ x.kind = y.kind => x.seq < y.seq
Precede(A, B) == \A x \in A, y \in B : Before(x, y)
InOrder(q) == \A j \in 1 .. Len(q) : \A i \in 1 .. (j - 1) : Before(q[i], q[j])

LEMMA ValuesTyped ==
  ASSUME NEW S, NEW q \in Seq(S) PROVE Values(q) \subseteq S
BY DEF Values

LEMMA Nothing == <<>> \in Seq(TDMessages) /\ Values(<<>>) = {} /\ InOrder(<<>>)
BY DEF Values, InOrder

LEMMA Appended ==
  ASSUME NEW S, NEW q \in Seq(S), NEW m \in S
  PROVE  /\ Append(q, m) \in Seq(S)
         /\ Values(Append(q, m)) = Values(q) \cup {m}
         /\ InOrder(q) /\ Precede(Values(q), {m}) => InOrder(Append(q, m))
<1> DEFINE r == Append(q, m)
<1>1. /\ r \in Seq(S) /\ Len(r) = Len(q) + 1 /\ r[Len(q) + 1] = m /\ Len(q) \in Nat
      /\ \A i \in 1 .. Len(q) : r[i] = q[i]
  OBVIOUS
<1> HIDE DEF r
<1>2. Values(r) = Values(q) \cup {m}
  <2>1. ASSUME NEW x \in Values(r) PROVE x \in Values(q) \cup {m}
    <3>1. PICK i \in 1 .. Len(r) : x = r[i] BY DEF Values
    <3>2. CASE i = Len(q) + 1 BY <1>1, <3>1, <3>2
    <3>3. CASE i # Len(q) + 1
      <4>1. i \in 1 .. Len(q) BY <1>1, <3>3
      <4> QED BY <1>1, <3>1, <4>1 DEF Values
    <3> QED BY <3>2, <3>3
  <2>2. m \in Values(r)
    <3>1. Len(q) + 1 \in 1 .. Len(r) BY <1>1
    <3> QED BY <1>1, <3>1 DEF Values
  <2>3. ASSUME NEW x \in Values(q) PROVE x \in Values(r)
    <3>1. PICK i \in 1 .. Len(q) : x = q[i] BY DEF Values
    <3>2. i \in 1 .. Len(r) /\ r[i] = x BY <1>1, <3>1
    <3> QED BY <3>2 DEF Values
  <2> QED BY <2>1, <2>2, <2>3
<1>3. ASSUME InOrder(q), Precede(Values(q), {m}) PROVE InOrder(r)
  <2> SUFFICES ASSUME NEW j \in 1 .. Len(r), NEW i \in 1 .. (j - 1)
               PROVE  Before(r[i], r[j])
    BY DEF InOrder
  <2>1. i \in 1 .. Len(q) /\ r[i] = q[i] /\ q[i] \in Values(q) BY <1>1 DEF Values
  <2>2. CASE j = Len(q) + 1
    <3>1. r[j] = m BY <1>1, <2>2
    <3> QED BY <1>3, <2>1, <3>1 DEF Precede
  <2>3. CASE j # Len(q) + 1
    <3>1. j \in 1 .. Len(q) /\ r[j] = q[j] BY <1>1, <2>3
    <3> QED BY <1>3, <2>1, <3>1 DEF InOrder
  <2> QED BY <2>2, <2>3
<1> QED BY <1>1, <1>2, <1>3 DEF r

LEMMA Joined ==
  ASSUME NEW S, NEW q \in Seq(S), NEW p \in Seq(S)
  PROVE  /\ q \o p \in Seq(S)
         /\ Values(q \o p) = Values(q) \cup Values(p)
         /\ InOrder(q) /\ InOrder(p) /\ Precede(Values(q), Values(p)) => InOrder(q \o p)
<1> DEFINE r == q \o p
<1>1. /\ r \in Seq(S) /\ Len(r) = Len(q) + Len(p) /\ Len(q) \in Nat /\ Len(p) \in Nat
      /\ \A i \in 1 .. Len(q) : r[i] = q[i]
      /\ \A i \in 1 .. Len(r) : i > Len(q) => i - Len(q) \in 1 .. Len(p) /\ r[i] = p[i - Len(q)]
      /\ \A i \in 1 .. Len(p) : Len(q) + i \in 1 .. Len(r) /\ r[Len(q) + i] = p[i]
  OBVIOUS
<1> HIDE DEF r
<1>2. Values(r) = Values(q) \cup Values(p)
  <2>1. ASSUME NEW x \in Values(r) PROVE x \in Values(q) \cup Values(p)
    <3>1. PICK i \in 1 .. Len(r) : x = r[i] BY DEF Values
    <3>2. CASE i > Len(q) BY <1>1, <3>1, <3>2 DEF Values
    <3>3. CASE ~(i > Len(q))
      <4>1. i \in 1 .. Len(q) BY <1>1, <3>3
      <4> QED BY <1>1, <3>1, <4>1 DEF Values
    <3> QED BY <3>2, <3>3
  <2>2. ASSUME NEW x \in Values(p) PROVE x \in Values(r)
    <3>1. PICK i \in 1 .. Len(p) : x = p[i] BY DEF Values
    <3> QED BY <1>1, <3>1 DEF Values
  <2>3. ASSUME NEW x \in Values(q) PROVE x \in Values(r)
    <3>1. PICK i \in 1 .. Len(q) : x = q[i] BY DEF Values
    <3>2. i \in 1 .. Len(r) /\ r[i] = x BY <1>1, <3>1
    <3> QED BY <3>2 DEF Values
  <2> QED BY <2>1, <2>2, <2>3
<1>3. ASSUME InOrder(q), InOrder(p), Precede(Values(q), Values(p)) PROVE InOrder(r)
  <2> SUFFICES ASSUME NEW j \in 1 .. Len(r), NEW i \in 1 .. (j - 1)
               PROVE  Before(r[i], r[j])
    BY DEF InOrder
  <2>0. i \in 1 .. Len(r) BY <1>1
  <2>1. CASE j <= Len(q)
    <3>1. j \in 1 .. Len(q) /\ i \in 1 .. Len(q) BY <1>1, <2>1
    <3> QED BY <1>1, <1>3, <3>1 DEF InOrder
  <2>2. CASE j > Len(q) /\ i <= Len(q)
    <3>1. r[j] \in Values(p) BY <1>1, <2>2 DEF Values
    <3>2. i \in 1 .. Len(q) BY <1>1, <2>2
    <3>3. r[i] \in Values(q) BY <1>1, <3>2 DEF Values
    <3> QED BY <1>3, <3>1, <3>3 DEF Precede
  <2>3. CASE j > Len(q) /\ i > Len(q)
    <3>1. /\ j - Len(q) \in 1 .. Len(p) /\ r[j] = p[j - Len(q)]
          /\ r[i] = p[i - Len(q)] /\ i - Len(q) \in 1 .. ((j - Len(q)) - 1)
      BY <1>1, <2>0, <2>3
    <3> QED BY <1>3, <3>1 DEF InOrder
  <2> QED BY <1>1, <2>1, <2>2, <2>3
<1> QED BY <1>1, <1>2, <1>3 DEF r

LEMMA Taken ==
  ASSUME NEW S, NEW q \in Seq(S), q # <<>>
  PROVE  /\ Head(q) \in S /\ Tail(q) \in Seq(S)
         /\ Values(q) = {Head(q)} \cup Values(Tail(q))
         /\ InOrder(q) => InOrder(Tail(q)) /\ Precede({Head(q)}, Values(Tail(q)))
<1> DEFINE r == Tail(q)
<1>1. /\ r \in Seq(S) /\ Len(r) = Len(q) - 1 /\ Len(q) \in Nat /\ Len(q) > 0
      /\ \A i \in 1 .. Len(r) : i + 1 \in 1 .. Len(q) /\ r[i] = q[i + 1]
      /\ Head(q) = q[1] /\ q[1] \in S
  OBVIOUS
<1> HIDE DEF r
<1>2. Values(q) = {q[1]} \cup Values(r)
  <2>1. ASSUME NEW x \in Values(q) PROVE x \in {q[1]} \cup Values(r)
    <3>1. PICK i \in 1 .. Len(q) : x = q[i] BY DEF Values
    <3>2. CASE i = 1 BY <3>1, <3>2
    <3>3. CASE i # 1
      <4>1. i - 1 \in 1 .. Len(r) /\ r[i - 1] = q[(i - 1) + 1] /\ (i - 1) + 1 = i BY <1>1, <3>3
      <4> QED BY <3>1, <4>1 DEF Values
    <3> QED BY <3>2, <3>3
  <2>2. q[1] \in Values(q)
    <3>1. 1 \in 1 .. Len(q) BY <1>1
    <3> QED BY <3>1 DEF Values
  <2>3. Values(r) \subseteq Values(q) BY <1>1 DEF Values
  <2> QED BY <2>1, <2>2, <2>3
<1>3. ASSUME InOrder(q) PROVE InOrder(r) /\ Precede({q[1]}, Values(r))
  <2>1. InOrder(r)
    <3> SUFFICES ASSUME NEW j \in 1 .. Len(r), NEW i \in 1 .. (j - 1)
                 PROVE  Before(r[i], r[j])
      BY DEF InOrder
    <3>1. i \in 1 .. Len(r) /\ i + 1 \in 1 .. ((j + 1) - 1) BY <1>1
    <3> QED BY <1>1, <1>3, <3>1 DEF InOrder
  <2>2. ASSUME NEW y \in Values(r) PROVE Before(q[1], y)
    <3>1. PICK i \in 1 .. Len(r) : y = r[i] BY DEF Values
    <3>2. i + 1 \in 1 .. Len(q) /\ 1 \in 1 .. ((i + 1) - 1) /\ y = q[i + 1] BY <1>1, <3>1
    <3> QED BY <1>3, <3>2 DEF InOrder
  <2> QED BY <2>1, <2>2 DEF Precede
<1> QED BY <1>1, <1>2, <1>3 DEF r

\* What OfKind takes out of a packet is of that kind and stays in order.
LEMMA OfKindIs ==
  ASSUME NEW msgs \in Seq(TDMessages), NEW kinds
  PROVE  /\ OfKind(msgs, kinds) \in Seq(TDMessages)
         /\ \A x \in Values(OfKind(msgs, kinds)) : x \in Values(msgs) /\ x.kind \in kinds
         /\ InOrder(msgs) => InOrder(OfKind(msgs, kinds))
<1> DEFINE Step(a, n) == IF msgs[n].kind \in kinds THEN Append(a, msgs[n]) ELSE a
           Upto(n, h) == h = [i \in 0 .. n |-> IF i = 0 THEN <<>> ELSE Step(h[i - 1], i)]
           Good == {n \in Nat : \E h : Upto(n, h)}
<1>1. Upto(0, [i \in 0 .. 0 |-> <<>>]) OBVIOUS
<1>2. ASSUME NEW n \in Nat, NEW h, Upto(n, h) PROVE \E g : Upto(n + 1, g)
  <2> HIDE DEF Step
  <2> DEFINE g == [i \in 0 .. (n + 1) |-> IF i <= n THEN h[i] ELSE Step(h[n], n + 1)]
  <2>1. ASSUME NEW i \in 0 .. (n + 1) PROVE g[i] = IF i = 0 THEN <<>> ELSE Step(g[i - 1], i)
    <3>1. CASE i = n + 1
      <4>1. g[i] = Step(h[n], i) /\ g[n] = h[n] /\ i - 1 = n /\ i # 0 BY <3>1
      <4> HIDE DEF g
      <4> QED BY <4>1
    <3>2. CASE i # n + 1
      <4>1. i \in 0 .. n /\ g[i] = h[i] /\ (i # 0 => g[i - 1] = h[i - 1]) BY <3>2
      <4>2. h[i] = IF i = 0 THEN <<>> ELSE Step(h[i - 1], i) BY <1>2, <4>1
      <4> HIDE DEF g
      <4> QED BY <4>1, <4>2
    <3> QED BY <3>1, <3>2
  <2>2. g = [i \in 0 .. (n + 1) |-> g[i]] OBVIOUS
  <2> HIDE DEF g
  <2>3. Upto(n + 1, g) BY <2>1, <2>2
  <2> QED BY <2>3
<1>3. Good = Nat
  <2>1. 0 \in Good BY <1>1
  <2> HIDE DEF Upto
  <2>2. \A n \in Good : n + 1 \in Good BY <1>2
  <2> HIDE DEF Good
  <2> QED BY <2>1, <2>2, Induction DEF Good
<1>4. PICK g : Upto(Len(msgs), g) BY <1>3
<1> DEFINE after == CHOOSE h : Upto(Len(msgs), h)
<1>5. Upto(Len(msgs), after) BY <1>4
<1>6. OfKind(msgs, kinds) = after[Len(msgs)] BY DEF OfKind
<1> DEFINE Fits(n) ==
             /\ after[n] \in Seq(TDMessages)
             /\ \A x \in Values(after[n]) : x.kind \in kinds /\ \E i \in 1 .. n : x = msgs[i]
             /\ InOrder(msgs) => InOrder(after[n])
           T == {n \in Nat : n <= Len(msgs) => Fits(n)}
<1>len. Len(msgs) \in Nat OBVIOUS
<1> HIDE DEF after, Step, Good
<1>a. \A i \in 0 .. Len(msgs) : after[i] = IF i = 0 THEN <<>> ELSE Step(after[i - 1], i)
  BY <1>5
<1> HIDE DEF Upto
<1>7. /\ after[0] = <<>>
      /\ \A n \in 1 .. Len(msgs) : after[n] = Step(after[n - 1], n)
  BY <1>a, <1>len
<1>8. 0 \in T
  <2>1. Fits(0) BY <1>7, Nothing
  <2> QED BY <2>1
<1>9. ASSUME NEW n \in T PROVE n + 1 \in T
  <2> SUFFICES ASSUME n + 1 <= Len(msgs) PROVE Fits(n + 1) OBVIOUS
  <2>1. n \in Nat /\ n + 1 \in 1 .. Len(msgs) /\ Fits(n) OBVIOUS
  <2>2. after[n + 1] = Step(after[n], n + 1) BY <1>7, <2>1
  <2>3. msgs[n + 1] \in TDMessages BY <2>1
  <2>4. CASE msgs[n + 1].kind \in kinds
    <3>1. after[n + 1] = Append(after[n], msgs[n + 1]) BY <2>2, <2>4 DEF Step
    <3>2. ASSUME InOrder(msgs) PROVE Precede(Values(after[n]), {msgs[n + 1]})
      <4> SUFFICES ASSUME NEW x \in Values(after[n]) PROVE Before(x, msgs[n + 1]) BY DEF Precede
      <4>1. PICK i \in 1 .. n : x = msgs[i] BY <2>1
      <4>2. i \in 1 .. ((n + 1) - 1) BY <2>1
      <4> QED BY <2>1, <3>2, <4>1, <4>2 DEF InOrder
    <3>0. after[n] \in Seq(TDMessages) /\ (InOrder(msgs) => InOrder(after[n])) BY <2>1
    <3>3. /\ Append(after[n], msgs[n + 1]) \in Seq(TDMessages)
          /\ Values(Append(after[n], msgs[n + 1])) = Values(after[n]) \cup {msgs[n + 1]}
          /\ InOrder(msgs) => InOrder(Append(after[n], msgs[n + 1]))
      <4> DEFINE a == after[n]
                 b == msgs[n + 1]
      <4>1. a \in Seq(TDMessages) /\ b \in TDMessages BY <2>3, <3>0
      <4>2. InOrder(msgs) => InOrder(a) /\ Precede(Values(a), {b}) BY <3>0, <3>2
      <4> HIDE DEF a, b
      <4>3. /\ Append(a, b) \in Seq(TDMessages) /\ Values(Append(a, b)) = Values(a) \cup {b}
            /\ InOrder(a) /\ Precede(Values(a), {b}) => InOrder(Append(a, b))
        BY ONLY <4>1, Appended, ZenonT(60)
      <4>4. InOrder(msgs) => InOrder(Append(a, b)) BY <4>2, <4>3
      <4> QED BY <4>3, <4>4 DEF a, b
    <3>4. ASSUME NEW x \in Values(after[n + 1])
          PROVE  x.kind \in kinds /\ \E i \in 1 .. (n + 1) : x = msgs[i]
      <4>1. CASE x \in Values(after[n]) BY <2>1, <4>1
      <4>2. CASE x = msgs[n + 1] BY <2>1, <2>4, <4>2
      <4> QED BY <3>1, <3>3, <3>4, <4>1, <4>2
    <3> QED BY <3>1, <3>3, <3>4
  <2>5. CASE msgs[n + 1].kind \notin kinds
    <3>1. after[n + 1] = after[n] BY <2>2, <2>5 DEF Step
    <3>2. \A x \in Values(after[n]) : \E i \in 1 .. (n + 1) : x = msgs[i] BY <2>1
    <3> QED BY <2>1, <3>1, <3>2
  <2> QED BY <2>4, <2>5
<1> HIDE DEF T
<1>10. T = Nat BY <1>8, <1>9, Induction DEF T
<1>11. Fits(Len(msgs))
  <2>1. Len(msgs) \in T BY <1>10, <1>len
  <2> QED BY <2>1, <1>len DEF T
<1> QED BY <1>6, <1>11 DEF Values
-----------------------------------------------------------------------------
(***************************************************************************)
(* The invariant.  A round of Run passes through records whose batch holds *)
(* one field more.                                                         *)
(***************************************************************************)
Tunnel0 == TDTunnels \cup {TDNone}
Batches == [running : BOOLEAN, tunnelID : Tunnel0, prevID : Tunnel0, prev : Tunnel0]
Rounds == [running : BOOLEAN, tunnelID : Tunnel0, prevID : Tunnel0, prev : Tunnel0,
           tunnel : Tunnel0]

Dispatches(B) ==
  [case : TDCases, next : [TDSessions -> Nat \ {0}], queue : Seq(TDMessages),
   netdb : Seq(TDMessages), local : Seq(TDMessages), tunnels : SUBSET TDTunnels, batch : B,
   collected : [TDTunnels -> Seq(TDMessages)], sent : [TDTunnels -> Seq(TDMessages)],
   behindBuild : SUBSET TDTunnels]

\* What the sessions have not received yet, what a tunnel was given.
Unread(d) ==
  UNION {UNION {Values(d.case.packets[s][k]) :
                  k \in {l \in DOMAIN d.case.packets[s] : l >= d.next[s]}} : s \in TDSessions}
Through(d, t) == d.sent[t] \o d.collected[t]

\* A message comes, for its session and kind, after those that are further on.
InStep(d, t) ==
  /\ InOrder(Through(d, t))
  /\ \A x \in Values(Through(d, t)) : x.tunnel = t
  /\ Precede(Values(Through(d, t)), Values(d.queue) \cup Unread(d))
Order(d) ==
  /\ InOrder(d.queue)
  /\ Precede(Values(d.queue), Unread(d))
  /\ \A t \in TDTunnels : InStep(d, t)

\* Nothing waits but in the tunnel that Run remembers, cur, and behind builds.
Kept(d, cur) ==
  \A t \in TDTunnels : d.collected[t] # <<>> => t \in d.behindBuild \/ t = cur

BatchOK(b) ==
  /\ b.prev \in {TDNone, b.prevID}
  /\ ~b.running => b.prev = TDNone

NextOK(d) == \A s \in TDSessions : d.next[s] \in 1 .. (Len(d.case.packets[s]) + 1)

DispatchSound(d) ==
  /\ d \in Dispatches(Batches)
  /\ NextOK(d)
  /\ BatchOK(d.batch)
  /\ Order(d)
  /\ Kept(d, d.batch.prev)

DispatchIInv == DispatchSound(dispatch)

\* The same tunnels, queue and packets: the same order.
LEMMA OrderKept ==
  ASSUME NEW d, NEW e, Order(d), e.queue = d.queue, e.case = d.case, e.next = d.next,
         \A t \in TDTunnels : Through(e, t) = Through(d, t)
  PROVE  Order(e)
<1>1. Unread(e) = Unread(d) BY DEF Unread
<1> QED BY <1>1 DEF Order, InStep

LEMMA FlushStep ==
  ASSUME NEW B, NEW d \in Dispatches(B), NEW t \in Tunnel0, Order(d), Kept(d, t)
  PROVE  LET e == FlushTransitMsgs(d, t) IN
         /\ e \in Dispatches(B) /\ Order(e) /\ Kept(e, TDNone)
         /\ e.queue = d.queue /\ e.case = d.case /\ e.next = d.next /\ e.batch = d.batch
         /\ e.tunnels = d.tunnels
         /\ \A u \in TDTunnels : Through(e, u) = Through(d, u)
<1>1. CASE t = TDNone BY <1>1 DEF FlushTransitMsgs
<1>2. CASE t # TDNone
  <2> DEFINE e == FlushTransitMsgs(d, t)
  <2>1. t \in TDTunnels BY <1>2 DEF Tunnel0
  <2> DEFINE sent == [d.sent EXCEPT ![t] = d.sent[t] \o d.collected[t]]
             collected == [d.collected EXCEPT ![t] = <<>>]
  <2>2. e = [d EXCEPT !.sent = sent, !.collected = collected, !.behindBuild = d.behindBuild \ {t}]
    BY <1>2 DEF FlushTransitMsgs
  <2>3. d.sent[t] \o d.collected[t] \in Seq(TDMessages) BY <2>1 DEF Dispatches
  <2>a. sent \in [TDTunnels -> Seq(TDMessages)] /\ collected \in [TDTunnels -> Seq(TDMessages)]
    BY <2>1, <2>3, Nothing DEF Dispatches
  <2> HIDE DEF e, sent, collected
  <2>4. e \in Dispatches(B) BY <2>2, <2>a DEF Dispatches
  <2>5. /\ e.queue = d.queue /\ e.case = d.case /\ e.next = d.next /\ e.batch = d.batch
        /\ e.tunnels = d.tunnels /\ e.behindBuild = d.behindBuild \ {t}
        /\ e.sent = sent /\ e.collected = collected
    BY <2>2 DEF Dispatches
  <2>6. d.sent \in [TDTunnels -> Seq(TDMessages)] /\ d.collected \in [TDTunnels -> Seq(TDMessages)]
    BY DEF Dispatches
  <2>7. ASSUME NEW u \in TDTunnels PROVE Through(e, u) = Through(d, u)
    <3>1. CASE u = t
      <4>1. e.sent[u] = d.sent[u] \o d.collected[u] /\ e.collected[u] = <<>>
        BY <2>5, <2>6, <3>1 DEF sent, collected
      <4>2. (d.sent[u] \o d.collected[u]) \o <<>> = d.sent[u] \o d.collected[u]
        BY <2>6, <2>3, <3>1, ConcatEmptySeq
      <4> QED BY <4>1, <4>2 DEF Through
    <3>2. CASE u # t BY <2>5, <2>6, <3>2 DEF Through, sent, collected
    <3> QED BY <3>1, <3>2
  <2>8. Order(e) BY <2>5, <2>7, OrderKept
  <2>9. Kept(e, TDNone) BY <2>5, <2>6 DEF Kept, collected
  <2> QED BY <2>4, <2>5, <2>7, <2>8, <2>9 DEF e
<1> QED BY <1>1, <1>2

\* m may be the next message of a tunnel.
MayCome(d, m) ==
  /\ m \in TDMessages
  /\ Precede({m}, Values(d.queue) \cup Unread(d))
  /\ \A t \in TDTunnels : Precede(Values(Through(d, t)), {m})

LEMMA CollectStep ==
  ASSUME NEW B, NEW d \in Dispatches(B), NEW m, m.tunnel \in TDTunnels, Order(d), MayCome(d, m),
         NEW t, t = m.tunnel, NEW e, e = [d EXCEPT !.collected[t] = Append(@, m)],
         Kept(d, TDNone) \/ Kept(d, t)
  PROVE  /\ e \in Dispatches(B) /\ Order(e) /\ Kept(e, t)
         /\ e.queue = d.queue /\ e.case = d.case /\ e.next = d.next /\ e.batch = d.batch
         /\ e.tunnels = d.tunnels
<1>1. t \in TDTunnels /\ m \in TDMessages BY DEF MayCome
<1>2. d.sent \in [TDTunnels -> Seq(TDMessages)] /\ d.collected \in [TDTunnels -> Seq(TDMessages)]
  BY DEF Dispatches
<1>3. Append(d.collected[t], m) \in Seq(TDMessages) BY <1>1, <1>2
<1> DEFINE collected == [d.collected EXCEPT ![t] = Append(d.collected[t], m)]
<1>a. e = [d EXCEPT !.collected = collected] OBVIOUS
<1>b. collected \in [TDTunnels -> Seq(TDMessages)] BY <1>2, <1>3
<1>c. collected[t] = Append(d.collected[t], m)
      /\ \A u \in TDTunnels : u # t => collected[u] = d.collected[u]
  BY <1>1, <1>2
<1> HIDE DEF collected
<1>4. e \in Dispatches(B) BY <1>a, <1>b DEF Dispatches
<1>5. /\ e.queue = d.queue /\ e.case = d.case /\ e.next = d.next /\ e.batch = d.batch
      /\ e.tunnels = d.tunnels /\ e.behindBuild = d.behindBuild /\ e.sent = d.sent
      /\ e.collected = collected
  BY <1>a DEF Dispatches
<1>6. Through(e, t) = Append(Through(d, t), m)
  <2>1. e.sent[t] = d.sent[t] /\ e.collected[t] = Append(d.collected[t], m) BY <1>c, <1>5
  <2>2. d.sent[t] \o Append(d.collected[t], m) = Append(d.sent[t] \o d.collected[t], m)
    <3>1. d.sent[t] \in Seq(TDMessages) /\ d.collected[t] \in Seq(TDMessages) BY <1>1, <1>2
    <3> DEFINE a == d.sent[t]
               b == d.collected[t]
    <3>2. a \in Seq(TDMessages) /\ b \in Seq(TDMessages) /\ m \in TDMessages BY <1>1, <3>1
    <3> HIDE DEF a, b
    <3>3. /\ Append(b, m) = b \o <<m>> /\ a \o b \in Seq(TDMessages) /\ <<m>> \in Seq(TDMessages)
          /\ Append(a \o b, m) = (a \o b) \o <<m>>
      BY <3>2, AppendIsConcat
    <3>4. (a \o b) \o <<m>> = a \o (b \o <<m>>) BY <3>2, <3>3, ConcatAssociative
    <3>5. a \o Append(b, m) = Append(a \o b, m) BY <3>3, <3>4
    <3> QED BY <3>5 DEF a, b
  <2> QED BY <2>1, <2>2 DEF Through
<1>7. \A u \in TDTunnels : u # t => Through(e, u) = Through(d, u)
  BY <1>c, <1>5 DEF Through
<1>8. Unread(e) = Unread(d) BY <1>5 DEF Unread
<1>9. InStep(e, t)
  <2>1. Through(d, t) \in Seq(TDMessages) BY <1>1, <1>2 DEF Through
  <2>2. InStep(d, t) /\ Precede(Values(Through(d, t)), {m}) BY <1>1 DEF Order, MayCome
  <2>3. /\ Values(Through(e, t)) = Values(Through(d, t)) \cup {m}
        /\ InOrder(Through(e, t))
    <3>1. InOrder(Through(d, t)) BY <2>2 DEF InStep
    <3> QED BY ONLY <1>1, <1>6, <2>1, <2>2, <3>1, Appended
  <2>4. Precede({m}, Values(d.queue) \cup Unread(d)) BY DEF MayCome
  <2>5. Precede(Values(Through(e, t)), Values(e.queue) \cup Unread(e))
    BY <1>5, <1>8, <2>2, <2>3, <2>4 DEF Precede, InStep
  <2> QED BY <2>2, <2>3, <2>5 DEF InStep
<1>10. Order(e) BY <1>5, <1>7, <1>8, <1>9 DEF Order, InStep
<1>11. Kept(e, t)
  <2>1. \A u \in TDTunnels : d.collected[u] # <<>> => u \in d.behindBuild \/ u = t
    BY <1>1, TunnelDispatchAssumption DEF Kept
  <2> QED BY <2>1, <1>c, <1>5 DEF Kept
<1> QED BY <1>4, <1>5, <1>10, <1>11

\* Fields that no property is about.
Relabelled(d, q, b) == [d EXCEPT !.netdb = q, !.batch = b]

LEMMA RelabelStep ==
  ASSUME NEW B, NEW C, NEW d \in Dispatches(B), NEW b \in C, NEW q \in Seq(TDMessages),
         NEW cur, Order(d), Kept(d, cur), NEW e, e = Relabelled(d, q, b)
  PROVE  /\ e \in Dispatches(C) /\ Order(e) /\ Kept(e, cur)
         /\ e.queue = d.queue /\ e.case = d.case /\ e.next = d.next /\ e.batch = b
         /\ e.tunnels = d.tunnels
<1>1. e \in Dispatches(C) BY DEF Dispatches, Relabelled
<1>2. /\ e.queue = d.queue /\ e.case = d.case /\ e.next = d.next /\ e.batch = b
      /\ e.tunnels = d.tunnels /\ e.behindBuild = d.behindBuild /\ e.sent = d.sent
      /\ e.collected = d.collected
  BY DEF Dispatches, Relabelled
<1>3. \A t \in TDTunnels : Through(e, t) = Through(d, t) BY <1>2 DEF Through
<1>4. Order(e) BY <1>2, <1>3, OrderKept
<1>5. Kept(e, cur) BY <1>2 DEF Kept
<1> QED BY <1>1, <1>2, <1>4, <1>5

\* What a round makes of a message: e is its end.
Handled(d, e) ==
  /\ e \in Dispatches(Rounds) /\ Order(e) /\ Kept(e, e.batch.tunnel)
  /\ e.batch.tunnel \in {TDNone, e.batch.tunnelID}
  /\ e.queue = d.queue /\ e.case = d.case /\ e.next = d.next

LEMMA TunnelMsgStep ==
  ASSUME NEW d \in Dispatches(Rounds), NEW m, MayCome(d, m), Order(d), Kept(d, d.batch.prev),
         d.batch.prev \in {TDNone, d.batch.prevID}
  PROVE  Handled(d, HandleTunnelMsg(d, m))
<1> DEFINE known == IF m.tunnel \in d.tunnels THEN m.tunnel ELSE TDNone
           named == IF m.tunnel = d.batch.prevID /\ d.batch.prev # TDNone
                     THEN d.batch.prev ELSE known
           flushed == IF m.tunnel = d.batch.prevID THEN d
                      ELSE FlushTransitMsgs(d, d.batch.prev)
           handled == IF named = TDNone THEN flushed
                      ELSE [flushed EXCEPT !.collected[named] = Append(@, m)]
           netdb == IF m.kind = "Gateway" /\ m.database /\ named # TDNone
                    THEN Append(handled.netdb, m) ELSE handled.netdb
           batch == [handled.batch EXCEPT !.tunnelID = m.tunnel, !.tunnel = named]
           e == [handled EXCEPT !.netdb = netdb, !.batch = batch]
<1>1. /\ m \in TDMessages /\ m.tunnel \in Tunnel0 /\ d.tunnels \subseteq TDTunnels
      /\ d.batch \in Rounds /\ d.batch.prev \in Tunnel0 /\ d.batch.prevID \in Tunnel0
  BY DEF MayCome, TDMessages, Dispatches, Rounds, Tunnel0
<1>2. named \in {TDNone, m.tunnel} /\ named \in Tunnel0
  BY <1>1 DEF Tunnel0
<1>3. /\ flushed \in Dispatches(Rounds) /\ Order(flushed) /\ Kept(flushed, named)
      /\ flushed.queue = d.queue /\ flushed.case = d.case /\ flushed.next = d.next
      /\ flushed.batch = d.batch
      /\ \A u \in TDTunnels : Through(flushed, u) = Through(d, u)
  <2>1. CASE m.tunnel = d.batch.prevID
    <3>1. flushed = d /\ (d.batch.prev = TDNone \/ named = d.batch.prev) BY <2>1
    <3>2. Kept(d, named) BY <1>1, <3>1, TunnelDispatchAssumption DEF Kept
    <3> QED BY <3>1, <3>2
  <2>2. CASE m.tunnel # d.batch.prevID
    <3>1. flushed = FlushTransitMsgs(d, d.batch.prev) BY <2>2
    <3> HIDE DEF flushed, named
    <3>2. Kept(flushed, TDNone) BY <1>1, <3>1, FlushStep
    <3>3. Kept(flushed, named) BY <3>2, TunnelDispatchAssumption DEF Kept
    <3> QED BY <1>1, <3>1, <3>3, FlushStep
  <2> QED BY <2>1, <2>2
<1> HIDE DEF flushed, known
<1>4. MayCome(flushed, m)
  <2>1. Unread(flushed) = Unread(d) BY <1>3 DEF Unread
  <2> QED BY <1>3, <2>1 DEF MayCome
<1>5. /\ handled \in Dispatches(Rounds) /\ Order(handled) /\ Kept(handled, named)
      /\ handled.queue = d.queue /\ handled.case = d.case /\ handled.next = d.next
      /\ handled.batch = d.batch
  <2>1. CASE named = TDNone BY <1>3, <2>1
  <2>2. CASE named # TDNone
    <3>1. handled = [flushed EXCEPT !.collected[named] = Append(@, m)] BY <2>2
    <3>2. named = m.tunnel /\ m.tunnel \in TDTunnels BY <1>1, <1>2, <2>2 DEF Tunnel0
    <3> HIDE DEF handled, named
    <3> QED BY ONLY <1>3, <1>4, <3>1, <3>2, CollectStep
  <2> QED BY <2>1, <2>2
<1> HIDE DEF handled
<1>6. netdb \in Seq(TDMessages)
  <2>1. handled.netdb \in Seq(TDMessages) BY <1>5 DEF Dispatches
  <2>2. Append(handled.netdb, m) \in Seq(TDMessages) BY <1>1, <2>1, Appended
  <2> QED BY <2>1, <2>2
<1>7. batch \in Rounds /\ batch.tunnel = named /\ batch.tunnelID = m.tunnel
  <2> HIDE DEF named
  <2> QED BY <1>1, <1>2, <1>5 DEF Rounds
<1>8. HandleTunnelMsg(d, m) = e
  <2> DEFINE shown == IF m.kind = "Gateway" /\ m.database /\ named # TDNone
                      THEN [handled EXCEPT !.netdb = Append(@, m)] ELSE handled
  <2>1. HandleTunnelMsg(d, m)
          = [shown EXCEPT !.batch.tunnelID = m.tunnel, !.batch.tunnel = named]
    BY DEF HandleTunnelMsg, handled, flushed, known
  <2> HIDE DEF named
  <2>2. shown = [handled EXCEPT !.netdb = netdb]
    <3>1. handled = [handled EXCEPT !.netdb = handled.netdb] BY <1>5 DEF Dispatches
    <3> QED BY <3>1
  <2>3. shown.batch = handled.batch BY <1>5 DEF Dispatches
  <2>4. HandleTunnelMsg(d, m) = [shown EXCEPT !.batch = batch]
    <3>1. [shown EXCEPT !.batch.tunnelID = m.tunnel, !.batch.tunnel = named]
            = [shown EXCEPT !.batch = [shown.batch EXCEPT !.tunnelID = m.tunnel, !.tunnel = named]]
      BY <1>5, <2>2 DEF Dispatches
    <3> QED BY <2>1, <2>3, <3>1
  <2> HIDE DEF shown, netdb, batch
  <2> QED BY <2>2, <2>4, <1>5 DEF Dispatches
<1> HIDE DEF netdb, batch, named
<1>e. e = Relabelled(handled, netdb, batch) BY DEF Relabelled
<1> HIDE DEF e
<1>9. /\ e \in Dispatches(Rounds) /\ Order(e) /\ Kept(e, named)
      /\ e.queue = handled.queue /\ e.case = handled.case /\ e.next = handled.next
      /\ e.batch = batch
  BY ONLY <1>e, <1>5, <1>6, <1>7, RelabelStep
<1> QED BY <1>2, <1>5, <1>7, <1>8, <1>9 DEF Handled

LEMMA BuildMsgStep ==
  ASSUME NEW d \in Dispatches(Rounds), NEW m, MayCome(d, m), Order(d), Kept(d, d.batch.prev)
  PROVE  Handled(d, HandleBuildMsg(d, m))
<1> DEFINE tunnels == d.tunnels \cup ({m.tunnel} \ {TDNone})
           batch == [d.batch EXCEPT !.tunnel = TDNone]
           behind == d.behindBuild \cup {t \in {d.batch.prev} \ {TDNone} : d.collected[t] # <<>>}
           e == [d EXCEPT !.tunnels = tunnels, !.batch = batch, !.behindBuild = behind]
<1>1. /\ m \in TDMessages /\ m.tunnel \in Tunnel0 /\ d.tunnels \subseteq TDTunnels
      /\ d.batch \in Rounds /\ d.batch.prev \in Tunnel0 /\ d.behindBuild \subseteq TDTunnels
  BY DEF MayCome, TDMessages, Dispatches, Rounds, Tunnel0
<1>2. HandleBuildMsg(d, m) = e BY DEF HandleBuildMsg
<1>3. tunnels \subseteq TDTunnels /\ behind \subseteq TDTunnels BY <1>1 DEF Tunnel0
<1>4. batch \in Rounds /\ batch.tunnel = TDNone BY <1>1 DEF Rounds, Tunnel0
<1>5. Kept(d, d.batch.prev) /\ \A t \in TDTunnels : d.collected[t] # <<>> => t \in behind
  <2> SUFFICES ASSUME NEW t \in TDTunnels, d.collected[t] # <<>> PROVE t \in behind OBVIOUS
  <2>1. t \in d.behindBuild \/ t = d.batch.prev BY DEF Kept
  <2> QED BY <2>1, TunnelDispatchAssumption
<1> HIDE DEF tunnels, batch, behind
<1>6. e \in Dispatches(Rounds) BY <1>3, <1>4 DEF Dispatches
<1>7. /\ e.queue = d.queue /\ e.case = d.case /\ e.next = d.next /\ e.batch = batch
      /\ e.behindBuild = behind /\ e.sent = d.sent /\ e.collected = d.collected
  BY DEF Dispatches
<1> HIDE DEF e
<1>8. \A t \in TDTunnels : Through(e, t) = Through(d, t) BY <1>7 DEF Through
<1>9. Order(e) BY <1>7, <1>8, OrderKept
<1>10. Kept(e, TDNone) BY <1>5, <1>7 DEF Kept
<1> QED BY <1>2, <1>4, <1>6, <1>7, <1>9, <1>10 DEF Handled

LEMMA RunStepSound ==
  ASSUME DispatchSound(dispatch), RunStep
  PROVE  DispatchSound(dispatch')
<1> DEFINE m == Head(dispatch.queue)
           batch == [running |-> TRUE, tunnelID |-> dispatch.batch.tunnelID,
                     prevID |-> dispatch.batch.prevID, prev |-> dispatch.batch.prev,
                     tunnel |-> TDNone]
           d == [dispatch EXCEPT !.queue = Tail(dispatch.queue), !.batch = batch]
           h == IF m.kind = "Build" THEN HandleBuildMsg(d, m) ELSE HandleTunnelMsg(d, m)
           after == [running |-> TRUE, tunnelID |-> h.batch.tunnelID,
                     prevID |-> h.batch.tunnelID, prev |-> h.batch.tunnel]
<1>1. /\ dispatch \in Dispatches(Batches) /\ NextOK(dispatch) /\ BatchOK(dispatch.batch)
      /\ Order(dispatch) /\ Kept(dispatch, dispatch.batch.prev)
  BY DEF DispatchSound
<1>2. dispatch.queue # <<>> /\ dispatch.queue \in Seq(TDMessages) /\ dispatch.batch \in Batches
  BY <1>1 DEF RunStep, Dispatches
<1>3. /\ m \in TDMessages /\ Tail(dispatch.queue) \in Seq(TDMessages)
      /\ Values(dispatch.queue) = {m} \cup Values(Tail(dispatch.queue))
      /\ InOrder(Tail(dispatch.queue)) /\ Precede({m}, Values(Tail(dispatch.queue)))
  <2>1. InOrder(dispatch.queue) BY <1>1 DEF Order
  <2> QED BY <1>2, <2>1, Taken
<1>4. batch \in Rounds /\ batch.prev = dispatch.batch.prev /\ batch.prevID = dispatch.batch.prevID
  BY <1>2 DEF Batches, Rounds, Tunnel0
<1>5. dispatch' = IF Tail(dispatch.queue) = <<>> THEN EndBatch(h) ELSE [h EXCEPT !.batch = after]
  BY DEF RunStep
<1> HIDE DEF m, batch, h, after
<1>6. /\ d \in Dispatches(Rounds) /\ d.queue = Tail(dispatch.queue) /\ d.case = dispatch.case
      /\ d.next = dispatch.next /\ d.batch = batch /\ d.sent = dispatch.sent
      /\ d.collected = dispatch.collected /\ d.behindBuild = dispatch.behindBuild
  BY <1>1, <1>3, <1>4 DEF Dispatches
<1> HIDE DEF d
<1>7. /\ Unread(d) = Unread(dispatch) /\ \A t \in TDTunnels : Through(d, t) = Through(dispatch, t)
  BY <1>6 DEF Unread, Through
<1>8. Values(d.queue) \subseteq Values(dispatch.queue) /\ m \in Values(dispatch.queue)
  BY <1>3, <1>6
<1>9. Order(d)
  <2>1. InOrder(d.queue) BY <1>3, <1>6
  <2>2. Precede(Values(d.queue), Unread(d)) BY <1>1, <1>7, <1>8 DEF Order, Precede
  <2>3. ASSUME NEW t \in TDTunnels PROVE InStep(d, t)
    <3>1. InStep(dispatch, t) BY <1>1 DEF Order
    <3> QED BY <3>1, <1>7, <1>8 DEF InStep, Precede
  <2> QED BY <2>1, <2>2, <2>3 DEF Order
<1>10. MayCome(d, m)
  <2>1. Precede({m}, Values(d.queue) \cup Unread(d))
    BY <1>1, <1>3, <1>6, <1>7, <1>8 DEF Order, Precede
  <2>2. ASSUME NEW t \in TDTunnels PROVE Precede(Values(Through(d, t)), {m})
    <3>1. InStep(dispatch, t) BY <1>1 DEF Order
    <3> QED BY <3>1, <1>7, <1>8 DEF InStep, Precede
  <2> QED BY <1>3, <2>1, <2>2 DEF MayCome
<1>11. Kept(d, d.batch.prev) BY <1>1, <1>4, <1>6 DEF Kept
<1>12. d.batch.prev \in {TDNone, d.batch.prevID} BY <1>1, <1>4, <1>6 DEF BatchOK
<1>13. Handled(d, h) BY <1>6, <1>9, <1>10, <1>11, <1>12, TunnelMsgStep, BuildMsgStep DEF h
<1>14. /\ h \in Dispatches(Rounds) /\ Order(h) /\ Kept(h, h.batch.tunnel) /\ h.batch \in Rounds
       /\ h.batch.tunnel \in Tunnel0 /\ h.batch.tunnelID \in Tunnel0
       /\ h.batch.tunnel \in {TDNone, h.batch.tunnelID} /\ NextOK(h) /\ h.netdb \in Seq(TDMessages)
  BY <1>1, <1>6, <1>13 DEF Handled, Dispatches, Rounds, NextOK
<1>15. CASE Tail(dispatch.queue) = <<>>
  <2> DEFINE f == FlushTransitMsgs(h, h.batch.tunnel)
  <2>1. dispatch' = [f EXCEPT !.batch = NoBatch] BY <1>5, <1>15 DEF EndBatch
  <2>2. /\ f \in Dispatches(Rounds) /\ Order(f) /\ Kept(f, TDNone)
        /\ f.case = h.case /\ f.next = h.next
    BY <1>14, FlushStep
  <2> HIDE DEF f
  <2>3. NoBatch \in Batches /\ NoBatch.prev = TDNone BY DEF NoBatch, Batches, Tunnel0
  <2>4. f.netdb \in Seq(TDMessages) /\ dispatch' = Relabelled(f, f.netdb, NoBatch)
    BY <2>1, <2>2 DEF Dispatches, Relabelled
  <2>5. /\ dispatch' \in Dispatches(Batches) /\ Order(dispatch') /\ Kept(dispatch', TDNone)
        /\ dispatch'.case = f.case /\ dispatch'.next = f.next /\ dispatch'.batch = NoBatch
    <3> DEFINE q == f.netdb
               e == Relabelled(f, q, NoBatch)
    <3>1. q \in Seq(TDMessages) /\ dispatch' = e BY <2>4
    <3> HIDE DEF q
    <3>2. e = Relabelled(f, q, NoBatch) OBVIOUS
    <3> HIDE DEF e
    <3>3. /\ e \in Dispatches(Batches) /\ Order(e) /\ Kept(e, TDNone)
          /\ e.case = f.case /\ e.next = f.next /\ e.batch = NoBatch
      BY ONLY <2>2, <2>3, <3>1, <3>2, RelabelStep
    <3> QED BY <3>1, <3>3
  <2>6. NextOK(dispatch') BY <1>14, <2>2, <2>5 DEF NextOK
  <2>7. BatchOK(dispatch'.batch) BY <2>3, <2>5 DEF BatchOK
  <2> QED BY <2>3, <2>5, <2>6, <2>7 DEF DispatchSound
<1>16. CASE Tail(dispatch.queue) # <<>>
  <2>1. dispatch' = [h EXCEPT !.batch = after] BY <1>5, <1>16
  <2>2. after \in Batches /\ after.prev = h.batch.tunnel /\ after.prevID = h.batch.tunnelID
        /\ after.running = TRUE
    BY <1>14 DEF after, Batches
  <2>3. dispatch' = Relabelled(h, h.netdb, after) BY <1>14, <2>1 DEF Dispatches, Relabelled
  <2>4. /\ dispatch' \in Dispatches(Batches) /\ Order(dispatch') /\ Kept(dispatch', h.batch.tunnel)
        /\ dispatch'.case = h.case /\ dispatch'.next = h.next /\ dispatch'.batch = after
    <3> DEFINE q == h.netdb
               e == Relabelled(h, q, after)
               cur == h.batch.tunnel
    <3>1. q \in Seq(TDMessages) /\ dispatch' = e /\ Kept(h, cur) BY <1>14, <2>3
    <3> HIDE DEF q, cur
    <3>2. e = Relabelled(h, q, after) OBVIOUS
    <3> HIDE DEF e
    <3>3. /\ e \in Dispatches(Batches) /\ Order(e) /\ Kept(e, cur)
          /\ e.case = h.case /\ e.next = h.next /\ e.batch = after
      BY ONLY <1>14, <2>2, <3>1, <3>2, RelabelStep
    <3> QED BY <3>1, <3>3 DEF cur
  <2>5. NextOK(dispatch') BY <1>14, <2>4 DEF NextOK
  <2>6. BatchOK(dispatch'.batch) BY <1>14, <2>2, <2>4 DEF BatchOK
  <2> QED BY <2>2, <2>4, <2>5, <2>6 DEF DispatchSound
<1> QED BY <1>15, <1>16

LEMMA ReceivePacketSound ==
  ASSUME DispatchSound(dispatch), NEW s \in TDSessions, ReceivePacket(s)
  PROVE  DispatchSound(dispatch')
<1> DEFINE packets == dispatch.case.packets
           k == dispatch.next[s]
           msgs == packets[s][k]
           builds == OfKind(msgs, {"Build"})
           data == OfKind(msgs, {"Data"})
           gateway == OfKind(msgs, {"Gateway"})
           new == builds \o data \o gateway
           next == [dispatch.next EXCEPT ![s] = k + 1]
           netdb == dispatch.netdb \o OfKind(msgs, {"Database"})
           local == dispatch.local \o OfKind(msgs, {"Garlic", "DeliveryStatus"})
           queue == dispatch.queue \o builds \o data \o gateway
<1>1. /\ dispatch \in Dispatches(Batches) /\ NextOK(dispatch) /\ BatchOK(dispatch.batch)
      /\ Order(dispatch) /\ Kept(dispatch, dispatch.batch.prev)
  BY DEF DispatchSound
<1>2. /\ dispatch.case \in TDCases /\ dispatch.next \in [TDSessions -> Nat \ {0}]
      /\ dispatch.queue \in Seq(TDMessages) /\ dispatch.netdb \in Seq(TDMessages)
      /\ dispatch.local \in Seq(TDMessages)
  BY <1>1 DEF Dispatches
<1>3. /\ packets \in [TDSessions -> Seq(Seq(TDMessages))]
      /\ \A r \in TDSessions : \A a, b \in DOMAIN packets[r] :
           \A i \in DOMAIN packets[r][a], j \in DOMAIN packets[r][b] :
             /\ packets[r][a][i].from = r
             /\ a < b \/ (a = b /\ i < j) => packets[r][a][i].seq < packets[r][b][j].seq
  BY <1>2, TunnelDispatchAssumption
<1>4. k \in DOMAIN packets[s] /\ k <= Len(packets[s]) /\ k \in Nat \ {0}
  <2>1. k <= Len(packets[s]) /\ k \in Nat \ {0} BY <1>2 DEF ReceivePacket
  <2>2. packets[s] \in Seq(Seq(TDMessages)) BY <1>3
  <2> QED BY <2>1, <2>2
<1>5. msgs \in Seq(TDMessages)
  <2>2. packets[s] \in Seq(Seq(TDMessages)) BY <1>3
  <2> QED BY <2>2, <1>4
<1>6. dispatch' = [dispatch EXCEPT !.next = next, !.netdb = netdb, !.local = local, !.queue = queue]
  BY DEF ReceivePacket
<1>7. InOrder(msgs)
  <2> SUFFICES ASSUME NEW j \in 1 .. Len(msgs), NEW i \in 1 .. (j - 1) PROVE Before(msgs[i], msgs[j])
    BY DEF InOrder
  <2>1. j \in DOMAIN msgs /\ i \in DOMAIN msgs /\ i < j BY <1>5
  <2> QED BY <1>3, <1>4, <2>1 DEF Before
<1>8. Values(msgs) \subseteq Unread(dispatch)
  <2>1. k \in {l \in DOMAIN packets[s] : l >= dispatch.next[s]} BY <1>4
  <2> QED BY <2>1 DEF Unread
<1> HIDE DEF msgs, packets
<1>9. /\ builds \in Seq(TDMessages) /\ data \in Seq(TDMessages) /\ gateway \in Seq(TDMessages)
      /\ InOrder(builds) /\ InOrder(data) /\ InOrder(gateway)
      /\ \A x \in Values(builds) : x \in Values(msgs) /\ x.kind = "Build"
      /\ \A x \in Values(data) : x \in Values(msgs) /\ x.kind = "Data"
      /\ \A x \in Values(gateway) : x \in Values(msgs) /\ x.kind = "Gateway"
  BY <1>5, <1>7, OfKindIs
<1>10. /\ netdb \in Seq(TDMessages) /\ local \in Seq(TDMessages)
  <2>1. OfKind(msgs, {"Database"}) \in Seq(TDMessages)
        /\ OfKind(msgs, {"Garlic", "DeliveryStatus"}) \in Seq(TDMessages)
    BY <1>5, OfKindIs
  <2> QED BY <1>2, <2>1
<1> HIDE DEF builds, data, gateway, netdb, local, k
<1>11. new \in Seq(TDMessages) /\ InOrder(new) /\ Values(new) \subseteq Values(msgs)
  <2>1. Precede(Values(builds), Values(data)) BY <1>9 DEF Precede, Before
  <2>2. /\ builds \o data \in Seq(TDMessages) /\ InOrder(builds \o data)
        /\ Values(builds \o data) = Values(builds) \cup Values(data)
    BY <1>9, <2>1, Joined
  <2>3. Precede(Values(builds \o data), Values(gateway)) BY <1>9, <2>2 DEF Precede, Before
  <2>4. /\ new \in Seq(TDMessages) /\ InOrder(new)
        /\ Values(new) = Values(builds \o data) \cup Values(gateway)
    <3> DEFINE front == builds \o data
    <3>1. /\ front \in Seq(TDMessages) /\ InOrder(front) /\ new = front \o gateway
          /\ Precede(Values(front), Values(gateway))
      BY <2>2, <2>3
    <3> HIDE DEF front
    <3>2. /\ front \o gateway \in Seq(TDMessages) /\ InOrder(front \o gateway)
          /\ Values(front \o gateway) = Values(front) \cup Values(gateway)
      BY <1>9, <3>1, Joined
    <3> QED BY <3>1, <3>2 DEF front
  <2> QED BY <1>9, <2>2, <2>4
<1>12. queue = dispatch.queue \o new
  <2> DEFINE q == dispatch.queue
             front == builds \o data
  <2>1. q \in Seq(TDMessages) /\ front \in Seq(TDMessages) BY <1>2, <1>9
  <2> HIDE DEF q
  <2>2. (q \o builds) \o data = q \o front BY <1>9, <2>1, ConcatAssociative
  <2> HIDE DEF front
  <2>g. gateway \in Seq(TDMessages) BY <1>9
  <2>3. (q \o front) \o gateway = q \o (front \o gateway)
    BY ONLY <2>1, <2>g, ConcatAssociative
  <2> QED BY <2>2, <2>3 DEF q, front
<1> HIDE DEF new
<1>13. /\ queue \in Seq(TDMessages) /\ Values(queue) = Values(dispatch.queue) \cup Values(new)
       /\ InOrder(queue)
  <2>1. InOrder(dispatch.queue) /\ Precede(Values(dispatch.queue), Values(new))
    BY <1>1, <1>8, <1>11 DEF Order, Precede
  <2> QED BY <1>2, <1>11, <1>12, <2>1, Joined
<1> HIDE DEF queue
<1>14. /\ next \in [TDSessions -> Nat \ {0}] /\ next[s] = k + 1
       /\ \A r \in TDSessions : r # s => next[r] = dispatch.next[r]
  BY <1>2, <1>4
<1> HIDE DEF next
<1>15. /\ dispatch' \in Dispatches(Batches)
       /\ dispatch'.case = dispatch.case /\ dispatch'.next = next /\ dispatch'.queue = queue
       /\ dispatch'.sent = dispatch.sent /\ dispatch'.collected = dispatch.collected
       /\ dispatch'.behindBuild = dispatch.behindBuild /\ dispatch'.batch = dispatch.batch
  BY <1>1, <1>6, <1>10, <1>13, <1>14 DEF Dispatches
<1>16. NextOK(dispatch')
  <2>1. packets[s] \in Seq(Seq(TDMessages)) BY <1>3
  <2>2. next[s] \in 1 .. (Len(packets[s]) + 1) BY <1>4, <1>14, <2>1
  <2> QED BY <1>1, <1>14, <1>15, <2>2 DEF NextOK, packets
<1>17. Unread(dispatch') \subseteq Unread(dispatch)
  <2> SUFFICES ASSUME NEW y \in Unread(dispatch') PROVE y \in Unread(dispatch) OBVIOUS
  <2>0. PICK r \in TDSessions :
          \E l \in DOMAIN packets[r] : l >= next[r] /\ y \in Values(packets[r][l])
    BY <1>15 DEF Unread, packets
  <2>1. PICK l \in DOMAIN packets[r] : l >= next[r] /\ y \in Values(packets[r][l]) BY <2>0
  <2>2. l \in Nat /\ next[r] \in Nat /\ dispatch.next[r] \in Nat /\ next[r] >= dispatch.next[r]
    <3>1. packets[r] \in Seq(Seq(TDMessages)) BY <1>3
    <3>2. l \in Nat /\ next[r] \in Nat /\ dispatch.next[r] \in Nat BY <3>1, <1>2, <1>14
    <3>3. next[r] = dispatch.next[r] \/ next[r] = dispatch.next[r] + 1 BY <1>14 DEF k
    <3> QED BY <3>2, <3>3
  <2>3. l >= dispatch.next[r] BY <2>1, <2>2
  <2> QED BY <2>1, <2>3 DEF Unread, packets
<1>18. Precede(Values(msgs), Unread(dispatch'))
  <2> SUFFICES ASSUME NEW x \in Values(msgs), NEW y \in Unread(dispatch') PROVE Before(x, y)
    BY DEF Precede
  <2>0. PICK r \in TDSessions :
          \E l \in DOMAIN packets[r] : l >= next[r] /\ y \in Values(packets[r][l])
    BY <1>15 DEF Unread, packets
  <2>1. PICK l \in DOMAIN packets[r] : l >= next[r] /\ y \in Values(packets[r][l]) BY <2>0
  <2>2. PICK i \in 1 .. Len(msgs) : x = msgs[i] BY DEF Values
  <2>3. PICK j \in 1 .. Len(packets[r][l]) : y = packets[r][l][j] BY <2>1 DEF Values
  <2>4. packets[r] \in Seq(Seq(TDMessages)) BY <1>3
  <2>5. packets[r][l] \in Seq(TDMessages) BY <2>1, <2>4
  <2>6. i \in DOMAIN packets[s][k] /\ j \in DOMAIN packets[r][l] /\ x = packets[s][k][i]
    BY <1>5, <2>2, <2>3, <2>5 DEF msgs
  <2>7. x.from = s /\ y.from = r BY <1>3, <1>4, <2>1, <2>3, <2>6
  <2>8. CASE r = s
    <3>1. l \in Nat /\ k < l BY <1>4, <1>14, <2>1, <2>4, <2>8
    <3> QED BY <1>3, <1>4, <2>1, <2>3, <2>6, <2>8, <3>1 DEF Before
  <2>9. CASE r # s BY <2>7, <2>9 DEF Before
  <2> QED BY <2>8, <2>9
<1>19. Order(dispatch')
  <2>1. InOrder(dispatch'.queue) BY <1>13, <1>15
  <2>2. Values(dispatch'.queue) \subseteq Values(dispatch.queue) \cup Values(msgs)
    BY <1>11, <1>13, <1>15
  <2>3. Precede(Values(dispatch'.queue), Unread(dispatch'))
    BY <1>1, <1>17, <1>18, <2>2 DEF Order, Precede
  <2>4. ASSUME NEW t \in TDTunnels PROVE InStep(dispatch', t)
    <3>1. InStep(dispatch, t) BY <1>1 DEF Order
    <3>2. Through(dispatch', t) = Through(dispatch, t) BY <1>15 DEF Through
    <3>3. Values(dispatch'.queue) \cup Unread(dispatch') \subseteq Values(dispatch.queue) \cup Unread(dispatch)
      BY <1>8, <1>17, <2>2
    <3> QED BY <3>1, <3>2, <3>3 DEF InStep, Precede
  <2> QED BY <2>1, <2>3, <2>4 DEF Order
<1>20. Kept(dispatch', dispatch'.batch.prev) BY <1>1, <1>15 DEF Kept
<1> QED BY <1>1, <1>15, <1>16, <1>19, <1>20 DEF DispatchSound

LEMMA ExpireSound ==
  ASSUME DispatchSound(dispatch), NEW t \in TDTunnels, ExpireTransitTunnel(t)
  PROVE  DispatchSound(dispatch')
<1> DEFINE collected == [dispatch.collected EXCEPT ![t] = <<>>]
           tunnels == dispatch.tunnels \ {t}
           behind == dispatch.behindBuild \ {t}
<1>1. /\ dispatch \in Dispatches(Batches) /\ NextOK(dispatch) /\ BatchOK(dispatch.batch)
      /\ Order(dispatch) /\ Kept(dispatch, dispatch.batch.prev)
  BY DEF DispatchSound
<1>2. /\ dispatch.collected \in [TDTunnels -> Seq(TDMessages)]
      /\ dispatch.sent \in [TDTunnels -> Seq(TDMessages)]
      /\ dispatch.tunnels \subseteq TDTunnels /\ dispatch.behindBuild \subseteq TDTunnels
  BY <1>1 DEF Dispatches
<1>3. dispatch' = [dispatch EXCEPT !.tunnels = tunnels, !.collected = collected, !.behindBuild = behind]
  BY DEF ExpireTransitTunnel
<1>4. /\ collected \in [TDTunnels -> Seq(TDMessages)] /\ collected[t] = <<>>
      /\ \A u \in TDTunnels : u # t => collected[u] = dispatch.collected[u]
  BY <1>2, Nothing
<1>5. tunnels \subseteq TDTunnels /\ behind \subseteq TDTunnels BY <1>2
<1>6. \A u \in TDTunnels : u # t /\ u \in dispatch.behindBuild => u \in behind OBVIOUS
<1> HIDE DEF collected, tunnels, behind
<1>7. /\ dispatch' \in Dispatches(Batches)
      /\ dispatch'.case = dispatch.case /\ dispatch'.next = dispatch.next
      /\ dispatch'.queue = dispatch.queue /\ dispatch'.sent = dispatch.sent
      /\ dispatch'.collected = collected /\ dispatch'.behindBuild = behind
      /\ dispatch'.batch = dispatch.batch
  BY <1>1, <1>3, <1>4, <1>5 DEF Dispatches
<1>8. Unread(dispatch') = Unread(dispatch) BY <1>7 DEF Unread
<1>9. InStep(dispatch', t)
  <2>1. dispatch.sent[t] \in Seq(TDMessages) /\ dispatch.collected[t] \in Seq(TDMessages) BY <1>2
  <2>2. Through(dispatch', t) = dispatch.sent[t] BY <1>4, <1>7, <2>1, ConcatEmptySeq DEF Through
  <2>3. Values(dispatch.sent[t]) \subseteq Values(Through(dispatch, t)) BY <2>1, Joined DEF Through
  <2>4. InStep(dispatch, t) BY <1>1 DEF Order
  <2>5. InOrder(dispatch.sent[t])
    <3> DEFINE a == dispatch.sent[t]
               b == dispatch.collected[t]
               r == a \o b
    <3>1. /\ Len(r) = Len(a) + Len(b) /\ Len(a) \in Nat /\ Len(b) \in Nat
          /\ \A i \in 1 .. Len(a) : r[i] = a[i]
      <4>1. a \in Seq(TDMessages) /\ b \in Seq(TDMessages) BY <2>1
      <4> HIDE DEF a, b
      <4> QED BY <4>1
    <3>2. InOrder(r) BY <2>4 DEF InStep, Through
    <3> HIDE DEF a, b, r
    <3>3. InOrder(a)
      <4> SUFFICES ASSUME NEW j \in 1 .. Len(a), NEW i \in 1 .. (j - 1) PROVE Before(a[i], a[j])
        BY DEF InOrder
      <4>1. j \in 1 .. Len(r) /\ i \in 1 .. Len(a) BY <3>1
      <4> QED BY <3>1, <3>2, <4>1 DEF InOrder
    <3> QED BY <3>3 DEF a
  <2> QED BY <1>7, <1>8, <2>2, <2>3, <2>4, <2>5 DEF InStep, Precede
<1>10. Order(dispatch')
  <2>1. ASSUME NEW u \in TDTunnels, u # t PROVE InStep(dispatch', u)
    <3>1. Through(dispatch', u) = Through(dispatch, u) BY <1>4, <1>7, <2>1 DEF Through
    <3>2. InStep(dispatch, u) BY <1>1 DEF Order
    <3> QED BY <1>7, <1>8, <3>1, <3>2 DEF InStep
  <2> QED BY <1>1, <1>7, <1>8, <1>9, <2>1 DEF Order
<1>11. Kept(dispatch', dispatch'.batch.prev) BY <1>1, <1>4, <1>6, <1>7 DEF Kept
<1>12. NextOK(dispatch') BY <1>1, <1>7 DEF NextOK
<1> QED BY <1>1, <1>7, <1>10, <1>11, <1>12 DEF DispatchSound

LEMMA InitDispatch == TunnelDispatchInit => DispatchIInv
<1> SUFFICES ASSUME NEW c \in TDCases, TunnelDispatchInitWith(c) PROVE DispatchSound(dispatch)
  BY DEF TunnelDispatchInit, DispatchIInv
<1>1. /\ c.tunnels \subseteq TDTunnels /\ c.packets \in [TDSessions -> Seq(Seq(TDMessages))]
  BY TunnelDispatchAssumption
<1>2. NoBatch \in Batches /\ NoBatch.prev = TDNone BY DEF NoBatch, Batches, Tunnel0
<1>3. /\ dispatch \in Dispatches(Batches) /\ dispatch.batch = NoBatch
      /\ dispatch.case = c /\ dispatch.next = [s \in TDSessions |-> 1] /\ dispatch.queue = <<>>
      /\ dispatch.collected = [t \in TDTunnels |-> <<>>]
      /\ dispatch.sent = [t \in TDTunnels |-> <<>>]
  BY <1>1, <1>2, Nothing DEF TunnelDispatchInitWith, Dispatches
<1>4. \A t \in TDTunnels : Through(dispatch, t) = <<>>
  BY <1>3, Nothing, ConcatEmptySeq DEF Through
<1>5. Order(dispatch) BY <1>3, <1>4, Nothing DEF Order, InStep, Precede
<1>6. Kept(dispatch, TDNone) BY <1>3 DEF Kept
<1>7. NextOK(dispatch)
  <2> SUFFICES ASSUME NEW s \in TDSessions PROVE dispatch.next[s] \in 1 .. (Len(dispatch.case.packets[s]) + 1)
    BY DEF NextOK
  <2>1. c.packets[s] \in Seq(Seq(TDMessages)) BY <1>1
  <2>2. Len(c.packets[s]) \in Nat BY <2>1
  <2> QED BY <1>3, <2>2
<1>8. BatchOK(dispatch.batch) BY <1>2, <1>3 DEF BatchOK
<1> QED BY <1>2, <1>3, <1>5, <1>6, <1>7, <1>8 DEF DispatchSound

LEMMA NextDispatch == DispatchIInv /\ [TunnelDispatchNext]_dispatchVars => DispatchIInv'
<1> SUFFICES ASSUME DispatchSound(dispatch), [TunnelDispatchNext]_dispatchVars
             PROVE  DispatchSound(dispatch')
  BY DEF DispatchIInv
<1>1. CASE UNCHANGED dispatchVars BY <1>1 DEF dispatchVars
<1>2. ASSUME NEW s \in TDSessions, ReceivePacket(s) PROVE DispatchSound(dispatch')
  BY <1>2, ReceivePacketSound
<1>3. CASE RunStep BY <1>3, RunStepSound
<1>4. ASSUME NEW t \in TDTunnels, ExpireTransitTunnel(t) PROVE DispatchSound(dispatch')
  BY <1>4, ExpireSound
<1> QED BY <1>1, <1>2, <1>3, <1>4 DEF TunnelDispatchNext

LEMMA SoundDispatchIsSafe == DispatchIInv => TunnelDispatchSafe
<1> SUFFICES ASSUME DispatchSound(dispatch) PROVE TunnelDispatchSafe BY DEF DispatchIInv
<1>1. /\ dispatch \in Dispatches(Batches) /\ NextOK(dispatch) /\ BatchOK(dispatch.batch)
      /\ Order(dispatch) /\ Kept(dispatch, dispatch.batch.prev)
  BY DEF DispatchSound
<1>2. TunnelDispatchTypeOK
  <2>1. dispatch.batch \in Batches /\ dispatch.tunnels \subseteq TDTunnels
        /\ dispatch.behindBuild \subseteq TDTunnels
    BY <1>1 DEF Dispatches
  <2>2. dispatch.batch.prev \in Tunnel0 /\ dispatch.batch.prevID \in Tunnel0 BY <2>1 DEF Batches
  <2> QED BY <1>1, <2>1, <2>2 DEF TunnelDispatchTypeOK, NextOK, Tunnel0
<1>3. PassedOnInOrder
  <2> SUFFICES ASSUME NEW t \in TDTunnels, NEW i \in DOMAIN Through(dispatch, t)
               PROVE  /\ Through(dispatch, t)[i].tunnel = t
                      /\ \A j \in 1 .. (i - 1) : Before(Through(dispatch, t)[j], Through(dispatch, t)[i])
    BY DEF PassedOnInOrder, Through, Before
  <2>1. Through(dispatch, t) \in Seq(TDMessages)
    <3>1. dispatch.sent[t] \in Seq(TDMessages) /\ dispatch.collected[t] \in Seq(TDMessages)
      BY <1>1 DEF Dispatches
    <3> QED BY <3>1 DEF Through
  <2>2. i \in 1 .. Len(Through(dispatch, t)) BY <2>1
  <2>3. InStep(dispatch, t) BY <1>1 DEF Order
  <2> QED BY <2>2, <2>3 DEF InStep, InOrder, Values
<1>4. StrandedOnlyByBuild
  BY <1>1, TunnelDispatchAssumption DEF StrandedOnlyByBuild, Kept, BatchOK
<1> QED BY <1>2, <1>3, <1>4 DEF TunnelDispatchSafe

\* Tunnels::Run: for any packets of the sessions, batches and expiring tunnels, a
\* transit tunnel gets the messages of one kind of a session in the order in
\* which they came, and none waits outside a batch but behind a build message.
THEOREM TunnelDispatchIsSafe == TunnelDispatchSpec => []TunnelDispatchSafe
<1>1. TunnelDispatchInit => DispatchIInv BY InitDispatch
<1>2. DispatchIInv /\ [TunnelDispatchNext]_dispatchVars => DispatchIInv' BY NextDispatch
<1>3. DispatchIInv => TunnelDispatchSafe BY SoundDispatchIsSafe
<1> QED BY <1>1, <1>2, <1>3, PTL DEF TunnelDispatchSpec
-----------------------------------------------------------------------------
(***************************************************************************)
(* Building a tunnel.  On are the layers that the hops i to h - 1 have put *)
(* on, Off those that the creator took off in advance for the hops i - 1   *)
(* down to h: what a record or tunnel data wears is always one of the two. *)
(***************************************************************************)
On(t, i, h)  == [x \in 1 .. (h - i) |-> <<"E", <<t.name, i + x - 1>>>>]
Off(t, i, h) == [x \in 1 .. (i - h) |-> <<"D", <<t.name, i - x>>>>]

Hops(t) == 1 .. NumHops(t)

\* The record k of a message of t that the hops before h have answered.
RecordOK(answers, t, h, k, r) ==
  /\ \A i \in Hops(t) : RecordIndex(t, i) = k =>
       IF i < h
       THEN \E y \in BOOLEAN :
              /\ <<t, i, y>> \in answers
              /\ r = [to |-> "reply", hop |-> i, ret |-> IF y THEN "accept" ELSE "reject",
                      layers |-> On(t, i, h)]
       ELSE r = [to |-> t.hops[i], hop |-> i, ret |-> "request", layers |-> Off(t, i, h)]
  /\ (\A i \in Hops(t) : RecordIndex(t, i) # k) =>
       r = [to |-> "random", hop |-> 0, ret |-> "random", layers |-> r.layers]

RecordsOK(answers, t, h, records) ==
  /\ records = [k \in 1 .. NumRecords(t) |-> records[k]]
  /\ \A k \in 1 .. NumRecords(t) : RecordOK(answers, t, h, k, records[k])

MessageAt(answers, m, h) ==
  LET t == m.tunnel
      n == NumHops(t)
  IN /\ m = [kind |-> m.kind, to |-> IF h <= n THEN t.hops[h] ELSE TBSelf, tunnel |-> t,
             hop |-> IF h <= n THEN h ELSE 0, records |-> m.records]
     /\ RecordsOK(answers, t, h, m.records)
MessageOK(b, m) ==
  /\ m.tunnel \in b.case.tunnels
  /\ \E h \in 1 .. (NumHops(m.tunnel) + 1) : MessageAt(b.answers, m, h)

DataAt(d, t, i) ==
  /\ d = [tunnel |-> t, to |-> IF i <= NumHops(t) THEN t.hops[i] ELSE TBSelf, id |-> <<t.name, i>>,
          layers |-> IF t.inbound THEN On(t, 1, i) ELSE Off(t, NumHops(t) + 1, i)]
  /\ i = NumHops(t) + 1 => t.inbound
DataOK(b, d) ==
  \E t \in b.case.tunnels : \E i \in 1 .. (NumHops(t) + 1) : DataAt(d, t, i)

AnswerOK(b, a) ==
  \E t \in b.case.tunnels : \E i \in Hops(t), y \in BOOLEAN :
    a = <<t, i, y>> /\ (y => NewTransitTunnel(t, i) \in b.transit)
ReadOK(b, x) ==
  \E t \in b.case.tunnels : \E i \in Hops(t), y \in BOOLEAN :
    x = <<t, i, IF y THEN "accept" ELSE "reject">> /\ <<t, i, y>> \in b.answers

BuildFields(b) ==
  b = [case |-> b.case, pending |-> b.pending, established |-> b.established,
       failed |-> b.failed, transit |-> b.transit, net |-> b.net, answers |-> b.answers,
       read |-> b.read, data |-> b.data, received |-> b.received, copies |-> b.copies]
BuildSound(b) ==
  /\ BuildFields(b)
  /\ b.case \in TBCases
  /\ b.pending \cup b.established \cup b.failed \subseteq b.case.tunnels
  /\ b.pending \cap (b.established \cup b.failed) = {}
  /\ b.copies \in 0 .. b.case.copies
  /\ \A m \in b.net : MessageOK(b, m)
  /\ \A x \in b.transit : \E t \in b.case.tunnels : \E i \in Hops(t) : x = NewTransitTunnel(t, i)
  /\ \A a \in b.answers : AnswerOK(b, a)
  /\ \A x \in b.read : ReadOK(b, x)
  /\ \A t \in b.established : \A i \in Hops(t) : <<t, i, TRUE>> \in b.answers
  /\ \A d \in b.data : DataOK(b, d)
  /\ \A d \in b.received : d.layers = <<>>

BuildIInv == BuildSound(build)

FirstOf(g, n) == [x \in 1 .. n |-> g[x]]
LEMMA Grown ==
  ASSUME NEW S, NEW n \in Nat, NEW g \in [1 .. (n + 1) -> S]
  PROVE  /\ Append(FirstOf(g, n), g[n + 1]) = g
         /\ g # <<>> /\ Last(g) = g[n + 1] /\ Front(g) = FirstOf(g, n)
<1> DEFINE f == [x \in 1 .. n |-> g[x]]
<1>1. f \in Seq(S) /\ Len(f) = n /\ g[n + 1] \in S /\ g \in Seq(S) /\ Len(g) = n + 1 OBVIOUS
<1>2. Append(f, g[n + 1]) = g
  <2>1. /\ Append(f, g[n + 1]) \in Seq(S) /\ Len(Append(f, g[n + 1])) = n + 1
        /\ \A x \in 1 .. n : Append(f, g[n + 1])[x] = f[x]
        /\ Append(f, g[n + 1])[n + 1] = g[n + 1]
    BY <1>1, AppendProperties
  <2>2. \A x \in 1 .. (n + 1) : Append(f, g[n + 1])[x] = g[x] BY <2>1
  <2>3. Append(f, g[n + 1]) \in [1 .. (n + 1) -> S] BY ONLY <2>1, LenProperties
  <2> HIDE DEF f
  <2> QED BY <2>2, <2>3
<1>3. g # <<>> BY <1>1
<1>4. Last(g) = g[n + 1] BY <1>1 DEF Last
<1>5. Front(g) = f
  <2>1. Front(g) = SubSeq(g, 1, n) BY <1>1 DEF Front
  <2>2. SubSeq(g, 1, n) = [x \in 1 .. n |-> g[x]] BY <1>1
  <2> QED BY <2>1, <2>2
<1> QED BY <1>2, <1>3, <1>4, <1>5 DEF FirstOf

\* A hop's encryption takes off a decryption that was made in advance, or adds a
\* layer; decrypting with its key does the opposite.
LEMMA LayersAre ==
  ASSUME NEW t, NEW i \in Nat, NEW h \in Nat
  PROVE  /\ On(t, i, i) = <<>> /\ Off(t, i, i) = <<>>
         /\ i <= h => /\ Apply(On(t, i, h), "E", <<t.name, h>>) = On(t, i, h + 1)
                      /\ Apply(On(t, i, h + 1), "D", <<t.name, h>>) = On(t, i, h)
                      /\ On(t, i, h + 1) # <<>>
         /\ h < i => /\ Apply(Off(t, i, h), "E", <<t.name, h>>) = Off(t, i, h + 1)
                     /\ Apply(Off(t, i, h + 1), "D", <<t.name, h>>) = Off(t, i, h)
                     /\ Off(t, i, h) # <<>>
<1> DEFINE S == {"E", "D"} \X ({t.name} \X Nat)
<1>1. On(t, i, i) = <<>> /\ Off(t, i, i) = <<>>
  <2>1. i - i = 0 /\ 1 .. 0 = {} OBVIOUS
  <2> QED BY <2>1 DEF On, Off
<1>2. ASSUME i <= h
      PROVE  /\ Apply(On(t, i, h), "E", <<t.name, h>>) = On(t, i, h + 1)
             /\ Apply(On(t, i, h + 1), "D", <<t.name, h>>) = On(t, i, h)
             /\ On(t, i, h + 1) # <<>>
  <2> DEFINE n == h - i
             f == On(t, i, h)
             g == On(t, i, h + 1)
  <2>1. n \in Nat /\ (h + 1) - i = n + 1 /\ i + (n + 1) - 1 = h BY <1>2
  <2>2. g = [x \in 1 .. (n + 1) |-> <<"E", <<t.name, i + x - 1>>>>] BY <2>1 DEF On
  <2>3. \A x \in 1 .. (n + 1) : i + x - 1 \in Nat BY <2>1
  <2>4. g \in [1 .. (n + 1) -> S] BY <2>2, <2>3
  <2>5. g[n + 1] = <<"E", <<t.name, h>>>> BY <2>1, <2>2
  <2>6. f = [x \in 1 .. n |-> g[x]] BY <2>1, <2>2 DEF On
  <2>7. \A x \in 1 .. n : f[x][1] = "E" BY <2>1, <2>2, <2>6
  <2> HIDE DEF f, g, n, S
  <2>8. Append(f, <<"E", <<t.name, h>>>>) = g /\ g # <<>> /\ Last(g) = <<"E", <<t.name, h>>>>
        /\ Front(g) = f
    <3>1. n \in Nat BY <2>1
    <3>2. /\ Append(FirstOf(g, n), g[n + 1]) = g
          /\ g # <<>> /\ Last(g) = g[n + 1] /\ Front(g) = FirstOf(g, n)
      BY ONLY <2>4, <3>1, Grown
    <3> QED BY ONLY <2>5, <2>6, <3>2 DEF FirstOf
  <2>9. f # <<>> => Last(f) # <<"D", <<t.name, h>>>>
    <3>1. Len(f) = n BY <2>1, <2>6
    <3>2. CASE n = 0
      <4>1. 1 .. 0 = {} OBVIOUS
      <4> QED BY <2>6, <3>2, <4>1
    <3>3. CASE n # 0
      <4>1. n \in 1 .. n BY <2>1, <3>3
      <4>2. Last(f)[1] = "E" BY <2>7, <3>1, <4>1 DEF Last
      <4> QED BY <4>2
    <3> QED BY <3>2, <3>3
  <2> QED BY <2>8, <2>9 DEF Apply, f, g
<1>3. ASSUME h < i
      PROVE  /\ Apply(Off(t, i, h), "E", <<t.name, h>>) = Off(t, i, h + 1)
             /\ Apply(Off(t, i, h + 1), "D", <<t.name, h>>) = Off(t, i, h)
             /\ Off(t, i, h) # <<>>
  <2> DEFINE n == i - (h + 1)
             f == Off(t, i, h + 1)
             g == Off(t, i, h)
  <2>1. n \in Nat /\ i - h = n + 1 /\ i - (n + 1) = h BY <1>3
  <2>2. g = [x \in 1 .. (n + 1) |-> <<"D", <<t.name, i - x>>>>] BY <2>1 DEF Off
  <2>3. \A x \in 1 .. (n + 1) : i - x \in Nat BY <2>1
  <2>4. g \in [1 .. (n + 1) -> S] BY <2>2, <2>3
  <2>5. g[n + 1] = <<"D", <<t.name, h>>>> BY <2>1, <2>2
  <2>6. f = [x \in 1 .. n |-> g[x]] BY <2>1, <2>2 DEF Off
  <2>7. \A x \in 1 .. n : f[x][1] = "D"
    <3>1. \A x \in 1 .. n : f[x] = <<"D", <<t.name, i - x>>>> BY DEF Off
    <3> HIDE DEF f, n
    <3> QED BY <3>1
  <2> HIDE DEF f, g, n, S
  <2>8. Append(f, <<"D", <<t.name, h>>>>) = g /\ g # <<>> /\ Last(g) = <<"D", <<t.name, h>>>>
        /\ Front(g) = f
    <3>1. n \in Nat BY <2>1
    <3>2. /\ Append(FirstOf(g, n), g[n + 1]) = g
          /\ g # <<>> /\ Last(g) = g[n + 1] /\ Front(g) = FirstOf(g, n)
      BY ONLY <2>4, <3>1, Grown
    <3> QED BY ONLY <2>5, <2>6, <3>2 DEF FirstOf
  <2>9. f # <<>> => Last(f) # <<"E", <<t.name, h>>>>
    <3>1. Len(f) = n BY <2>1, <2>6
    <3>2. CASE n = 0
      <4>1. 1 .. 0 = {} OBVIOUS
      <4> QED BY <2>6, <3>2, <4>1
    <3>3. CASE n # 0
      <4>1. n \in 1 .. n BY <2>1, <3>3
      <4>2. Last(f)[1] = "D" BY <2>7, <3>1, <4>1 DEF Last
      <4> QED BY <4>2
    <3> QED BY <3>2, <3>3
  <2> QED BY <2>8, <2>9 DEF Apply, f, g
<1> QED BY <1>1, <1>2, <1>3

TunnelIn(c, t) == c \in TBCases /\ t \in c.tunnels

LEMMA TunnelIs ==
  ASSUME NEW c, NEW t, TunnelIn(c, t)
  PROVE  /\ NumHops(t) \in Nat /\ NumHops(t) > 0 /\ NumRecords(t) \in Nat
         /\ \A i \in Hops(t) : /\ t.hops[i] \notin {"random", "reply"}
                               /\ RecordIndex(t, i) \in 1 .. NumRecords(t)
         /\ \A i, j \in Hops(t) : RecordIndex(t, i) = RecordIndex(t, j) => i = j
         /\ t.inbound \in BOOLEAN
         /\ \A u \in c.tunnels : u.name = t.name => u = t
<1>1. /\ t.hops \in Seq(TBRouters) /\ NumHops(t) > 0 /\ t.inbound \in BOOLEAN
      /\ \A i \in Hops(t) : RecordIndex(t, i) \in 1..NumRecords(t)
      /\ \A i, j \in Hops(t) : RecordIndex(t, i) = RecordIndex(t, j) => i = j
      /\ \A u \in c.tunnels : u.name = t.name => u = t
      /\ STANDARD_NUM_RECORDS \in Nat /\ TBRouters \cap {"random", "reply"} = {}
  BY TunnelBuildAssumption DEF TunnelIn, Hops
<1>2. NumHops(t) \in Nat BY <1>1 DEF NumHops
<1>3. \A i \in Hops(t) : t.hops[i] \in TBRouters BY <1>1 DEF Hops, NumHops
<1>4. NumRecords(t) \in Nat BY <1>1, <1>2 DEF NumRecords
<1> QED BY <1>1, <1>2, <1>3, <1>4

\* A record on its way through a hop that is not its own.
LEMMA RecordPasses ==
  ASSUME NEW c, NEW t, TunnelIn(c, t), NEW answers, NEW h \in Hops(t), NEW y \in BOOLEAN,
         NEW k, NEW r, RecordOK(answers, t, h, k, r), RecordIndex(t, h) # k
  PROVE  RecordOK(answers \cup {<<t, h, y>>}, t, h + 1, k, Encrypted(r, <<t.name, h>>))
<1> DEFINE e == Encrypted(r, <<t.name, h>>)
           all == answers \cup {<<t, h, y>>}
<1>0. h \in Nat /\ NumHops(t) \in Nat BY TunnelIs DEF Hops
<1>1. ASSUME NEW i \in Hops(t), RecordIndex(t, i) = k, i < h + 1
      PROVE  \E z \in BOOLEAN :
               /\ <<t, i, z>> \in all
               /\ e = [to |-> "reply", hop |-> i, ret |-> IF z THEN "accept" ELSE "reject",
                       layers |-> On(t, i, h + 1)]
  <2>1. i \in Nat /\ i < h /\ i <= h /\ i # h
    <3>1. i # h BY <1>1
    <3>2. i \in Nat BY DEF Hops
    <3> QED BY ONLY <1>0, <1>1, <3>1, <3>2
  <2>2. PICK z \in BOOLEAN :
          /\ <<t, i, z>> \in answers
          /\ r = [to |-> "reply", hop |-> i, ret |-> IF z THEN "accept" ELSE "reject",
                  layers |-> On(t, i, h)]
    BY <1>1, <2>1 DEF RecordOK
  <2>3. Apply(On(t, i, h), "E", <<t.name, h>>) = On(t, i, h + 1) BY <1>0, <2>1, LayersAre
  <2>4. e = [to |-> "reply", hop |-> i, ret |-> IF z THEN "accept" ELSE "reject",
             layers |-> On(t, i, h + 1)]
    BY ONLY <2>2, <2>3 DEF Encrypted
  <2> HIDE DEF e
  <2> QED BY <2>2, <2>4
<1>2. ASSUME NEW i \in Hops(t), RecordIndex(t, i) = k, ~(i < h + 1)
      PROVE  e = [to |-> t.hops[i], hop |-> i, ret |-> "request", layers |-> Off(t, i, h + 1)]
  <2>1. i \in Nat /\ ~(i < h) /\ h < i BY <1>0, <1>2 DEF Hops
  <2>2. r = [to |-> t.hops[i], hop |-> i, ret |-> "request", layers |-> Off(t, i, h)]
    BY <1>2, <2>1 DEF RecordOK
  <2>3. Apply(Off(t, i, h), "E", <<t.name, h>>) = Off(t, i, h + 1) BY <1>0, <2>1, LayersAre
  <2> QED BY ONLY <2>2, <2>3 DEF Encrypted
<1>3. ASSUME \A i \in Hops(t) : RecordIndex(t, i) # k
      PROVE  e = [to |-> "random", hop |-> 0, ret |-> "random", layers |-> e.layers]
  <2>1. r = [to |-> "random", hop |-> 0, ret |-> "random", layers |-> r.layers]
    BY <1>3 DEF RecordOK
  <2> QED BY ONLY <2>1 DEF Encrypted
<1> HIDE DEF e, all
<1>4. RecordOK(all, t, h + 1, k, e) BY <1>1, <1>2, <1>3 DEF RecordOK
<1> QED BY <1>4 DEF e, all

Replied(r, y) == [r EXCEPT !.ret = IF y THEN "accept" ELSE "reject", !.to = "reply"]

\* The record of the hop, and the answer that it becomes.
LEMMA RecordIsOurs ==
  ASSUME NEW c, NEW t, TunnelIn(c, t), NEW answers, NEW h \in Hops(t),
         NEW r, RecordOK(answers, t, h, RecordIndex(t, h), r)
  PROVE  /\ r = [to |-> t.hops[h], hop |-> h, ret |-> "request", layers |-> <<>>]
         /\ r.hop = h /\ r.to = t.hops[h] /\ r.layers = <<>>
<1>0. h \in Nat /\ ~(h < h) BY TunnelIs DEF Hops
<1>1. r = [to |-> t.hops[h], hop |-> h, ret |-> "request", layers |-> Off(t, h, h)]
  BY <1>0 DEF RecordOK
<1>2. Off(t, h, h) = <<>> BY <1>0, LayersAre
<1>3. r = [to |-> t.hops[h], hop |-> h, ret |-> "request", layers |-> <<>>] BY ONLY <1>1, <1>2
<1>4. r.hop = h /\ r.to = t.hops[h] /\ r.layers = <<>> BY ONLY <1>3
<1> QED BY <1>3, <1>4

LEMMA RecordIsAnswered ==
  ASSUME NEW c, NEW t, TunnelIn(c, t), NEW answers, NEW h \in Hops(t), NEW y \in BOOLEAN,
         NEW r, RecordOK(answers, t, h, RecordIndex(t, h), r)
  PROVE  RecordOK(answers \cup {<<t, h, y>>}, t, h + 1, RecordIndex(t, h),
                  Encrypted(Replied(r, y), <<t.name, h>>))
<1> DEFINE k == RecordIndex(t, h)
           e == Encrypted(Replied(r, y), <<t.name, h>>)
           all == answers \cup {<<t, h, y>>}
           ret == IF y THEN "accept" ELSE "reject"
<1>0. h \in Nat /\ NumHops(t) \in Nat BY TunnelIs DEF Hops
<1>1. r = [to |-> t.hops[h], hop |-> h, ret |-> "request", layers |-> <<>>] BY RecordIsOurs
<1>2. On(t, h, h) = <<>> /\ Apply(On(t, h, h), "E", <<t.name, h>>) = On(t, h, h + 1)
  BY <1>0, LayersAre
<1>3. Replied(r, y) = [to |-> "reply", hop |-> h, ret |-> ret, layers |-> <<>>]
  <2>1. Replied(r, y) = [r EXCEPT !.ret = ret, !.to = "reply"] BY DEF Replied
  <2> HIDE DEF ret
  <2> QED BY ONLY <1>1, <2>1
<1>4. e = [to |-> "reply", hop |-> h, ret |-> ret, layers |-> On(t, h, h + 1)]
  <2> DEFINE x == Replied(r, y)
  <2>1. e = [x EXCEPT !.layers = Apply(x.layers, "E", <<t.name, h>>)] BY DEF Encrypted
  <2> HIDE DEF ret, e, x
  <2>2. x.layers = <<>> BY ONLY <1>3 DEF x
  <2>3. e = [x EXCEPT !.layers = On(t, h, h + 1)] BY ONLY <1>2, <2>1, <2>2
  <2> QED BY ONLY <1>3, <2>3 DEF x
<1> HIDE DEF e
<1>5. \A i \in Hops(t) : RecordIndex(t, i) = k => i = h BY TunnelIs
<1>6. h < h + 1 /\ <<t, h, y>> \in all BY <1>0
<1>7. h \in Hops(t) /\ RecordIndex(t, h) = k OBVIOUS
<1> HIDE DEF all, k
<1>8. RecordOK(all, t, h + 1, k, e) BY <1>4, <1>5, <1>6, <1>7 DEF RecordOK
<1> QED BY <1>8 DEF e, all, k

LEMMA OursIs ==
  ASSUME NEW c, NEW t, TunnelIn(c, t), NEW answers, NEW h \in Hops(t), NEW records,
         RecordsOK(answers, t, h, records)
  PROVE  OurRecord(t.hops[h], records) = {RecordIndex(t, h)}
<1> DEFINE k == RecordIndex(t, h)
<1>0. h \in Nat /\ NumHops(t) \in Nat BY TunnelIs DEF Hops
<1>1. DOMAIN records = 1 .. NumRecords(t) BY DEF RecordsOK
<1>2. k \in DOMAIN records BY <1>1, TunnelIs
<1>3. \A l \in DOMAIN records : RecordOK(answers, t, h, l, records[l]) BY <1>1 DEF RecordsOK
<1>4. records[k].to = t.hops[h] /\ records[k].layers = <<>>
  <2>1. RecordOK(answers, t, h, RecordIndex(t, h), records[k]) BY <1>2, <1>3
  <2> QED BY <2>1, RecordIsOurs
<1>5. ASSUME NEW l \in DOMAIN records, records[l].to = t.hops[h], records[l].layers = <<>>
      PROVE  l = k
  <2> DEFINE r == records[l]
  <2>0. RecordOK(answers, t, h, l, r) BY <1>3
  <2>1. r.to \notin {"random", "reply"} BY <1>5, TunnelIs
  <2> SUFFICES ASSUME l # k PROVE FALSE OBVIOUS
  <2> HIDE DEF r
  <2>2. CASE \A i \in Hops(t) : RecordIndex(t, i) # l
    <3>1. r = [to |-> "random", hop |-> 0, ret |-> "random", layers |-> r.layers]
      BY <2>0, <2>2 DEF RecordOK
    <3>2. r.to = "random" BY ONLY <3>1
    <3> QED BY <2>1, <3>2
  <2>3. ASSUME NEW i \in Hops(t), RecordIndex(t, i) = l PROVE FALSE
    <3>1. i \in Nat /\ i # h BY <2>3 DEF Hops
    <3>2. CASE i < h
      <4>1. PICK z \in BOOLEAN :
              r = [to |-> "reply", hop |-> i, ret |-> IF z THEN "accept" ELSE "reject",
                   layers |-> On(t, i, h)]
        BY <2>0, <2>3, <3>2 DEF RecordOK
      <4>2. r.to = "reply" BY ONLY <4>1
      <4> QED BY <2>1, <4>2
    <3>3. CASE ~(i < h)
      <4>1. r = [to |-> t.hops[i], hop |-> i, ret |-> "request", layers |-> Off(t, i, h)]
        BY <2>0, <2>3, <3>3 DEF RecordOK
      <4>2. r.layers = Off(t, i, h) BY ONLY <4>1
      <4>3. h < i BY <1>0, <3>1, <3>3
      <4>4. Off(t, i, h) # <<>> BY <1>0, <3>1, <4>3, LayersAre
      <4> QED BY <1>5, <4>2, <4>4 DEF r
    <3> QED BY <3>2, <3>3
  <2> QED BY <2>2, <2>3
<1>6. \A l \in 1 .. (k - 1) : l # k /\ l \in DOMAIN records
  <2>1. k \in 1 .. NumRecords(t) /\ NumRecords(t) \in Nat BY TunnelIs
  <2> HIDE DEF k
  <2> QED BY <1>1, <2>1
<1> HIDE DEF k
<1>7. \A l \in DOMAIN records :
        (records[l].to = t.hops[h] /\ records[l].layers = <<>>) <=> l = k
  BY <1>2, <1>4, <1>5
<1>8. OurRecord(t.hops[h], records) = {k} BY <1>2, <1>6, <1>7 DEF OurRecord
<1> QED BY <1>8 DEF k

\* The hop h of a message gives the answer y and passes the message on.
PassedOn(answers, m, h, y) ==
  LET t == m.tunnel
      k == RecordIndex(t, h)
  IN /\ OurRecord(m.to, m.records) = {k} /\ m.records[k].hop = h
     /\ Answered(m, k, y).tunnel = t
     /\ MessageAt(answers \cup {<<t, h, y>>}, Answered(m, k, y), h + 1)

LEMMA AnsweredOK ==
  ASSUME NEW c, NEW m, TunnelIn(c, m.tunnel), NEW answers, NEW h \in Hops(m.tunnel),
         NEW y \in BOOLEAN, MessageAt(answers, m, h)
  PROVE  PassedOn(answers, m, h, y)
<1> DEFINE t == m.tunnel
           n == NumHops(t)
           N == NumRecords(t)
           k == RecordIndex(t, h)
           R == m.records
           all == answers \cup {<<t, h, y>>}
           replied == [R EXCEPT ![k].ret = IF y THEN "accept" ELSE "reject", ![k].to = "reply"]
           S == [l \in DOMAIN replied |-> Encrypted(replied[l], <<t.name, h>>)]
           a == Answered(m, k, y)
<1>0. h \in Nat /\ n \in Nat /\ h >= 1 /\ h <= n /\ N \in Nat /\ k \in 1 .. N BY TunnelIs DEF Hops
<1>1. /\ m = [kind |-> m.kind, to |-> t.hops[h], tunnel |-> t, hop |-> h, records |-> R]
      /\ RecordsOK(answers, t, h, R)
  <2>1. h <= NumHops(m.tunnel) BY <1>0
  <2> QED BY <2>1 DEF MessageAt
<1>2. m.to = t.hops[h] /\ m.hop = h BY ONLY <1>1
<1>3. R = [l \in 1 .. N |-> R[l]] /\ \A l \in 1 .. N : RecordOK(answers, t, h, l, R[l])
  BY <1>1 DEF RecordsOK
<1>4. R[k].hop = h
  <2>1. RecordOK(answers, t, h, RecordIndex(t, h), R[k]) BY <1>0, <1>3
  <2> QED BY <2>1, RecordIsOurs
<1>5. OurRecord(m.to, R) = {k} BY <1>1, <1>2, OursIs
<1>6. replied = [l \in 1 .. N |-> IF l = k THEN Replied(R[k], y) ELSE R[l]]
  <2>1. k \in DOMAIN R /\ DOMAIN R = 1 .. N BY <1>0, <1>3
  <2> HIDE DEF k, R, N
  <2> QED BY <1>3, <2>1 DEF Replied
<1>7. S = [l \in 1 .. N |-> S[l]]
      /\ \A l \in 1 .. N : S[l] = Encrypted(IF l = k THEN Replied(R[k], y) ELSE R[l], <<t.name, h>>)
  <2> HIDE DEF replied
  <2> QED BY <1>6
<1> HIDE DEF S, replied
<1>8. ASSUME NEW l \in 1 .. N PROVE RecordOK(all, t, h + 1, l, S[l])
  <2>1. RecordOK(answers, t, h, l, R[l]) BY <1>3
  <2>2. CASE l = k
    <3>1. S[l] = Encrypted(Replied(R[l], y), <<t.name, h>>) BY <1>7, <2>2
    <3>2. RecordOK(answers, t, h, RecordIndex(t, h), R[l]) BY <2>1, <2>2
    <3>3. RecordOK(answers \cup {<<t, h, y>>}, t, h + 1, RecordIndex(t, h),
                   Encrypted(Replied(R[l], y), <<t.name, h>>))
      BY <3>2, RecordIsAnswered
    <3> QED BY <2>2, <3>1, <3>3
  <2>3. CASE l # k
    <3>1. S[l] = Encrypted(R[l], <<t.name, h>>) /\ RecordIndex(t, h) # l BY <1>7, <2>3
    <3>2. RecordOK(all, t, h + 1, l, Encrypted(R[l], <<t.name, h>>))
      BY <2>1, <3>1, RecordPasses
    <3> QED BY <3>1, <3>2
  <2> QED BY <2>2, <2>3
<1>9. RecordsOK(all, t, h + 1, S) BY <1>7, <1>8 DEF RecordsOK
<1>10. a = IF h < n THEN [m EXCEPT !.to = t.hops[h + 1], !.hop = h + 1, !.records = S]
           ELSE [m EXCEPT !.kind = IF t.inbound THEN "Build" ELSE "BuildReply",
                          !.to = TBSelf, !.hop = 0, !.records = S]
  BY <1>4 DEF Answered, S, replied
<1> HIDE DEF a, R, all
<1>11. \E kd : a = [kind |-> kd, to |-> IF h + 1 <= n THEN t.hops[h + 1] ELSE TBSelf, tunnel |-> t,
            hop |-> IF h + 1 <= n THEN h + 1 ELSE 0, records |-> S]
  <2>0. PICK kd : m = [kind |-> kd, to |-> t.hops[h], tunnel |-> t, hop |-> h, records |-> R]
    BY <1>1
  <2> HIDE DEF t, n
  <2>1. CASE h < n
    <3>1. h + 1 <= n BY <1>0, <2>1
    <3>2. a = [m EXCEPT !.to = t.hops[h + 1], !.hop = h + 1, !.records = S] BY <1>10, <2>1
    <3>3. a = [kind |-> kd, to |-> t.hops[h + 1], tunnel |-> t, hop |-> h + 1, records |-> S]
      BY ONLY <2>0, <3>2
    <3> QED BY ONLY <3>1, <3>3
  <2>2. CASE ~(h < n)
    <3>1. ~(h + 1 <= n) BY <1>0, <2>2
    <3>2. a = [m EXCEPT !.kind = IF t.inbound THEN "Build" ELSE "BuildReply",
                        !.to = TBSelf, !.hop = 0, !.records = S]
      BY <1>10, <2>2
    <3>3. a = [kind |-> IF t.inbound THEN "Build" ELSE "BuildReply", to |-> TBSelf, tunnel |-> t,
               hop |-> 0, records |-> S]
      BY ONLY <2>0, <3>2
    <3> QED BY ONLY <3>1, <3>3
  <2> QED BY <2>1, <2>2
<1>12. /\ a.tunnel = t /\ a.records = S
       /\ a = [kind |-> a.kind, to |-> IF h + 1 <= n THEN t.hops[h + 1] ELSE TBSelf, tunnel |-> t,
               hop |-> IF h + 1 <= n THEN h + 1 ELSE 0, records |-> S]
  <2> DEFINE to == IF h + 1 <= n THEN t.hops[h + 1] ELSE TBSelf
             hop == IF h + 1 <= n THEN h + 1 ELSE 0
  <2>1. PICK kd : a = [kind |-> kd, to |-> to, tunnel |-> t, hop |-> hop, records |-> S] BY <1>11
  <2> HIDE DEF to, hop, t, a
  <2>2. a.tunnel = t /\ a.records = S /\ a.kind = kd BY ONLY <2>1
  <2>3. a = [kind |-> a.kind, to |-> to, tunnel |-> t, hop |-> hop, records |-> S]
    BY ONLY <2>1, <2>2
  <2> QED BY ONLY <2>2, <2>3 DEF to, hop
<1>13. MessageAt(all, a, h + 1)
  <2> HIDE DEF t
  <2> QED BY <1>9, <1>12 DEF MessageAt
<1> QED BY <1>4, <1>5, <1>12, <1>13 DEF PassedOn, a, R, all

\* Two sequences of steps that start and go on alike are the same.
LEMMA SameSteps ==
  ASSUME NEW n \in Nat, NEW F, NEW G, F[0] = G[0],
         \A j \in 1 .. n : F[j - 1] = G[j - 1] => F[j] = G[j]
  PROVE  \A j \in 0 .. n : F[j] = G[j]
<1> DEFINE S == {j \in Nat : j <= n => F[j] = G[j]}
<1>1. 0 \in S OBVIOUS
<1>2. ASSUME NEW j \in S PROVE j + 1 \in S
  <2>1. j \in Nat /\ (j <= n => F[j] = G[j]) OBVIOUS
  <2>2. ASSUME j + 1 <= n PROVE F[j + 1] = G[j + 1]
    <3>1. j + 1 \in 1 .. n /\ (j + 1) - 1 = j /\ j <= n BY <2>1, <2>2
    <3>2. F[(j + 1) - 1] = G[(j + 1) - 1] BY <2>1, <3>1
    <3> QED BY <3>1, <3>2
  <2> QED BY <2>1, <2>2
<1>3. S \in SUBSET Nat OBVIOUS
<1> HIDE DEF S
<1>4. S = Nat BY <1>1, <1>2, <1>3, Induction
<1> QED BY <1>4 DEF S

\* The creator decrypts with the keys of all hops, last one first.
LEMMA PeelIs ==
  ASSUME NEW t, NumHops(t) \in Nat, NEW d, NEW G,
         G = [j \in 0 .. NumHops(t) |->
                IF j = 0 THEN d ELSE Decrypted(G[j - 1], <<t.name, NumHops(t) + 1 - j>>)]
  PROVE  PeelLayers(t, d) = G[NumHops(t)]
<1> DEFINE n == NumHops(t)
           Step(f) == [j \in 0 .. n |->
                         IF j = 0 THEN d ELSE Decrypted(f[j - 1], <<t.name, n + 1 - j>>)]
           F == CHOOSE f : f = Step(f)
<1>1. PeelLayers(t, d) = F[n] BY DEF PeelLayers
<1>2. F = Step(F)
  <2>1. G = Step(G) OBVIOUS
  <2> HIDE DEF Step
  <2> QED BY <2>1
<1>3. \A j \in 1 .. n : F[j - 1] = G[j - 1] => F[j] = G[j]
  <2> HIDE DEF F
  <2> TAKE j \in 1 .. n
  <2>1. j \in 0 .. n /\ j # 0 OBVIOUS
  <2>2. F[j] = Decrypted(F[j - 1], <<t.name, n + 1 - j>>) BY <1>2, <2>1
  <2>3. G[j] = Decrypted(G[j - 1], <<t.name, n + 1 - j>>) BY <2>1
  <2> QED BY <2>2, <2>3
<1>4. F[0] = G[0]
  <2> HIDE DEF F
  <2>1. 0 \in 0 .. n OBVIOUS
  <2>2. F[0] = d BY <1>2, <2>1
  <2>3. G[0] = d BY <2>1
  <2> QED BY <2>2, <2>3
<1> HIDE DEF F
<1>5. F[n] = G[n]
  <2>1. n \in Nat /\ n \in 0 .. n OBVIOUS
  <2> HIDE DEF n
  <2>2. \A j \in 0 .. n : F[j] = G[j] BY ONLY <1>3, <1>4, <2>1, SameSteps
  <2> QED BY <2>1, <2>2
<1> QED BY <1>1, <1>5

\* The record of a hop wears what its predecessors will take off.
LEMMA LayeredIs ==
  ASSUME NEW t, NEW i \in Nat, i > 0, NEW G,
         G = [j \in 0 .. (i - 1) |->
                IF j = 0 THEN BuildRequestRecord(t, i) ELSE Decrypted(G[j - 1], <<t.name, i - j>>)]
  PROVE  LayeredRecord(t, i) = G[i - 1]
<1> DEFINE n == (i - 1)
           Step(f) == [j \in 0 .. n |->
                         IF j = 0 THEN BuildRequestRecord(t, i) ELSE Decrypted(f[j - 1], <<t.name, i - j>>)]
           F == CHOOSE f : f = Step(f)
<1>0. n \in Nat OBVIOUS
<1>1. LayeredRecord(t, i) = F[n] BY DEF LayeredRecord
<1>2. F = Step(F)
  <2>1. G = Step(G) OBVIOUS
  <2> HIDE DEF Step
  <2> QED BY <2>1
<1>3. \A j \in 1 .. n : F[j - 1] = G[j - 1] => F[j] = G[j]
  <2> HIDE DEF F
  <2> TAKE j \in 1 .. n
  <2>1. j \in 0 .. n /\ j # 0 BY <1>0
  <2>2. F[j] = Decrypted(F[j - 1], <<t.name, i - j>>) BY <1>2, <2>1
  <2>3. G[j] = Decrypted(G[j - 1], <<t.name, i - j>>) BY <2>1
  <2> QED BY <2>2, <2>3
<1>4. F[0] = G[0]
  <2> HIDE DEF F
  <2>1. 0 \in 0 .. n BY <1>0
  <2>2. F[0] = BuildRequestRecord(t, i) BY <1>2, <2>1
  <2>3. G[0] = BuildRequestRecord(t, i) BY <2>1
  <2> QED BY <2>2, <2>3
<1> HIDE DEF F
<1>5. F[n] = G[n]
  <2>1. n \in Nat /\ n \in 0 .. n BY <1>0
  <2> HIDE DEF n
  <2>2. \A j \in 0 .. n : F[j] = G[j] BY ONLY <1>3, <1>4, <2>1, SameSteps
  <2> QED BY <2>1, <2>2
<1> QED BY <1>1, <1>5

\* The records of a reply are read from the last hop to the first.
LEMMA ReadIs ==
  ASSUME NEW t, NumHops(t) \in Nat, NEW records, NEW G,
         G = [j \in 0 .. NumHops(t) |->
                IF j = 0 THEN records ELSE DecryptedRecords(t, G[j - 1], NumHops(t) + 1 - j, NumHops(t) + 1 - j)]
  PROVE  ReadRecords(t, records) = G[NumHops(t)]
<1> DEFINE n == NumHops(t)
           Step(f) == [j \in 0 .. n |->
                         IF j = 0 THEN records ELSE DecryptedRecords(t, f[j - 1], n + 1 - j, n + 1 - j)]
           F == CHOOSE f : f = Step(f)
<1>0. n \in Nat OBVIOUS
<1>1. ReadRecords(t, records) = F[n] BY DEF ReadRecords
<1>2. F = Step(F)
  <2>1. G = Step(G) OBVIOUS
  <2> HIDE DEF Step
  <2> QED BY <2>1
<1>3. \A j \in 1 .. n : F[j - 1] = G[j - 1] => F[j] = G[j]
  <2> HIDE DEF F
  <2> TAKE j \in 1 .. n
  <2>1. j \in 0 .. n /\ j # 0 BY <1>0
  <2>2. F[j] = DecryptedRecords(t, F[j - 1], n + 1 - j, n + 1 - j) BY <1>2, <2>1
  <2>3. G[j] = DecryptedRecords(t, G[j - 1], n + 1 - j, n + 1 - j) BY <2>1
  <2> QED BY <2>2, <2>3
<1>4. F[0] = G[0]
  <2> HIDE DEF F
  <2>1. 0 \in 0 .. n BY <1>0
  <2>2. F[0] = records BY <1>2, <2>1
  <2>3. G[0] = records BY <2>1
  <2> QED BY <2>2, <2>3
<1> HIDE DEF F
<1>5. F[n] = G[n]
  <2>1. n \in Nat /\ n \in 0 .. n BY <1>0
  <2> HIDE DEF n
  <2>2. \A j \in 0 .. n : F[j] = G[j] BY ONLY <1>3, <1>4, <2>1, SameSteps
  <2> QED BY <2>1, <2>2
<1> QED BY <1>1, <1>5

\* What it reads of inbound data, and what outbound data wears when it leaves.
LEMMA DataIsPeeled ==
  ASSUME NEW t, NumHops(t) \in Nat, NEW d, NEW to, NEW id
  PROVE  /\ d = [tunnel |-> t, to |-> to, id |-> id, layers |-> On(t, 1, NumHops(t) + 1)] =>
              PeelLayers(t, d) = [tunnel |-> t, to |-> to, id |-> id, layers |-> <<>>]
         /\ d = [tunnel |-> t, to |-> to, id |-> id, layers |-> <<>>] =>
              PeelLayers(t, d) = [tunnel |-> t, to |-> to, id |-> id,
                                  layers |-> Off(t, NumHops(t) + 1, 1)]
<1> DEFINE n == NumHops(t)
           Of(layers) == [tunnel |-> t, to |-> to, id |-> id, layers |-> layers]
<1>0. ASSUME NEW g, NEW x, NEW y, NEW key, g = Of(x), Apply(x, "D", key) = y
      PROVE  Decrypted(g, key) = Of(y)
  BY ONLY <1>0 DEF Decrypted
<1>1. ASSUME d = Of(On(t, 1, n + 1)) PROVE PeelLayers(t, d) = Of(<<>>)
  <2> DEFINE G == [j \in 0 .. n |-> Of(On(t, 1, n + 1 - j))]
  <2>1. ASSUME NEW j \in 0 .. n, j # 0
        PROVE  G[j] = Decrypted(G[j - 1], <<t.name, n + 1 - j>>)
    <3> DEFINE h == n + 1 - j
    <3>1. /\ j - 1 \in 0 .. n /\ n + 1 - (j - 1) = h + 1 /\ h \in Nat /\ 1 \in Nat /\ 1 <= h
      BY <2>1
    <3>2. G[j - 1] = Of(On(t, 1, h + 1)) /\ G[j] = Of(On(t, 1, h)) BY <3>1
    <3> HIDE DEF G, h, Of
    <3>3. Apply(On(t, 1, h + 1), "D", <<t.name, h>>) = On(t, 1, h) BY <3>1, LayersAre
    <3>4. Decrypted(G[j - 1], <<t.name, h>>) = G[j] BY <1>0, <3>2, <3>3
    <3> QED BY <3>4 DEF h
  <2>2. G[0] = d
    <3>1. 0 \in 0 .. n /\ n + 1 - 0 = n + 1 OBVIOUS
    <3> QED BY <1>1, <3>1
  <2>3. G = [j \in 0 .. n |-> G[j]] OBVIOUS
  <2>4. G[n] = Of(<<>>)
    <3>1. n \in 0 .. n /\ n + 1 - n = 1 OBVIOUS
    <3>2. On(t, 1, 1) = <<>>
      <4>1. 1 \in Nat OBVIOUS
      <4> QED BY <4>1, LayersAre
    <3> QED BY <3>1, <3>2
  <2> HIDE DEF G, Of
  <2>5. G = [j \in 0 .. n |-> IF j = 0 THEN d ELSE Decrypted(G[j - 1], <<t.name, n + 1 - j>>)]
    BY <2>1, <2>2, <2>3
  <2>6. PeelLayers(t, d) = G[n] BY <2>5, PeelIs
  <2> QED BY <2>4, <2>6
<1>2. ASSUME d = Of(<<>>) PROVE PeelLayers(t, d) = Of(Off(t, n + 1, 1))
  <2> DEFINE G == [j \in 0 .. n |-> Of(Off(t, n + 1, n + 1 - j))]
  <2>1. ASSUME NEW j \in 0 .. n, j # 0
        PROVE  G[j] = Decrypted(G[j - 1], <<t.name, n + 1 - j>>)
    <3> DEFINE h == n + 1 - j
    <3>1. /\ j - 1 \in 0 .. n /\ n + 1 - (j - 1) = h + 1 /\ h \in Nat /\ n + 1 \in Nat
          /\ h < n + 1
      BY <2>1
    <3>2. G[j - 1] = Of(Off(t, n + 1, h + 1)) /\ G[j] = Of(Off(t, n + 1, h)) BY <3>1
    <3> HIDE DEF G, h, Of
    <3>3. Apply(Off(t, n + 1, h + 1), "D", <<t.name, h>>) = Off(t, n + 1, h) BY <3>1, LayersAre
    <3>4. Decrypted(G[j - 1], <<t.name, h>>) = G[j] BY <1>0, <3>2, <3>3
    <3> QED BY <3>4 DEF h
  <2>2. G[0] = d
    <3>1. 0 \in 0 .. n /\ n + 1 - 0 = n + 1 /\ n + 1 \in Nat OBVIOUS
    <3>2. Off(t, n + 1, n + 1) = <<>> BY <3>1, LayersAre
    <3>3. G[0] = Of(Off(t, n + 1, n + 1)) BY <3>1
    <3> QED BY <1>2, <3>2, <3>3
  <2>3. G = [j \in 0 .. n |-> G[j]] OBVIOUS
  <2>4. G[n] = Of(Off(t, n + 1, 1))
    <3>1. n \in 0 .. n /\ n + 1 - n = 1 OBVIOUS
    <3> QED BY <3>1
  <2> HIDE DEF G, Of
  <2>5. G = [j \in 0 .. n |-> IF j = 0 THEN d ELSE Decrypted(G[j - 1], <<t.name, n + 1 - j>>)]
    BY <2>1, <2>2, <2>3
  <2>6. PeelLayers(t, d) = G[n] BY <2>5, PeelIs
  <2> QED BY <2>4, <2>6
<1> QED BY <1>1, <1>2

LEMMA RecordIsLayered ==
  ASSUME NEW t, NEW i \in Nat, i > 0
  PROVE  LayeredRecord(t, i) = [to |-> t.hops[i], hop |-> i, ret |-> "request",
                                layers |-> Off(t, i, 1)]
<1> DEFINE Of(layers) == [to |-> t.hops[i], hop |-> i, ret |-> "request", layers |-> layers]
           G == [j \in 0 .. (i - 1) |-> Of(Off(t, i, i - j))]
<1>0. ASSUME NEW g, NEW x, NEW y, NEW key, g = Of(x), Apply(x, "D", key) = y
      PROVE  Decrypted(g, key) = Of(y)
  BY ONLY <1>0 DEF Decrypted
<1>1. ASSUME NEW j \in 0 .. (i - 1), j # 0
      PROVE  G[j] = Decrypted(G[j - 1], <<t.name, i - j>>)
  <2> DEFINE h == i - j
  <2>1. j - 1 \in 0 .. (i - 1) /\ i - (j - 1) = h + 1 /\ h \in Nat /\ h < i BY <1>1
  <2>2. G[j - 1] = Of(Off(t, i, h + 1)) /\ G[j] = Of(Off(t, i, h)) BY <2>1
  <2> HIDE DEF G, h, Of
  <2>3. Apply(Off(t, i, h + 1), "D", <<t.name, h>>) = Off(t, i, h) BY <2>1, LayersAre
  <2>4. Decrypted(G[j - 1], <<t.name, h>>) = G[j] BY <1>0, <2>2, <2>3
  <2> QED BY <2>4 DEF h
<1>2. G[0] = BuildRequestRecord(t, i)
  <2>1. 0 \in 0 .. (i - 1) /\ i - 0 = i OBVIOUS
  <2>2. Off(t, i, i) = <<>> BY LayersAre
  <2>3. G[0] = Of(<<>>) BY <2>1, <2>2
  <2> HIDE DEF G
  <2> QED BY <2>3 DEF BuildRequestRecord
<1>3. G = [j \in 0 .. (i - 1) |-> G[j]] OBVIOUS
<1>4. G[i - 1] = Of(Off(t, i, 1))
  <2>1. i - 1 \in 0 .. (i - 1) /\ i - (i - 1) = 1 OBVIOUS
  <2> QED BY <2>1
<1> HIDE DEF G
<1>5. G = [j \in 0 .. (i - 1) |-> IF j = 0 THEN BuildRequestRecord(t, i)
                                  ELSE Decrypted(G[j - 1], <<t.name, i - j>>)]
  BY <1>1, <1>2, <1>3
<1>6. LayeredRecord(t, i) = G[i - 1] BY <1>5, LayeredIs
<1> QED BY <1>4, <1>6

\* The records of a request: each wears what its predecessors will take off.
LEMMA BuildRecordsOK ==
  ASSUME NEW c, NEW t, TunnelIn(c, t), NEW answers
  PROVE  RecordsOK(answers, t, 1, BuildRecords(t))
<1> DEFINE R == BuildRecords(t)
<1>1. \A i \in Hops(t) : i \in Nat /\ i > 0 /\ ~(i < 1) BY DEF Hops
<1>2. R = [k \in 1 .. NumRecords(t) |-> R[k]] BY DEF BuildRecords
<1>3. ASSUME NEW k \in 1 .. NumRecords(t) PROVE RecordOK(answers, t, 1, k, R[k])
  <2>1. R[k] = IF \E i \in Hops(t) : RecordIndex(t, i) = k
               THEN LayeredRecord(t, CHOOSE i \in Hops(t) : RecordIndex(t, i) = k) ELSE Fake
    BY DEF BuildRecords, Hops
  <2>2. ASSUME NEW i \in Hops(t), RecordIndex(t, i) = k
        PROVE  R[k] = [to |-> t.hops[i], hop |-> i, ret |-> "request", layers |-> Off(t, i, 1)]
    <3>1. (CHOOSE x \in Hops(t) : RecordIndex(t, x) = k) = i BY <2>2, TunnelIs
    <3>2. R[k] = LayeredRecord(t, i) BY <2>1, <2>2, <3>1
    <3> HIDE DEF R
    <3> QED BY <1>1, <3>2, RecordIsLayered
  <2>3. ASSUME \A i \in Hops(t) : RecordIndex(t, i) # k
        PROVE  R[k] = [to |-> "random", hop |-> 0, ret |-> "random", layers |-> R[k].layers]
    <3>1. R[k] = Fake BY <2>1, <2>3
    <3> HIDE DEF R
    <3> QED BY ONLY <3>1 DEF Fake
  <2> HIDE DEF R
  <2> QED BY <1>1, <2>2, <2>3 DEF RecordOK
<1> HIDE DEF R
<1>4. RecordsOK(answers, t, 1, R) BY <1>2, <1>3 DEF RecordsOK
<1> QED BY <1>4 DEF R

\* The record k of records with the layers that are left of it at hop h.
Left(t, records, k, h) ==
  [to |-> records[k].to, hop |-> records[k].hop, ret |-> records[k].ret,
   layers |-> IF \E i \in Hops(t) : RecordIndex(t, i) = k
              THEN LET i == CHOOSE x \in Hops(t) : RecordIndex(t, x) = k
                   IN IF i < h THEN On(t, i, h) ELSE <<>>
              ELSE records[k].layers]

\* The creator reads what a hop answered.
LEMMA RepliesAreRead ==
  ASSUME NEW c, NEW t, TunnelIn(c, t), NEW answers, NEW records,
         RecordsOK(answers, t, NumHops(t) + 1, records)
  PROVE  \A i \in Hops(t) : \E y \in BOOLEAN :
           /\ <<t, i, y>> \in answers
           /\ RetOf(ReadRecords(t, records)[RecordIndex(t, i)]) = IF y THEN "accept" ELSE "reject"
<1> DEFINE n == NumHops(t)
           N == NumRecords(t)
           G == [j \in 0 .. n |-> [k \in 1 .. N |-> Left(t, records, k, n + 1 - j)]]
<1>0. n \in Nat /\ N \in Nat /\ Hops(t) = 1 .. n BY TunnelIs DEF Hops
<1>1. records = [k \in 1 .. N |-> records[k]] BY DEF RecordsOK
<1>2. ASSUME NEW i \in Hops(t)
      PROVE  /\ RecordIndex(t, i) \in 1 .. N
             /\ (CHOOSE x \in Hops(t) : RecordIndex(t, x) = RecordIndex(t, i)) = i
             /\ \E y \in BOOLEAN :
                  /\ <<t, i, y>> \in answers
                  /\ records[RecordIndex(t, i)] =
                       [to |-> "reply", hop |-> i, ret |-> IF y THEN "accept" ELSE "reject",
                        layers |-> On(t, i, n + 1)]
  <2>1. RecordIndex(t, i) \in 1 .. N BY TunnelIs
  <2>2. RecordOK(answers, t, n + 1, RecordIndex(t, i), records[RecordIndex(t, i)])
    BY <2>1 DEF RecordsOK
  <2>3. i < n + 1 BY <1>0
  <2>4. (CHOOSE x \in Hops(t) : RecordIndex(t, x) = RecordIndex(t, i)) = i BY TunnelIs
  <2> QED BY <2>1, <2>2, <2>3, <2>4 DEF RecordOK
<1>3. \A k \in 1 .. N : (\A i \in Hops(t) : RecordIndex(t, i) # k) =>
        records[k] = [to |-> records[k].to, hop |-> records[k].hop, ret |-> records[k].ret,
                      layers |-> records[k].layers]
  <2> TAKE k \in 1 .. N
  <2> HAVE \A i \in Hops(t) : RecordIndex(t, i) # k
  <2> DEFINE r == records[k]
  <2>1. RecordOK(answers, t, n + 1, k, r) BY DEF RecordsOK
  <2> HIDE DEF r
  <2>2. r = [to |-> "random", hop |-> 0, ret |-> "random", layers |-> r.layers]
    BY <2>1 DEF RecordOK
  <2>3. r = [to |-> r.to, hop |-> r.hop, ret |-> r.ret, layers |-> r.layers] BY ONLY <2>2
  <2> QED BY <2>3 DEF r
<1>4. \A i \in Hops(t), h \in Nat :
        Left(t, records, RecordIndex(t, i), h) =
          [to |-> records[RecordIndex(t, i)].to, hop |-> records[RecordIndex(t, i)].hop,
           ret |-> records[RecordIndex(t, i)].ret,
           layers |-> IF i < h THEN On(t, i, h) ELSE <<>>]
  BY <1>2 DEF Left
<1>5. \A k \in 1 .. N : (\A i \in Hops(t) : RecordIndex(t, i) # k) =>
        \A h \in Nat : Left(t, records, k, h) = records[k]
  <2> TAKE k \in 1 .. N
  <2> HAVE \A i \in Hops(t) : RecordIndex(t, i) # k
  <2> TAKE h \in Nat
  <2>1. Left(t, records, k, h) =
          [to |-> records[k].to, hop |-> records[k].hop, ret |-> records[k].ret,
           layers |-> records[k].layers]
    BY DEF Left
  <2> QED BY <1>3, <2>1
<1>6. G[0] = records
  <2>1. 0 \in 0 .. n /\ n + 1 - 0 = n + 1 /\ n + 1 \in Nat BY <1>0
  <2>2. G[0] = [k \in 1 .. N |-> Left(t, records, k, n + 1)] BY <2>1
  <2>3. \A k \in 1 .. N : Left(t, records, k, n + 1) = records[k]
    <3> TAKE k \in 1 .. N
    <3>1. ASSUME NEW i \in Hops(t), RecordIndex(t, i) = k
          PROVE  Left(t, records, k, n + 1) = records[k]
      <4> DEFINE r == records[k]
      <4>1. i < n + 1 BY <1>0
      <4>2. PICK y \in BOOLEAN :
              r = [to |-> "reply", hop |-> i, ret |-> IF y THEN "accept" ELSE "reject",
                   layers |-> On(t, i, n + 1)]
        BY <1>2, <3>1
      <4>3. Left(t, records, k, n + 1) =
              [to |-> r.to, hop |-> r.hop, ret |-> r.ret, layers |-> On(t, i, n + 1)]
        BY <1>4, <2>1, <3>1, <4>1
      <4> HIDE DEF r
      <4>4. r = [to |-> r.to, hop |-> r.hop, ret |-> r.ret, layers |-> On(t, i, n + 1)]
        BY ONLY <4>2
      <4> QED BY <4>3, <4>4 DEF r
    <3>2. CASE \A i \in Hops(t) : RecordIndex(t, i) # k BY <1>5, <2>1, <3>2
    <3> QED BY <3>1, <3>2
  <2> HIDE DEF G
  <2> QED BY <1>1, <2>2, <2>3
<1>7. ASSUME NEW j \in 0 .. n, j # 0
      PROVE  G[j] = DecryptedRecords(t, G[j - 1], n + 1 - j, n + 1 - j)
  <2> DEFINE h == n + 1 - j
             P == G[j - 1]
  <2>1. /\ j - 1 \in 0 .. n /\ n + 1 - (j - 1) = h + 1 /\ h \in Nat /\ h + 1 \in Nat
        /\ h >= 1 /\ h <= n
    BY <1>0, <1>7
  <2>2. P = [k \in 1 .. N |-> Left(t, records, k, h + 1)] BY <2>1
  <2>3. G[j] = [k \in 1 .. N |-> Left(t, records, k, h)] BY <2>1
  <2> HIDE DEF G, P, h
  <2>4. DecryptedRecords(t, P, h, h) =
          [k \in 1 .. N |-> IF \E i \in 1 .. h : RecordIndex(t, i) = k
                            THEN Decrypted(P[k], <<t.name, h>>) ELSE P[k]]
    <3>1. DOMAIN P = 1 .. N BY <2>2
    <3> QED BY <3>1 DEF DecryptedRecords
  <2>5. ASSUME NEW k \in 1 .. N
        PROVE  Left(t, records, k, h) =
                 IF \E i \in 1 .. h : RecordIndex(t, i) = k
                 THEN Decrypted(P[k], <<t.name, h>>) ELSE P[k]
    <3>0. P[k] = Left(t, records, k, h + 1) BY <2>2
    <3>1. ASSUME NEW i \in 1 .. h, RecordIndex(t, i) = k
          PROVE  Left(t, records, k, h) = Decrypted(P[k], <<t.name, h>>)
      <4> DEFINE Of(layers) == [to |-> records[k].to, hop |-> records[k].hop,
                                ret |-> records[k].ret, layers |-> layers]
      <4>1. i \in Nat /\ i <= h /\ i < h + 1 /\ i \in Hops(t) BY <1>0, <2>1
      <4>2. P[k] = Of(On(t, i, h + 1)) BY <1>4, <2>1, <3>0, <3>1, <4>1
      <4>3. Left(t, records, k, h) = Of(IF i < h THEN On(t, i, h) ELSE <<>>)
        BY <1>4, <2>1, <3>1, <4>1
      <4>4. Apply(On(t, i, h + 1), "D", <<t.name, h>>) = On(t, i, h) BY <2>1, <4>1, LayersAre
      <4>5. (IF i < h THEN On(t, i, h) ELSE <<>>) = On(t, i, h)
        <5>1. i < h \/ i = h BY <2>1, <4>1
        <5>2. On(t, i, i) = <<>> BY <4>1, LayersAre
        <5> QED BY <5>1, <5>2
      <4>6. Left(t, records, k, h) = Of(On(t, i, h)) BY <4>3, <4>5
      <4> QED BY ONLY <4>2, <4>4, <4>6 DEF Decrypted
    <3>2. CASE \A i \in Hops(t) : RecordIndex(t, i) # k
      <4>1. ~ \E i \in 1 .. h : RecordIndex(t, i) = k
        <5>1. \A i \in 1 .. h : i \in Hops(t) BY <1>0, <2>1
        <5> QED BY <3>2, <5>1
      <4>2. Left(t, records, k, h) = records[k] /\ Left(t, records, k, h + 1) = records[k]
        BY <1>5, <2>1, <3>2
      <4> QED BY <3>0, <4>1, <4>2
    <3>3. ASSUME NEW i \in Hops(t), RecordIndex(t, i) = k, i \notin 1 .. h
          PROVE  /\ ~ \E x \in 1 .. h : RecordIndex(t, x) = k
                 /\ Left(t, records, k, h) = P[k]
      <4>1. i \in Nat /\ ~(i < h) /\ ~(i < h + 1) BY <1>0, <2>1, <3>3
      <4>2. ~ \E x \in 1 .. h : RecordIndex(t, x) = k
        <5>1. \A x \in 1 .. h : x \in Hops(t) BY <1>0, <2>1
        <5> QED BY <3>3, <5>1, TunnelIs
      <4>3. Left(t, records, k, h) = Left(t, records, k, h + 1) BY <1>4, <2>1, <3>3, <4>1
      <4> QED BY <3>0, <4>2, <4>3
    <3> QED BY <3>1, <3>2, <3>3
  <2>6. G[j] = DecryptedRecords(t, P, h, h) BY <2>3, <2>4, <2>5
  <2> QED BY <2>6 DEF P, h
<1>8. G = [j \in 0 .. n |-> G[j]] OBVIOUS
<1>9. G[n] = [k \in 1 .. N |-> Left(t, records, k, 1)]
  <2>1. n \in 0 .. n /\ n + 1 - n = 1 BY <1>0
  <2> QED BY <2>1
<1> HIDE DEF G
<1>10. G = [j \in 0 .. n |-> IF j = 0 THEN records
                             ELSE DecryptedRecords(t, G[j - 1], n + 1 - j, n + 1 - j)]
  BY <1>6, <1>7, <1>8
<1>11. ReadRecords(t, records) = G[n] BY <1>0, <1>10, ReadIs
<1> TAKE i \in Hops(t)
<1> DEFINE k == RecordIndex(t, i)
           r == records[k]
           p == ReadRecords(t, records)[k]
<1>12. PICK y \in BOOLEAN :
         /\ <<t, i, y>> \in answers
         /\ r = [to |-> "reply", hop |-> i, ret |-> IF y THEN "accept" ELSE "reject",
                 layers |-> On(t, i, n + 1)]
  BY <1>2
<1>13. p = [to |-> r.to, hop |-> r.hop, ret |-> r.ret, layers |-> <<>>]
  <2>1. ~(i < 1) /\ 1 \in Nat BY <1>0
  <2>2. k \in 1 .. N BY <1>2
  <2>3. p = Left(t, records, k, 1) BY <1>9, <1>11, <2>2
  <2>4. Left(t, records, k, 1) = [to |-> r.to, hop |-> r.hop, ret |-> r.ret, layers |-> <<>>]
    BY <1>4, <2>1
  <2> QED BY <2>3, <2>4
<1> HIDE DEF p, r
<1>14. RetOf(p) = IF y THEN "accept" ELSE "reject"
  <2>1. r.ret = IF y THEN "accept" ELSE "reject" BY ONLY <1>12
  <2>2. p.ret = r.ret /\ p.layers = <<>> BY ONLY <1>13
  <2> QED BY <2>1, <2>2 DEF RetOf
<1> QED BY <1>12, <1>14 DEF p

LEMMA TransitIs ==
  ASSUME NEW c, NEW t, TunnelIn(c, t), NEW i \in Hops(t)
  PROVE  LET x == NewTransitTunnel(t, i)
             n == NumHops(t)
         IN /\ x.router = t.hops[i] /\ x.id = <<t.name, i>>
            /\ i = n => (x.role = "endpoint") = ~t.inbound
            /\ i < n => x.role # "endpoint"
            /\ (i = 1 /\ n > 1) => (x.role = "gateway") = t.inbound
            /\ i < n => x.nextRouter = t.hops[i + 1] /\ x.nextID = <<t.name, i + 1>>
            /\ (i = n /\ t.inbound) => x.nextRouter = TBSelf /\ x.nextID = <<t.name, i + 1>>
<1> DEFINE x == NewTransitTunnel(t, i)
           n == NumHops(t)
           role == CASE i = n /\ ~t.inbound -> "endpoint"
                     [] i = 1 /\ t.inbound -> "gateway"
                     [] OTHER -> "participant"
           nextRouter == IF i < n THEN t.hops[i + 1] ELSE IF t.inbound THEN TBSelf ELSE t.replyTo
           nextID == IF i < n \/ t.inbound THEN <<t.name, i + 1>> ELSE t.replyID
<1>0. i \in Nat /\ n \in Nat /\ i <= n /\ t.inbound \in BOOLEAN BY TunnelIs DEF Hops
<1>1. x = [router |-> t.hops[i], id |-> <<t.name, i>>, role |-> role,
           nextRouter |-> nextRouter, nextID |-> nextID]
  BY DEF NewTransitTunnel
<1>2. /\ i = n => (role = "endpoint") = ~t.inbound
      /\ i < n => role # "endpoint"
      /\ (i = 1 /\ n > 1) => (role = "gateway") = t.inbound
  <2> HIDE DEF n
  <2>1. CASE t.inbound = TRUE BY <1>0, <2>1
  <2>2. CASE t.inbound = FALSE BY <1>0, <2>2
  <2> QED BY <1>0, <2>1, <2>2
<1>3. /\ i < n => nextRouter = t.hops[i + 1] /\ nextID = <<t.name, i + 1>>
      /\ (i = n /\ t.inbound) => nextRouter = TBSelf /\ nextID = <<t.name, i + 1>>
  <2> HIDE DEF n
  <2> QED BY <1>0
<1> HIDE DEF role, nextRouter, nextID, x
<1>4. /\ x.router = t.hops[i] /\ x.id = <<t.name, i>> /\ x.role = role
      /\ x.nextRouter = nextRouter /\ x.nextID = nextID
  BY ONLY <1>1
<1> QED BY <1>2, <1>3, <1>4 DEF x

LEMMA MessageStays ==
  ASSUME NEW answers, NEW all, answers \subseteq all, NEW m, NEW h, MessageAt(answers, m, h)
  PROVE  MessageAt(all, m, h)
<1>1. \A k \in 1 .. NumRecords(m.tunnel) :
        RecordOK(answers, m.tunnel, h, k, m.records[k]) => RecordOK(all, m.tunnel, h, k, m.records[k])
  <2> TAKE k \in 1 .. NumRecords(m.tunnel)
  <2> DEFINE t == m.tunnel
             r == m.records[k]
  <2> HIDE DEF t, r
  <2>1. RecordOK(answers, t, h, k, r) => RecordOK(all, t, h, k, r) BY DEF RecordOK
  <2> QED BY <2>1 DEF t, r
<1> QED BY <1>1 DEF MessageAt, RecordsOK

\* What a step keeps stays sound: only what it adds needs a look.
LEMMA SoundGrows ==
  ASSUME NEW b, BuildSound(b), NEW a, BuildFields(a), a.case = b.case,
         b.answers \subseteq a.answers, b.transit \subseteq a.transit,
         a.pending \cup a.established \cup a.failed \subseteq a.case.tunnels,
         a.pending \cap (a.established \cup a.failed) = {},
         a.copies \in 0 .. a.case.copies,
         \A m \in a.net \ b.net : MessageOK(a, m),
         \A x \in a.transit \ b.transit :
            \E t \in a.case.tunnels : \E i \in Hops(t) : x = NewTransitTunnel(t, i),
         \A x \in a.answers \ b.answers : AnswerOK(a, x),
         \A x \in a.read \ b.read : ReadOK(a, x),
         \A t \in a.established \ b.established : \A i \in Hops(t) : <<t, i, TRUE>> \in a.answers,
         \A d \in a.data \ b.data : DataOK(a, d),
         \A d \in a.received \ b.received : d.layers = <<>>
  PROVE  BuildSound(a)
<1>1. \A m \in b.net : MessageOK(a, m)
  <2> TAKE m \in b.net
  <2>1. MessageOK(b, m) BY DEF BuildSound
  <2>2. PICK h \in 1 .. (NumHops(m.tunnel) + 1) : MessageAt(b.answers, m, h) BY <2>1 DEF MessageOK
  <2>3. MessageAt(a.answers, m, h) BY <2>2, MessageStays
  <2> QED BY <2>1, <2>3 DEF MessageOK
<1>2. \A x \in b.answers : AnswerOK(a, x) BY DEF BuildSound, AnswerOK
<1>3. \A x \in b.read : ReadOK(a, x) BY DEF BuildSound, ReadOK
<1>4. \A d \in b.data : DataOK(a, d) BY DEF BuildSound, DataOK
<1>5. \A x \in b.transit :
        \E t \in a.case.tunnels : \E i \in Hops(t) : x = NewTransitTunnel(t, i)
  BY DEF BuildSound
<1>6. \A t \in b.established : \A i \in Hops(t) : <<t, i, TRUE>> \in a.answers BY DEF BuildSound
<1>7. a.case \in TBCases /\ \A d \in b.received : d.layers = <<>> BY DEF BuildSound
<1> QED BY <1>1, <1>2, <1>3, <1>4, <1>5, <1>6, <1>7 DEF BuildSound

LEMMA BuildSends ==
  ASSUME BuildSound(build), NEW t \in build.case.tunnels, Build(t)
  PROVE  BuildSound(build')
<1> DEFINE b == build
           a == build'
           m == BuildMsg(t)
<1>1. BuildFields(b) /\ b.case \in TBCases /\ TunnelIn(b.case, t) BY DEF BuildSound, TunnelIn
<1>2. a = [b EXCEPT !.pending = b.pending \cup {t}, !.net = b.net \cup {m}] BY DEF Build
<1>3. t \notin b.pending \cup b.established \cup b.failed BY DEF Build, Known
<1>4. m.tunnel = t /\ MessageOK(b, m)
  <2>1. /\ m = [kind |-> "Build", to |-> t.hops[1], tunnel |-> t, hop |-> 1,
                records |-> BuildRecords(t)]
        /\ m.kind = "Build" /\ m.tunnel = t /\ m.records = BuildRecords(t)
    BY DEF BuildMsg
  <2>2. 1 <= NumHops(t) /\ 1 \in 1 .. (NumHops(t) + 1) BY <1>1, TunnelIs
  <2>3. RecordsOK(b.answers, t, 1, BuildRecords(t)) BY <1>1, BuildRecordsOK
  <2> HIDE DEF b, m
  <2>4. MessageAt(b.answers, m, 1) BY <2>1, <2>2, <2>3 DEF MessageAt
  <2> QED BY <2>1, <2>2, <2>4 DEF MessageOK, b
<1> HIDE DEF m
<1>5. /\ BuildFields(a)
      /\ a.case = b.case /\ a.answers = b.answers /\ a.transit = b.transit
      /\ a.pending = b.pending \cup {t} /\ a.established = b.established /\ a.failed = b.failed
      /\ a.copies = b.copies /\ a.net = b.net \cup {m} /\ a.read = b.read /\ a.data = b.data
      /\ a.received = b.received
  <2> HIDE DEF a, b
  <2> QED BY <1>1, <1>2 DEF BuildFields
<1>6. MessageOK(a, m) BY <1>4, <1>5 DEF MessageOK
<1> HIDE DEF a
<1>7. /\ a.pending \cup a.established \cup a.failed \subseteq a.case.tunnels
      /\ a.pending \cap (a.established \cup a.failed) = {}
      /\ a.copies \in 0 .. a.case.copies
  <2> HIDE DEF m
  <2>1. /\ b.pending \cup b.established \cup b.failed \subseteq b.case.tunnels
        /\ b.pending \cap (b.established \cup b.failed) = {}
        /\ b.copies \in 0 .. b.case.copies /\ t \in b.case.tunnels
    BY DEF BuildSound
  <2> HIDE DEF b
  <2> QED BY ONLY <1>3, <1>5, <2>1
<1>8. BuildSound(a) BY <1>5, <1>6, <1>7, SoundGrows
<1> QED BY <1>8 DEF a

LEMMA CreationTimesOut ==
  ASSUME BuildSound(build), NEW t \in build.case.tunnels, CreationTimeout(t)
  PROVE  BuildSound(build')
<1> DEFINE b == build
           a == build'
<1>1. BuildFields(b) BY DEF BuildSound
<1>2. a = [b EXCEPT !.pending = b.pending \ {t}, !.failed = b.failed \cup {t}] BY DEF CreationTimeout
<1>3. /\ BuildFields(a)
      /\ a.case = b.case /\ a.answers = b.answers /\ a.transit = b.transit
      /\ a.pending = b.pending \ {t} /\ a.established = b.established
      /\ a.failed = b.failed \cup {t} /\ a.copies = b.copies /\ a.net = b.net
      /\ a.read = b.read /\ a.data = b.data /\ a.received = b.received
  <2> HIDE DEF a, b
  <2> QED BY <1>1, <1>2 DEF BuildFields
<1>4. t \in b.pending BY DEF CreationTimeout
<1> HIDE DEF a
<1>5. BuildSound(a) BY <1>3, <1>4, SoundGrows DEF BuildSound
<1> QED BY <1>5 DEF a

LEMMA DataIsSent ==
  ASSUME BuildSound(build), NEW t \in build.case.tunnels, SendData(t)
  PROVE  BuildSound(build')
<1> DEFINE b == build
           a == build'
           p == Plain(t, t.hops[1], <<t.name, 1>>)
           d == IF t.inbound THEN p ELSE PeelLayers(t, p)
           n == NumHops(t)
<1>1. BuildFields(b) /\ TunnelIn(b.case, t) BY DEF BuildSound, TunnelIn
<1>2. a = [b EXCEPT !.data = {d}] BY DEF SendData
<1>3. n \in Nat /\ 1 <= n /\ 1 # n + 1 /\ 1 \in 1 .. (n + 1) BY <1>1, TunnelIs
<1>4. p = [tunnel |-> t, to |-> t.hops[1], id |-> <<t.name, 1>>, layers |-> <<>>] BY DEF Plain
<1> HIDE DEF p
<1>5. d = [tunnel |-> t, to |-> t.hops[1], id |-> <<t.name, 1>>,
           layers |-> IF t.inbound THEN On(t, 1, 1) ELSE Off(t, n + 1, 1)]
  <2>1. On(t, 1, 1) = <<>>
    <3>1. 1 \in Nat OBVIOUS
    <3> QED BY <3>1, LayersAre
  <2>2. PeelLayers(t, p) = [tunnel |-> t, to |-> t.hops[1], id |-> <<t.name, 1>>,
                            layers |-> Off(t, n + 1, 1)]
    BY <1>3, <1>4, DataIsPeeled
  <2>3. CASE t.inbound BY <1>4, <2>1, <2>3
  <2>4. CASE ~t.inbound BY <2>2, <2>4
  <2> QED BY <2>3, <2>4
<1> HIDE DEF d
<1>6. DataAt(d, t, 1) BY <1>3, <1>5 DEF DataAt
<1>7. /\ BuildFields(a)
      /\ a.case = b.case /\ a.answers = b.answers /\ a.transit = b.transit
      /\ a.pending = b.pending /\ a.established = b.established
      /\ a.failed = b.failed /\ a.copies = b.copies /\ a.net = b.net
      /\ a.read = b.read /\ a.data = {d} /\ a.received = b.received
  <2> HIDE DEF a, b
  <2> QED BY <1>1, <1>2 DEF BuildFields
<1>8. DataOK(a, d) BY <1>3, <1>6, <1>7 DEF DataOK
<1> HIDE DEF a
<1>9. BuildSound(a) BY <1>7, <1>8, SoundGrows DEF BuildSound
<1> QED BY <1>9 DEF a

DeliveredFields(a, b, m, copy) ==
  /\ BuildFields(a)
  /\ a.case = b.case /\ a.answers = b.answers /\ a.transit = b.transit /\ a.pending = b.pending
  /\ a.established = b.established /\ a.failed = b.failed /\ a.read = b.read
  /\ a.data = b.data /\ a.received = b.received
  /\ a.net \subseteq b.net
  /\ a.copies = IF copy THEN b.copies + 1 ELSE b.copies

LEMMA DeliveredIs ==
  ASSUME NEW b, BuildFields(b), NEW m, NEW copy \in BOOLEAN
  PROVE  DeliveredFields(Delivered(b, m, copy), b, m, copy)
<1> DEFINE a == Delivered(b, m, copy)
           net == IF copy THEN b.net ELSE b.net \ {m}
           copies == IF copy THEN b.copies + 1 ELSE b.copies
<1>1. a = [b EXCEPT !.net = net, !.copies = copies] BY DEF Delivered
<1>2. net \subseteq b.net OBVIOUS
<1> HIDE DEF net, copies
<1>3. a = [case |-> b.case, pending |-> b.pending, established |-> b.established,
           failed |-> b.failed, transit |-> b.transit, net |-> net, answers |-> b.answers,
           read |-> b.read, data |-> b.data, received |-> b.received, copies |-> copies]
  BY ONLY <1>1, BuildFields(b) DEF BuildFields
<1> HIDE DEF a
<1>4. /\ BuildFields(a) /\ a.net = net /\ a.copies = copies
      /\ a.case = b.case /\ a.answers = b.answers /\ a.transit = b.transit /\ a.pending = b.pending
      /\ a.established = b.established /\ a.failed = b.failed /\ a.read = b.read
      /\ a.data = b.data /\ a.received = b.received
  BY ONLY <1>3 DEF BuildFields
<1> QED BY <1>2, <1>4 DEF DeliveredFields, a, net, copies

\* What a copy that stays or goes leaves as it was.
LEMMA DeliveredSound ==
  ASSUME NEW b, NEW a, NEW m, NEW copy \in BOOLEAN, BuildSound(b), DeliveredFields(a, b, m, copy),
         copy => b.copies < b.case.copies
  PROVE  BuildSound(a)
<1>1. a.copies \in 0 .. a.case.copies
  <2>1. b.copies \in 0 .. b.case.copies /\ b.case \in TBCases BY DEF BuildSound
  <2>2. b.case.copies \in Nat BY <2>1, TunnelBuildAssumption
  <2> QED BY <2>1, <2>2 DEF DeliveredFields
<1>2. BuildFields(a) BY DEF DeliveredFields
<1> QED BY <1>1, <1>2, SoundGrows DEF BuildSound, DeliveredFields

LEMMA TransitAdded ==
  ASSUME NEW b, BuildSound(b), NEW t \in b.case.tunnels, NEW i \in Hops(t)
  PROVE  /\ NewTransitTunnel(t, i) \in AddTransitTunnel(b.transit, t, i)
         /\ b.transit \subseteq AddTransitTunnel(b.transit, t, i)
         /\ AddTransitTunnel(b.transit, t, i) \subseteq b.transit \cup {NewTransitTunnel(t, i)}
<1>1. ASSUME NEW x \in b.transit, x.id = <<t.name, i>> PROVE x = NewTransitTunnel(t, i)
  <2>1. PICK u \in b.case.tunnels : \E j \in Hops(u) : x = NewTransitTunnel(u, j) BY DEF BuildSound
  <2>2. PICK j \in Hops(u) : x = NewTransitTunnel(u, j) BY <2>1
  <2>3. TunnelIn(b.case, u) /\ TunnelIn(b.case, t) BY DEF BuildSound, TunnelIn
  <2>4. x.id = <<u.name, j>> BY <2>2, <2>3, TransitIs
  <2>5. u.name = t.name /\ j = i BY <1>1, <2>4
  <2>6. u = t BY <2>3, <2>5, TunnelIs
  <2> QED BY <2>2, <2>5, <2>6
<1> QED BY <1>1 DEF AddTransitTunnel

LEMMA HopAnswers ==
  ASSUME BuildSound(build), NEW m \in build.net, NEW accept \in BOOLEAN, NEW copy \in BOOLEAN,
         DeliverBuild(m, accept, copy)
  PROVE  BuildSound(build')
<1> DEFINE b == build
           t == m.tunnel
           n == NumHops(t)
           c == HandleBuildRequestRecords(m, accept)
<1>0. BuildFields(b) /\ t \in b.case.tunnels /\ TunnelIn(b.case, t)
  BY DEF BuildSound, MessageOK, TunnelIn
<1>1. PICK h \in 1 .. (n + 1) : MessageAt(b.answers, m, h) BY DEF BuildSound, MessageOK
<1>2. h \in Hops(t)
  <2>1. n \in Nat BY <1>0, TunnelIs
  <2>2. m.hop = IF h <= n THEN h ELSE 0
    <3> DEFINE to == IF h <= n THEN t.hops[h] ELSE TBSelf
               hop == IF h <= n THEN h ELSE 0
    <3>1. \E kd, rs : m = [kind |-> kd, to |-> to, tunnel |-> t, hop |-> hop, records |-> rs]
      BY <1>1 DEF MessageAt
    <3> HIDE DEF to, hop, t
    <3>2. m.hop = hop BY ONLY <3>1
    <3> QED BY <3>2 DEF hop
  <2>3. m.hop # 0 BY DEF DeliverBuild
  <2> HIDE DEF n
  <2>4. h \in 1 .. n BY <2>1, <2>2, <2>3
  <2> QED BY <2>4 DEF n, Hops
<1> DEFINE k == RecordIndex(t, h)
           r == Answered(m, k, accept)
           answers == b.answers \cup {<<t, h, accept>>}
           transit == IF accept THEN AddTransitTunnel(b.transit, t, h) ELSE b.transit
<1>3. /\ OurRecord(m.to, m.records) = {k} /\ m.records[k].hop = h
      /\ r.tunnel = t /\ MessageAt(answers, r, h + 1)
  <2>1. /\ TunnelIn(build.case, m.tunnel) /\ h \in Hops(m.tunnel)
        /\ MessageAt(build.answers, m, h) /\ accept \in BOOLEAN
    BY <1>0, <1>1, <1>2
  <2>2. PassedOn(build.answers, m, h, accept) BY ONLY <2>1, AnsweredOK
  <2> QED BY ONLY <2>2 DEF PassedOn, b, t, k, r, answers
<1>4. c = [b EXCEPT !.net = b.net \cup {r}, !.answers = answers, !.transit = transit]
  <2>1. {k} # {} /\ (CHOOSE x \in {k} : TRUE) = k OBVIOUS
  <2> HIDE DEF k
  <2> QED BY <1>3, <2>1 DEF HandleBuildRequestRecords
<1>5. /\ transit \subseteq b.transit \cup {NewTransitTunnel(t, h)}
      /\ b.transit \subseteq transit
      /\ accept => NewTransitTunnel(t, h) \in transit
  BY <1>0, <1>2, TransitAdded
<1> HIDE DEF r, answers, transit, c
<1>6. /\ BuildFields(c)
      /\ c.case = b.case /\ c.answers = answers /\ c.transit = transit
      /\ c.pending = b.pending /\ c.established = b.established
      /\ c.failed = b.failed /\ c.copies = b.copies /\ c.net = b.net \cup {r}
      /\ c.read = b.read /\ c.data = b.data /\ c.received = b.received
  <2> HIDE DEF b
  <2> QED BY <1>0, <1>4 DEF BuildFields
<1>7. MessageOK(c, r)
  <2>1. h + 1 \in 1 .. (n + 1) /\ n = NumHops(r.tunnel)
    <3>1. n \in Nat BY <1>0, TunnelIs
    <3> QED BY <1>2, <1>3, <3>1 DEF Hops
  <2> QED BY <1>0, <1>3, <1>6, <2>1 DEF MessageOK
<1>8. AnswerOK(c, <<t, h, accept>>) BY <1>0, <1>2, <1>5, <1>6 DEF AnswerOK
<1>9. \A x \in c.transit \ b.transit :
        \E u \in c.case.tunnels : \E i \in Hops(u) : x = NewTransitTunnel(u, i)
  BY <1>0, <1>2, <1>5, <1>6
<1>10. b.answers \subseteq answers /\ answers \subseteq b.answers \cup {<<t, h, accept>>} BY DEF answers
<1>11. BuildSound(c)
  <2> HIDE DEF b, t
  <2>1. BuildSound(b) BY DEF b
  <2> QED BY <1>5, <1>6, <1>7, <1>8, <1>9, <1>10, <2>1, SoundGrows DEF BuildSound
<1>12. build' = Delivered(c, m, copy) /\ (copy => c.copies < c.case.copies)
  BY <1>6 DEF DeliverBuild, c
<1>13. DeliveredFields(build', c, m, copy) BY <1>6, <1>12, DeliveredIs
<1> QED BY <1>11, <1>12, <1>13, DeliveredSound

LEMMA ReplyIsHandled ==
  ASSUME BuildSound(build), NEW m \in build.net, m.tunnel \in build.pending, m.hop = 0
  PROVE  /\ BuildSound(HandleTunnelBuildResponse(m))
         /\ HandleTunnelBuildResponse(m).copies = build.copies
         /\ HandleTunnelBuildResponse(m).case = build.case
<1> DEFINE b == build
           t == m.tunnel
           n == NumHops(t)
           c == HandleTunnelBuildResponse(m)
           p == ReadRecords(t, m.records)
           rets == [i \in 1 .. n |-> RetOf(p[RecordIndex(t, i)])]
           agreed == \A i \in DOMAIN rets : rets[i] \in {"accept", "random"}
<1>0. BuildFields(b) /\ t \in b.case.tunnels /\ TunnelIn(b.case, t)
  BY DEF BuildSound, MessageOK, TunnelIn
<1>1. PICK h \in 1 .. (n + 1) : MessageAt(b.answers, m, h) BY DEF BuildSound, MessageOK
<1>2. h = n + 1
  <2>1. n \in Nat BY <1>0, TunnelIs
  <2>2. m.hop = IF h <= n THEN h ELSE 0
    <3> DEFINE to == IF h <= n THEN t.hops[h] ELSE TBSelf
               hop == IF h <= n THEN h ELSE 0
    <3>1. \E kd, rs : m = [kind |-> kd, to |-> to, tunnel |-> t, hop |-> hop, records |-> rs]
      BY <1>1 DEF MessageAt
    <3> HIDE DEF to, hop, t
    <3>2. m.hop = hop BY ONLY <3>1
    <3> QED BY <3>2 DEF hop
  <2> HIDE DEF n
  <2> QED BY <2>1, <2>2
<1>3. RecordsOK(b.answers, t, n + 1, m.records) BY <1>1, <1>2 DEF MessageAt
<1>4. \A i \in Hops(t) : \E y \in BOOLEAN :
        <<t, i, y>> \in b.answers /\ RetOf(p[RecordIndex(t, i)]) = IF y THEN "accept" ELSE "reject"
  BY <1>0, <1>3, RepliesAreRead
<1> HIDE DEF p
<1>5. DOMAIN rets = Hops(t)
      /\ \A i \in Hops(t) : \E y \in BOOLEAN :
           <<t, i, y>> \in b.answers /\ rets[i] = IF y THEN "accept" ELSE "reject"
  BY <1>4 DEF Hops
<1> DEFINE established == IF agreed THEN b.established \cup {t} ELSE b.established
           failed == IF agreed THEN b.failed ELSE b.failed \cup {t}
           read == b.read \cup {<<t, i, rets[i]>> : i \in DOMAIN rets}
<1>6. c = [b EXCEPT !.pending = b.pending \ {t}, !.established = established,
                    !.failed = failed, !.read = read]
  BY DEF HandleTunnelBuildResponse, p
<1> HIDE DEF rets
<1>7. agreed => \A i \in Hops(t) : <<t, i, TRUE>> \in b.answers
  <2> SUFFICES ASSUME agreed, NEW i \in Hops(t) PROVE <<t, i, TRUE>> \in b.answers OBVIOUS
  <2>1. PICK y \in BOOLEAN : <<t, i, y>> \in b.answers
                             /\ rets[i] = IF y THEN "accept" ELSE "reject"
    BY <1>5
  <2>2. rets[i] \in {"accept", "random"} BY <1>5
  <2>3. y = TRUE BY <2>1, <2>2
  <2> QED BY <2>1, <2>3
<1>8. \A x \in read \ b.read : \E i \in Hops(t) : x = <<t, i, rets[i]>> BY <1>5
<1>9. \A x \in established \ b.established : x = t /\ agreed OBVIOUS
<1>10. /\ established \subseteq b.established \cup {t} /\ failed \subseteq b.failed \cup {t}
  OBVIOUS
<1> HIDE DEF established, failed, read, agreed, c
<1>11. /\ BuildFields(c)
       /\ c.case = b.case /\ c.answers = b.answers /\ c.transit = b.transit
       /\ c.pending = b.pending \ {t} /\ c.established = established
       /\ c.failed = failed /\ c.copies = b.copies /\ c.net = b.net
       /\ c.read = read /\ c.data = b.data /\ c.received = b.received
  <2> HIDE DEF b
  <2> QED BY <1>0, <1>6 DEF BuildFields
<1>12. \A x \in c.read \ b.read : ReadOK(c, x)
  <2> TAKE x \in c.read \ b.read
  <2>1. PICK i \in Hops(t) : x = <<t, i, rets[i]>> BY <1>8, <1>11
  <2>2. PICK y \in BOOLEAN : <<t, i, y>> \in b.answers
                             /\ rets[i] = IF y THEN "accept" ELSE "reject"
    BY <1>5
  <2> QED BY <1>0, <1>11, <2>1, <2>2 DEF ReadOK
<1>13. \A x \in c.established \ b.established : \A i \in Hops(x) : <<x, i, TRUE>> \in c.answers
  BY <1>7, <1>9, <1>11
<1>14. /\ c.pending \cup c.established \cup c.failed \subseteq c.case.tunnels
       /\ c.pending \cap (c.established \cup c.failed) = {}
       /\ c.copies \in 0 .. c.case.copies
  <2>1. /\ b.pending \cup b.established \cup b.failed \subseteq b.case.tunnels
        /\ b.pending \cap (b.established \cup b.failed) = {} /\ t \in b.case.tunnels
        /\ b.copies \in 0 .. b.case.copies
    BY <1>0 DEF BuildSound
  <2> HIDE DEF b, t
  <2> QED BY ONLY <1>10, <1>11, <2>1
<1>15. BuildSound(c)
  <2> HIDE DEF b, t
  <2>1. BuildSound(b) BY DEF b
  <2> QED BY <1>11, <1>12, <1>13, <1>14, <2>1, SoundGrows
<1> QED BY <1>11, <1>15 DEF c

LEMMA ReplyArrives ==
  ASSUME BuildSound(build), NEW m \in build.net, NEW copy \in BOOLEAN, DeliverReply(m, copy)
  PROVE  BuildSound(build')
<1> DEFINE c == IF m.tunnel \in build.pending THEN HandleTunnelBuildResponse(m) ELSE build
<1>1. build' = Delivered(c, m, copy) /\ m.hop = 0 /\ (copy => build.copies < build.case.copies)
  BY DEF DeliverReply
<1>2. BuildSound(c) /\ c.copies = build.copies /\ c.case = build.case
  BY <1>1, ReplyIsHandled
<1> HIDE DEF c
<1>3. BuildFields(c) BY <1>2 DEF BuildSound
<1>4. DeliveredFields(build', c, m, copy) BY <1>1, <1>3, DeliveredIs
<1> QED BY <1>1, <1>2, <1>4, DeliveredSound

\* Every hop takes off one decryption of an outbound tunnel's data, and puts one
\* encryption on that of an inbound tunnel.
LEMMA HopPassesOn ==
  ASSUME BuildSound(build), NEW d \in build.data, TransitData(d)
  PROVE  BuildSound(build')
<1> DEFINE b == build
           a == build'
<1>0. BuildFields(b) BY DEF BuildSound
<1>1. PICK t \in b.case.tunnels : \E i \in 1 .. (NumHops(t) + 1) : DataAt(d, t, i)
  BY DEF BuildSound, DataOK
<1> DEFINE n == NumHops(t)
<1>2. PICK i \in 1 .. (n + 1) : DataAt(d, t, i) BY <1>1
<1>3. TunnelIn(b.case, t) BY DEF BuildSound, TunnelIn
<1>4. n \in Nat /\ i \in Nat /\ i >= 1 /\ t.inbound \in BOOLEAN BY <1>3, TunnelIs
<1> DEFINE to == IF i <= n THEN t.hops[i] ELSE TBSelf
           layers == IF t.inbound THEN On(t, 1, i) ELSE Off(t, n + 1, i)
<1>5. /\ d = [tunnel |-> t, to |-> to, id |-> <<t.name, i>>, layers |-> layers]
      /\ i = n + 1 => t.inbound
  BY <1>2 DEF DataAt
<1>6. PICK x \in b.transit :
        /\ x.router = d.to /\ x.id = d.id
        /\ a = IF x.role = "endpoint"
               THEN [b EXCEPT !.data = b.data \ {d},
                              !.received = b.received \cup {Encrypted(d, d.id)}]
               ELSE [b EXCEPT !.data = (b.data \ {d}) \cup
                       {[Encrypted(d, d.id) EXCEPT !.to = x.nextRouter, !.id = x.nextID]}]
  BY DEF TransitData
<1> HIDE DEF to, layers, a
<1>7. d.id = <<t.name, i>> BY ONLY <1>5
<1>8. i \in Hops(t) /\ x = NewTransitTunnel(t, i)
  <2>1. PICK u \in b.case.tunnels : \E j \in Hops(u) : x = NewTransitTunnel(u, j) BY DEF BuildSound
  <2>2. PICK j \in Hops(u) : x = NewTransitTunnel(u, j) BY <2>1
  <2>3. TunnelIn(b.case, u) BY DEF BuildSound, TunnelIn
  <2>4. x.id = <<u.name, j>> BY <2>2, <2>3, TransitIs
  <2>5. u.name = t.name /\ j = i BY <1>6, <1>7, <2>4
  <2>6. u = t BY <1>3, <2>3, <2>5, TunnelIs
  <2> QED BY <2>2, <2>5, <2>6
<1>9. i <= n /\ i + 1 \in 1 .. (n + 1) /\ (i < n \/ i = n)
  <2> HIDE DEF n
  <2>1. i \in 1 .. n BY <1>8 DEF Hops, n
  <2> QED BY <1>4, <2>1
<1>10. /\ i = n => (x.role = "endpoint") = ~t.inbound
       /\ i < n => x.role # "endpoint"
       /\ i < n => x.nextRouter = t.hops[i + 1] /\ x.nextID = <<t.name, i + 1>>
       /\ (i = n /\ t.inbound) => x.nextRouter = TBSelf /\ x.nextID = <<t.name, i + 1>>
  BY <1>3, <1>8, TransitIs
<1> DEFINE next == IF t.inbound THEN On(t, 1, i + 1) ELSE Off(t, n + 1, i + 1)
           e == Encrypted(d, d.id)
<1>11. Apply(layers, "E", <<t.name, i>>) = next
  <2>1. CASE t.inbound
    <3>1. 1 \in Nat /\ 1 <= i BY <1>4
    <3> QED BY <1>4, <2>1, <3>1, LayersAre DEF layers
  <2>2. CASE ~t.inbound
    <3>1. n + 1 \in Nat /\ i < n + 1 BY <1>4, <1>9
    <3> QED BY <1>4, <2>2, <3>1, LayersAre DEF layers
  <2> QED BY <2>1, <2>2
<1> HIDE DEF next
<1>12. e = [tunnel |-> t, to |-> to, id |-> <<t.name, i>>, layers |-> next]
  BY ONLY <1>5, <1>7, <1>11 DEF Encrypted
<1> HIDE DEF e
<1>13. CASE x.role = "endpoint"
  <2>1. i = n /\ ~t.inbound BY <1>4, <1>9, <1>10, <1>13
  <2>2. next = <<>>
    <3>1. n + 1 \in Nat BY <1>4
    <3> QED BY <2>1, <3>1, LayersAre DEF next
  <2>3. e.layers = <<>> BY ONLY <1>12, <2>2
  <2>4. a = [b EXCEPT !.data = b.data \ {d}, !.received = b.received \cup {e}]
    BY <1>6, <1>13 DEF e
  <2>5. /\ BuildFields(a)
        /\ a.case = b.case /\ a.answers = b.answers /\ a.transit = b.transit
        /\ a.pending = b.pending /\ a.established = b.established
        /\ a.failed = b.failed /\ a.copies = b.copies /\ a.net = b.net
        /\ a.read = b.read /\ a.data = b.data \ {d} /\ a.received = b.received \cup {e}
    <3> HIDE DEF b
    <3> QED BY <1>0, <2>4 DEF BuildFields
  <2>6. BuildSound(a) BY <2>3, <2>5, SoundGrows DEF BuildSound
  <2> QED BY <2>6 DEF a
<1>14. CASE x.role # "endpoint"
  <2> DEFINE f == [e EXCEPT !.to = x.nextRouter, !.id = x.nextID]
  <2>1. i = n => t.inbound BY <1>4, <1>10, <1>14
  <2>2. /\ x.nextRouter = IF i + 1 <= n THEN t.hops[i + 1] ELSE TBSelf
        /\ x.nextID = <<t.name, i + 1>>
    <3>1. i < n => i + 1 <= n BY <1>4
    <3>2. i = n => ~(i + 1 <= n) BY <1>4
    <3> QED BY <1>9, <1>10, <2>1, <3>1, <3>2
  <2> HIDE DEF n
  <2>3. f = [tunnel |-> t, to |-> x.nextRouter, id |-> x.nextID, layers |-> next]
    <3> DEFINE id == <<t.name, i>>
               router == x.nextRouter
               nextID == x.nextID
    <3>1. e = [tunnel |-> t, to |-> to, id |-> id, layers |-> next] BY <1>12
    <3>2. f = [e EXCEPT !.to = router, !.id = nextID] OBVIOUS
    <3> HIDE DEF id, router, nextID, f
    <3>3. f = [tunnel |-> t, to |-> router, id |-> nextID, layers |-> next] BY ONLY <3>1, <3>2
    <3> QED BY <3>3 DEF router, nextID
  <2>4. a = [b EXCEPT !.data = (b.data \ {d}) \cup {f}] BY <1>6, <1>14 DEF e
  <2> HIDE DEF f
  <2>5. DataAt(f, t, i + 1)
    <3>1. i + 1 = n + 1 => t.inbound BY <1>4, <2>1
    <3> QED BY <2>2, <2>3, <3>1 DEF DataAt, next, n
  <2>6. /\ BuildFields(a)
        /\ a.case = b.case /\ a.answers = b.answers /\ a.transit = b.transit
        /\ a.pending = b.pending /\ a.established = b.established
        /\ a.failed = b.failed /\ a.copies = b.copies /\ a.net = b.net
        /\ a.read = b.read /\ a.data = (b.data \ {d}) \cup {f} /\ a.received = b.received
    <3> HIDE DEF b
    <3> QED BY <1>0, <2>4 DEF BuildFields
  <2>7. DataOK(a, f) BY <1>9, <2>5, <2>6 DEF DataOK, n
  <2>8. \A u \in a.data \ b.data : DataOK(a, u) BY <2>6, <2>7
  <2>9. BuildSound(a) BY <2>6, <2>8, SoundGrows DEF BuildSound
  <2> QED BY <2>9 DEF a
<1> QED BY <1>13, <1>14

LEMMA CreatorReceives ==
  ASSUME BuildSound(build), NEW d \in build.data, ReceiveData(d)
  PROVE  BuildSound(build')
<1> DEFINE b == build
           a == build'
           p == PeelLayers(d.tunnel, d)
<1>0. BuildFields(b) BY DEF BuildSound
<1>1. PICK t \in b.case.tunnels : \E i \in 1 .. (NumHops(t) + 1) : DataAt(d, t, i)
  BY DEF BuildSound, DataOK
<1> DEFINE n == NumHops(t)
<1>2. PICK i \in 1 .. (n + 1) : DataAt(d, t, i) BY <1>1
<1>3. TunnelIn(b.case, t) BY DEF BuildSound, TunnelIn
<1>4. n \in Nat BY <1>3, TunnelIs
<1> DEFINE to == IF i <= n THEN t.hops[i] ELSE TBSelf
           layers == IF t.inbound THEN On(t, 1, i) ELSE Off(t, n + 1, i)
<1>5. /\ d = [tunnel |-> t, to |-> to, id |-> <<t.name, i>>, layers |-> layers]
      /\ i = n + 1 => t.inbound
  BY <1>2 DEF DataAt
<1>6. d.id = <<d.tunnel.name, NumHops(d.tunnel) + 1>> BY DEF ReceiveData
<1> HIDE DEF to, layers
<1>7. d.tunnel = t /\ d.id = <<t.name, i>> BY ONLY <1>5
<1>8. i = n + 1 /\ t.inbound BY <1>5, <1>6, <1>7
<1>9. d = [tunnel |-> t, to |-> to, id |-> <<t.name, i>>, layers |-> On(t, 1, n + 1)]
  BY <1>5, <1>8 DEF layers
<1>10. p = [tunnel |-> t, to |-> to, id |-> <<t.name, i>>, layers |-> <<>>]
  <2> HIDE DEF b
  <2> QED BY <1>4, <1>7, <1>9, DataIsPeeled
<1>11. a = [b EXCEPT !.data = b.data \ {d}, !.received = b.received \cup {p}] BY DEF ReceiveData
<1> HIDE DEF p
<1>12. p.layers = <<>> BY ONLY <1>10
<1>13. /\ BuildFields(a)
       /\ a.case = b.case /\ a.answers = b.answers /\ a.transit = b.transit
       /\ a.pending = b.pending /\ a.established = b.established
       /\ a.failed = b.failed /\ a.copies = b.copies /\ a.net = b.net
       /\ a.read = b.read /\ a.data = b.data \ {d} /\ a.received = b.received \cup {p}
  <2> HIDE DEF a, b
  <2> QED BY <1>0, <1>11 DEF BuildFields
<1> HIDE DEF a
<1>14. BuildSound(a) BY <1>12, <1>13, SoundGrows DEF BuildSound
<1> QED BY <1>14 DEF a

LEMMA BuildInitially == TunnelBuildInit => BuildIInv
<1> SUFFICES ASSUME TunnelBuildInit PROVE BuildSound(build) BY DEF BuildIInv
<1>1. PICK c \in TBCases :
        build = [case |-> c, pending |-> {}, established |-> {}, failed |-> {},
                 transit |-> {}, net |-> {}, answers |-> {}, read |-> {}, data |-> {},
                 received |-> {}, copies |-> 0]
  BY DEF TunnelBuildInit, TunnelBuildInitWith
<1>2. c.copies \in Nat BY TunnelBuildAssumption
<1>3. /\ BuildFields(build)
      /\ build.case = c /\ build.pending = {} /\ build.established = {} /\ build.failed = {}
      /\ build.transit = {} /\ build.net = {} /\ build.answers = {} /\ build.read = {}
      /\ build.data = {} /\ build.received = {} /\ build.copies = 0
  BY ONLY <1>1 DEF BuildFields
<1> QED BY <1>2, <1>3 DEF BuildSound

LEMMA BuildSteps == BuildIInv /\ [TunnelBuildNext]_buildVars => BuildIInv'
<1> SUFFICES ASSUME BuildSound(build), [TunnelBuildNext]_buildVars PROVE BuildSound(build')
  BY DEF BuildIInv
<1>1. CASE UNCHANGED buildVars BY <1>1 DEF buildVars
<1>2. ASSUME NEW t \in build.case.tunnels, Build(t) \/ CreationTimeout(t) \/ SendData(t)
      PROVE  BuildSound(build')
  BY <1>2, BuildSends, CreationTimesOut, DataIsSent
<1>3. ASSUME NEW m \in build.net, NEW copy \in BOOLEAN, NEW accept \in BOOLEAN,
             DeliverBuild(m, accept, copy)
      PROVE  BuildSound(build')
  BY <1>3, HopAnswers
<1>4. ASSUME NEW m \in build.net, NEW copy \in BOOLEAN, DeliverReply(m, copy)
      PROVE  BuildSound(build')
  BY <1>4, ReplyArrives
<1>5. ASSUME NEW d \in build.data, TransitData(d) \/ ReceiveData(d) PROVE BuildSound(build')
  BY <1>5, HopPassesOn, CreatorReceives
<1> QED BY <1>1, <1>2, <1>3, <1>4, <1>5 DEF TunnelBuildNext

LEMMA BuildIsSound == BuildIInv => TunnelBuildSafe
<1> SUFFICES ASSUME BuildSound(build) PROVE TunnelBuildSafe BY DEF BuildIInv
<1>1. TunnelBuildTypeOK
  <2>1. \A m \in build.net : Len(m.records) = NumRecords(m.tunnel)
    <3> TAKE m \in build.net
    <3>1. MessageOK(build, m) BY DEF BuildSound
    <3>2. NumRecords(m.tunnel) \in Nat
      <4>1. TunnelIn(build.case, m.tunnel) BY <3>1 DEF BuildSound, MessageOK, TunnelIn
      <4> QED BY <4>1, TunnelIs
    <3>3. m.records = [k \in 1 .. NumRecords(m.tunnel) |-> m.records[k]]
      BY <3>1 DEF MessageOK, MessageAt, RecordsOK
    <3> DEFINE rs == m.records
               N == NumRecords(m.tunnel)
    <3> HIDE DEF rs, N
    <3>4. N \in Nat /\ rs = [k \in 1 .. N |-> rs[k]] BY <3>2, <3>3 DEF rs, N
    <3>5. Len(rs) = N BY ONLY <3>4, LenProperties
    <3> QED BY <3>5 DEF rs, N
  <2> QED BY <2>1 DEF TunnelBuildTypeOK, BuildSound
<1>2. RepliesAreReadable
  <2> SUFFICES ASSUME NEW x \in build.read
               PROVE  x[3] \in {IF a[3] THEN "accept" ELSE "reject" :
                                  a \in {c \in build.answers : c[1] = x[1] /\ c[2] = x[2]}}
    BY DEF RepliesAreReadable
  <2>1. PICK t \in build.case.tunnels : \E i \in Hops(t), y \in BOOLEAN :
          x = <<t, i, IF y THEN "accept" ELSE "reject">> /\ <<t, i, y>> \in build.answers
    BY DEF BuildSound, ReadOK
  <2>2. PICK i \in Hops(t), y \in BOOLEAN :
          x = <<t, i, IF y THEN "accept" ELSE "reject">> /\ <<t, i, y>> \in build.answers
    BY <2>1
  <2>3. <<t, i, y>> \in {c \in build.answers : c[1] = x[1] /\ c[2] = x[2]} BY <2>2
  <2>4. x[3] = IF <<t, i, y>>[3] THEN "accept" ELSE "reject" BY <2>2
  <2> QED BY <2>3, <2>4
<1>3. EstablishedIsChained
  <2> SUFFICES ASSUME NEW t \in build.established, NEW i \in 1 .. NumHops(t)
               PROVE  \E x \in build.transit :
                        /\ x.router = t.hops[i] /\ x.id = <<t.name, i>>
                        /\ i < NumHops(t) =>
                             \E y \in build.transit : y.router = x.nextRouter /\ y.id = x.nextID
                        /\ (i = 1 /\ NumHops(t) > 1) => (x.role = "gateway") = t.inbound
                        /\ i = NumHops(t) => (x.role = "endpoint") = ~t.inbound
    BY DEF EstablishedIsChained
  <2>1. TunnelIn(build.case, t) /\ i \in Hops(t) BY DEF BuildSound, TunnelIn, Hops
  <2>2. \A j \in Hops(t) : NewTransitTunnel(t, j) \in build.transit
    <3> TAKE j \in Hops(t)
    <3>1. <<t, j, TRUE>> \in build.answers BY DEF BuildSound
    <3>2. AnswerOK(build, <<t, j, TRUE>>) BY <3>1 DEF BuildSound
    <3> QED BY <3>2 DEF AnswerOK
  <2> DEFINE x == NewTransitTunnel(t, i)
  <2>3. /\ x.router = t.hops[i] /\ x.id = <<t.name, i>>
        /\ i = NumHops(t) => (x.role = "endpoint") = ~t.inbound
        /\ (i = 1 /\ NumHops(t) > 1) => (x.role = "gateway") = t.inbound
        /\ i < NumHops(t) => x.nextRouter = t.hops[i + 1] /\ x.nextID = <<t.name, i + 1>>
    BY <2>1, TransitIs
  <2>4. x \in build.transit BY <2>1, <2>2
  <2> HIDE DEF x
  <2>5. ASSUME i < NumHops(t)
        PROVE  \E y \in build.transit : y.router = x.nextRouter /\ y.id = x.nextID
    <3>1. i + 1 \in Hops(t)
      <4>1. NumHops(t) \in Nat BY <2>1, TunnelIs
      <4> QED BY <2>5, <4>1 DEF Hops
    <3>2. /\ NewTransitTunnel(t, i + 1).router = t.hops[i + 1]
          /\ NewTransitTunnel(t, i + 1).id = <<t.name, i + 1>>
      BY <2>1, <3>1, TransitIs
    <3>3. NewTransitTunnel(t, i + 1) \in build.transit BY <2>2, <3>1
    <3> QED BY <2>3, <2>5, <3>2, <3>3
  <2> QED BY <2>3, <2>4, <2>5
<1>4. PlainAtTheEnd BY DEF BuildSound, PlainAtTheEnd
<1> QED BY <1>1, <1>2, <1>3, <1>4 DEF TunnelBuildSafe

\* For every number of hops and order of the records, however messages are lost,
\* doubled or delayed, and also if one router is several hops: the creator reads
\* what the hops answered, an established tunnel is a chain of hops, and data
\* comes out as it went in (Build, HandleTunnelBuildResponse and the hops'
\* HandleBuildRequestRecords).
THEOREM TunnelBuildIsSafe == TunnelBuildSpec => []TunnelBuildSafe
<1>1. TunnelBuildSpec => []BuildIInv
  BY BuildInitially, BuildSteps, PTL DEF TunnelBuildSpec
<1> QED BY <1>1, BuildIsSound, PTL
=============================================================================
