------------------------------ MODULE Tunnels ------------------------------
(***************************************************************************)
(* The life of our own tunnels: Tunnels (tunnel/Tunnel.cpp) builds, lists, *)
(* recreates and expires them, TunnelPool (tunnel/TunnelPool.cpp) keeps    *)
(* those of one destination and tests them, the build replies come in      *)
(* through I2NPProtocol.cpp.                                               *)
(*                                                                         *)
(* Two threads meet here.  The tunnels thread handles messages and, every  *)
(* 15 seconds, runs ManageTunnels; step says where it is.  The thread of a *)
(* destination's owner stops its pool at any moment.  The peers answer a   *)
(* build request, or a test, or not at all, at any moment.                 *)
(*                                                                         *)
(* A tunnel is a slot of Inbound or Outbound: the bound on how many exist  *)
(* at one time.  Time passes in ticks.                                     *)
(***************************************************************************)
EXTENDS Integers, FiniteSets, FiniteSetsExt

CONSTANTS
  Inbound, Outbound,            \* slots for tunnel objects
  Pools, Exploratory, NoPool,   \* pools; the router's own (NoPool: left out)
  m_NumInboundTunnels, m_NumOutboundTunnels,
  MinTunnels,                   \* 5 in ManageInbound/OutboundTunnels
  TUNNEL_CREATION_TIMEOUT, TUNNEL_EXPIRATION_TIMEOUT,
  TUNNEL_EXPIRATION_THRESHOLD, TUNNEL_RECREATION_THRESHOLD  \* in ticks

ASSUME TunnelsAssumption ==
  /\ Inbound \cap Outbound = {} /\ NoPool \notin Pools
  /\ Exploratory \in Pools \cup {NoPool}
  /\ {m_NumInboundTunnels, m_NumOutboundTunnels, MinTunnels,
      TUNNEL_CREATION_TIMEOUT, TUNNEL_EXPIRATION_TIMEOUT,
      TUNNEL_EXPIRATION_THRESHOLD, TUNNEL_RECREATION_THRESHOLD} \subseteq Nat
  /\ TUNNEL_EXPIRATION_THRESHOLD <= TUNNEL_RECREATION_THRESHOLD
  /\ TUNNEL_RECREATION_THRESHOLD < TUNNEL_EXPIRATION_TIMEOUT

Slots == Inbound \cup Outbound

TunnelState == {"Pending", "BuildReplyReceived", "BuildFailed", "Established",
                "TestFailed", "Failed", "Expiring"}

VARIABLES
  tunnel,          \* the object in each slot
  m_PendingTunnels,\* keys of m_PendingInboundTunnels, m_PendingOutboundTunnels
  m_Tunnels,       \* how often a tunnel is in m_InboundTunnels, m_OutboundTunnels
  m_Pools,         \* pools that were created
  pool,            \* the TunnelPool objects
  detaching,       \* where the owner's thread is in StopTunnelPool
  step             \* where the tunnels thread is

vars == <<tunnel, m_PendingTunnels, m_Tunnels, m_Pools, pool, detaching, step>>

NoTunnel == [m_State |-> "None", age |-> 0, m_Pool |-> NoPool, m_IsRecreated |-> FALSE]

NewTunnel(p) == [NoTunnel EXCEPT !.m_State = "Pending", !.m_Pool = p]

NewPool == [m_IsActive |-> FALSE, m_LocalDestination |-> FALSE,
            tunnels |-> {}, m_Tests |-> {}, m_LeaseSet |-> {}]

Idle == [at |-> "Run", todo |-> {}, tunnel |-> {}]

Init ==
  /\ tunnel = [t \in Slots |-> NoTunnel]
  /\ m_PendingTunnels = {}
  /\ m_Tunnels = [t \in Slots |-> 0]
  /\ m_Pools = {}
  /\ pool = [p \in Pools |-> NewPool]
  /\ detaching = [p \in Pools |-> "no"]
  /\ step = Idle
-----------------------------------------------------------------------------
Listed == {t \in Slots : m_Tunnels[t] > 0}

IsEstablished(tn, t) == tn[t].m_State = "Established"

\* A slot may be used again once nothing refers to the tunnel it held.
Free(D) == {t \in D : tunnel[t].m_State = "None"}

Drop(tn, gone) == [t \in Slots |-> IF t \in gone THEN NoTunnel ELSE tn[t]]

\* What is left of the objects of gone when a container drops them: a test
\* still holds a shared_ptr to its tunnels.
Held(pl) == UNION {{x[1], x[2]} : x \in UNION {pl[p].m_Tests : p \in Pools}}

\* CreateTunnel, and SetTunnelPool by its caller: want gives the pool of each
\* tunnel that is asked for.  Those in optional are not created when no peers
\* are found; else only the slots bound how many are.
Creations(D, want, optional) ==
  {f \in UNION {[w -> Free(D)] : w \in SUBSET DOMAIN want} :
     /\ \A x, y \in DOMAIN f : x # y => f[x] # f[y]
     /\ DOMAIN want \ optional \subseteq DOMAIN f \/ Cardinality(DOMAIN f) = Cardinality(Free(D))}

Created(tn, f, want) ==
  [t \in Slots |-> IF \E x \in DOMAIN f : f[x] = t
                   THEN NewTunnel(want[CHOOSE x \in DOMAIN f : f[x] = t])
                   ELSE tn[t]]

AddPendingTunnels(pending, f) == pending \cup {f[x] : x \in DOMAIN f}

\* GetNextInboundTunnel of the pool, whose tunnels are listed, or else of all.
HasNextInboundTunnel == \E i \in Listed \cap Inbound : IsEstablished(tunnel, i)
-----------------------------------------------------------------------------
\* The end date of the lease for i has passed, after which nobody uses it.
Ended(tn, i) == tn[i].age + TUNNEL_EXPIRATION_THRESHOLD >= TUNNEL_EXPIRATION_TIMEOUT

\* UpdateLeaseSet: the leases that have not ended, for the established
\* inbound tunnels of the pool, while it has a local destination.  The router's
\* own destination keeps no LeaseSet.
SetLeaseSetUpdated(pl, tn, p) ==
  IF pl[p].m_LocalDestination /\ p # Exploratory
  THEN [pl EXCEPT ![p].m_LeaseSet =
          {i \in pl[p].tunnels \cap Inbound : IsEstablished(tn, i) /\ ~Ended(tn, i)}]
  ELSE pl

\* TunnelExpired of the pools of the expired tunnels.  It walks over copies of
\* the entries of m_Tests, which therefore stay as they are.
TunnelExpired(pl, expired) == [p \in Pools |-> [pl[p] EXCEPT !.tunnels = @ \ expired]]
-----------------------------------------------------------------------------
Tick ==
  /\ step = Idle
  /\ LET older == [t \in Slots |->
           IF tunnel[t].m_State = "None" THEN NoTunnel
           ELSE [tunnel[t] EXCEPT !.age = Min({@ + 1, TUNNEL_EXPIRATION_TIMEOUT + 1})]]
     IN /\ tunnel' = older
        /\ pool' = [p \in Pools |-> [pool[p] EXCEPT !.m_LeaseSet =
                      {i \in @ : ~Ended(older, i)}]]
  /\ UNCHANGED <<m_PendingTunnels, m_Tunnels, m_Pools, detaching, step>>

\* GetPendingTunnel answers only for a pending tunnel, once.
GetPendingTunnel(t) == t \in m_PendingTunnels /\ tunnel[t].m_State = "Pending"

\* Mutant: it is not checked that the pool is still active.
JoinsAnyPool(p) == p # NoPool

\* A new tunnel goes to the pool it was built for while that is active.
JoinsPool(p) == p # NoPool /\ pool[p].m_IsActive

\* A build reply in which some hop declined.
HandleBuildDeclined(t) ==
  /\ step = Idle /\ GetPendingTunnel(t)
  /\ tunnel' = [tunnel EXCEPT ![t].m_State = "BuildFailed"]
  /\ UNCHANGED <<m_PendingTunnels, m_Tunnels, m_Pools, pool, detaching, step>>

\* A build reply in which every hop agreed: AddInboundTunnel, AddOutboundTunnel.
\* A tunnel without a pool gets a symmetric outbound tunnel; one whose pool
\* is active is on its way into the pool; else it is taken from its pool.
HandleBuildAccepted(t) ==
  /\ step = Idle /\ GetPendingTunnel(t)
  /\ m_Tunnels' = [m_Tunnels EXCEPT ![t] = IF t \in Inbound THEN 1 ELSE @ + 1]
  /\ LET p    == tunnel[t].m_Pool
         tn   == [tunnel EXCEPT ![t].m_State = "Established"]
         want == IF t \in Inbound /\ p = NoPool THEN [x \in {t} |-> NoPool] ELSE <<>>
     IN IF JoinsPool(p)
        THEN /\ tunnel' = tn
             /\ step' = [step EXCEPT !.at = "TunnelCreated", !.tunnel = {t}]
             /\ UNCHANGED m_PendingTunnels
        ELSE \E f \in Creations(Outbound, want, {}) :
               /\ tunnel' = Created([tn EXCEPT ![t].m_Pool = NoPool], f, want)
               /\ m_PendingTunnels' = AddPendingTunnels(m_PendingTunnels, f)
               /\ UNCHANGED step
  /\ UNCHANGED <<m_Pools, pool, detaching>>

\* TunnelCreated of the pool: it returns if it finds the pool inactive; if it
\* did not, the owner may have stopped the pool before the insertion.
TunnelCreated ==
  /\ step.at = "TunnelCreated"
  /\ step' = Idle
  /\ \E t \in step.tunnel :
       LET p     == tunnel[t].m_Pool
           added == [pool EXCEPT ![p].tunnels = @ \cup {t}]
       IN \/ pool' = IF t \in Inbound THEN SetLeaseSetUpdated(added, tunnel, p) ELSE added
          \/ ~pool[p].m_IsActive /\ UNCHANGED pool
  /\ UNCHANGED <<tunnel, m_PendingTunnels, m_Tunnels, m_Pools, detaching>>

Revived(tn, i) ==
  IF tn[i].m_State = "Failed" THEN [tn EXCEPT ![i].m_State = "Established"] ELSE tn

\* Tunnel data for one of our inbound tunnels shows that it is alive.
HandleTunnelDataMsg(i) ==
  /\ step = Idle /\ i \in Listed /\ tunnel[i].m_State = "Failed"
  /\ tunnel' = Revived(tunnel, i)
  /\ UNCHANGED <<m_PendingTunnels, m_Tunnels, m_Pools, pool, detaching, step>>

\* The DeliveryStatus of test x = <<outbound, inbound>> of the pool arrives
\* through its inbound tunnel, if that one still has its pool.
ProcessDeliveryStatus(p, x) ==
  /\ step = Idle /\ x[2] \in Listed /\ tunnel[x[2]].m_Pool = p
  /\ LET alive    == Revived(tunnel, x[2])
         restored == [t \in Slots |->
                        IF t \in {x[1], x[2]} /\ alive[t].m_State = "TestFailed"
                        THEN [alive[t] EXCEPT !.m_State = "Established"] ELSE alive[t]]
         pl       == [pool EXCEPT ![p].m_Tests = @ \ {x}]
     IN /\ pool' = pl
        /\ tunnel' = Drop(restored, {x[1], x[2]} \ (Held(pl) \cup Listed \cup m_PendingTunnels))
  /\ UNCHANGED <<m_PendingTunnels, m_Tunnels, m_Pools, detaching, step>>
-----------------------------------------------------------------------------
\* Mutant: a peer that never answers keeps its tunnel pending.
TimedOutNever(t) == tunnel[t].m_State # "Pending"

\* ManageTunnels, the first of its parts.  A pending tunnel leaves the map when
\* it timed out, failed or was established.
TimedOut(t) == tunnel[t].m_State = "Pending" => tunnel[t].age > TUNNEL_CREATION_TIMEOUT

ManagePendingTunnels ==
  /\ step = Idle
  /\ LET gone == {t \in m_PendingTunnels : TimedOut(t)}
     IN /\ m_PendingTunnels' = m_PendingTunnels \ gone
        /\ tunnel' = Drop(tunnel, gone \ Listed)
  /\ step' = [Idle EXCEPT !.at = "ManageInboundTunnels"]
  /\ UNCHANGED <<m_Tunnels, m_Pools, pool, detaching>>

Expired(D) == {t \in Listed \cap D : tunnel[t].age > TUNNEL_EXPIRATION_TIMEOUT}

Recreated(D) ==
  {t \in (Listed \cap D) \ Expired(D) :
     /\ IsEstablished(tunnel, t) /\ ~tunnel[t].m_IsRecreated
     /\ tunnel[t].age + TUNNEL_RECREATION_THRESHOLD > TUNNEL_EXPIRATION_TIMEOUT}

Expiring(D) ==
  {t \in (Listed \cap D) \ Expired(D) :
     /\ IsEstablished(tunnel, t)
     /\ tunnel[t].age + TUNNEL_EXPIRATION_THRESHOLD > TUNNEL_EXPIRATION_TIMEOUT}

\* Mutant: an expired tunnel stays in its pool.
ManagedPoolsKeep(D) == pool

ManagedPools(D) == TunnelExpired(pool, Expired(D))

\* The loop over m_InboundTunnels or m_OutboundTunnels: the tunnels as it
\* leaves them, but for the replacements.
Managed(D) ==
  LET marked == [t \in Slots |->
        [tunnel[t] EXCEPT !.m_IsRecreated = @ \/ t \in Recreated(D),
                          !.m_State = IF t \in Expiring(D) THEN "Expiring" ELSE @,
                          !.m_Pool = IF t \in Expired(D) THEN NoPool ELSE @]]
  IN Drop(marked, Expired(D) \ (Held(pool) \cup m_PendingTunnels))

\* The pools that are asked for a replacement.
Replaced(D) ==
  LET with == {t \in Recreated(D) : tunnel[t].m_Pool # NoPool}
  IN IF D = Inbound \/ HasNextInboundTunnel
     THEN [t \in with |-> tunnel[t].m_Pool] ELSE <<>>

ManageInboundTunnels ==
  /\ step.at = "ManageInboundTunnels"
  /\ step' = [step EXCEPT !.at = "ManageOutboundTunnels"]
  /\ m_Tunnels' = [t \in Slots |-> IF t \in Expired(Inbound) THEN 0 ELSE m_Tunnels[t]]
  /\ LET left  == (Listed \cap Inbound) \ Expired(Inbound)
         short == left = {} \/ Listed \cap Outbound = {} \/ Cardinality(left) < MinTunnels
         \* a zero-hop or a one-hop tunnel, for the replacements see Replaced
         want  == [x \in DOMAIN Replaced(Inbound) \cup (IF short THEN {"new"} ELSE {}) |->
                     IF x = "new" THEN NoPool ELSE tunnel[x].m_Pool]
     IN /\ \E f \in Creations(Inbound, want, {}) :
             /\ tunnel' = Created(Managed(Inbound), f, want)
             /\ m_PendingTunnels' = AddPendingTunnels(m_PendingTunnels, f)
        /\ IF left = {} /\ Exploratory \in Pools \ m_Pools
           THEN /\ m_Pools' = m_Pools \cup {Exploratory}
                /\ pool' = [ManagedPools(Inbound) EXCEPT ![Exploratory].m_IsActive = TRUE,
                                              ![Exploratory].m_LocalDestination = TRUE]
           ELSE pool' = ManagedPools(Inbound) /\ UNCHANGED m_Pools
  /\ UNCHANGED detaching

\* ManageTunnelPools goes on with the pools in todo.
NextPool(todo) ==
  IF todo = {} THEN Idle ELSE [Idle EXCEPT !.at = "ManageTunnelPools", !.todo = todo]

\* One more outbound tunnel needs an inbound one for the reply and a router.
ManageOutboundTunnels ==
  /\ step.at = "ManageOutboundTunnels"
  /\ step' = NextPool(m_Pools)
  /\ m_Tunnels' = [t \in Slots |-> IF t \in Expired(Outbound) THEN 0 ELSE m_Tunnels[t]]
  /\ pool' = ManagedPools(Outbound)
  /\ LET short == /\ Cardinality((Listed \cap Outbound) \ Expired(Outbound)) < MinTunnels
                  /\ HasNextInboundTunnel
         want  == [x \in DOMAIN Replaced(Outbound) \cup (IF short THEN {"new"} ELSE {}) |->
                     IF x = "new" THEN NoPool ELSE tunnel[x].m_Pool]
     IN \E f \in Creations(Outbound, want, {"new"}) :
          /\ tunnel' = Created(Managed(Outbound), f, want)
          /\ m_PendingTunnels' = AddPendingTunnels(m_PendingTunnels, f)
  /\ UNCHANGED <<m_Pools, detaching>>

\* How many more tunnels CreateTunnels asks for: only established ones count.
Needed(p, D, num) ==
  1 .. num - Cardinality({t \in pool[p].tunnels \cap D : IsEstablished(tunnel, t)})

SkipPool(p) ==
  /\ step.at = "ManageTunnelPools" /\ p \in step.todo /\ ~pool[p].m_IsActive
  /\ step' = NextPool(step.todo \ {p})
  /\ UNCHANGED <<tunnel, m_PendingTunnels, m_Tunnels, m_Pools, pool, detaching>>

CreateTunnels(p) ==
  /\ step.at = "ManageTunnelPools" /\ p \in step.todo /\ pool[p].m_IsActive
  /\ step' = [step EXCEPT !.at = "TestTunnels", !.todo = @ \ {p}, !.tunnel = {p}]
  /\ LET wantIn  == [x \in Needed(p, Inbound, m_NumInboundTunnels) |-> p]
         wantOut == [x \in IF HasNextInboundTunnel
                           THEN Needed(p, Outbound, m_NumOutboundTunnels) ELSE {} |-> p]
     IN \E f \in Creations(Inbound, wantIn, DOMAIN wantIn),
           g \in Creations(Outbound, wantOut, DOMAIN wantOut) :
          /\ tunnel' = Created(Created(tunnel, f, wantIn), g, wantOut)
          /\ m_PendingTunnels' = AddPendingTunnels(AddPendingTunnels(m_PendingTunnels, f), g)
  /\ UNCHANGED <<m_Tunnels, m_Pools, pool, detaching>>

\* The new tests pair the tunnels of the pool that have not failed, as many
\* as there are of both kinds.  (The order of creation decides which; here any.)
NewTests(tn, members) ==
  LET outs == {o \in members \cap Outbound : tn[o].m_State # "Failed"}
      ins  == {i \in members \cap Inbound : tn[i].m_State # "Failed"}
      Tests == {x \in SUBSET (outs \X ins) :
                  \A y, z \in x : (y[1] = z[1]) <=> (y[2] = z[2])}
  IN {x \in Tests : Cardinality(x) = Min({Cardinality(outs), Cardinality(ins)})}

\* Mutant: the LeaseSet is left as it is when a tunnel failed.
TestedPoolsKeepLeaseSet(tn, p, failed) ==
  [pool EXCEPT ![p].tunnels = @ \ failed]

\* The pool without the failed tunnels, and its LeaseSet without them.
TestedPools(tn, p, failed) ==
  LET left == [pool EXCEPT ![p].tunnels = @ \ failed]
  IN IF failed \cap Inbound # {} THEN SetLeaseSetUpdated(left, tn, p) ELSE left

\* A test that is still open is a failure of both its tunnels; the second in a
\* row is the end of a tunnel.
TestTunnels ==
  /\ step.at = "TestTunnels"
  /\ step' = NextPool(step.todo)
  /\ \E p \in step.tunnel :
       LET open   == UNION {{x[1], x[2]} : x \in pool[p].m_Tests}
           failed == {t \in open : tunnel[t].m_State = "TestFailed"}
           tested == [t \in Slots |->
                        IF t \notin open THEN tunnel[t]
                        ELSE [tunnel[t] EXCEPT !.m_State =
                                IF t \in failed THEN "Failed" ELSE "TestFailed"]]
           pl     == TestedPools(tested, p, failed)
       IN \E x \in NewTests(tested, pl[p].tunnels) :
            /\ pool' = [pl EXCEPT ![p].m_Tests = x]
            /\ tunnel' = Drop(tested, open \ (Held(pool') \cup Listed \cup m_PendingTunnels))
  /\ UNCHANGED <<m_PendingTunnels, m_Tunnels, m_Pools, detaching>>
-----------------------------------------------------------------------------
\* The constructor of a ClientDestination creates its pool, active;
\* m_PoolsMutex keeps it out of ManageTunnelPools.
CreateTunnelPool(p) ==
  /\ step.at \notin {"ManageTunnelPools", "TestTunnels"}
  /\ p \notin m_Pools \cup {Exploratory}
  /\ m_Pools' = m_Pools \cup {p}
  /\ pool' = [pool EXCEPT ![p].m_IsActive = TRUE, ![p].m_LocalDestination = TRUE]
  /\ UNCHANGED <<tunnel, m_PendingTunnels, m_Tunnels, detaching, step>>

\* StopTunnelPool, in three steps of the owner's thread: SetActive, and the two
\* critical sections of DetachTunnels.
SetInactive(p) ==
  /\ p \in m_Pools \ {Exploratory} /\ pool[p].m_IsActive
  /\ pool' = [pool EXCEPT ![p].m_IsActive = FALSE, ![p].m_LocalDestination = FALSE]
  /\ detaching' = [detaching EXCEPT ![p] = "inbound"]
  /\ UNCHANGED <<tunnel, m_PendingTunnels, m_Tunnels, m_Pools, step>>

Detach(p, D) ==
  /\ tunnel' = [t \in Slots |-> IF t \in pool[p].tunnels \cap D
                                THEN [tunnel[t] EXCEPT !.m_Pool = NoPool] ELSE tunnel[t]]
  /\ UNCHANGED <<m_PendingTunnels, m_Tunnels, m_Pools, step>>

DetachInbound(p) ==
  /\ detaching[p] = "inbound"
  /\ Detach(p, Inbound)
  /\ pool' = [pool EXCEPT ![p].tunnels = @ \ Inbound]
  /\ detaching' = [detaching EXCEPT ![p] = "outbound"]

DetachOutbound(p) ==
  /\ detaching[p] = "outbound"
  /\ Detach(p, Outbound)
  /\ pool' = [pool EXCEPT ![p].tunnels = @ \ Outbound, ![p].m_Tests = {}]
  /\ detaching' = [detaching EXCEPT ![p] = "no"]
-----------------------------------------------------------------------------
Next ==
  \/ Tick
  \/ \E t \in Slots : HandleBuildDeclined(t) \/ HandleBuildAccepted(t)
  \/ TunnelCreated
  \/ \E i \in Inbound : HandleTunnelDataMsg(i)
  \/ \E p \in Pools : \E x \in pool[p].m_Tests : ProcessDeliveryStatus(p, x)
  \/ ManagePendingTunnels \/ ManageInboundTunnels \/ ManageOutboundTunnels
  \/ \E p \in Pools : SkipPool(p) \/ CreateTunnels(p)
  \/ TestTunnels
  \/ \E p \in Pools : \/ CreateTunnelPool(p) \/ SetInactive(p)
                      \/ DetachInbound(p) \/ DetachOutbound(p)

Spec == Init /\ [][Next]_vars

\* The tunnels thread goes through ManageTunnels every 15 seconds, the owner's
\* thread finishes StopTunnelPool, time passes.
Fairness ==
  /\ SF_vars(Tick)
  /\ WF_vars(TunnelCreated)
  /\ SF_vars(ManagePendingTunnels)
  /\ WF_vars(ManageInboundTunnels)
  /\ WF_vars(ManageOutboundTunnels)
  /\ WF_vars(\E p \in Pools : SkipPool(p) \/ CreateTunnels(p))
  /\ WF_vars(TestTunnels)
  /\ \A p \in Pools : WF_vars(DetachInbound(p)) /\ WF_vars(DetachOutbound(p))

FairSpec == Spec /\ Fairness
-----------------------------------------------------------------------------
\* The states, ages and pools of tunnels and the stages of the two threads.
TypeOK ==
  /\ tunnel \in [Slots -> [m_State : TunnelState \cup {"None"},
                           age : 0 .. TUNNEL_EXPIRATION_TIMEOUT + 1,
                           m_Pool : Pools \cup {NoPool}, m_IsRecreated : BOOLEAN]]
  /\ m_PendingTunnels \subseteq Slots
  /\ m_Tunnels \in [Slots -> Nat]
  /\ m_Pools \subseteq Pools
  /\ pool \in [Pools -> [m_IsActive : BOOLEAN, m_LocalDestination : BOOLEAN,
                         tunnels : SUBSET Slots, m_Tests : SUBSET (Outbound \X Inbound),
                         m_LeaseSet : SUBSET Inbound]]
  /\ detaching \in [Pools -> {"no", "inbound", "outbound"}]

\* A pool never hands out a tunnel that is gone, of another pool, or failed:
\* what its sets hold is listed, refers to the pool, and was established.
PoolTunnelsAreLive ==
  \A p \in Pools : \A t \in pool[p].tunnels :
    /\ t \in Listed /\ tunnel[t].m_Pool = p
    /\ tunnel[t].m_State \in {"Established", "TestFailed", "Expiring"}

\* A build reply that comes twice does not list its tunnel twice.
ListedOnce == \A t \in Slots : m_Tunnels[t] <= 1

\* A lease that has not ended leads to a tunnel of the pool that has not failed.
LeasesAreUsable ==
  \A p \in Pools : pool[p].m_LocalDestination =>
    \A i \in pool[p].m_LeaseSet : i \in pool[p].tunnels

\* Every pending tunnel is established, declined or given up: no answer of the
\* peers is needed for it.
PendingEnds == \A t \in Slots : t \in m_PendingTunnels ~> t \notin m_PendingTunnels

\* However the owner's thread and the tunnels thread interleave, a pool that
\* was stopped is in the end referred to by no tunnel and holds none.
StoppedPoolIsReleased ==
  \A p \in Pools : (p \in m_Pools /\ ~pool[p].m_IsActive) ~>
    [](pool[p].tunnels = {} /\ \A t \in Slots : tunnel[t].m_Pool # p)

\* Tunnels are well formed and listed once, however replies, timeouts and tests
\* come, and the leases of a pool lead to tunnels that can be used.
TunnelsSafe ==
  /\ TypeOK
  /\ ListedOnce
  /\ LeasesAreUsable
=============================================================================
