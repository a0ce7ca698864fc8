---------------------------- MODULE TunnelBuild ----------------------------
(***************************************************************************)
(* Building a tunnel and using it: Tunnel::Build and HandleTunnelBuild-    *)
(* Response of the creator, HandleBuildRequestRecords of every hop         *)
(* (I2NPProtocol.cpp), the transit tunnels the hops keep, and the layers   *)
(* of encryption that records and tunnel data wear on their way.           *)
(*                                                                         *)
(* Encryption is symbolic.  The layers of a record are the operations      *)
(* applied to it that have not been undone: encrypting undoes a decryption *)
(* with the same key if that is the outermost layer, and the other way     *)
(* round.  Only a record without layers can be read; anything else is      *)
(* random bytes.                                                           *)
(*                                                                         *)
(* Messages may be lost (never taken from the net), delayed, reordered and *)
(* doubled.  IDs and keys are random: hop i of tunnel t has ID and keys    *)
(* <<t, i>>, the creator's end of an inbound tunnel has ID <<t, n + 1>>.   *)
(***************************************************************************)
EXTENDS Integers, Sequences, FiniteSets, SequencesExt

CONSTANTS TBSelf,               \* the creator
          TBRouters,            \* the routers that may be hops
          STANDARD_NUM_RECORDS, \* 5
          TBCases               \* tunnels to build, copies, data messages

VARIABLE build

buildVars == <<build>>

\* A tunnel: its hops, its direction and the shuffled indices of records.
NumHops(t) == Len(t.hops)
NumRecords(t) == IF NumHops(t) <= STANDARD_NUM_RECORDS THEN STANDARD_NUM_RECORDS ELSE NumHops(t)
RecordIndex(t, i) == t.shuffle[i]

\* SelectNextHop keeps out the hop before only: a router may be several hops, and
\* so may the creator, whose own RouterInfo anyone may store.  The indices of
\* records and the random IDs are each their own, and no random bytes an ident.
ASSUME TunnelBuildAssumption ==
    /\ STANDARD_NUM_RECORDS \in Nat
    /\ TBRouters \cap {"random", "reply"} = {}
    /\ \A c \in TBCases :
         /\ c.copies \in Nat
         /\ \A t \in c.tunnels :
              /\ t.hops \in Seq(TBRouters) /\ NumHops(t) > 0 /\ t.inbound \in BOOLEAN
              /\ \A i \in 1..NumHops(t) : RecordIndex(t, i) \in 1..NumRecords(t)
              /\ \A i, j \in 1..NumHops(t) : RecordIndex(t, i) = RecordIndex(t, j) => i = j
              /\ \A u \in c.tunnels : u.name = t.name => u = t

(***************************************************************************)
(* Layers                                                                  *)
(***************************************************************************)
Apply(layers, op, key) ==
    IF layers # <<>> /\ Last(layers) = <<IF op = "E" THEN "D" ELSE "E", key>>
    THEN Front(layers) ELSE Append(layers, <<op, key>>)

Encrypted(r, key) == [r EXCEPT !.layers = Apply(@, "E", key)]
Decrypted(r, key) == [r EXCEPT !.layers = Apply(@, "D", key)]

Fake == [to |-> "random", hop |-> 0, ret |-> "random", layers |-> <<>>]

(***************************************************************************)
(* The creator                                                             *)
(***************************************************************************)
BuildRequestRecord(t, i) ==
    [to |-> t.hops[i], hop |-> i, ret |-> "request", layers |-> <<>>]

\* The hops before hop i, last one first: its record is decrypted with their
\* keys so that their encryptions make it readable when it reaches hop i.
LayeredRecord(t, i) ==
    LET after[j \in 0..(i - 1)] ==
          IF j = 0 THEN BuildRequestRecord(t, i) ELSE Decrypted(after[j - 1], <<t.name, i - j>>)
    IN after[i - 1]

BuildRecords(t) ==
    [k \in 1..NumRecords(t) |->
       IF \E i \in 1..NumHops(t) : RecordIndex(t, i) = k
       THEN LayeredRecord(t, CHOOSE i \in 1..NumHops(t) : RecordIndex(t, i) = k)
       ELSE Fake]

\* VariableTunnelBuild to the first hop.
BuildMsg(t) == [kind |-> "Build", to |-> t.hops[1], tunnel |-> t, hop |-> 1,
                records |-> BuildRecords(t)]

TunnelBuildInitWith(c) ==
    build = [case |-> c, pending |-> {}, established |-> {}, failed |-> {},
             transit |-> {}, net |-> {}, answers |-> {}, read |-> {}, data |-> {},
             received |-> {}, copies |-> 0]

TunnelBuildInit == \E c \in TBCases : TunnelBuildInitWith(c)

Known(t) == t \in build.pending \cup build.established \cup build.failed

Build(t) ==
    /\ ~Known(t)
    /\ build' = [build EXCEPT !.pending = @ \cup {t}, !.net = @ \cup {BuildMsg(t)}]

\* The records of the hops 1 to last are decrypted with the key of a hop.
DecryptedRecords(t, records, last, hop) ==
    [k \in DOMAIN records |->
       IF \E i \in 1..last : RecordIndex(t, i) = k THEN Decrypted(records[k], <<t.name, hop>>)
       ELSE records[k]]

\* Mutant: the record of the current hop is left out.
ReadRecordsBefore(t, records) ==
    LET n == NumHops(t)
        after[j \in 0..n] ==
          IF j = 0 THEN records ELSE DecryptedRecords(t, after[j - 1], n - j, n + 1 - j)
    IN after[n]

\* From the last hop to the first: the records before and including the hop
\* are decrypted with its reply key.
ReadRecords(t, records) ==
    LET n == NumHops(t)
        after[j \in 0..n] ==
          IF j = 0 THEN records ELSE DecryptedRecords(t, after[j - 1], n + 1 - j, n + 1 - j)
    IN after[n]

RetOf(r) == IF r.layers = <<>> THEN r.ret ELSE "random"

\* HandleTunnelBuildResponse of a pending tunnel; a reply for one that is not
\* pending any more is ignored.  Random bytes may hold the zero of an
\* agreement and are taken for one: RepliesAreReadable excludes them.
HandleTunnelBuildResponse(m) ==
    LET t == m.tunnel
        records == ReadRecords(t, m.records)
        rets == [i \in 1..NumHops(t) |-> RetOf(records[RecordIndex(t, i)])]
        agreed == \A i \in DOMAIN rets : rets[i] \in {"accept", "random"}
    IN [build EXCEPT !.pending = @ \ {t},
                     !.established = IF agreed THEN @ \cup {t} ELSE @,
                     !.failed = IF agreed THEN @ ELSE @ \cup {t},
                     !.read = @ \cup {<<t, i, rets[i]>> : i \in DOMAIN rets}]

\* ManagePendingTunnels: no answer within the time for creation.
CreationTimeout(t) ==
    /\ t \in build.pending
    /\ build.case.timeouts
    /\ build' = [build EXCEPT !.pending = @ \ {t}, !.failed = @ \cup {t}]

(***************************************************************************)
(* The hops                                                                *)
(***************************************************************************)
\* The flags of TunnelHopConfig: an inbound tunnel starts with a gateway, an
\* outbound one ends with an endpoint.
NewTransitTunnel(t, i) ==
    [router |-> t.hops[i], id |-> <<t.name, i>>,
     role |-> CASE i = NumHops(t) /\ ~t.inbound -> "endpoint"
                [] i = 1 /\ t.inbound -> "gateway"
                [] OTHER -> "participant",
     nextRouter |-> IF i < NumHops(t) THEN t.hops[i + 1]
                    ELSE IF t.inbound THEN TBSelf ELSE t.replyTo,
     nextID |-> IF i < NumHops(t) \/ t.inbound THEN <<t.name, i + 1>> ELSE t.replyID]

\* CreateTransitTunnel and AddTransitTunnel: a second one with the same ID is
\* deleted, and the request accepted all the same.
AddTransitTunnel(tunnels, t, i) ==
    IF \E x \in tunnels : x.router = t.hops[i] /\ x.id = <<t.name, i>> THEN tunnels
    ELSE tunnels \cup {NewTransitTunnel(t, i)}

\* The first record whose first bytes are our ident.
OurRecord(router, records) ==
    {k \in DOMAIN records :
       /\ records[k].to = router /\ records[k].layers = <<>>
       /\ \A l \in 1..(k - 1) : ~(records[l].to = router /\ records[l].layers = <<>>)}

\* HandleVariableTunnelBuildMsg at a hop: the record becomes the reply, every
\* record is encrypted with the hop's reply key, and the message goes on, by
\* the reply tunnel if the hop is an endpoint.
Answered(m, k, accept) ==
    LET i == m.records[k].hop
        t == m.tunnel
        replied == [m.records EXCEPT ![k].ret = IF accept THEN "accept" ELSE "reject",
                                     ![k].to = "reply"]
        records == [l \in DOMAIN replied |-> Encrypted(replied[l], <<t.name, i>>)]
    IN IF i < NumHops(t)
       THEN [m EXCEPT !.to = t.hops[i + 1], !.hop = i + 1, !.records = records]
       ELSE [m EXCEPT !.kind = IF t.inbound THEN "Build" ELSE "BuildReply",
                      !.to = TBSelf, !.hop = 0, !.records = records]

HandleBuildRequestRecords(m, accept) ==
    LET ours == OurRecord(m.to, m.records)
    IN IF ours = {} THEN build
       ELSE LET k == CHOOSE x \in ours : TRUE
            IN [build EXCEPT
                  !.net = @ \cup {Answered(m, k, accept)},
                  !.answers = @ \cup {<<m.tunnel, m.records[k].hop, accept>>},
                  !.transit = IF accept THEN AddTransitTunnel(@, m.tunnel, m.records[k].hop)
                              ELSE @]

\* A message is delivered; a copy may stay behind.  Its hop stands for the
\* message ID: only the answer of the last hop has the one the creator waits for.
Delivered(b, m, copy) ==
    [b EXCEPT !.net = IF copy THEN @ ELSE @ \ {m}, !.copies = IF copy THEN @ + 1 ELSE @]

DeliverBuild(m, accept, copy) ==
    /\ m.hop # 0
    /\ copy => build.copies < build.case.copies
    /\ build' = Delivered(HandleBuildRequestRecords(m, accept), m, copy)

DeliverReply(m, copy) ==
    /\ m.hop = 0
    /\ copy => build.copies < build.case.copies
    /\ build' = Delivered(IF m.tunnel \in build.pending THEN HandleTunnelBuildResponse(m)
                          ELSE build, m, copy)

(***************************************************************************)
(* Tunnel data                                                             *)
(***************************************************************************)

\* Tunnel::EncryptTunnelMsg: the creator decrypts with the keys of all hops,
\* last hop first, before an outbound message leaves and after an inbound one
\* arrived.
PeelLayers(t, d) ==
    LET n == NumHops(t)
        after[j \in 0..n] == IF j = 0 THEN d ELSE Decrypted(after[j - 1], <<t.name, n + 1 - j>>)
    IN after[n]

Plain(t, to, id) == [tunnel |-> t, to |-> to, id |-> id, layers |-> <<>>]

\* Data enters at the creator or at the gateway of an inbound tunnel.
SendData(t) ==
    /\ t \in build.established
    /\ build.data = {}
    /\ build.case.data
    /\ LET d == Plain(t, t.hops[1], <<t.name, 1>>)
       IN build' = [build EXCEPT !.data = {IF t.inbound THEN d ELSE PeelLayers(t, d)}]

\* A transit tunnel encrypts and passes on; an endpoint reads.
TransitData(d) ==
    \E x \in build.transit :
       /\ x.router = d.to /\ x.id = d.id
       /\ LET e == Encrypted(d, d.id)
          IN build' = IF x.role = "endpoint"
                      THEN [build EXCEPT !.data = @ \ {d}, !.received = @ \cup {e}]
                      ELSE [build EXCEPT !.data = (@ \ {d}) \cup
                              {[e EXCEPT !.to = x.nextRouter, !.id = x.nextID]}]

\* InboundTunnel::HandleTunnelDataMsg.
ReceiveData(d) ==
    /\ d.to = TBSelf /\ d.id = <<d.tunnel.name, NumHops(d.tunnel) + 1>>
    /\ build' = [build EXCEPT !.data = @ \ {d}, !.received = @ \cup {PeelLayers(d.tunnel, d)}]

TunnelBuildNext ==
    \/ \E t \in build.case.tunnels : Build(t) \/ CreationTimeout(t) \/ SendData(t)
    \/ \E m \in build.net, copy \in BOOLEAN :
         \/ \E accept \in BOOLEAN : DeliverBuild(m, accept, copy)
         \/ DeliverReply(m, copy)
    \/ \E d \in build.data : TransitData(d) \/ ReceiveData(d)

TunnelBuildSpec == TunnelBuildInit /\ [][TunnelBuildNext]_buildVars

(***************************************************************************)
(* Properties                                                              *)
(***************************************************************************)
TunnelBuildTypeOK ==
    /\ build.pending \cup build.established \cup build.failed \subseteq build.case.tunnels
    /\ build.pending \cap (build.established \cup build.failed) = {}
    /\ \A m \in build.net : Len(m.records) = NumRecords(m.tunnel)
    /\ build.copies \in 0..build.case.copies

\* For every order of the records and any number of hops, the creator reads
\* from each hop's record an answer that this hop gave, never random bytes:
\* the layers that Build and the hops put on come off exactly.
RepliesAreReadable ==
    \A x \in build.read :
       x[3] \in {IF a[3] THEN "accept" ELSE "reject" :
                   a \in {b \in build.answers : b[1] = x[1] /\ b[2] = x[2]}}

\* A tunnel the creator takes as established exists at every hop, each hop
\* passing on to the next: messages doubled on the way, late replies and
\* answers to other tunnels through the same routers do not break the chain.
EstablishedIsChained ==
    \A t \in build.established : \A i \in 1..NumHops(t) :
       \E x \in build.transit :
          /\ x.router = t.hops[i] /\ x.id = <<t.name, i>>
          /\ i < NumHops(t) =>
               \E y \in build.transit : y.router = x.nextRouter /\ y.id = x.nextID
          /\ (i = 1 /\ NumHops(t) > 1) => (x.role = "gateway") = t.inbound
          /\ i = NumHops(t) => (x.role = "endpoint") = ~t.inbound

\* What leaves a tunnel at its end is what entered it.
PlainAtTheEnd == \A d \in build.received : d.layers = <<>>

\* The creator reads what the hops answered, an established tunnel is a chain of
\* hops, and data comes out of it as it went in.
TunnelBuildSafe ==
  /\ TunnelBuildTypeOK
  /\ RepliesAreReadable
  /\ EstablishedIsChained
  /\ PlainAtTheEnd
=============================================================================
