------------------------ MODULE RouterContextProofs ------------------------
(***************************************************************************)
(* Proofs about RouterContext: what a router believes, publishes and saves *)
(* of itself agrees, for any hosts, endpoints, command lines and bounds.   *)
(*                                                                         *)
(* The first address is of SSU over IPv4 from the start and is never       *)
(* removed (Anchored): introducers are looked up, added and removed there. *)
(* A router that is reachable has none, so what a restart reads from the   *)
(* file has none once SetReachable is done with it.                        *)
(***************************************************************************)
EXTENDS RouterContext, SequenceTheorems, WellFoundedInduction, TLAPS

AllCaps ==
  {"Floodfill", "HighBandwidth", "Reachable", "Unreachable", "SSUTesting", "SSUIntroducer"}
IntroducerRecord == [endpoint : RCEndpoints, iTag : Nat]
AddressRecord ==
  [style : {"NTCP", "SSU"}, host : RCHosts \cup {V6Host}, introducers : Seq(IntroducerRecord)]
RouterInfoRecord ==
  [m_Caps : SUBSET AllCaps, m_Addresses : Seq(AddressRecord), v6 : BOOLEAN, stats : BOOLEAN]
Written == {WriteToStream(ri) : ri \in RouterInfoRecord}

ContextRecord ==
  [m_RouterInfo : {<<>>} \cup RouterInfoRecord, m_Buffer : {<<>>} \cup Written,
   file : {<<>>} \cup Written, m_IsFloodfill : BOOLEAN,
   m_Status : {"OK", "Testing", "Firewalled"}, m_Introducers : Seq(RCEndpoints), moved : BOOLEAN,
   timer : BOOLEAN, sessions : SUBSET [endpoint : RCEndpoints, tag : Nat, young : BOOLEAN],
   tags : 0 .. RCMaxTags, restarts : 0 .. RCMaxRestarts, running : BOOLEAN]

\* Introducers are at the first address.
Anchored(ri) ==
  /\ ri \in RouterInfoRecord
  /\ Len(ri.m_Addresses) > 0
  /\ ri.m_Addresses[1].style = "SSU" /\ ri.m_Addresses[1].host # V6Host
Introducers(ri) == ri.m_Addresses[1].introducers

\* What holds of a router info between any two calls.
InfoOK(ri) ==
  /\ Anchored(ri)
  /\ Is(ri, "Reachable") # Is(ri, "Unreachable")
  /\ Is(ri, "Reachable") => Introducers(ri) = <<>>

Stored(c) ==
  /\ InfoOK(c.m_RouterInfo)
  /\ c.m_Buffer = WriteToStream(c.m_RouterInfo) /\ c.file = c.m_Buffer

FloodfillOK(c) ==
  Is(c.m_RouterInfo, "Floodfill") = (c.m_IsFloodfill /\ Is(c.m_RouterInfo, "Reachable"))

\* The introducers q have the endpoints of list.
Listed(q, list) ==
  Len(q) = Len(list) /\ \A i \in 1 .. Len(q) : q[i].endpoint = list[i]
Introduces(c) ==
  LET q == Introducers(c.m_RouterInfo)
  IN  Len(c.m_Introducers) <= Len(q) /\ (c.moved \/ Listed(q, c.m_Introducers))

\* Before the first start there is no file.
IInv ==
  /\ context \in ContextRecord
  /\ Len(context.m_Introducers) <= SSU_MAX_NUM_INTRODUCERS
  /\ (context.file = <<>> /\ ~context.running) \/ Stored(context)
  /\ context.running => FloodfillOK(context) /\ Introduces(context)
-----------------------------------------------------------------------------
(***************************************************************************)
(* Sequences and the least of a set.                                       *)
(***************************************************************************)
LEMMA Least ==
  ASSUME NEW S \in SUBSET Nat, S # {}
  PROVE  \E n \in S : \A m \in S : n <= m
<1>1. PICK n \in S : \A m \in S : ~(<<m, n>> \in OpToRel(<, Nat))
  BY NatLessThanWellFounded, WFMin
<1>2. \A m \in S : ~(m < n) BY <1>1 DEF OpToRel
<1> QED BY <1>2

LEMMA RemoveAtIs ==
  ASSUME NEW T, NEW s \in Seq(T), NEW k \in 1 .. Len(s)
  PROVE  /\ RemoveAt(s, k) \in Seq(T)
         /\ Len(RemoveAt(s, k)) = Len(s) - 1
         /\ \A j \in 1 .. (Len(s) - 1) :
              RemoveAt(s, k)[j] = IF j < k THEN s[j] ELSE s[j + 1]
<1> DEFINE a == SubSeq(s, 1, k - 1)
           b == SubSeq(s, k + 1, Len(s))
<1>0. Len(s) \in Nat /\ k \in Nat OBVIOUS
<1>1. a \in Seq(T) /\ Len(a) = k - 1 /\ \A j \in 1 .. (k - 1) : a[j] = s[j]
  BY <1>0
<1>2. b \in Seq(T) /\ Len(b) = Len(s) - k /\ \A j \in 1 .. (Len(s) - k) : b[j] = s[k + j]
  BY <1>0
<1>3. RemoveAt(s, k) = a \o b BY DEF RemoveAt
<1> HIDE DEF a, b
<1>4. a \o b \in Seq(T) /\ Len(a \o b) = Len(s) - 1
  <2>1. a \o b \in Seq(T) /\ Len(a \o b) = Len(a) + Len(b) BY <1>1, <1>2, ConcatProperties
  <2>2. Len(a) + Len(b) = Len(s) - 1 BY <1>0, <1>1, <1>2
  <2> QED BY <2>1, <2>2
<1>5. ASSUME NEW j \in 1 .. (Len(s) - 1)
      PROVE  (a \o b)[j] = IF j < k THEN s[j] ELSE s[j + 1]
  <2>1. (a \o b)[j] = IF j <= Len(a) THEN a[j] ELSE b[j - Len(a)]
    BY <1>0, <1>1, <1>2, <1>5
  <2>2. CASE j < k BY <2>1, <2>2, <1>0, <1>1
  <2>3. CASE ~(j < k)
    <3>1. j - (k - 1) \in 1 .. (Len(s) - k) BY <2>3, <1>0
    <3>2. b[j - (k - 1)] = s[k + (j - (k - 1))] BY <3>1, <1>2
    <3> QED BY <2>1, <2>3, <3>2, <1>0, <1>1
  <2> QED BY <2>2, <2>3
<1> QED BY <1>3, <1>4, <1>5
-----------------------------------------------------------------------------
(***************************************************************************)
(* Router infos.                                                           *)
(***************************************************************************)
\* What the operations on addresses leave alone.
KeepsCaps(ri, new) == Anchored(new) /\ new.m_Caps = ri.m_Caps

LEMMA FirstAddressIs ==
  ASSUME NEW ri, Anchored(ri)
  PROVE  /\ FirstAddress(ri, "SSU", {FALSE}) = 1 /\ FirstAddress(ri, "SSU", BOOLEAN) = 1
         /\ FirstAddress(ri, "NTCP", BOOLEAN) \in {0} \cup 2 .. Len(ri.m_Addresses)
         /\ FirstAddress(ri, "NTCP", {TRUE}) \in {0} \cup 2 .. Len(ri.m_Addresses)
         /\ FirstAddress(ri, "SSU", {TRUE}) \in {0} \cup 2 .. Len(ri.m_Addresses)
<1> DEFINE a == ri.m_Addresses
           Found(style, v6) == {n \in DOMAIN a : \E b \in v6 : Style(a[n], style, b)}
<1>1. a \in Seq(AddressRecord) /\ Len(a) \in Nat /\ Len(a) > 0 BY DEF Anchored, RouterInfoRecord
<1>2. DOMAIN a = 1 .. Len(a) /\ a[1].style = "SSU" /\ a[1].host # V6Host BY <1>1 DEF Anchored
<1>3. ASSUME NEW style, NEW v6, 1 \in Found(style, v6)
      PROVE  FirstAddress(ri, style, v6) = 1
  <2> DEFINE s == Found(style, v6)
  <2>1. s \subseteq Nat \ {0} BY <1>1, <1>2
  <2>2. FirstAddress(ri, style, v6) = CHOOSE n \in s : \A m \in s : n <= m
    BY <1>3 DEF FirstAddress
  <2> HIDE DEF s
  <2>3. \A m \in s : 1 <= m BY <2>1
  <2>4. 1 \in s BY <1>3 DEF s
  <2> DEFINE c == CHOOSE n \in s : \A m \in s : n <= m
  <2>5. c \in s /\ \A m \in s : c <= m BY <2>3, <2>4
  <2> HIDE DEF c
  <2>6. c = 1 BY <2>1, <2>3, <2>4, <2>5
  <2> QED BY <2>2, <2>6 DEF c
<1>4. ASSUME NEW style, NEW v6, 1 \notin Found(style, v6)
      PROVE  FirstAddress(ri, style, v6) \in {0} \cup 2 .. Len(a)
  <2> DEFINE s == Found(style, v6)
  <2>1. s \subseteq 2 .. Len(a) /\ s \in SUBSET Nat BY <1>1, <1>2, <1>4
  <2>2. FirstAddress(ri, style, v6) = IF s = {} THEN 0 ELSE CHOOSE n \in s : \A m \in s : n <= m
    BY DEF FirstAddress
  <2> HIDE DEF s
  <2>3. s # {} => (CHOOSE n \in s : \A m \in s : n <= m) \in s BY <2>1, Least
  <2> QED BY <2>1, <2>2, <2>3
<1>5. 1 \in Found("SSU", {FALSE}) /\ 1 \in Found("SSU", BOOLEAN)
  <2>1. Style(a[1], "SSU", FALSE) BY <1>2 DEF Style
  <2>2. 1 \in DOMAIN a BY <1>1, <1>2
  <2>3. (\E b \in {FALSE} : Style(a[1], "SSU", b)) /\ (\E b \in BOOLEAN : Style(a[1], "SSU", b))
    BY <2>1, Zenon
  <2> QED BY <2>2, <2>3, Zenon
<1>6. 1 \notin Found("NTCP", BOOLEAN) /\ 1 \notin Found("NTCP", {TRUE}) /\ 1 \notin Found("SSU", {TRUE})
  BY <1>1, <1>2 DEF Style
<1> HIDE DEF Found, a
<1> QED BY <1>3, <1>4, <1>5, <1>6 DEF a

LEMMA WithAddresses ==
  ASSUME NEW ri, Anchored(ri), NEW a \in Seq(AddressRecord), Len(a) > 0,
         a[1].style = "SSU", a[1].host # V6Host
  PROVE  LET new == [ri EXCEPT !.m_Addresses = a]
         IN  KeepsCaps(ri, new) /\ Introducers(new) = a[1].introducers /\ new.m_Addresses = a
BY DEF KeepsCaps, Anchored, RouterInfoRecord, Introducers

LEMMA RemoveFirstAddressKeeps ==
  ASSUME NEW ri, Anchored(ri), NEW style, NEW v6,
         FirstAddress(ri, style, v6) \in {0} \cup 2 .. Len(ri.m_Addresses)
  PROVE  LET new == RemoveFirstAddress(ri, style, v6)
         IN  KeepsCaps(ri, new) /\ Introducers(new) = Introducers(ri)
<1> DEFINE n == FirstAddress(ri, style, v6)
           a == ri.m_Addresses
           b == RemoveAt(a, n)
<1>1. a \in Seq(AddressRecord) /\ Len(a) \in Nat BY DEF Anchored, RouterInfoRecord
<1>2. CASE n = 0 BY <1>2 DEF RemoveFirstAddress, KeepsCaps
<1>3. CASE n # 0
  <2>1. n \in 2 .. Len(a) BY <1>3
  <2>2. RemoveFirstAddress(ri, style, v6) = [ri EXCEPT !.m_Addresses = b]
    BY <1>3 DEF RemoveFirstAddress
  <2>2a. n \in 1 .. Len(a) /\ 1 \in 1 .. (Len(a) - 1) /\ 1 < n BY <1>1, <2>1
  <2>3. b \in Seq(AddressRecord) /\ Len(b) = Len(a) - 1 /\ b[1] = a[1]
    <3> HIDE DEF n, a
    <3> QED BY <1>1, <2>2a, RemoveAtIs
  <2>4. Len(b) > 0 /\ b[1].style = "SSU" /\ b[1].host # V6Host BY <2>3, <2>1, <1>1 DEF Anchored
  <2> HIDE DEF n, a, b
  <2> QED BY <2>2, <2>3, <2>4, WithAddresses DEF a, Introducers
<1> QED BY <1>2, <1>3

LEMMA AddressesTyped ==
  ASSUME NEW host \in RCHosts \cup {V6Host}
  PROVE  NTCP(host) \in AddressRecord /\ SSU(host) \in AddressRecord
BY EmptySeq DEF NTCP, SSU, AddressRecord

LEMMA AppendKeepsFirst ==
  ASSUME NEW ri, Anchored(ri), NEW x \in AddressRecord
  PROVE  LET a == Append(ri.m_Addresses, x)
         IN  a \in Seq(AddressRecord) /\ Len(a) > 0 /\ a[1] = ri.m_Addresses[1]
BY DEF Anchored, RouterInfoRecord

LEMMA AddNTCPAddressKeeps ==
  ASSUME NEW ri, Anchored(ri), NEW host \in RCHosts \cup {V6Host}
  PROVE  LET new == AddNTCPAddress(ri, host)
         IN  KeepsCaps(ri, new) /\ Introducers(new) = Introducers(ri)
<1> DEFINE a == Append(ri.m_Addresses, NTCP(host))
           v == ri.v6 \/ host = V6Host
           new == [ri EXCEPT !.m_Addresses = a, !.v6 = v]
<1>1. a \in Seq(AddressRecord) /\ Len(a) > 0 /\ a[1] = ri.m_Addresses[1]
  BY AddressesTyped, AppendKeepsFirst
<1>2. AddNTCPAddress(ri, host) = new BY DEF AddNTCPAddress
<1>3. v \in BOOLEAN BY DEF Anchored, RouterInfoRecord
<1> HIDE DEF a, v
<1>4. new \in RouterInfoRecord /\ new.m_Addresses = a /\ new.m_Caps = ri.m_Caps
  BY <1>1, <1>3 DEF Anchored, RouterInfoRecord
<1> HIDE DEF new
<1> QED BY <1>1, <1>2, <1>4 DEF KeepsCaps, Anchored, Introducers

LEMMA AddSSUAddressKeeps ==
  ASSUME NEW ri, Anchored(ri), NEW host \in RCHosts \cup {V6Host}
  PROVE  LET new == AddSSUAddress(ri, host)
         IN  /\ Anchored(new) /\ Introducers(new) = Introducers(ri)
             /\ new.m_Caps = ri.m_Caps \cup {"SSUTesting", "SSUIntroducer"}
<1> DEFINE a == Append(ri.m_Addresses, SSU(host))
           v == ri.v6 \/ host = V6Host
           caps == ri.m_Caps \cup {"SSUTesting", "SSUIntroducer"}
           new == [ri EXCEPT !.m_Addresses = a, !.v6 = v, !.m_Caps = caps]
<1>1. a \in Seq(AddressRecord) /\ Len(a) > 0 /\ a[1] = ri.m_Addresses[1]
  BY AddressesTyped, AppendKeepsFirst
<1>2. AddSSUAddress(ri, host) = new BY DEF AddSSUAddress
<1>3. v \in BOOLEAN /\ caps \in SUBSET AllCaps BY DEF Anchored, RouterInfoRecord, AllCaps
<1>3a. caps = ri.m_Caps \cup {"SSUTesting", "SSUIntroducer"} OBVIOUS
<1> HIDE DEF a, v, caps
<1>4. new \in RouterInfoRecord /\ new.m_Addresses = a /\ new.m_Caps = caps
  BY <1>1, <1>3 DEF Anchored, RouterInfoRecord
<1> HIDE DEF new
<1> QED BY <1>1, <1>2, <1>4, <1>3a DEF Anchored, Introducers

LEMMA ClearIntroducersKeeps ==
  ASSUME NEW ri, Anchored(ri)
  PROVE  LET new == ClearIntroducers(ri)
         IN  KeepsCaps(ri, new) /\ Introducers(new) = <<>>
<1> DEFINE a == ri.m_Addresses
           b == [n \in DOMAIN a |-> [a[n] EXCEPT !.introducers = <<>>]]
<1>1. a \in Seq(AddressRecord) /\ Len(a) \in Nat /\ DOMAIN a = 1 .. Len(a) /\ Len(a) > 0
  BY DEF Anchored, RouterInfoRecord
<1>2. ASSUME NEW n \in 1 .. Len(a) PROVE b[n] \in AddressRecord /\ b[n].introducers = <<>>
                /\ b[n].style = a[n].style /\ b[n].host = a[n].host
  <2>1. a[n] \in AddressRecord BY <1>1
  <2> QED BY <2>1, <1>1, EmptySeq DEF AddressRecord
<1>3. b \in [1 .. Len(a) -> AddressRecord]
  <2>1. b = [n \in 1 .. Len(a) |-> b[n]] BY <1>1
  <2> HIDE DEF b
  <2> QED BY <1>2, <2>1
<1>4. ClearIntroducers(ri) = [ri EXCEPT !.m_Addresses = b] BY DEF ClearIntroducers
<1>5. a[1].style = "SSU" /\ a[1].host # V6Host BY DEF Anchored
<1> HIDE DEF a, b
<1>6. b \in Seq(AddressRecord) /\ Len(b) = Len(a) BY <1>1, <1>3, IsASeq
<1>7. b[1].style = "SSU" /\ b[1].host # V6Host /\ b[1].introducers = <<>> BY <1>1, <1>2, <1>5
<1> QED BY <1>1, <1>4, <1>6, <1>7, WithAddresses

LEMMA WithHostKeeps ==
  ASSUME NEW ri, Anchored(ri), NEW host \in RCHosts
  PROVE  LET new == WithHost(ri, host)
         IN  KeepsCaps(ri, new) /\ Introducers(new) = Introducers(ri)
<1> DEFINE a == ri.m_Addresses
           b == [n \in DOMAIN a |-> IF (a[n].host = V6Host) = (host = V6Host)
                                    THEN [a[n] EXCEPT !.host = host] ELSE a[n]]
<1>0. host # V6Host BY RouterContextAssumption
<1>1. a \in Seq(AddressRecord) /\ Len(a) \in Nat /\ DOMAIN a = 1 .. Len(a) /\ Len(a) > 0
  BY DEF Anchored, RouterInfoRecord
<1>2. ASSUME NEW n \in 1 .. Len(a)
      PROVE  /\ b[n] \in AddressRecord /\ b[n].introducers = a[n].introducers
             /\ b[n].style = a[n].style /\ (a[n].host # V6Host => b[n].host # V6Host)
  <2>1. a[n] \in AddressRecord BY <1>1
  <2>2. b[n] = IF (a[n].host = V6Host) = (host = V6Host)
               THEN [a[n] EXCEPT !.host = host] ELSE a[n] BY <1>1
  <2> HIDE DEF a, b
  <2> QED BY <2>1, <2>2, <1>0 DEF AddressRecord
<1>3. b \in [1 .. Len(a) -> AddressRecord]
  <2>1. b = [n \in 1 .. Len(a) |-> b[n]] BY <1>1
  <2> HIDE DEF b
  <2> QED BY <1>2, <2>1
<1>4. WithHost(ri, host) = [ri EXCEPT !.m_Addresses = b] BY DEF WithHost
<1>5. a[1].style = "SSU" /\ a[1].host # V6Host /\ a[1].introducers = Introducers(ri)
  BY DEF Anchored, Introducers
<1> HIDE DEF a, b
<1>6. b \in Seq(AddressRecord) /\ Len(b) = Len(a) BY <1>1, <1>3, IsASeq
<1>7. b[1].style = "SSU" /\ b[1].host # V6Host /\ b[1].introducers = Introducers(ri)
  BY <1>1, <1>2, <1>5
<1> QED BY <1>1, <1>4, <1>6, <1>7, WithAddresses

LEMMA DisableV6Keeps ==
  ASSUME NEW ri, Anchored(ri)
  PROVE  LET new == DisableV6(ri)
         IN  KeepsCaps(ri, new) /\ Introducers(new) = Introducers(ri)
<1> DEFINE r == RemoveFirstAddress(ri, "NTCP", {TRUE})
           t == RemoveFirstAddress(r, "SSU", {TRUE})
<1>1. KeepsCaps(ri, r) /\ Introducers(r) = Introducers(ri)
  BY FirstAddressIs, RemoveFirstAddressKeeps
<1>2. KeepsCaps(r, t) /\ Introducers(t) = Introducers(r)
  <2> HIDE DEF r
  <2> QED BY <1>1, FirstAddressIs, RemoveFirstAddressKeeps DEF KeepsCaps
<1>3. DisableV6(ri) = IF ~ri.v6 THEN ri ELSE [t EXCEPT !.v6 = FALSE] BY DEF DisableV6
<1> HIDE DEF r, t
<1>4. KeepsCaps(ri, t) /\ Introducers(t) = Introducers(ri) BY <1>1, <1>2 DEF KeepsCaps
<1>5. KeepsCaps(t, [t EXCEPT !.v6 = FALSE]) /\ Introducers([t EXCEPT !.v6 = FALSE]) = Introducers(t)
  BY <1>4 DEF KeepsCaps, Anchored, Introducers, RouterInfoRecord
<1> QED BY <1>3, <1>4, <1>5 DEF KeepsCaps

\* Introducers are changed at the first address.
LEMMA WithIntroducers ==
  ASSUME NEW ri, Anchored(ri), NEW q \in Seq(IntroducerRecord)
  PROVE  LET new == [ri EXCEPT !.m_Addresses[1].introducers = q]
         IN  KeepsCaps(ri, new) /\ Introducers(new) = q
<1> DEFINE a == ri.m_Addresses
           x == [a[1] EXCEPT !.introducers = q]
           b == [a EXCEPT ![1] = x]
<1>1. a \in Seq(AddressRecord) /\ Len(a) \in Nat /\ 1 \in 1 .. Len(a) /\ a[1] \in AddressRecord
  BY DEF Anchored, RouterInfoRecord
<1>2. a[1].style = "SSU" /\ a[1].host # V6Host BY DEF Anchored
<1>3. [ri EXCEPT !.m_Addresses[1].introducers = q] = [ri EXCEPT !.m_Addresses = b]
  BY DEF Anchored, RouterInfoRecord
<1> HIDE DEF a
<1>4. x \in AddressRecord /\ x.introducers = q /\ x.style = "SSU" /\ x.host # V6Host
  BY <1>1, <1>2 DEF AddressRecord
<1> HIDE DEF x
<1>5. b \in Seq(AddressRecord) /\ Len(b) = Len(a) /\ b[1] = x BY <1>1, <1>4, ExceptSeq
<1>6. Len(b) > 0 BY <1>1, <1>5
<1> HIDE DEF b
<1> QED BY <1>3, <1>4, <1>5, <1>6, WithAddresses

LEMMA IntroducersTyped ==
  ASSUME NEW ri, Anchored(ri)
  PROVE  Introducers(ri) \in Seq(IntroducerRecord)
<1>1. ri.m_Addresses \in Seq(AddressRecord) /\ 1 \in 1 .. Len(ri.m_Addresses)
  BY DEF Anchored, RouterInfoRecord
<1>2. ri.m_Addresses[1] \in AddressRecord BY <1>1
<1> QED BY <1>2 DEF AddressRecord, Introducers

LEMMA RemoveIntroducerAt ==
  ASSUME NEW ri, Anchored(ri), NEW e, NEW k \in 1 .. Len(Introducers(ri)),
         Introducers(ri)[k].endpoint = e,
         \A i \in 1 .. (k - 1) : Introducers(ri)[i].endpoint # e
  PROVE  LET new == RemoveIntroducer(ri, e)
         IN  KeepsCaps(ri, new) /\ Introducers(new) = RemoveAt(Introducers(ri), k)
<1> DEFINE q == Introducers(ri)
           s == {i \in DOMAIN q : q[i].endpoint = e}
           m == CHOOSE i \in s : \A j \in s : i <= j
<1>1. q \in Seq(IntroducerRecord) /\ Len(q) \in Nat /\ DOMAIN q = 1 .. Len(q)
  <2>1. q \in Seq(IntroducerRecord) BY IntroducersTyped
  <2> HIDE DEF q
  <2> QED BY <2>1
<1>2. k \in s /\ s \subseteq 1 .. Len(q) BY <1>1
<1>3. \A j \in s : k <= j
  <2> SUFFICES ASSUME NEW j \in s, ~(k <= j) PROVE FALSE OBVIOUS
  <2>1. j \in 1 .. (k - 1) BY <1>1, <1>2
  <2> QED BY <2>1
<1>4. m = k
  <2>1. m \in s /\ \A j \in s : m <= j BY <1>2, <1>3
  <2> HIDE DEF m, s
  <2> QED BY <2>1, <1>1, <1>2, <1>3
<1>5. FirstAddress(ri, "SSU", {FALSE}) = 1 BY FirstAddressIs
<1>6. RemoveIntroducer(ri, e) = [ri EXCEPT !.m_Addresses[1].introducers = RemoveAt(q, m)]
  <2> DEFINE Found(n) == {i \in DOMAIN ri.m_Addresses[n].introducers :
                            ri.m_Addresses[n].introducers[i].endpoint = e}
             R(n) == IF n = 0 \/ Found(n) = {} THEN ri
                     ELSE [ri EXCEPT !.m_Addresses[n].introducers =
                             RemoveAt(@, CHOOSE i \in Found(n) : \A j \in Found(n) : i <= j)]
  <2>0. RemoveIntroducer(ri, e) = R(IntroducingAddress(ri)) BY DEF RemoveIntroducer
  <2>2. s # {} BY <1>2
  <2>3. IntroducingAddress(ri) = 1 BY <1>5 DEF IntroducingAddress
  <2>4. R(IntroducingAddress(ri)) = R(1)
    <3> HIDE DEF R
    <3> QED BY <2>3
  <2>5. Found(1) = s BY DEF Introducers
  <2>6. R(1) = [ri EXCEPT !.m_Addresses[1].introducers = RemoveAt(q, m)]
    <3> HIDE DEF Found
    <3>1. R(1) = [ri EXCEPT !.m_Addresses[1].introducers =
                    RemoveAt(ri.m_Addresses[1].introducers,
                             CHOOSE i \in Found(1) : \A j \in Found(1) : i <= j)]
      BY <2>2, <2>5
    <3>2. ri.m_Addresses[1].introducers = q BY DEF Introducers
    <3> HIDE DEF s, q
    <3> QED BY <3>1, <3>2, <2>5
  <2> QED BY <2>0, <2>4, <2>6
<1> HIDE DEF m, s, q
<1>7. RemoveAt(q, k) \in Seq(IntroducerRecord) BY <1>1, RemoveAtIs DEF q
<1> QED BY <1>4, <1>6, <1>7, WithIntroducers DEF q

LEMMA RemoveIntroducerKeeps ==
  ASSUME NEW ri, Anchored(ri), NEW e
  PROVE  LET new == RemoveIntroducer(ri, e)
         IN  KeepsCaps(ri, new) /\ Len(Introducers(ri)) - 1 <= Len(Introducers(new))
<1> DEFINE q == Introducers(ri)
           s == {i \in DOMAIN q : q[i].endpoint = e}
<1>1. q \in Seq(IntroducerRecord) BY IntroducersTyped
<1>2. CASE s = {}
  <2>1. IntroducingAddress(ri) = 1 BY FirstAddressIs DEF IntroducingAddress
  <2>2. RemoveIntroducer(ri, e) = ri BY <1>2, <2>1 DEF RemoveIntroducer, Introducers
  <2>3. KeepsCaps(ri, ri) BY DEF KeepsCaps
  <2> HIDE DEF q
  <2> QED BY <1>1, <2>2, <2>3 DEF q
<1>3. CASE s # {}
  <2> HIDE DEF q
  <2>1. s \in SUBSET Nat /\ s \subseteq 1 .. Len(q) BY <1>1
  <2>2. PICK k \in s : \A m \in s : k <= m BY <1>3, <2>1, Least
  <2>3. k \in 1 .. Len(q) /\ q[k].endpoint = e BY <2>1, <2>2
  <2>4. ASSUME NEW i \in 1 .. (k - 1) PROVE q[i].endpoint # e
    <3>1. i \in DOMAIN q /\ ~(k <= i) BY <1>1, <2>3
    <3> QED BY <2>2, <3>1
  <2>5. KeepsCaps(ri, RemoveIntroducer(ri, e))
        /\ Introducers(RemoveIntroducer(ri, e)) = RemoveAt(q, k)
    BY <2>3, <2>4, RemoveIntroducerAt DEF q
  <2>6. Len(RemoveAt(q, k)) = Len(q) - 1 BY <1>1, <2>3, RemoveAtIs
  <2> QED BY <1>1, <2>5, <2>6 DEF q
<1> QED BY <1>2, <1>3

LEMMA AddIntroducerKeeps ==
  ASSUME NEW ri, Anchored(ri), NEW e \in RCEndpoints, NEW t \in Nat
  PROVE  LET new == AddIntroducer(ri, e, t)
             x   == [endpoint |-> e, iTag |-> t]
         IN  KeepsCaps(ri, new) /\ Introducers(new) = Append(Introducers(ri), x)
<1> DEFINE q == Introducers(ri)
           r == Append(q, [endpoint |-> e, iTag |-> t])
<1>1. q \in Seq(IntroducerRecord) BY IntroducersTyped
<1>2. r \in Seq(IntroducerRecord) BY <1>1 DEF IntroducerRecord
<1>3. AddIntroducer(ri, e, t) = [ri EXCEPT !.m_Addresses[1].introducers = r]
  BY FirstAddressIs DEF AddIntroducer, IntroducingAddress, Introducers
<1> HIDE DEF r
<1>4. KeepsCaps(ri, AddIntroducer(ri, e, t)) /\ Introducers(AddIntroducer(ri, e, t)) = r
  BY <1>2, <1>3, WithIntroducers
<1> QED BY <1>4 DEF r

\* What is read is what was written, but a floodfill is written as of high bandwidth.
LEMMA WriteRead ==
  ASSUME NEW ri, Anchored(ri)
  PROVE  LET new == ReadFromStream(WriteToStream(ri))
         IN  /\ Anchored(new) /\ new.m_Addresses = ri.m_Addresses
             /\ new.m_Caps = ri.m_Caps \cup (IF Is(ri, "Floodfill") THEN {"HighBandwidth"} ELSE {})
<1> DEFINE a == ri.m_Addresses
           caps == ri.m_Caps
           w == WriteToStream(ri)
           letters == UpdateCapsProperty(caps)
           U == UNION {w.addresses[n].caps : n \in DOMAIN w.addresses}
           new == ReadFromStream(w)
<1>1. a \in Seq(AddressRecord) /\ Len(a) \in Nat /\ DOMAIN a = 1 .. Len(a) /\ 1 \in DOMAIN a
  BY DEF Anchored, RouterInfoRecord
<1>2. /\ w.letters = letters /\ w.stats = ri.stats /\ DOMAIN w.addresses = DOMAIN a
      /\ \A n \in DOMAIN a : w.addresses[n].address = a[n]
      /\ \A n \in DOMAIN a : w.addresses[n].caps =
           IF a[n].style = "NTCP" THEN {} ELSE caps \cap {"SSUTesting", "SSUIntroducer"}
  BY DEF WriteToStream
<1>3. U = caps \cap {"SSUTesting", "SSUIntroducer"}
  <2>1. w.addresses[1].caps = caps \cap {"SSUTesting", "SSUIntroducer"}
    BY <1>1, <1>2 DEF Anchored
  <2>2. \A n \in DOMAIN a : w.addresses[n].caps \subseteq caps \cap {"SSUTesting", "SSUIntroducer"}
    BY <1>2
  <2> HIDE DEF w, a, caps
  <2> QED BY <2>1, <2>2, <1>1, <1>2
<1>4. /\ "f" \in letters <=> "Floodfill" \in caps
      /\ letters \cap {"O", "P"} # {} <=> ("Floodfill" \in caps \/ "HighBandwidth" \in caps)
      /\ "R" \in letters <=> "Reachable" \in caps
      /\ "U" \in letters <=> "Unreachable" \in caps
  <2> HIDE DEF caps
  <2> QED BY DEF UpdateCapsProperty
<1>5. new = [m_Caps |-> ExtractCaps(letters) \cup U, m_Addresses |-> [n \in DOMAIN a |-> w.addresses[n].address],
             v6 |-> \E n \in DOMAIN a : w.addresses[n].address.host = V6Host, stats |-> ri.stats]
  <2> HIDE DEF w, a, letters
  <2> QED BY <1>2 DEF ReadFromStream
<1>6. [n \in DOMAIN a |-> w.addresses[n].address] = a
  <2>1. a = [n \in DOMAIN a |-> a[n]] BY <1>1
  <2> HIDE DEF w, a
  <2> QED BY <1>2, <2>1
<1>7. caps \subseteq AllCaps BY DEF Anchored, RouterInfoRecord
<1>8. new.m_Addresses = a /\ new.m_Caps = ExtractCaps(letters) \cup U /\ new \in
        [m_Caps : {ExtractCaps(letters) \cup U}, m_Addresses : {a}, v6 : BOOLEAN, stats : {ri.stats}]
  <2> DEFINE v == \E n \in DOMAIN a : w.addresses[n].address.host = V6Host
             ca == ExtractCaps(letters) \cup U
  <2>1. new = [m_Caps |-> ca, m_Addresses |-> a, v6 |-> v, stats |-> ri.stats]
    BY <1>5, <1>6
  <2>2. v \in BOOLEAN OBVIOUS
  <2> HIDE DEF v, a, ca, new
  <2>3. new.m_Addresses = a /\ new.m_Caps = ca BY <2>1
  <2>4. new \in [m_Caps : {ca}, m_Addresses : {a}, v6 : BOOLEAN, stats : {ri.stats}]
    BY <2>1, <2>2
  <2> QED BY <2>3, <2>4 DEF ca
<1>9. ExtractCaps(letters) \cup U =
        caps \cup (IF "Floodfill" \in caps THEN {"HighBandwidth"} ELSE {})
  <2> HIDE DEF caps, letters, U
  <2> QED BY <1>3, <1>4, <1>7 DEF ExtractCaps, AllCaps
<1> HIDE DEF new, U, letters, w
<1>10. new.m_Caps = caps \cup (IF "Floodfill" \in caps THEN {"HighBandwidth"} ELSE {})
  BY <1>8, <1>9
<1>11. new.m_Caps \in SUBSET AllCaps BY <1>7, <1>10 DEF AllCaps
<1>12. Anchored(new) BY <1>1, <1>8, <1>11 DEF Anchored, RouterInfoRecord
<1> QED BY <1>8, <1>10, <1>12 DEF new, w, Is
-----------------------------------------------------------------------------
(***************************************************************************)
(* The router context between its calls.                                   *)
(***************************************************************************)
\* What the operations on the router info leave alone.
Rest(c, new) ==
  /\ new.m_IsFloodfill = c.m_IsFloodfill /\ new.m_Introducers = c.m_Introducers
  /\ new.moved = c.moved /\ new.sessions = c.sessions /\ new.running = c.running

Held(c) == c \in ContextRecord /\ Stored(c)

LEMMA UpdateRouterInfoStores ==
  ASSUME NEW c \in ContextRecord, NEW ri, InfoOK(ri)
  PROVE  LET new == UpdateRouterInfo(c, ri)
         IN  Held(new) /\ new.m_RouterInfo = ri /\ Rest(c, new)
<1> DEFINE w == WriteToStream(ri)
           new == [c EXCEPT !.m_RouterInfo = ri, !.m_Buffer = w, !.file = w]
<1>1. ri \in RouterInfoRecord BY DEF InfoOK, Anchored
<1>2. w \in Written BY <1>1 DEF Written
<1>3. UpdateRouterInfo(c, ri) = new BY DEF UpdateRouterInfo
<1>3a. w = WriteToStream(ri) OBVIOUS
<1> HIDE DEF w
<1>4. new \in ContextRecord /\ new.m_RouterInfo = ri /\ new.m_Buffer = w /\ new.file = w /\ Rest(c, new)
  BY <1>1, <1>2 DEF ContextRecord, Rest
<1> HIDE DEF new
<1> QED BY <1>3, <1>3a, <1>4 DEF Held, Stored

LEMMA RestTransitive ==
  ASSUME NEW a, NEW b, NEW c, Rest(a, b), Rest(b, c) PROVE Rest(a, c)
BY DEF Rest

\* An info of the same capabilities and introducers.
LEMMA KeepsCapsOK ==
  ASSUME NEW ri, InfoOK(ri), NEW new, KeepsCaps(ri, new), Introducers(new) = Introducers(ri)
  PROVE  InfoOK(new)
BY DEF InfoOK, KeepsCaps, Is

\* What UpdateAddress and SetSupportsV6 leave alone.
Alike(c, new) ==
  /\ Held(new) /\ Rest(c, new)
  /\ new.m_RouterInfo.m_Caps = c.m_RouterInfo.m_Caps
  /\ Introducers(new.m_RouterInfo) = Introducers(c.m_RouterInfo)

LEMMA HeldAlike == ASSUME NEW c, Held(c) PROVE Alike(c, c)
BY DEF Alike, Rest

LEMMA UpdateAlike ==
  ASSUME NEW c, Held(c), NEW ri, KeepsCaps(c.m_RouterInfo, ri),
         Introducers(ri) = Introducers(c.m_RouterInfo)
  PROVE  Alike(c, UpdateRouterInfo(c, ri))
<1>1. InfoOK(c.m_RouterInfo) BY DEF Held, Stored
<1>2. InfoOK(ri) BY <1>1, KeepsCapsOK
<1>3. c \in ContextRecord BY DEF Held
<1> QED BY <1>2, <1>3, UpdateRouterInfoStores DEF Alike, KeepsCaps

LEMMA HeldAnchored == ASSUME NEW c, Held(c) PROVE Anchored(c.m_RouterInfo) /\ InfoOK(c.m_RouterInfo)
BY DEF Held, Stored, InfoOK

LEMMA UpdateAddressAlike ==
  ASSUME NEW c, Held(c), NEW host \in RCHosts
  PROVE  Alike(c, UpdateAddress(c, host))
BY HeldAnchored, HeldAlike, WithHostKeeps, UpdateAlike DEF UpdateAddress

LEMMA SetSupportsV6Alike ==
  ASSUME NEW c, Held(c), NEW v6 \in BOOLEAN
  PROVE  Alike(c, SetSupportsV6(c, v6))
<1> DEFINE ri == c.m_RouterInfo
           new == [ri EXCEPT !.v6 = TRUE]
<1>1. Anchored(ri) BY HeldAnchored
<1>2. KeepsCaps(ri, new) /\ Introducers(new) = Introducers(ri)
  BY <1>1 DEF KeepsCaps, Anchored, Introducers, RouterInfoRecord
<1>3. KeepsCaps(ri, DisableV6(ri)) /\ Introducers(DisableV6(ri)) = Introducers(ri)
  BY <1>1, DisableV6Keeps
<1>4. Alike(c, UpdateRouterInfo(c, new)) BY <1>2, UpdateAlike
<1>5. Alike(c, UpdateRouterInfo(c, DisableV6(ri))) BY <1>3, UpdateAlike
<1>6. SetSupportsV6(c, v6) = UpdateRouterInfo(c, IF v6 THEN new ELSE DisableV6(ri))
  BY DEF SetSupportsV6
<1> HIDE DEF new, ri
<1> QED BY <1>4, <1>5, <1>6

\* An info with other capabilities.
LEMMA WithCaps ==
  ASSUME NEW ri, Anchored(ri), NEW caps \in SUBSET AllCaps, NEW stats \in BOOLEAN
  PROVE  LET new == [ri EXCEPT !.m_Caps = caps, !.stats = stats]
         IN  Anchored(new) /\ new.m_Caps = caps /\ Introducers(new) = Introducers(ri)
BY DEF Anchored, RouterInfoRecord, Introducers

LEMMA WithOnlyCaps ==
  ASSUME NEW ri, Anchored(ri), NEW caps \in SUBSET AllCaps
  PROVE  LET new == [ri EXCEPT !.m_Caps = caps]
         IN  /\ Anchored(new) /\ new.m_Caps = caps /\ Introducers(new) = Introducers(ri)
             /\ new.m_Addresses = ri.m_Addresses
BY DEF Anchored, RouterInfoRecord, Introducers

LEMMA SetFloodfillAgrees ==
  ASSUME NEW c, Held(c), Is(c.m_RouterInfo, "Reachable"), NEW floodfill \in BOOLEAN
  PROVE  LET new == SetFloodfill(c, floodfill)
         IN  /\ Held(new) /\ FloodfillOK(new)
             /\ Introducers(new.m_RouterInfo) = Introducers(c.m_RouterInfo)
             /\ new.m_Introducers = c.m_Introducers
             /\ new.sessions = c.sessions /\ new.running = c.running
<1> DEFINE ri == c.m_RouterInfo
           up == ri.m_Caps \cup {"Floodfill"}
           down == ri.m_Caps \ {"Floodfill"}
           a == [ri EXCEPT !.m_Caps = up]
           b == [ri EXCEPT !.m_Caps = down, !.stats = FALSE]
           d == [c EXCEPT !.m_IsFloodfill = floodfill]
           n == IF floodfill THEN a ELSE b
           new == UpdateRouterInfo(d, n)
<1>1. Anchored(ri) /\ InfoOK(ri) BY HeldAnchored
<1>2. up \in SUBSET AllCaps /\ down \in SUBSET AllCaps
  BY <1>1 DEF Anchored, RouterInfoRecord, AllCaps
<1>3. /\ "Reachable" \in up /\ "Reachable" \in down
      /\ "Unreachable" \notin up /\ "Unreachable" \notin down
      /\ "Floodfill" \in up /\ "Floodfill" \notin down
  BY <1>1 DEF InfoOK, Is
<1>4. d \in ContextRecord /\ d.m_RouterInfo = ri /\ d.m_IsFloodfill = floodfill
      /\ d.m_Introducers = c.m_Introducers /\ d.sessions = c.sessions /\ d.running = c.running
  BY DEF Held, ContextRecord
<1>5. SetFloodfill(c, floodfill) = new BY DEF SetFloodfill
<1>6. Anchored(a) /\ a.m_Caps = up /\ Introducers(a) = Introducers(ri)
  <2> HIDE DEF ri, up
  <2> QED BY <1>1, <1>2, WithOnlyCaps
<1>7. Anchored(b) /\ b.m_Caps = down /\ Introducers(b) = Introducers(ri)
  <2> HIDE DEF ri, down
  <2> QED BY <1>1, <1>2, WithCaps
<1>8. Introducers(ri) = <<>> BY <1>1 DEF InfoOK
<1> HIDE DEF a, b, up, down, ri
<1>9. InfoOK(n) /\ Introducers(n) = Introducers(ri) /\ Is(n, "Reachable")
  BY <1>3, <1>6, <1>7, <1>8 DEF InfoOK, Is
<1>10. Is(n, "Floodfill") = floodfill BY <1>3, <1>6, <1>7 DEF Is
<1> HIDE DEF d, n
<1>11. Held(new) /\ new.m_RouterInfo = n /\ Rest(d, new) BY <1>4, <1>9, UpdateRouterInfoStores
<1> HIDE DEF new
<1>12. FloodfillOK(new) BY <1>4, <1>9, <1>10, <1>11 DEF FloodfillOK, Rest
<1> QED BY <1>4, <1>5, <1>9, <1>11, <1>12 DEF ri, Rest

LEMMA SetBandwidthKeeps ==
  ASSUME NEW c, Held(c), NEW high \in BOOLEAN
  PROVE  LET new == SetBandwidth(c, high)
         IN  /\ Held(new) /\ Rest(c, new)
             /\ (FloodfillOK(c) => FloodfillOK(new))
             /\ Introducers(new.m_RouterInfo) = Introducers(c.m_RouterInfo)
<1> DEFINE ri == c.m_RouterInfo
           caps == IF high THEN ri.m_Caps \cup {"HighBandwidth"} ELSE ri.m_Caps \ {"HighBandwidth"}
           n == [ri EXCEPT !.m_Caps = caps]
           new == UpdateRouterInfo(c, n)
<1>1. Anchored(ri) /\ InfoOK(ri) /\ c \in ContextRecord BY HeldAnchored DEF Held
<1>2. caps \in SUBSET AllCaps BY <1>1 DEF Anchored, RouterInfoRecord, AllCaps
<1>3. \A x \in {"Reachable", "Unreachable", "Floodfill"} : x \in caps <=> x \in ri.m_Caps
  OBVIOUS
<1>4. SetBandwidth(c, high) = IF Is(ri, "HighBandwidth") = high THEN c ELSE new
  BY DEF SetBandwidth
<1> HIDE DEF caps
<1>5. Anchored(n) /\ n.m_Caps = caps /\ Introducers(n) = Introducers(ri)
  <2> HIDE DEF ri
  <2> QED BY <1>1, <1>2, WithOnlyCaps
<1> HIDE DEF n
<1>6. InfoOK(n) BY <1>1, <1>3, <1>5 DEF InfoOK, Is
<1>7. Held(new) /\ new.m_RouterInfo = n /\ Rest(c, new) BY <1>1, <1>6, UpdateRouterInfoStores
<1> HIDE DEF new
<1>8. FloodfillOK(c) => FloodfillOK(new) BY <1>3, <1>5, <1>7 DEF FloodfillOK, Is, Rest
<1>9. Rest(c, c) BY DEF Rest
<1> QED BY <1>4, <1>5, <1>7, <1>8, <1>9

LEMMA SetUnreachableOK ==
  ASSUME NEW c, Held(c)
  PROVE  LET new == SetUnreachable(c)
         IN  /\ Held(new) /\ Rest(c, new) /\ FloodfillOK(new)
             /\ Is(new.m_RouterInfo, "Unreachable") /\ Introducers(new.m_RouterInfo) = <<>>
<1> DEFINE ri == c.m_RouterInfo
           caps == {"Unreachable", "SSUTesting"}
           a == [ri EXCEPT !.m_Caps = caps]
           b == RemoveFirstAddress(a, "NTCP", BOOLEAN)
           n == ClearIntroducers(b)
           new == UpdateRouterInfo(c, n)
<1>1. Anchored(ri) /\ c \in ContextRecord BY HeldAnchored DEF Held
<1>2. caps \in SUBSET AllCaps BY DEF AllCaps
<1>3. SetUnreachable(c) = new BY DEF SetUnreachable
<1>4. "Unreachable" \in caps /\ "Reachable" \notin caps /\ "Floodfill" \notin caps OBVIOUS
<1> HIDE DEF caps
<1>5. Anchored(a) /\ a.m_Caps = caps
  <2> HIDE DEF ri
  <2> QED BY <1>1, <1>2, WithOnlyCaps
<1> HIDE DEF a
<1>6. KeepsCaps(a, b) BY <1>5, FirstAddressIs, RemoveFirstAddressKeeps
<1> HIDE DEF b
<1>7. KeepsCaps(b, n) /\ Introducers(n) = <<>> BY <1>6, ClearIntroducersKeeps DEF KeepsCaps
<1> HIDE DEF n
<1>8. Anchored(n) /\ n.m_Caps = caps BY <1>5, <1>6, <1>7 DEF KeepsCaps
<1>9. InfoOK(n) BY <1>4, <1>7, <1>8 DEF InfoOK, Is
<1>10. Held(new) /\ new.m_RouterInfo = n /\ Rest(c, new) BY <1>1, <1>9, UpdateRouterInfoStores
<1> HIDE DEF new
<1> QED BY <1>3, <1>4, <1>7, <1>8, <1>10 DEF FloodfillOK, Is

\* A router that is reachable has no introducers, whatever it had.
LEMMA SetReachableOK ==
  ASSUME NEW c \in ContextRecord, Anchored(c.m_RouterInfo)
  PROVE  LET new == SetReachable(c)
         IN  Held(new) /\ Rest(c, new) /\ Is(new.m_RouterInfo, "Reachable")
<1> DEFINE ri == c.m_RouterInfo
           caps == (ri.m_Caps \ {"Unreachable"}) \cup {"Reachable", "SSUIntroducer"}
                     \cup (IF c.m_IsFloodfill THEN {"Floodfill"} ELSE {})
           a == [ri EXCEPT !.m_Caps = caps]
           b == AddNTCPAddress(a, a.m_Addresses[1].host)
           n == ClearIntroducers(b)
           new == UpdateRouterInfo(c, n)
<1>1. FirstAddress(ri, "SSU", BOOLEAN) = 1 /\ Anchored(ri) BY FirstAddressIs
<1>2. caps \in SUBSET AllCaps BY DEF AllCaps, Anchored, RouterInfoRecord
<1>3. SetReachable(c) = new BY <1>1 DEF SetReachable
<1>4. "Unreachable" \notin caps /\ "Reachable" \in caps OBVIOUS
<1> HIDE DEF caps
<1>5. Anchored(a) /\ a.m_Caps = caps
  <2> HIDE DEF ri
  <2> QED BY <1>1, <1>2, WithOnlyCaps
<1>6. a.m_Addresses[1].host \in RCHosts \cup {V6Host}
  <2> HIDE DEF a
  <2>1. a.m_Addresses \in Seq(AddressRecord) /\ 1 \in 1 .. Len(a.m_Addresses)
    BY <1>5 DEF Anchored, RouterInfoRecord
  <2>2. a.m_Addresses[1] \in AddressRecord BY <2>1
  <2> QED BY <2>2 DEF AddressRecord
<1> HIDE DEF a
<1>7. KeepsCaps(a, b) BY <1>5, <1>6, AddNTCPAddressKeeps
<1> HIDE DEF b
<1>8. KeepsCaps(b, n) /\ Introducers(n) = <<>> BY <1>7, ClearIntroducersKeeps DEF KeepsCaps
<1> HIDE DEF n
<1>9. Anchored(n) /\ n.m_Caps = caps BY <1>5, <1>7, <1>8 DEF KeepsCaps
<1>10. InfoOK(n) BY <1>4, <1>8, <1>9 DEF InfoOK, Is
<1>11. Held(new) /\ new.m_RouterInfo = n /\ Rest(c, new) BY <1>10, UpdateRouterInfoStores
<1> HIDE DEF new
<1> QED BY <1>3, <1>4, <1>9, <1>11 DEF Is

LEMMA NewRouterInfoOK == InfoOK(NewRouterInfo) /\ Is(NewRouterInfo, "Reachable")
<1> DEFINE e == [m_Caps |-> {}, m_Addresses |-> <<>>, v6 |-> FALSE, stats |-> FALSE]
           a == AddSSUAddress(e, DefaultHost)
           b == AddNTCPAddress(a, DefaultHost)
           caps == {"Reachable", "SSUTesting", "SSUIntroducer"}
<1>1. DefaultHost \in RCHosts /\ DefaultHost # V6Host BY RouterContextAssumption DEF DefaultHost
<1>2. Anchored(a) /\ Introducers(a) = <<>>
  <2> DEFINE x == SSU(DefaultHost)
             v == FALSE \/ DefaultHost = V6Host
  <2>0. a = [e EXCEPT !.m_Addresses = Append(<<>>, x), !.v6 = v,
                      !.m_Caps = {} \cup {"SSUTesting", "SSUIntroducer"}]
    BY DEF AddSSUAddress
  <2>1. a = [m_Caps |-> {"SSUTesting", "SSUIntroducer"}, m_Addresses |-> <<x>>,
             v6 |-> v, stats |-> FALSE]
    <3>1. Append(<<>>, x) = <<x>> OBVIOUS
    <3>2. {} \cup {"SSUTesting", "SSUIntroducer"} = {"SSUTesting", "SSUIntroducer"} OBVIOUS
    <3> HIDE DEF a, x, v
    <3> QED BY <2>0, <3>1, <3>2
  <2>2. x \in AddressRecord BY <1>1, AddressesTyped
  <2>3. x.style = "SSU" /\ x.host = DefaultHost /\ x.introducers = <<>> BY DEF SSU
  <2>4. v \in BOOLEAN OBVIOUS
  <2> HIDE DEF x, v, a
  <2>5. a \in RouterInfoRecord BY <2>1, <2>2, <2>4 DEF RouterInfoRecord, AllCaps
  <2>6. a.m_Addresses = <<x>> BY <2>1
  <2> QED BY <1>1, <2>3, <2>5, <2>6 DEF Anchored, Introducers
<1> HIDE DEF a
<1>3. KeepsCaps(a, b) /\ Introducers(b) = <<>> BY <1>1, <1>2, AddNTCPAddressKeeps
<1>4. NewRouterInfo = [b EXCEPT !.m_Caps = caps] BY DEF NewRouterInfo, a
<1>5. caps \in SUBSET AllCaps /\ "Reachable" \in caps /\ "Unreachable" \notin caps
  BY DEF AllCaps
<1> HIDE DEF b, caps
<1>6. Anchored(NewRouterInfo) /\ NewRouterInfo.m_Caps = caps /\ Introducers(NewRouterInfo) = <<>>
  BY <1>3, <1>4, <1>5, WithOnlyCaps DEF KeepsCaps
<1> QED BY <1>5, <1>6 DEF InfoOK, Is

\* What is read may be of an unreachable router with introducers; what comes out is not.
LEMMA InitRouterOK ==
  ASSUME NEW c \in ContextRecord, c.file = <<>> \/ Stored(c)
  PROVE  LET new == InitRouter(c)
         IN  Held(new) /\ Rest(c, new) /\ Is(new.m_RouterInfo, "Reachable")
<1> DEFINE l == IF c.file = <<>> THEN [c EXCEPT !.m_RouterInfo = NewRouterInfo] ELSE Load(c)
<1>1. l \in ContextRecord /\ Rest(c, l) /\ InfoOK(l.m_RouterInfo) /\ Is(l.m_RouterInfo, "Reachable")
  <2>1. CASE c.file = <<>>
    <3>1. NewRouterInfo \in RouterInfoRecord BY NewRouterInfoOK DEF InfoOK, Anchored
    <3>2. l = [c EXCEPT !.m_RouterInfo = NewRouterInfo] BY <2>1
    <3> HIDE DEF l
    <3>3. l \in ContextRecord /\ l.m_RouterInfo = NewRouterInfo /\ Rest(c, l)
      BY <3>1, <3>2 DEF ContextRecord, Rest
    <3> QED BY <3>3, NewRouterInfoOK
  <2>2. CASE c.file # <<>>
    <3> DEFINE ri == ReadFromStream(c.file)
               r == [c EXCEPT !.m_RouterInfo = ri]
    <3>1. Anchored(c.m_RouterInfo) /\ InfoOK(c.m_RouterInfo) /\ c.file = WriteToStream(c.m_RouterInfo)
      BY <2>2 DEF Stored, InfoOK
    <3>2. /\ Anchored(ri) /\ ri.m_Addresses = c.m_RouterInfo.m_Addresses
          /\ ri.m_Caps = c.m_RouterInfo.m_Caps \cup
               (IF Is(c.m_RouterInfo, "Floodfill") THEN {"HighBandwidth"} ELSE {})
      BY <3>1, WriteRead
    <3>3. l = IF Is(r.m_RouterInfo, "Unreachable") THEN SetReachable(r) ELSE r BY <2>2 DEF Load
    <3> HIDE DEF ri, l
    <3>4. InfoOK(ri) BY <3>1, <3>2 DEF InfoOK, Is, Introducers
    <3>5. r \in ContextRecord /\ r.m_RouterInfo = ri /\ Rest(c, r)
      BY <3>2 DEF ContextRecord, Rest, Anchored
    <3> HIDE DEF r
    <3>6. CASE Is(ri, "Unreachable")
      <4>1. Held(l) /\ Rest(r, l) /\ Is(l.m_RouterInfo, "Reachable")
        BY <3>2, <3>3, <3>5, <3>6, SetReachableOK
      <4> QED BY <4>1, <3>5, RestTransitive DEF Held, Stored
    <3>7. CASE ~Is(ri, "Unreachable")
      <4>1. l = r BY <3>3, <3>5, <3>7
      <4>2. Is(ri, "Reachable") BY <3>4, <3>7 DEF InfoOK, Is
      <4> QED BY <4>1, <4>2, <3>4, <3>5
    <3> QED BY <3>6, <3>7
  <2> QED BY <2>1, <2>2
<1>2. InitRouter(c) = UpdateRouterInfo(l, l.m_RouterInfo) BY DEF InitRouter
<1> HIDE DEF l
<1> QED BY <1>1, <1>2, UpdateRouterInfoStores, RestTransitive
-----------------------------------------------------------------------------
(***************************************************************************)
(* The introducers' timer goes through its list and keeps or removes one   *)
(* introducer after the other (by induction over the list).                *)
(***************************************************************************)
LEMMA Induction ==
  ASSUME NEW S \in SUBSET Nat, 0 \in S, \A n \in S : n + 1 \in S
  PROVE  S = Nat
<1> DEFINE T == Nat \ S
<1> SUFFICES ASSUME T # {} PROVE FALSE OBVIOUS
<1>1. PICK n \in T : \A m \in T : n <= m BY Least
<1>2. n # 0 /\ n - 1 \in Nat /\ n - 1 \notin T BY <1>1
<1>3. (n - 1) + 1 \in S BY <1>2
<1> QED BY <1>3

First(c) == [ri |-> c.m_RouterInfo, newList |-> <<>>]

\* h[i] is what the loop has after i introducers.
Loop(c, list, n, h) ==
  h = [i \in 0 .. n |-> IF i = 0 THEN First(c) ELSE KeepIntroducer(c, h[i - 1], list[i])]

LEMMA LoopExists ==
  ASSUME NEW c, NEW list \in Seq(RCEndpoints)
  PROVE  \E h : Loop(c, list, Len(list), h)
<1> DEFINE Good == {n \in Nat : \E h : Loop(c, list, n, h)}
<1>1. Loop(c, list, 0, [i \in 0 .. 0 |-> First(c)]) BY DEF Loop
<1>2. ASSUME NEW n \in Nat, NEW h, Loop(c, list, n, h) PROVE \E g : Loop(c, list, n + 1, g)
  <2> DEFINE g == [i \in 0 .. (n + 1) |->
                     IF i <= n THEN h[i] ELSE KeepIntroducer(c, h[n], list[n + 1])]
  <2>1. ASSUME NEW i \in 0 .. (n + 1)
        PROVE  g[i] = IF i = 0 THEN First(c) ELSE KeepIntroducer(c, g[i - 1], list[i])
    <3>1. CASE i = n + 1
      <4>1. g[i] = KeepIntroducer(c, h[n], list[i]) /\ g[n] = h[n] /\ i - 1 = n /\ i # 0 BY <3>1
      <4> HIDE DEF g
      <4> QED BY <4>1
    <3>2. CASE i # n + 1
      <4>1. i \in 0 .. n /\ g[i] = h[i] /\ (i # 0 => g[i - 1] = h[i - 1]) BY <3>2
      <4>2. h[i] = IF i = 0 THEN First(c) ELSE KeepIntroducer(c, h[i - 1], list[i])
        BY <1>2, <4>1 DEF Loop
      <4> HIDE DEF g
      <4> QED BY <4>1, <4>2
    <3> QED BY <3>1, <3>2
  <2>2. g = [i \in 0 .. (n + 1) |-> g[i]] OBVIOUS
  <2> HIDE DEF g
  <2>3. Loop(c, list, n + 1, g) BY <2>1, <2>2 DEF Loop
  <2> QED BY <2>3
<1>3. 0 \in Good BY <1>1
<1>4. \A n \in Good : n + 1 \in Good BY <1>2
<1> HIDE DEF Good
<1>5. Good = Nat BY <1>3, <1>4, Induction DEF Good
<1>6. Len(list) \in Good BY <1>5
<1> QED BY <1>6 DEF Good

\* After i introducers: those kept, and after them those that are not looked at yet.
Looked(c, list, i, x) ==
  LET q == Introducers(x.ri)
      k == Len(x.newList)
  IN /\ x = [ri |-> x.ri, newList |-> x.newList]
     /\ KeepsCaps(c.m_RouterInfo, x.ri)
     /\ x.newList \in Seq(RCEndpoints) /\ k <= i
     /\ \A j \in 1 .. k : Young(c, x.newList[j])
     /\ Len(q) = k + (Len(list) - i)
     /\ \A j \in 1 .. k : q[j].endpoint = x.newList[j]
     /\ \A j \in 1 .. (Len(list) - i) : q[k + j].endpoint = list[i + j]

LEMMA KeepIntroducerLooks ==
  ASSUME NEW c, NEW list \in Seq(RCEndpoints), NEW i \in 0 .. (Len(list) - 1), NEW x,
         Looked(c, list, i, x)
  PROVE  Looked(c, list, i + 1, KeepIntroducer(c, x, list[i + 1]))
<1> DEFINE q == Introducers(x.ri)
           k == Len(x.newList)
           e == list[i + 1]
           y == KeepIntroducer(c, x, e)
<1>1. /\ x = [ri |-> x.ri, newList |-> x.newList]
      /\ KeepsCaps(c.m_RouterInfo, x.ri)
      /\ x.newList \in Seq(RCEndpoints) /\ k \in Nat /\ k <= i
      /\ \A j \in 1 .. k : Young(c, x.newList[j])
      /\ Len(q) = k + (Len(list) - i)
      /\ \A j \in 1 .. k : q[j].endpoint = x.newList[j]
      /\ \A j \in 1 .. (Len(list) - i) : q[k + j].endpoint = list[i + j]
  BY DEF Looked
<1>2. Len(list) \in Nat /\ i \in Nat /\ i + 1 <= Len(list) OBVIOUS
<1>3. q[k + 1].endpoint = e
  <2>1. 1 \in 1 .. (Len(list) - i) BY <1>2
  <2> QED BY <2>1, <1>1
<1>4. e \in RCEndpoints BY <1>2
<1>5. Anchored(x.ri) /\ q \in Seq(IntroducerRecord) BY <1>1, IntroducersTyped DEF KeepsCaps
<1> HIDE DEF e, q
<1>6. CASE Young(c, e)
  <2> DEFINE r == Append(x.newList, e)
  <2>1. y = [ri |-> x.ri, newList |-> r]
    <3>1. y = [x EXCEPT !.newList = r] BY <1>6 DEF KeepIntroducer
    <3> HIDE DEF r, y
    <3> QED BY <3>1, <1>1
  <2>2. r \in Seq(RCEndpoints) /\ Len(r) = k + 1 /\ r[k + 1] = e
        /\ \A j \in 1 .. k : r[j] = x.newList[j]
    BY <1>1, <1>4
  <2> HIDE DEF r
  <2>3. y.ri = x.ri /\ y.newList = r /\ y = [ri |-> y.ri, newList |-> y.newList] BY <2>1
  <2> HIDE DEF y
  <2>4. \A j \in 1 .. (k + 1) : Young(c, r[j])
    <3> TAKE j \in 1 .. (k + 1)
    <3>1. j \in 1 .. k \/ j = k + 1 BY <1>1
    <3> QED BY <3>1, <2>2, <1>1, <1>6
  <2>5. \A j \in 1 .. (k + 1) : q[j].endpoint = r[j]
    <3> TAKE j \in 1 .. (k + 1)
    <3>1. j \in 1 .. k \/ j = k + 1 BY <1>1
    <3> QED BY <3>1, <2>2, <1>1, <1>3
  <2>6. \A j \in 1 .. (Len(list) - (i + 1)) : q[(k + 1) + j].endpoint = list[(i + 1) + j]
    <3> TAKE j \in 1 .. (Len(list) - (i + 1))
    <3>1. j + 1 \in 1 .. (Len(list) - i) BY <1>2
    <3>2. q[k + (j + 1)].endpoint = list[i + (j + 1)] BY <3>1, <1>1
    <3>3. k + (j + 1) = (k + 1) + j /\ i + (j + 1) = (i + 1) + j BY <1>1, <1>2
    <3> QED BY <3>2, <3>3
  <2>7. Len(q) = (k + 1) + (Len(list) - (i + 1)) /\ k + 1 <= i + 1 BY <1>1, <1>2
  <2>8. q = Introducers(y.ri) BY <2>3 DEF q
  <2> HIDE DEF k
  <2>9. Looked(c, list, i + 1, y)
    BY <1>1, <2>2, <2>3, <2>4, <2>5, <2>6, <2>7, <2>8 DEF Looked
  <2> QED BY <2>9 DEF y, e
<1>7. CASE ~Young(c, e)
  <2> DEFINE n == RemoveIntroducer(x.ri, e)
             r == RemoveAt(q, k + 1)
  <2>1. y = [ri |-> n, newList |-> x.newList]
    <3>1. y = [x EXCEPT !.ri = n] BY <1>7 DEF KeepIntroducer
    <3> HIDE DEF n, y
    <3> QED BY <3>1, <1>1
  <2>2. k + 1 \in 1 .. Len(q) BY <1>1, <1>2
  <2>3. \A j \in 1 .. ((k + 1) - 1) : q[j].endpoint # e
    <3> TAKE j \in 1 .. ((k + 1) - 1)
    <3>1. j \in 1 .. k BY <1>1
    <3> QED BY <3>1, <1>1, <1>7
  <2>4. KeepsCaps(x.ri, n) /\ Introducers(n) = r
    <3> HIDE DEF k, n
    <3> QED BY <1>3, <1>5, <2>2, <2>3, RemoveIntroducerAt DEF q, n
  <2>5. /\ r \in Seq(IntroducerRecord) /\ Len(r) = Len(q) - 1
        /\ \A j \in 1 .. (Len(q) - 1) : r[j] = IF j < k + 1 THEN q[j] ELSE q[j + 1]
    <3> HIDE DEF k
    <3> QED BY <1>5, <2>2, RemoveAtIs
  <2> HIDE DEF n
  <2>6. y.ri = n /\ y.newList = x.newList /\ y = [ri |-> y.ri, newList |-> y.newList] BY <2>1
  <2> HIDE DEF y, r
  <2>7. \A j \in 1 .. k : r[j].endpoint = x.newList[j]
    <3> TAKE j \in 1 .. k
    <3>1. j \in 1 .. (Len(q) - 1) /\ j < k + 1 BY <1>1, <1>2
    <3> QED BY <3>1, <2>5, <1>1
  <2>8. \A j \in 1 .. (Len(list) - (i + 1)) : r[k + j].endpoint = list[(i + 1) + j]
    <3> TAKE j \in 1 .. (Len(list) - (i + 1))
    <3>1. j + 1 \in 1 .. (Len(list) - i) BY <1>2
    <3>2. q[k + (j + 1)].endpoint = list[i + (j + 1)] BY <3>1, <1>1
    <3>3. k + j \in 1 .. (Len(q) - 1) /\ ~(k + j < k + 1) BY <1>1, <1>2
    <3>4. r[k + j] = q[(k + j) + 1] BY <3>3, <2>5
    <3>5. k + (j + 1) = (k + j) + 1 /\ i + (j + 1) = (i + 1) + j BY <1>1, <1>2
    <3> QED BY <3>2, <3>4, <3>5
  <2>9. Len(r) = k + (Len(list) - (i + 1)) /\ k <= i + 1 BY <1>1, <1>2, <2>5
  <2>10. KeepsCaps(c.m_RouterInfo, n) BY <1>1, <2>4 DEF KeepsCaps
  <2> HIDE DEF k
  <2>11. Looked(c, list, i + 1, y)
    BY <1>1, <2>4, <2>6, <2>7, <2>8, <2>9, <2>10 DEF Looked, k
  <2> QED BY <2>11 DEF y, e
<1> QED BY <1>6, <1>7

\* The same when endpoints may differ: no fewer are published than are kept.
Counted(c, list, i, x) ==
  /\ x = [ri |-> x.ri, newList |-> x.newList]
  /\ KeepsCaps(c.m_RouterInfo, x.ri)
  /\ x.newList \in Seq(RCEndpoints) /\ Len(x.newList) <= i
  /\ Len(x.newList) + (Len(list) - i) <= Len(Introducers(x.ri))

LEMMA KeepIntroducerCounts ==
  ASSUME NEW c, NEW list \in Seq(RCEndpoints), NEW i \in 0 .. (Len(list) - 1), NEW x,
         Counted(c, list, i, x)
  PROVE  Counted(c, list, i + 1, KeepIntroducer(c, x, list[i + 1]))
<1> DEFINE e == list[i + 1]
           k == Len(x.newList)
           y == KeepIntroducer(c, x, e)
           r == Append(x.newList, e)
           n == RemoveIntroducer(x.ri, e)
<1>1. /\ x = [ri |-> x.ri, newList |-> x.newList]
      /\ KeepsCaps(c.m_RouterInfo, x.ri) /\ Anchored(x.ri)
      /\ x.newList \in Seq(RCEndpoints) /\ k \in Nat /\ k <= i
      /\ k + (Len(list) - i) <= Len(Introducers(x.ri))
  BY DEF Counted, KeepsCaps
<1>2. Len(list) \in Nat /\ i \in Nat /\ i + 1 <= Len(list) /\ e \in RCEndpoints OBVIOUS
<1>3. Len(Introducers(x.ri)) \in Nat
  <2>1. Introducers(x.ri) \in Seq(IntroducerRecord) BY <1>1, IntroducersTyped
  <2> QED BY <2>1
<1> HIDE DEF e
<1>4. CASE Young(c, e)
  <2>1. y = [x EXCEPT !.newList = r] BY <1>4 DEF KeepIntroducer
  <2>2. r \in Seq(RCEndpoints) /\ Len(r) = k + 1 BY <1>1, <1>2
  <2> HIDE DEF r, y, k
  <2>3. y = [ri |-> x.ri, newList |-> r] BY <1>1, <2>1
  <2>4. y.ri = x.ri /\ y.newList = r /\ y = [ri |-> y.ri, newList |-> y.newList] BY <2>3
  <2>5. Counted(c, list, i + 1, y) BY <1>1, <1>2, <1>3, <2>2, <2>4 DEF Counted
  <2> QED BY <2>5 DEF y, e
<1>5. CASE ~Young(c, e)
  <2>1. y = [x EXCEPT !.ri = n] BY <1>5 DEF KeepIntroducer
  <2>2. KeepsCaps(x.ri, n) /\ Len(Introducers(x.ri)) - 1 <= Len(Introducers(n))
    BY <1>1, RemoveIntroducerKeeps
  <2> HIDE DEF n, y
  <2>3. y = [ri |-> n, newList |-> x.newList] BY <1>1, <2>1
  <2>4. y.ri = n /\ y.newList = x.newList /\ y = [ri |-> y.ri, newList |-> y.newList] BY <2>3
  <2>5. KeepsCaps(c.m_RouterInfo, n) /\ Anchored(n) BY <1>1, <2>2 DEF KeepsCaps
  <2>6. Len(Introducers(n)) \in Nat
    <3>1. Introducers(n) \in Seq(IntroducerRecord) BY <2>5, IntroducersTyped
    <3> QED BY <3>1
  <2> HIDE DEF k
  <2>7. k + (Len(list) - (i + 1)) <= Len(Introducers(n)) /\ k <= i + 1
    BY <1>1, <1>2, <1>3, <2>2, <2>6
  <2>8. Counted(c, list, i + 1, y) BY <1>1, <2>4, <2>5, <2>7 DEF Counted, k
  <2> QED BY <2>8 DEF y, e
<1> QED BY <1>4, <1>5

After(c, list, i, x) ==
  IF Listed(Introducers(c.m_RouterInfo), list) THEN Looked(c, list, i, x)
  ELSE Counted(c, list, i, x)

\* What the timer keeps is what stays published, in the same order, if it was so.
LEMMA KeepIntroducersOK ==
  ASSUME NEW c, Held(c), Is(c.m_RouterInfo, "Unreachable"), Introduces(c),
         Len(c.m_Introducers) <= SSU_MAX_NUM_INTRODUCERS
  PROVE  LET new == KeepIntroducers(c)
         IN  /\ Held(new) /\ Introduces(new)
             /\ Len(new.m_Introducers) <= SSU_MAX_NUM_INTRODUCERS
             /\ new.m_RouterInfo.m_Caps = c.m_RouterInfo.m_Caps
             /\ new.m_IsFloodfill = c.m_IsFloodfill
             /\ new.sessions = c.sessions /\ new.running = c.running
<1> DEFINE list == c.m_Introducers
           len == Len(list)
           after == CHOOSE h : Loop(c, list, len, h)
           all == after[len]
           u == UpdateRouterInfo(c, all.ri)
           new == [u EXCEPT !.m_Introducers = all.newList]
<1>1. list \in Seq(RCEndpoints) /\ len \in Nat
  <2>1. list \in Seq(RCEndpoints) BY DEF Held, ContextRecord
  <2> HIDE DEF list
  <2> QED BY <2>1
<1>2. Loop(c, list, len, after)
  <2> HIDE DEF list
  <2> QED BY <1>1, LoopExists
<1>3. KeepIntroducers(c) = new BY DEF KeepIntroducers, Loop, First
<1> HIDE DEF after
<1>4. \A i \in 0 .. len :
        after[i] = IF i = 0 THEN First(c) ELSE KeepIntroducer(c, after[i - 1], list[i])
  BY <1>2 DEF Loop
<1> HIDE DEF list
<1>5. Anchored(c.m_RouterInfo) /\ InfoOK(c.m_RouterInfo) /\ c \in ContextRecord BY HeldAnchored DEF Held
<1>6. After(c, list, 0, First(c))
  <2> DEFINE x == First(c)
  <2>1. x.ri = c.m_RouterInfo /\ x.newList = <<>> /\ x = [ri |-> x.ri, newList |-> x.newList]
    BY DEF First
  <2>2. KeepsCaps(c.m_RouterInfo, c.m_RouterInfo) BY <1>5 DEF KeepsCaps
  <2>3. len <= Len(Introducers(c.m_RouterInfo)) BY DEF Introduces, list
  <2> HIDE DEF x
  <2>4. <<>> \in Seq(RCEndpoints) /\ Len(<<>>) = 0 BY EmptySeq
  <2>5. CASE Listed(Introducers(c.m_RouterInfo), list)
    <3>1. /\ Len(Introducers(c.m_RouterInfo)) = len
          /\ \A j \in 1 .. len : Introducers(c.m_RouterInfo)[j].endpoint = list[j]
      BY <2>5 DEF Listed
    <3>2. Looked(c, list, 0, x) BY <1>1, <2>1, <2>2, <2>4, <3>1 DEF Looked
    <3> QED BY <2>5, <3>2 DEF After, x
  <2>6. CASE ~Listed(Introducers(c.m_RouterInfo), list)
    <3>1. Counted(c, list, 0, x) BY <1>1, <2>1, <2>2, <2>3, <2>4 DEF Counted
    <3> QED BY <2>6, <3>1 DEF After, x
  <2> QED BY <2>5, <2>6
<1>7. After(c, list, len, all)
  <2> DEFINE S == {i \in Nat : i <= len => After(c, list, i, after[i])}
  <2>1. 0 \in S BY <1>1, <1>4, <1>6
  <2>2. ASSUME NEW i \in S PROVE i + 1 \in S
    <3>1. CASE i + 1 <= len
      <4>1. i \in 0 .. (len - 1) /\ i + 1 \in 0 .. len BY <1>1, <3>1
      <4>2. After(c, list, i, after[i]) BY <4>1, <1>1
      <4>3. After(c, list, i + 1, KeepIntroducer(c, after[i], list[i + 1]))
        BY <1>1, <4>1, <4>2, KeepIntroducerLooks, KeepIntroducerCounts DEF After
      <4>4. after[i + 1] = KeepIntroducer(c, after[i], list[i + 1]) BY <1>4, <4>1
      <4> QED BY <4>3, <4>4
    <3>2. CASE ~(i + 1 <= len) BY <3>2
    <3> QED BY <3>1, <3>2
  <2> HIDE DEF S
  <2>3. S = Nat BY <2>1, <2>2, Induction DEF S
  <2> QED BY <1>1, <2>3 DEF S
<1> HIDE DEF all
<1>8. /\ KeepsCaps(c.m_RouterInfo, all.ri)
      /\ all.newList \in Seq(RCEndpoints) /\ Len(all.newList) <= len
      /\ Len(all.newList) <= Len(Introducers(all.ri))
      /\ Listed(Introducers(c.m_RouterInfo), list) => Listed(Introducers(all.ri), all.newList)
  <2>1. CASE Listed(Introducers(c.m_RouterInfo), list)
    <3>1. Looked(c, list, len, all) BY <1>7, <2>1 DEF After
    <3>2. Len(all.newList) \in Nat BY <3>1 DEF Looked
    <3> QED BY <1>1, <3>1, <3>2 DEF Looked, Listed
  <2>2. CASE ~Listed(Introducers(c.m_RouterInfo), list)
    <3>1. Counted(c, list, len, all) BY <1>7, <2>2 DEF After
    <3>2. Len(all.newList) \in Nat BY <3>1 DEF Counted
    <3> QED BY <1>1, <2>2, <3>1, <3>2 DEF Counted
  <2> QED BY <2>1, <2>2
<1>9. InfoOK(all.ri)
  <2>1. ~Is(all.ri, "Reachable") /\ Is(all.ri, "Unreachable")
    BY <1>5, <1>8 DEF InfoOK, KeepsCaps, Is
  <2> QED BY <1>8, <2>1 DEF InfoOK, KeepsCaps
<1>10. Held(u) /\ u.m_RouterInfo = all.ri /\ Rest(c, u) BY <1>5, <1>9, UpdateRouterInfoStores
<1> HIDE DEF u
<1>11. /\ new \in ContextRecord /\ new.m_Introducers = all.newList
       /\ new.m_RouterInfo = u.m_RouterInfo /\ new.m_Buffer = u.m_Buffer /\ new.file = u.file
       /\ new.m_IsFloodfill = u.m_IsFloodfill /\ new.sessions = u.sessions
       /\ new.running = u.running /\ new.moved = u.moved
  BY <1>8, <1>10 DEF Held, ContextRecord
<1> HIDE DEF new
<1>12. Held(new) BY <1>10, <1>11 DEF Held, Stored
<1>13. Introduces(new)
  <2>1. c.moved \/ Listed(Introducers(c.m_RouterInfo), list) BY DEF Introduces, list
  <2>2. new.moved = c.moved BY <1>10, <1>11 DEF Rest
  <2> QED BY <1>8, <1>10, <1>11, <2>1, <2>2 DEF Introduces
<1>14. Len(new.m_Introducers) <= SSU_MAX_NUM_INTRODUCERS
  <2>1. Len(all.newList) \in Nat /\ SSU_MAX_NUM_INTRODUCERS \in Nat
    BY <1>8, RouterContextAssumption
  <2> QED BY <2>1, <1>1, <1>8, <1>11 DEF list
<1> QED BY <1>3, <1>8, <1>10, <1>11, <1>12, <1>13, <1>14 DEF Rest, KeepsCaps

LEMMA NewIntroducerOK ==
  ASSUME NEW c, Held(c), Is(c.m_RouterInfo, "Unreachable"), Introduces(c),
         Len(c.m_Introducers) <= SSU_MAX_NUM_INTRODUCERS, NEW new \in NewIntroducer(c)
  PROVE  /\ Held(new) /\ Introduces(new)
         /\ Len(new.m_Introducers) <= SSU_MAX_NUM_INTRODUCERS
         /\ new.m_RouterInfo.m_Caps = c.m_RouterInfo.m_Caps
         /\ new.m_IsFloodfill = c.m_IsFloodfill /\ new.running = c.running
<1>1. CASE new = c BY <1>1
<1>2. CASE new # c
  <2>1. PICK s \in c.sessions, e \in RCEndpoints :
          /\ Len(c.m_Introducers) < SSU_MAX_NUM_INTRODUCERS
          /\ new = [UpdateRouterInfo(c, AddIntroducer(c.m_RouterInfo, e, s.tag)) EXCEPT
                      !.m_Introducers = Append(@, s.endpoint), !.moved = @ \/ e # s.endpoint]
    <3>1. PICK y \in c.sessions \X RCEndpoints :
            /\ Len(c.m_Introducers) < SSU_MAX_NUM_INTRODUCERS
            /\ new = AddFound(c, y[1], y[2])
      BY <1>2 DEF NewIntroducer
    <3>2. y[1] \in c.sessions /\ y[2] \in RCEndpoints OBVIOUS
    <3> QED BY <1>2, <3>1, <3>2 DEF AddFound
  <2> DEFINE f == s.endpoint
             t == s.tag
             ri == AddIntroducer(c.m_RouterInfo, e, t)
             x == [endpoint |-> e, iTag |-> t]
             u == UpdateRouterInfo(c, ri)
             q == Introducers(c.m_RouterInfo)
             list == c.m_Introducers
             r == Append(list, f)
             m == c.moved \/ e # f
  <2>2. /\ f \in RCEndpoints /\ t \in Nat /\ list \in Seq(RCEndpoints)
        /\ c.moved \in BOOLEAN /\ m \in BOOLEAN
    BY DEF Held, ContextRecord
  <2>3. Anchored(c.m_RouterInfo) /\ InfoOK(c.m_RouterInfo) /\ c \in ContextRecord
    BY HeldAnchored DEF Held
  <2>4. new = [u EXCEPT !.m_Introducers = Append(@, f), !.moved = @ \/ e # f] BY <2>1
  <2> HIDE DEF f, t
  <2>5. KeepsCaps(c.m_RouterInfo, ri) /\ Introducers(ri) = Append(q, x)
    BY <2>2, <2>3, AddIntroducerKeeps
  <2>6. q \in Seq(IntroducerRecord) BY <2>3, IntroducersTyped
  <2>7. Len(list) <= Len(q) /\ (c.moved \/ Listed(q, list)) BY DEF Introduces
  <2>8. x.endpoint = e /\ x \in IntroducerRecord BY <2>2 DEF IntroducerRecord
  <2> HIDE DEF ri, x, q
  <2>9. InfoOK(ri)
    <3>1. ~Is(ri, "Reachable") /\ Is(ri, "Unreachable") BY <2>3, <2>5 DEF InfoOK, KeepsCaps, Is
    <3> QED BY <2>5, <3>1 DEF InfoOK, KeepsCaps
  <2>10. Held(u) /\ u.m_RouterInfo = ri /\ Rest(c, u) BY <2>3, <2>9, UpdateRouterInfoStores
  <2>11. new = [u EXCEPT !.m_Introducers = r, !.moved = m]
    <3> HIDE DEF u
    <3> QED BY <2>4, <2>10 DEF Rest
  <2>11a. ~m => e = f OBVIOUS
  <2>11b. c.moved => m OBVIOUS
  <2> HIDE DEF u, list, m
  <2>12. r \in Seq(RCEndpoints) /\ Len(r) = Len(list) + 1 /\ Len(list) \in Nat BY <2>2
  <2>13. Len(r) <= Len(Append(q, x))
    <3>1. Len(Append(q, x)) = Len(q) + 1 /\ Len(q) \in Nat BY <2>6, <2>8
    <3> HIDE DEF r
    <3> QED BY <2>7, <2>12, <3>1
  <2>13a. ASSUME ~m PROVE Listed(Append(q, x), r)
    <3>0. e = f /\ Listed(q, list) BY <2>7, <2>11a, <2>11b, <2>13a
    <3>1. Len(q) = Len(list) /\ \A i \in 1 .. Len(q) : q[i].endpoint = list[i]
      BY <3>0 DEF Listed
    <3>2. Len(Append(q, x)) = Len(r) BY <2>2, <2>6, <2>8, <3>1
    <3>3. ASSUME NEW i \in 1 .. Len(Append(q, x)) PROVE Append(q, x)[i].endpoint = r[i]
      <4>1. i \in 1 .. Len(q) \/ i = Len(q) + 1 BY <2>6, <2>8
      <4>2. CASE i \in 1 .. Len(q)
        <5>1. Append(q, x)[i] = q[i] /\ r[i] = list[i] BY <4>2, <3>1, <2>2, <2>6, <2>8
        <5> QED BY <5>1, <4>2, <3>1
      <4>3. CASE i = Len(q) + 1
        <5>1. Append(q, x)[i] = x /\ r[i] = f BY <4>3, <3>1, <2>2, <2>6, <2>8
        <5> QED BY <5>1, <2>8, <3>0
      <4> QED BY <4>1, <4>2, <4>3
    <3> QED BY <3>2, <3>3 DEF Listed
  <2> HIDE DEF r
  <2>14. /\ new \in ContextRecord /\ new.m_Introducers = r /\ new.moved = m
         /\ new.m_RouterInfo = ri /\ new.m_Buffer = u.m_Buffer /\ new.file = u.file
         /\ new.m_IsFloodfill = u.m_IsFloodfill /\ new.running = u.running
    BY <2>2, <2>10, <2>11, <2>12 DEF Held, ContextRecord
  <2>15. Held(new) BY <2>10, <2>14 DEF Held, Stored
  <2>16. Introduces(new) BY <2>5, <2>13, <2>13a, <2>14 DEF Introduces
  <2>17. Len(r) <= SSU_MAX_NUM_INTRODUCERS
    <3>1. SSU_MAX_NUM_INTRODUCERS \in Nat BY RouterContextAssumption
    <3> QED BY <2>1, <2>12, <3>1 DEF list
  <2> QED BY <2>5, <2>10, <2>14, <2>15, <2>16, <2>17 DEF Rest, KeepsCaps
<1> QED BY <1>1, <1>2
-----------------------------------------------------------------------------
(***************************************************************************)
(* The steps.                                                              *)
(***************************************************************************)
LEMMA InitIInv == RouterContextInit => IInv
<1> SUFFICES ASSUME RouterContextInit PROVE IInv OBVIOUS
<1>1. context.m_Introducers = <<>> /\ context.file = <<>> /\ context.running = FALSE
  BY DEF RouterContextInit
<1>2. context \in ContextRecord
  <2>1. <<>> \in Seq(RCEndpoints) /\ 0 \in 0 .. RCMaxTags /\ 0 \in 0 .. RCMaxRestarts
    BY EmptySeq, RouterContextAssumption
  <2> QED BY <2>1 DEF RouterContextInit, ContextRecord
<1>3. Len(context.m_Introducers) <= SSU_MAX_NUM_INTRODUCERS BY <1>1, RouterContextAssumption
<1> QED BY <1>1, <1>2, <1>3 DEF IInv

\* What is left to show of a step of a router that runs.
LEMMA RunningIInv ==
  ASSUME Held(context'), Len(context'.m_Introducers) <= SSU_MAX_NUM_INTRODUCERS,
         FloodfillOK(context'), Introduces(context')
  PROVE  IInv'
BY DEF Held, IInv

LEMMA RunningHeld ==
  ASSUME IInv, context.running
  PROVE  /\ Held(context) /\ FloodfillOK(context) /\ Introduces(context)
         /\ Len(context.m_Introducers) <= SSU_MAX_NUM_INTRODUCERS
BY DEF Held, IInv

LEMMA AlikeIInv ==
  ASSUME IInv, context.running, Alike(context, context') PROVE IInv'
<1>1. /\ Held(context) /\ FloodfillOK(context) /\ Introduces(context)
      /\ Len(context.m_Introducers) <= SSU_MAX_NUM_INTRODUCERS
  BY RunningHeld
<1>2. FloodfillOK(context') BY <1>1 DEF FloodfillOK, Alike, Rest, Is
<1>3. Introduces(context') BY <1>1 DEF Introduces, Alike, Rest
<1> QED BY <1>1, <1>2, <1>3, RunningIInv DEF Alike, Rest

\* A start leaves a router reachable, so it is a floodfill if it is meant to be.
LEMMA StartRouterStep ==
  ASSUME IInv, NEW config \in RCConfigs, StartRouter(config) PROVE IInv'
<1> DEFINE c0 == [context EXCEPT !.m_IsFloodfill = FALSE, !.running = TRUE,
                    !.m_Status = "Testing", !.timer = TRUE, !.m_Introducers = <<>>,
                    !.moved = FALSE, !.sessions = {}]
           c == InitRouter(c0)
           a == UpdateAddress(c, DefaultHost)
           d == SetSupportsV6(a, config.v6)
           f == SetFloodfill(d, config.floodfill)
           b == SetBandwidth(f, config.high)
<1>1. config.floodfill \in BOOLEAN /\ config.high \in BOOLEAN /\ config.v6 \in BOOLEAN
      /\ DefaultHost \in RCHosts
  BY RouterContextAssumption DEF DefaultHost
<1>2. context' = b BY DEF StartRouter
<1>3. /\ c0 \in ContextRecord /\ c0.m_Introducers = <<>>
      /\ c0.m_RouterInfo = context.m_RouterInfo
      /\ c0.m_Buffer = context.m_Buffer /\ c0.file = context.file
  BY EmptySeq DEF IInv, ContextRecord
<1>4. c0.file = <<>> \/ Stored(c0) BY <1>3 DEF IInv, Stored
<1> HIDE DEF c0
<1>5. Held(c) /\ Rest(c0, c) /\ Is(c.m_RouterInfo, "Reachable") BY <1>3, <1>4, InitRouterOK
<1> HIDE DEF c
<1>6. Alike(c, a) BY <1>1, <1>5, UpdateAddressAlike
<1>7. Held(a) BY <1>6 DEF Alike
<1> HIDE DEF a
<1>8. Alike(a, d) BY <1>1, <1>7, SetSupportsV6Alike
<1>9. Held(d) /\ Is(d.m_RouterInfo, "Reachable") /\ d.m_Introducers = <<>>
  BY <1>3, <1>5, <1>6, <1>8 DEF Alike, Rest, Is
<1> HIDE DEF d
<1>10. Introducers(d.m_RouterInfo) = <<>> BY <1>9, HeldAnchored DEF InfoOK
<1>11. Held(f) /\ FloodfillOK(f) /\ Introducers(f.m_RouterInfo) = <<>> /\ f.m_Introducers = <<>>
  BY <1>1, <1>9, <1>10, SetFloodfillAgrees
<1> HIDE DEF f
<1>12. Held(b) /\ FloodfillOK(b) /\ Introducers(b.m_RouterInfo) = <<>> /\ b.m_Introducers = <<>>
  BY <1>1, <1>11, SetBandwidthKeeps DEF Rest
<1> HIDE DEF b
<1>13. Introduces(b) /\ Len(b.m_Introducers) <= SSU_MAX_NUM_INTRODUCERS
  BY <1>12, RouterContextAssumption DEF Introduces, Listed
<1> QED BY <1>2, <1>12, <1>13, RunningIInv

LEMMA CrashRouterStep == ASSUME IInv, CrashRouter PROVE IInv'
<1> DEFINE new == [context EXCEPT !.running = FALSE, !.restarts = @ + 1]
<1>1. Held(context) /\ Len(context.m_Introducers) <= SSU_MAX_NUM_INTRODUCERS
  BY RunningHeld DEF CrashRouter
<1>2. context' = new /\ context.restarts < RCMaxRestarts BY DEF CrashRouter
<1>3. context.restarts + 1 \in 0 .. RCMaxRestarts
  BY <1>1, <1>2, RouterContextAssumption DEF Held, ContextRecord
<1>4. /\ new \in ContextRecord /\ new.running = FALSE
      /\ new.m_Introducers = context.m_Introducers /\ new.moved = context.moved
      /\ new.m_RouterInfo = context.m_RouterInfo
      /\ new.m_Buffer = context.m_Buffer /\ new.file = context.file
  BY <1>1, <1>3 DEF Held, ContextRecord
<1> HIDE DEF new
<1>5. Stored(new) BY <1>1, <1>4 DEF Held, Stored
<1> QED BY <1>1, <1>2, <1>4, <1>5 DEF IInv

LEMMA LearnAddressStep ==
  ASSUME IInv, NEW host \in RCHosts, LearnAddress(host) PROVE IInv'
<1>1. context.running /\ context' = UpdateAddress(context, host) BY DEF LearnAddress
<1>2. Held(context) BY <1>1, RunningHeld
<1> QED BY <1>1, <1>2, UpdateAddressAlike, AlikeIInv

\* The capabilities of an SSU address come with it, and stay with it.
LEMMA UpdateNTCPV6AddressStep == ASSUME IInv, UpdateNTCPV6Address PROVE IInv'
<1> DEFINE ri == context.m_RouterInfo
           a == AddNTCPAddress(ri, V6Host)
           n == AddSSUAddress(a, V6Host)
<1>1. context.running /\ context' = UpdateRouterInfo(context, n) BY DEF UpdateNTCPV6Address
<1>2. /\ Held(context) /\ FloodfillOK(context) /\ Introduces(context)
      /\ Len(context.m_Introducers) <= SSU_MAX_NUM_INTRODUCERS
  BY <1>1, RunningHeld
<1>3. Anchored(ri) /\ InfoOK(ri) /\ context \in ContextRecord BY <1>2, HeldAnchored DEF Held
<1>4. KeepsCaps(ri, a) /\ Introducers(a) = Introducers(ri) BY <1>3, AddNTCPAddressKeeps
<1> HIDE DEF a
<1>5. Anchored(n) /\ Introducers(n) = Introducers(ri)
      /\ n.m_Caps = ri.m_Caps \cup {"SSUTesting", "SSUIntroducer"}
  BY <1>4, AddSSUAddressKeeps DEF KeepsCaps
<1> HIDE DEF n
<1>6. \A x \in {"Reachable", "Unreachable", "Floodfill"} : x \in n.m_Caps <=> x \in ri.m_Caps
  BY <1>5
<1>7. InfoOK(n) BY <1>3, <1>5, <1>6 DEF InfoOK, Is
<1>8. Held(context') /\ context'.m_RouterInfo = n /\ Rest(context, context')
  BY <1>1, <1>3, <1>7, UpdateRouterInfoStores
<1>9. FloodfillOK(context') BY <1>2, <1>6, <1>8 DEF FloodfillOK, Is, Rest
<1>10. Introduces(context') BY <1>2, <1>5, <1>8 DEF Introduces, Rest
<1> QED BY <1>2, <1>8, <1>9, <1>10, RunningIInv DEF Rest

LEMMA UpdateStatsStep == ASSUME IInv, UpdateStats PROVE IInv'
<1> DEFINE ri == context.m_RouterInfo
           n == [ri EXCEPT !.stats = TRUE]
<1>1. context.running /\ context' = UpdateRouterInfo(context, n) BY DEF UpdateStats
<1>2. Held(context) /\ Anchored(ri) BY <1>1, RunningHeld, HeldAnchored
<1>3. KeepsCaps(ri, n) /\ Introducers(n) = Introducers(ri)
  BY <1>2 DEF KeepsCaps, Anchored, RouterInfoRecord, Introducers
<1> HIDE DEF n
<1>4. Alike(context, context') BY <1>1, <1>2, <1>3, UpdateAlike
<1> QED BY <1>1, <1>4, AlikeIInv

\* What the invariant does not speak of: the status, the timer, sessions and tags.
LEMMA OthersIInv ==
  ASSUME IInv, context' \in ContextRecord,
         context'.m_RouterInfo = context.m_RouterInfo, context'.m_Buffer = context.m_Buffer,
         context'.file = context.file, context'.m_IsFloodfill = context.m_IsFloodfill,
         context'.m_Introducers = context.m_Introducers, context'.moved = context.moved,
         context'.running = context.running
  PROVE  IInv'
BY DEF IInv, Stored, FloodfillOK, Introduces

LEMMA SetStatusStep ==
  ASSUME IInv, NEW status \in {"Testing", "OK", "Firewalled"}, SetStatus(status) PROVE IInv'
<1>1. context' = [context EXCEPT !.m_Status = status] /\ context \in ContextRecord
  BY DEF SetStatus, IInv
<1>2. /\ context' \in ContextRecord
      /\ context'.m_RouterInfo = context.m_RouterInfo /\ context'.m_Buffer = context.m_Buffer
      /\ context'.file = context.file /\ context'.m_IsFloodfill = context.m_IsFloodfill
      /\ context'.m_Introducers = context.m_Introducers /\ context'.moved = context.moved
      /\ context'.running = context.running
  BY <1>1 DEF ContextRecord
<1> QED BY <1>2, OthersIInv

LEMMA SessionMadeStep == ASSUME IInv, NEW e \in RCEndpoints, SessionMade(e) PROVE IInv'
<1> DEFINE t == context.tags + 1
           S == context.sessions \cup {[endpoint |-> e, tag |-> t, young |-> TRUE]}
<1>1. context \in ContextRecord /\ context' = [context EXCEPT !.tags = t, !.sessions = S]
      /\ context.tags < RCMaxTags
  BY DEF SessionMade, IInv
<1>2. t \in 0 .. RCMaxTags /\ t \in Nat BY <1>1, RouterContextAssumption DEF ContextRecord
<1>3. S \subseteq [endpoint : RCEndpoints, tag : Nat, young : BOOLEAN]
  <2>1. context.sessions \subseteq [endpoint : RCEndpoints, tag : Nat, young : BOOLEAN]
    BY <1>1 DEF ContextRecord
  <2> HIDE DEF t
  <2>2. [endpoint |-> e, tag |-> t, young |-> TRUE] \in
          [endpoint : RCEndpoints, tag : Nat, young : BOOLEAN]
    BY <1>2
  <2> QED BY <2>1, <2>2
<1> HIDE DEF S, t
<1>4. /\ context' \in ContextRecord
      /\ context'.m_RouterInfo = context.m_RouterInfo /\ context'.m_Buffer = context.m_Buffer
      /\ context'.file = context.file /\ context'.m_IsFloodfill = context.m_IsFloodfill
      /\ context'.m_Introducers = context.m_Introducers /\ context'.moved = context.moved
      /\ context'.running = context.running
  BY <1>1, <1>2, <1>3 DEF ContextRecord
<1> QED BY <1>4, OthersIInv

LEMMA SessionsStep ==
  ASSUME IInv, NEW s \in context.sessions, SessionAges(s) \/ SessionGone(s) PROVE IInv'
<1>1. context \in ContextRecord /\ s \in [endpoint : RCEndpoints, tag : Nat, young : BOOLEAN]
  BY DEF IInv, ContextRecord
<1>2. PICK S \in SUBSET [endpoint : RCEndpoints, tag : Nat, young : BOOLEAN] :
        context' = [context EXCEPT !.sessions = S]
  <2>1. CASE SessionAges(s)
    <3> DEFINE S == (context.sessions \ {s}) \cup {[s EXCEPT !.young = FALSE]}
    <3>1. S \in SUBSET [endpoint : RCEndpoints, tag : Nat, young : BOOLEAN]
      BY <1>1 DEF ContextRecord
    <3>2. context' = [context EXCEPT !.sessions = S] BY <2>1 DEF SessionAges
    <3> QED BY <3>1, <3>2
  <2>2. CASE SessionGone(s)
    <3> DEFINE S == context.sessions \ {s}
    <3>1. S \in SUBSET [endpoint : RCEndpoints, tag : Nat, young : BOOLEAN]
      BY <1>1 DEF ContextRecord
    <3>2. context' = [context EXCEPT !.sessions = S] BY <2>2 DEF SessionGone
    <3> QED BY <3>1, <3>2
  <2> QED BY <2>1, <2>2
<1>3. /\ context' \in ContextRecord
      /\ context'.m_RouterInfo = context.m_RouterInfo /\ context'.m_Buffer = context.m_Buffer
      /\ context'.file = context.file /\ context'.m_IsFloodfill = context.m_IsFloodfill
      /\ context'.m_Introducers = context.m_Introducers /\ context'.moved = context.moved
      /\ context'.running = context.running
  BY <1>1, <1>2 DEF ContextRecord
<1> QED BY <1>3, OthersIInv

\* SSUServer's list was empty when SetUnreachable dropped what is published.
LEMMA TimerStep == ASSUME IInv, HandleIntroducersUpdateTimer PROVE IInv'
<1>1. context.running BY DEF HandleIntroducersUpdateTimer
<1>2. /\ Held(context) /\ FloodfillOK(context) /\ Introduces(context)
      /\ Len(context.m_Introducers) <= SSU_MAX_NUM_INTRODUCERS
  BY <1>1, RunningHeld
<1>3. CASE UNCHANGED context BY <1>3 DEF IInv, Stored, FloodfillOK, Introduces
<1>4. CASE context' = [context EXCEPT !.timer = FALSE]
  <2>1. context \in ContextRecord BY DEF IInv
  <2>2. /\ context' \in ContextRecord
        /\ context'.m_RouterInfo = context.m_RouterInfo /\ context'.m_Buffer = context.m_Buffer
        /\ context'.file = context.file /\ context'.m_IsFloodfill = context.m_IsFloodfill
        /\ context'.m_Introducers = context.m_Introducers /\ context'.moved = context.moved
        /\ context'.running = context.running
    BY <1>4, <2>1 DEF ContextRecord
  <2> QED BY <2>2, OthersIInv
<1>5. CASE context' \in NewIntroducer(KeepIntroducers(
             IF Is(context.m_RouterInfo, "Unreachable") THEN context ELSE SetUnreachable(context)))
  <2> DEFINE d == IF Is(context.m_RouterInfo, "Unreachable") THEN context ELSE SetUnreachable(context)
             k == KeepIntroducers(d)
  <2>1. /\ Held(d) /\ Is(d.m_RouterInfo, "Unreachable") /\ Introduces(d) /\ FloodfillOK(d)
        /\ Len(d.m_Introducers) <= SSU_MAX_NUM_INTRODUCERS
    <3>1. CASE Is(context.m_RouterInfo, "Unreachable") BY <1>2, <3>1
    <3>2. CASE ~Is(context.m_RouterInfo, "Unreachable")
      <4>1. d = SetUnreachable(context) BY <3>2
      <4>2. Is(context.m_RouterInfo, "Reachable") BY <1>2, <3>2, HeldAnchored DEF InfoOK, Is
      <4>3. Introducers(context.m_RouterInfo) = <<>> BY <1>2, <4>2, HeldAnchored DEF InfoOK
      <4>4. Len(context.m_Introducers) = 0 BY <1>2, <4>3 DEF Introduces, Listed
      <4> HIDE DEF d
      <4>5. /\ Held(d) /\ Rest(context, d) /\ FloodfillOK(d) /\ Is(d.m_RouterInfo, "Unreachable")
            /\ Introducers(d.m_RouterInfo) = <<>>
        BY <1>2, <4>1, SetUnreachableOK
      <4>6. d.m_Introducers = context.m_Introducers BY <4>5 DEF Rest
      <4>7. Introduces(d) BY <4>4, <4>5, <4>6 DEF Introduces, Listed
      <4> QED BY <1>2, <4>5, <4>6, <4>7
    <3> QED BY <3>1, <3>2
  <2> HIDE DEF d
  <2>2. /\ Held(k) /\ Introduces(k) /\ Len(k.m_Introducers) <= SSU_MAX_NUM_INTRODUCERS
        /\ k.m_RouterInfo.m_Caps = d.m_RouterInfo.m_Caps /\ k.m_IsFloodfill = d.m_IsFloodfill
    BY <2>1, KeepIntroducersOK
  <2>3. Is(k.m_RouterInfo, "Unreachable") BY <2>1, <2>2 DEF Is
  <2>4. context' \in NewIntroducer(k) BY <1>5 DEF d
  <2> HIDE DEF k
  <2>5. /\ Held(context') /\ Introduces(context')
        /\ Len(context'.m_Introducers) <= SSU_MAX_NUM_INTRODUCERS
        /\ context'.m_RouterInfo.m_Caps = k.m_RouterInfo.m_Caps
        /\ context'.m_IsFloodfill = k.m_IsFloodfill
    BY <2>2, <2>3, <2>4, NewIntroducerOK
  <2>6. FloodfillOK(context') BY <2>1, <2>2, <2>5 DEF FloodfillOK, Is
  <2> QED BY <2>5, <2>6, RunningIInv
<1> QED BY <1>3, <1>4, <1>5 DEF HandleIntroducersUpdateTimer

LEMMA NextIInv == IInv /\ [RouterContextNext]_contextVars => IInv'
<1> SUFFICES ASSUME IInv, [RouterContextNext]_contextVars PROVE IInv' OBVIOUS
<1>1. CASE UNCHANGED contextVars
  BY <1>1 DEF contextVars, IInv, Stored, FloodfillOK, Introduces
<1>2. CASE RouterContextNext
  BY <1>2, StartRouterStep, CrashRouterStep, UpdateNTCPV6AddressStep, UpdateStatsStep,
     TimerStep, LearnAddressStep, SetStatusStep, SessionMadeStep, SessionsStep
  DEF RouterContextNext
<1> QED BY <1>1, <1>2
-----------------------------------------------------------------------------
\* The inductive invariant: between any two steps of a router, what it holds
\* of itself is well formed, is in the buffer and in the file, and has no fewer
\* introducers than SSUServer keeps, the same ones if none of them was published
\* at another endpoint than that of its session.
THEOREM RouterContextInvariance == RouterContextSpec => []IInv
BY InitIInv, NextIInv, PTL DEF RouterContextSpec

LEMMA SafeState == IInv => RouterContextSafe
<1> SUFFICES ASSUME IInv PROVE RouterContextSafe OBVIOUS
<1>1. context \in ContextRecord BY DEF IInv
<1>2. ASSUME context.running
      PROVE  /\ Held(context) /\ Anchored(context.m_RouterInfo) /\ InfoOK(context.m_RouterInfo)
             /\ FloodfillOK(context) /\ Introduces(context)
  BY <1>2, RunningHeld, HeldAnchored
<1>3. RouterContextTypeOK
  <2>1. context.restarts \in 0 .. RCMaxRestarts /\ context.tags \in 0 .. RCMaxTags
    BY <1>1 DEF ContextRecord
  <2>2. Range(context.m_Introducers) \subseteq RCEndpoints
    BY <1>1 DEF ContextRecord, Range
  <2>3. context.running => context.m_RouterInfo.m_Caps \subseteq AllCaps
    BY <1>2 DEF Anchored, RouterInfoRecord
  <2> QED BY <2>1, <2>2, <2>3 DEF RouterContextTypeOK, IInv, AllCaps
<1>4. PublishedIsBelieved
  <2> SUFFICES ASSUME context.running PROVE PublishedIsBelieved BY DEF PublishedIsBelieved
  <2>1. context.m_Buffer = context.file /\ context.file = WriteToStream(context.m_RouterInfo)
    BY <1>2 DEF Held, Stored
  <2> QED BY <1>2, <2>1, WriteRead DEF PublishedIsBelieved
<1>5. CapsAgree BY <1>2 DEF CapsAgree, InfoOK, FloodfillOK
<1>6. IntroducersAgree
  <2> DEFINE q == Introducers(context.m_RouterInfo)
             list == context.m_Introducers
  <2> SUFFICES ASSUME context.running
      PROVE  Len(list) <= Len(q) /\ (context.moved \/ list = [i \in DOMAIN q |-> q[i].endpoint])
    BY <1>2, FirstAddressIs DEF IntroducersAgree, IntroducingAddress, Introducers
  <2>1. q \in Seq(IntroducerRecord) BY <1>2, IntroducersTyped
  <2>2. list \in Seq(RCEndpoints) BY <1>1 DEF ContextRecord
  <2>3. Len(list) <= Len(q) /\ (context.moved \/ Listed(q, list)) BY <1>2 DEF Introduces
  <2> HIDE DEF q, list
  <2>4. ASSUME Listed(q, list) PROVE list = [i \in DOMAIN q |-> q[i].endpoint]
    <3>1. DOMAIN list = DOMAIN q /\ \A i \in DOMAIN q : q[i].endpoint = list[i]
      BY <2>1, <2>2, <2>4 DEF Listed
    <3>2. list = [i \in DOMAIN list |-> list[i]] BY <2>2
    <3> QED BY <3>1, <3>2
  <2> QED BY <2>3, <2>4
<1> QED BY <1>3, <1>4, <1>5, <1>6 DEF RouterContextSafe

\* What the router believes, publishes and saves of itself agrees, through tests
\* that fail, restarts, new addresses and changing introducers; what it publishes
\* of these agrees with what it keeps alive as long as their sessions are at the
\* endpoints they publish (SSUServer::HandleIntroducersUpdateTimer).
THEOREM RouterContextIsSafe == RouterContextSpec => []RouterContextSafe
BY RouterContextInvariance, SafeState, PTL
=============================================================================
