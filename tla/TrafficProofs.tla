---------------------------- MODULE TrafficProofs ----------------------------
(***************************************************************************)
(* Proofs about three of the modules that carry a client's data: a tunnel  *)
(* from its gateway to its endpoint (TunnelData.tla), for any payload      *)
(* size, limits, blocks and copies; a client destination                   *)
(* (Destination.tla); and an I2P tunnel (I2PTunnel.tla).                   *)
(*                                                                         *)
(* The invariant of a tunnel (World) says where each fragment is: in the   *)
(* gateway's buffer, on its way, or at the endpoint; that the fragments of *)
(* a block are its pieces (BlocksOK), whatever has been lost or doubled;   *)
(* that an incomplete message is the beginning of the block it names       *)
(* (Beginning); and, as long as nothing arrived twice, how far each block  *)
(* with one follow-on fragment has got (Progress).  What is handed on is   *)
(* intact for any number of losses, copies and reorderings, what is handed *)
(* on at least once needs Progress.                                        *)
(***************************************************************************)
EXTENDS TunnelData, Destination, I2PTunnel, SequenceTheorems, FiniteSetTheorems,
        WellFoundedInduction, TLAPS

-----------------------------------------------------------------------------
(***************************************************************************)
(* The three folds.  Each is a function over the lengths of prefixes that  *)
(* exists (by induction, as a set of lengths without a least element is    *)
(* empty) and so obeys its recursion.                                      *)
(***************************************************************************)
LEMMA Induction ==
  ASSUME NEW S \in SUBSET Nat, 0 \in S, \A n \in S : n + 1 \in S
  PROVE  S = Nat
<1> DEFINE T == Nat \ S
<1> SUFFICES ASSUME T # {} PROVE FALSE OBVIOUS
<1>1. PICK n \in T : \A m \in T : ~(<<m, n>> \in OpToRel(<, Nat))
  BY NatLessThanWellFounded, WFMin
<1>2. \A m \in T : ~(m < n) BY <1>1 DEF OpToRel
<1>3. n # 0 /\ n - 1 \in Nat /\ n - 1 \notin T BY <1>2
<1>4. (n - 1) + 1 \in S BY <1>3
<1> QED BY <1>4

EndpointAfter(e, frags, h) ==
  h = [i \in 0 .. Len(frags) |-> IF i = 0 THEN e ELSE HandleFragment(h[i - 1], frags[i])]

LEMMA EndpointFold ==
  ASSUME NEW e, NEW S, NEW frags \in Seq(S)
  PROVE  \E h : EndpointAfter(e, frags, h) /\ HandleDecryptedTunnelDataMsg(e, frags) = h[Len(frags)]
<1> DEFINE Upto(n, h) ==
             h = [i \in 0 .. n |-> IF i = 0 THEN e ELSE HandleFragment(h[i - 1], frags[i])]
           Good == {n \in Nat : \E h : Upto(n, h)}
<1>1. Upto(0, [i \in 0 .. 0 |-> e]) OBVIOUS
<1>2. ASSUME NEW n \in Nat, NEW h, Upto(n, h) PROVE \E g : Upto(n + 1, g)
  <2> DEFINE g == [i \in 0 .. (n + 1) |-> IF i <= n THEN h[i] ELSE HandleFragment(h[n], frags[n + 1])]
  <2>1. ASSUME NEW i \in 0 .. (n + 1)
        PROVE  g[i] = IF i = 0 THEN e ELSE HandleFragment(g[i - 1], frags[i])
    <3>1. CASE i = n + 1
      <4>1. g[i] = HandleFragment(h[n], frags[i]) /\ g[n] = h[n] /\ i - 1 = n /\ i # 0 BY <3>1
      <4> HIDE DEF g
      <4> QED BY <4>1
    <3>2. CASE i # n + 1
      <4>1. i \in 0 .. n /\ g[i] = h[i] /\ (i # 0 => g[i - 1] = h[i - 1]) BY <3>2
      <4>2. h[i] = IF i = 0 THEN e ELSE HandleFragment(h[i - 1], frags[i]) BY <1>2, <4>1
      <4> HIDE DEF g
      <4> QED BY <4>1, <4>2
    <3> QED BY <3>1, <3>2
  <2>2. g = [i \in 0 .. (n + 1) |-> g[i]] OBVIOUS
  <2> HIDE DEF g
  <2>3. Upto(n + 1, g) BY <2>1, <2>2
  <2> QED BY <2>3
<1>3. Good = Nat
  <2>1. 0 \in Good BY <1>1
  <2> HIDE DEF Upto
  <2>2. \A n \in Good : n + 1 \in Good BY <1>2
  <2> HIDE DEF Good
  <2> QED BY <2>1, <2>2, Induction DEF Good
<1>4. PICK h : Upto(Len(frags), h) BY <1>3
<1> DEFINE after == CHOOSE g : Upto(Len(frags), g)
<1>5. Upto(Len(frags), after) BY <1>4
<1>6. HandleDecryptedTunnelDataMsg(e, frags) = after[Len(frags)]
  BY DEF HandleDecryptedTunnelDataMsg
<1> QED BY <1>5, <1>6 DEF EndpointAfter

BatchAfter(g, bs, h) ==
  h = [i \in 0 .. Len(bs) |-> IF i = 0 THEN g ELSE PutI2NPMsg(h[i - 1], bs[i])]

LEMMA BatchFold ==
  ASSUME NEW g, NEW S, NEW bs \in Seq(S)
  PROVE  \E h : BatchAfter(g, bs, h) /\ PutBatch(g, bs) = h[Len(bs)]
<1> DEFINE Upto(n, h) ==
             h = [i \in 0 .. n |-> IF i = 0 THEN g ELSE PutI2NPMsg(h[i - 1], bs[i])]
           Good == {n \in Nat : \E h : Upto(n, h)}
<1>1. Upto(0, [i \in 0 .. 0 |-> g]) OBVIOUS
<1>2. ASSUME NEW n \in Nat, NEW h, Upto(n, h) PROVE \E q : Upto(n + 1, q)
  <2> DEFINE q == [i \in 0 .. (n + 1) |-> IF i <= n THEN h[i] ELSE PutI2NPMsg(h[n], bs[n + 1])]
  <2>1. ASSUME NEW i \in 0 .. (n + 1)
        PROVE  q[i] = IF i = 0 THEN g ELSE PutI2NPMsg(q[i - 1], bs[i])
    <3>1. CASE i = n + 1
      <4>1. q[i] = PutI2NPMsg(h[n], bs[i]) /\ q[n] = h[n] /\ i - 1 = n /\ i # 0 BY <3>1
      <4> HIDE DEF q
      <4> QED BY <4>1
    <3>2. CASE i # n + 1
      <4>1. i \in 0 .. n /\ q[i] = h[i] /\ (i # 0 => q[i - 1] = h[i - 1]) BY <3>2
      <4>2. h[i] = IF i = 0 THEN g ELSE PutI2NPMsg(h[i - 1], bs[i]) BY <1>2, <4>1
      <4> HIDE DEF q
      <4> QED BY <4>1, <4>2
    <3> QED BY <3>1, <3>2
  <2>2. q = [i \in 0 .. (n + 1) |-> q[i]] OBVIOUS
  <2> HIDE DEF q
  <2>3. Upto(n + 1, q) BY <2>1, <2>2
  <2> QED BY <2>3
<1>3. Good = Nat
  <2>1. 0 \in Good BY <1>1
  <2> HIDE DEF Upto
  <2>2. \A n \in Good : n + 1 \in Good BY <1>2
  <2> HIDE DEF Good
  <2> QED BY <2>1, <2>2, Induction DEF Good
<1>4. PICK h : Upto(Len(bs), h) BY <1>3
<1> DEFINE after == CHOOSE q : Upto(Len(bs), q)
<1>5. Upto(Len(bs), after) BY <1>4
<1>6. PutBatch(g, bs) = after[Len(bs)]
  BY DEF PutBatch
<1> QED BY <1>5, <1>6 DEF BatchAfter

UsedAfter(frags, h) ==
  h = [i \in 0 .. Len(frags) |-> IF i = 0 THEN 0 ELSE h[i - 1] + Space(frags[i])]

LEMMA UsedFold ==
  ASSUME NEW S, NEW frags \in Seq(S)
  PROVE  \E h : UsedAfter(frags, h) /\ Used(frags) = h[Len(frags)]
<1> DEFINE Upto(n, h) ==
             h = [i \in 0 .. n |-> IF i = 0 THEN 0 ELSE h[i - 1] + Space(frags[i])]
           Good == {n \in Nat : \E h : Upto(n, h)}
<1>1. Upto(0, [i \in 0 .. 0 |-> 0]) OBVIOUS
<1>2. ASSUME NEW n \in Nat, NEW h, Upto(n, h) PROVE \E g : Upto(n + 1, g)
  <2> DEFINE g == [i \in 0 .. (n + 1) |-> IF i <= n THEN h[i] ELSE h[n] + Space(frags[n + 1])]
  <2>1. ASSUME NEW i \in 0 .. (n + 1)
        PROVE  g[i] = IF i = 0 THEN 0 ELSE g[i - 1] + Space(frags[i])
    <3>1. CASE i = n + 1
      <4>1. g[i] = h[n] + Space(frags[i]) /\ g[n] = h[n] /\ i - 1 = n /\ i # 0 BY <3>1
      <4> HIDE DEF g
      <4> QED BY <4>1
    <3>2. CASE i # n + 1
      <4>1. i \in 0 .. n /\ g[i] = h[i] /\ (i # 0 => g[i - 1] = h[i - 1]) BY <3>2
      <4>2. h[i] = IF i = 0 THEN 0 ELSE h[i - 1] + Space(frags[i]) BY <1>2, <4>1
      <4> HIDE DEF g
      <4> QED BY <4>1, <4>2
    <3> QED BY <3>1, <3>2
  <2>2. g = [i \in 0 .. (n + 1) |-> g[i]] OBVIOUS
  <2> HIDE DEF g
  <2>3. Upto(n + 1, g) BY <2>1, <2>2
  <2> QED BY <2>3
<1>3. Good = Nat
  <2>1. 0 \in Good BY <1>1
  <2> HIDE DEF Upto
  <2>2. \A n \in Good : n + 1 \in Good BY <1>2
  <2> HIDE DEF Good
  <2> QED BY <2>1, <2>2, Induction DEF Good
<1>4. PICK h : Upto(Len(frags), h) BY <1>3
<1> DEFINE after == CHOOSE g : Upto(Len(frags), g)
<1>5. Upto(Len(frags), after) BY <1>4
<1>6. Used(frags) = after[Len(frags)]
  BY DEF Used
<1> QED BY <1>5, <1>6 DEF UsedAfter
-----------------------------------------------------------------------------
(***************************************************************************)
(* The fragments of a block, and the space they take.                      *)
(***************************************************************************)
Whole(b) ==
  [msgID |-> b.msgID, num |-> 0, last |-> TRUE, off |-> 0, size |-> b.len, type |-> b.type]
FirstPiece(b, first) ==
  [msgID |-> b.msgID, num |-> 0, last |-> FALSE, off |-> 0, size |-> first, type |-> b.type]
Split(b, first) ==
  {FirstPiece(b, first)} \cup {FollowOn(b, first, i) : i \in 1 .. NumFollowOn(b, first)}

\* P is what a gateway makes of b.
IsPieces(P, b) == P = {Whole(b)} \/ \E first \in Nat : P = Split(b, first)

LEMMA Sizes ==
  /\ TUNNEL_DATA_MAX_PAYLOAD_SIZE \in Nat /\ TUNNEL_DATA_MAX_PAYLOAD_SIZE > 43
  /\ FollowOnSize \in Nat /\ FollowOnSize > 0
  /\ FollowOnSize + FollowOnInstructions = TUNNEL_DATA_MAX_PAYLOAD_SIZE
  /\ \A type \in TunnelDeliveryType :
       DeliveryInstructions(type) \in Nat /\ DeliveryInstructions(type) <= 37
<1>1. DeliveryInstructions("Tunnel") = 37 /\ FragmentInstructions = 6
  BY DEF DeliveryInstructions, FragmentInstructions
<1>2. TUNNEL_DATA_MAX_PAYLOAD_SIZE \in Nat /\ TUNNEL_DATA_MAX_PAYLOAD_SIZE > 43
  BY <1>1, TunnelSizes
<1> QED BY <1>2 DEF FollowOnSize, FollowOnInstructions, DeliveryInstructions, TunnelDeliveryType

LEMMA BlockTyped ==
  ASSUME NEW b \in TunnelMessageBlock
  PROVE  /\ b.msgID \in Nat /\ b.len \in Nat /\ b.len > 0 /\ b.type \in TunnelDeliveryType
         /\ DeliveryInstructions(b.type) \in Nat /\ DeliveryInstructions(b.type) <= 37
<1>1. MsgIDs \subseteq Nat /\ Lengths \subseteq Nat \ {0} /\ DeliveryTypes \subseteq TunnelDeliveryType
  BY TunnelSizes
<1>2. b.msgID \in MsgIDs /\ b.len \in Lengths /\ b.type \in DeliveryTypes
  BY DEF TunnelMessageBlock
<1>3. b.msgID \in Nat /\ b.len \in Nat \ {0} /\ b.type \in TunnelDeliveryType
  BY <1>1, <1>2, Zenon
<1>4. b.len \in Nat /\ b.len > 0 BY <1>3
<1> QED BY <1>3, <1>4, Sizes

LEMMA Product ==
  ASSUME NEW i \in Nat, NEW k \in Nat, NEW m \in Nat, i <= k
  PROVE  i * m \in Nat /\ i * m <= k * m
OBVIOUS

LEMMA Next1 ==
  ASSUME NEW i \in Nat, NEW m \in Nat PROVE (i + 1) * m = i * m + m
OBVIOUS

LEMMA Quotient ==
  ASSUME NEW r \in Nat, NEW m \in Nat \ {0}
  PROVE  r \div m \in Nat /\ (r \div m) * m <= r /\ r < (r \div m) * m + m
OBVIOUS

LEMMA WholeTyped ==
  ASSUME NEW b \in TunnelMessageBlock PROVE Whole(b) \in Fragment
BY BlockTyped DEF Whole, Fragment

LEMMA HeadTyped ==
  ASSUME NEW b \in TunnelMessageBlock, NEW first \in Nat PROVE FirstPiece(b, first) \in Fragment
BY BlockTyped DEF FirstPiece, Fragment

LEMMA NumTyped ==
  ASSUME NEW b \in TunnelMessageBlock, NEW first \in Nat PROVE NumFollowOn(b, first) \in Nat
<1>1. b.len \in Nat /\ FollowOnSize \in Nat \ {0} BY BlockTyped, Sizes
<1>2. CASE first >= b.len BY <1>2 DEF NumFollowOn
<1>3. CASE ~(first >= b.len)
  <2>1. b.len - first - 1 \in Nat BY <1>1, <1>3
  <2>2. (b.len - first - 1) \div FollowOnSize \in Nat BY <1>1, <2>1, Quotient
  <2> QED BY <1>3, <2>2 DEF NumFollowOn
<1> QED BY <1>2, <1>3

\* A follow-on fragment begins where the one before it ends; the last one ends
\* with the block.
FollowOnFits(b, first, i) ==
  LET f == FollowOn(b, first, i)
  IN /\ f \in Fragment
     /\ f.msgID = b.msgID /\ f.num = i /\ f.type = b.type
     /\ f.off = first + (i - 1) * FollowOnSize
     /\ f.last <=> i = NumFollowOn(b, first)
     /\ ~f.last => f.size = FollowOnSize
     /\ f.last => f.off + f.size = b.len
     /\ f.size <= FollowOnSize /\ f.size <= b.len

LEMMA FollowOnIs ==
  ASSUME NEW b \in TunnelMessageBlock, NEW first \in Nat, NEW i \in 1 .. NumFollowOn(b, first)
  PROVE  FollowOnFits(b, first, i)
<1> DEFINE num == NumFollowOn(b, first)
           F == FollowOnSize
           r == b.len - first - 1
           off == first + (i - 1) * F
           left == b.len - off
           f == FollowOn(b, first, i)
<1>1. b.len \in Nat /\ b.len > 0 /\ b.msgID \in Nat /\ b.type \in TunnelDeliveryType
      /\ F \in Nat \ {0} /\ num \in Nat
  BY BlockTyped, Sizes, NumTyped
<1>2. ~(first >= b.len)
  <2>1. num # 0 BY <1>1
  <2> QED BY <2>1 DEF NumFollowOn
<1>3. r \in Nat /\ num = r \div F + 1 BY <1>1, <1>2 DEF NumFollowOn
<1>4. f = [msgID |-> b.msgID, num |-> i, last |-> left <= F, off |-> off,
           size |-> IF left > F THEN F ELSE left, type |-> b.type]
  BY DEF FollowOn
<1>4a. (f.last <=> left <= F) /\ f.size = IF left > F THEN F ELSE left
  <2> DEFINE v == left <= F
             z == IF left > F THEN F ELSE left
  <2>1. f = [msgID |-> b.msgID, num |-> i, last |-> v, off |-> off, size |-> z, type |-> b.type]
    BY <1>4
  <2> HIDE DEF v, z, f, off, left
  <2>2. f.last = v /\ f.size = z BY <2>1
  <2> QED BY <2>2 DEF v, z
<1> HIDE DEF F, num, r, f
<1>5. PICK q \in Nat : q = r \div F /\ q * F <= r /\ r < q * F + F BY <1>1, <1>3, Quotient
<1>6. num = q + 1 /\ i \in Nat /\ i - 1 \in Nat /\ i - 1 <= q BY <1>3, <1>5 DEF num
<1>7. (i - 1) * F \in Nat /\ (i - 1) * F <= q * F /\ q * F \in Nat BY <1>1, <1>5, <1>6, Product
<1>8. PICK o \in Nat : o = (i - 1) * F BY <1>7
<1>9. PICK p \in Nat : p = q * F BY <1>7
<1>10. b.len = r + first + 1 BY <1>1, <1>3 DEF r
<1>11. off = first + o /\ left = b.len - (first + o) BY <1>8
<1>12. off \in Nat /\ left \in Nat /\ left > 0 /\ left <= b.len
  BY <1>1, <1>3, <1>5, <1>7, <1>8, <1>9, <1>10, <1>11
<1>13. CASE i = num
  <2>1. i - 1 = q BY <1>6, <1>13
  <2>2. o = p BY <2>1, <1>8, <1>9
  <2>3. left <= F BY <2>2, <1>1, <1>3, <1>5, <1>9, <1>10, <1>11
  <2> HIDE DEF left, off
  <2>4. f.last /\ f.size = left BY <1>1, <1>4a, <1>12, <2>3
  <2>5. f \in Fragment /\ f.off = off /\ f.msgID = b.msgID /\ f.num = i /\ f.type = b.type
    BY <1>1, <1>4, <1>6, <1>12, <2>3 DEF Fragment
  <2>6. off + left = b.len BY <1>1, <1>12 DEF left
  <2>7. f.off = first + (i - 1) * F BY <2>5 DEF off
  <2> QED BY <1>12, <1>13, <2>3, <2>4, <2>5, <2>6, <2>7 DEF FollowOnFits, f, num, F
<1>14. CASE i # num
  <2>1. i - 1 \in Nat /\ i <= q /\ i = (i - 1) + 1 BY <1>6, <1>14
  <2>2. i * F = o + F BY <2>1, <1>1, <1>8, Next1
  <2>3. i * F <= q * F BY <2>1, <1>1, <1>5, <1>6, Product
  <2>4. o + F <= p BY <2>2, <2>3, <1>9
  <2>5. left > F BY <2>4, <1>1, <1>3, <1>5, <1>9, <1>10, <1>11
  <2>5a. F <= b.len BY <2>5, <1>1, <1>12
  <2> HIDE DEF left, off
  <2>6. ~f.last /\ f.size = F BY <1>1, <1>4a, <1>12, <2>5
  <2>7. f \in Fragment /\ f.off = off /\ f.msgID = b.msgID /\ f.num = i /\ f.type = b.type
    BY <1>1, <1>4, <1>6, <1>12, <2>5 DEF Fragment
  <2>8. f.off = first + (i - 1) * F BY <2>7 DEF off
  <2> QED BY <1>1, <1>14, <2>5a, <2>6, <2>7, <2>8 DEF FollowOnFits, f, num, F
<1> QED BY <1>13, <1>14

LEMMA PiecesTyped ==
  ASSUME NEW b \in TunnelMessageBlock, NEW P, IsPieces(P, b)
  PROVE  P \subseteq Fragment /\ (\A f \in P : f.msgID = b.msgID) /\ P # {}
<1>1. CASE P = {Whole(b)} BY <1>1, WholeTyped DEF Whole
<1>2. ASSUME NEW first \in Nat, P = Split(b, first)
      PROVE  P \subseteq Fragment /\ (\A f \in P : f.msgID = b.msgID) /\ P # {}
  <2>1. FirstPiece(b, first) \in Fragment /\ FirstPiece(b, first).msgID = b.msgID
    BY HeadTyped DEF FirstPiece
  <2>2. \A i \in 1 .. NumFollowOn(b, first) :
          FollowOn(b, first, i) \in Fragment /\ FollowOn(b, first, i).msgID = b.msgID
    BY FollowOnIs DEF FollowOnFits
  <2> QED BY <1>2, <2>1, <2>2 DEF Split
<1> QED BY <1>1, <1>2 DEF IsPieces

LEMMA SpaceTyped ==
  ASSUME NEW f \in Fragment PROVE Space(f) \in Nat
<1>1. f.size \in Nat /\ f.type \in TunnelDeliveryType BY DEF Fragment
<1>2. DeliveryInstructions(f.type) \in Nat BY <1>1, Sizes
<1> QED BY <1>1, <1>2 DEF Space, FollowOnInstructions, FragmentInstructions

LEMMA UsedTyped ==
  ASSUME NEW s \in Seq(Fragment) PROVE Used(s) \in Nat
<1>1. PICK h : UsedAfter(s, h) /\ Used(s) = h[Len(s)] BY UsedFold
<1>2. Len(s) \in Nat OBVIOUS
<1>3. \A i \in 0 .. Len(s) : h[i] = IF i = 0 THEN 0 ELSE h[i - 1] + Space(s[i])
  BY <1>1 DEF UsedAfter
<1> DEFINE S == {n \in Nat : n <= Len(s) => h[n] \in Nat}
<1>4. 0 \in S BY <1>2, <1>3
<1>5. ASSUME NEW n \in S PROVE n + 1 \in S
  <2>1. CASE n + 1 <= Len(s)
    <3>1. n \in Nat /\ h[n] \in Nat /\ n + 1 \in 1 .. Len(s) BY <1>2, <2>1
    <3>2. s[n + 1] \in Fragment BY <3>1
    <3>3. Space(s[n + 1]) \in Nat BY <3>2, SpaceTyped
    <3>4. h[n + 1] = h[n] + Space(s[n + 1]) BY <1>3, <3>1
    <3> QED BY <3>1, <3>3, <3>4
  <2>2. CASE ~(n + 1 <= Len(s)) BY <2>2
  <2> QED BY <2>1, <2>2
<1> HIDE DEF S
<1>6. S = Nat BY <1>4, <1>5, Induction DEF S
<1> QED BY <1>1, <1>2, <1>6 DEF S

LEMMA UsedNothing == Used(<<>>) = 0
<1>1. <<>> \in Seq(Fragment) /\ Len(<<>>) = 0 BY EmptySeq
<1>2. PICK h : UsedAfter(<<>>, h) /\ Used(<<>>) = h[Len(<<>>)] BY <1>1, UsedFold
<1>3. h[0] = 0 BY <1>1, <1>2 DEF UsedAfter
<1> QED BY <1>1, <1>2, <1>3

LEMMA UsedAppend ==
  ASSUME NEW s \in Seq(Fragment), NEW f \in Fragment
  PROVE  Used(Append(s, f)) = Used(s) + Space(f)
<1> DEFINE t == Append(s, f)
<1>1. t \in Seq(Fragment) /\ Len(t) = Len(s) + 1 /\ t[Len(s) + 1] = f
      /\ (\A i \in 1 .. Len(s) : t[i] = s[i]) /\ Len(s) \in Nat
  OBVIOUS
<1> HIDE DEF t
<1>2. PICK h : UsedAfter(s, h) /\ Used(s) = h[Len(s)] BY UsedFold
<1>3. PICK g : UsedAfter(t, g) /\ Used(t) = g[Len(t)] BY <1>1, UsedFold
<1>4. \A i \in 0 .. Len(s) : h[i] = IF i = 0 THEN 0 ELSE h[i - 1] + Space(s[i])
  BY <1>2 DEF UsedAfter
<1>5. \A i \in 0 .. Len(s) + 1 : g[i] = IF i = 0 THEN 0 ELSE g[i - 1] + Space(t[i])
  BY <1>1, <1>3 DEF UsedAfter
<1> DEFINE S == {n \in Nat : n <= Len(s) => g[n] = h[n]}
<1>6. 0 \in S BY <1>1, <1>4, <1>5
<1>7. ASSUME NEW n \in S PROVE n + 1 \in S
  <2>1. CASE n + 1 <= Len(s)
    <3>1. n \in Nat /\ g[n] = h[n] /\ n + 1 \in 1 .. Len(s) /\ n + 1 \in 0 .. Len(s) + 1
      BY <1>1, <2>1
    <3>2. h[n + 1] = h[n] + Space(s[n + 1]) BY <1>4, <3>1
    <3>3. g[n + 1] = g[n] + Space(t[n + 1]) BY <1>5, <3>1
    <3> QED BY <1>1, <3>1, <3>2, <3>3
  <2>2. CASE ~(n + 1 <= Len(s)) BY <2>2
  <2> QED BY <2>1, <2>2
<1> HIDE DEF S
<1>8. S = Nat BY <1>6, <1>7, Induction DEF S
<1>9. g[Len(s)] = h[Len(s)] BY <1>1, <1>8 DEF S
<1>10. g[Len(s) + 1] = g[Len(s)] + Space(t[Len(s) + 1]) BY <1>1, <1>5
<1> QED BY <1>1, <1>2, <1>3, <1>9, <1>10 DEF t

LEMMA UsedOne ==
  ASSUME NEW f \in Fragment PROVE <<f>> \in Seq(Fragment) /\ Used(<<f>>) = Space(f)
<1>1. <<>> \in Seq(Fragment) /\ <<f>> = Append(<<>>, f) BY EmptySeq
<1>2. Used(Append(<<>>, f)) = 0 + Space(f) BY <1>1, UsedAppend, UsedNothing
<1> QED BY <1>1, <1>2, SpaceTyped
-----------------------------------------------------------------------------
(***************************************************************************)
(* The gateway's buffer.                                                   *)
(***************************************************************************)
GatewayOK(g) ==
  /\ g \in GatewayBuffer
  /\ g.open => Used(g.current) + g.m_RemainingSize = TUNNEL_DATA_MAX_PAYLOAD_SIZE
  /\ ~g.open => g.current = <<>>
  /\ \A i \in 1 .. Len(g.m_TunnelDataMsgs) :
       Used(g.m_TunnelDataMsgs[i]) <= TUNNEL_DATA_MAX_PAYLOAD_SIZE

\* The messages that wait, and behind them the current one.
Count(g) == Len(g.m_TunnelDataMsgs) + 1
At(g, i) == IF i <= Len(g.m_TunnelDataMsgs) THEN g.m_TunnelDataMsgs[i] ELSE g.current
InBuffer(g) == UNION {Range(At(g, i)) : i \in 1 .. Count(g)}

\* Each fragment stands in one place.
Distinct(g) ==
  \A i, k \in 1 .. Count(g) : \A j \in 1 .. Len(At(g, i)), l \in 1 .. Len(At(g, k)) :
    At(g, i)[j] = At(g, k)[l] => i = k /\ j = l

\* From g to h the fragments P are added.
Gains(g, h, P) ==
  /\ GatewayOK(h)
  /\ InBuffer(h) = InBuffer(g) \cup P
  /\ Distinct(g) /\ P \cap InBuffer(g) = {} => Distinct(h)

LEMMA AtTyped ==
  ASSUME NEW g \in GatewayBuffer
  PROVE  /\ Count(g) \in Nat /\ Count(g) > 0
         /\ \A i \in 1 .. Count(g) : At(g, i) \in Seq(Fragment) /\ Len(At(g, i)) \in Nat
         /\ At(g, Count(g)) = g.current
<1>1. g.m_TunnelDataMsgs \in Seq(Seq(Fragment)) /\ g.current \in Seq(Fragment)
      /\ Len(g.m_TunnelDataMsgs) \in Nat
  <2>1. g.m_TunnelDataMsgs \in Seq(Seq(Fragment)) /\ g.current \in Seq(Fragment)
    BY DEF GatewayBuffer
  <2> QED BY <2>1
<1>2. ASSUME NEW i \in 1 .. Count(g) PROVE At(g, i) \in Seq(Fragment)
  BY <1>1 DEF At, Count
<1>3. \A i \in 1 .. Count(g) : Len(At(g, i)) \in Nat BY <1>2
<1> QED BY <1>1, <1>2, <1>3 DEF At, Count

LEMMA InBufferIs ==
  ASSUME NEW g \in GatewayBuffer, NEW f
  PROVE  f \in InBuffer(g) <=>
           \E i \in 1 .. Count(g) : \E j \in 1 .. Len(At(g, i)) : At(g, i)[j] = f
<1>1. \A i \in 1 .. Count(g) : DOMAIN At(g, i) = 1 .. Len(At(g, i)) BY AtTyped
<1>2. \A i \in 1 .. Count(g) : f \in Range(At(g, i)) <=>
        \E j \in 1 .. Len(At(g, i)) : At(g, i)[j] = f
  BY <1>1 DEF Range
<1> QED BY <1>2 DEF InBuffer

LEMMA InBufferTyped ==
  ASSUME NEW g \in GatewayBuffer PROVE InBuffer(g) \subseteq Fragment
<1> SUFFICES ASSUME NEW f \in InBuffer(g) PROVE f \in Fragment OBVIOUS
<1>1. PICK i \in 1 .. Count(g) : \E j \in 1 .. Len(At(g, i)) : At(g, i)[j] = f BY InBufferIs
<1>2. At(g, i) \in Seq(Fragment) BY AtTyped
<1> QED BY <1>1, <1>2

\* Messages without fragments change nothing.
LEMMA EmptySlots ==
  ASSUME NEW g \in GatewayBuffer, NEW h \in GatewayBuffer, Count(g) <= Count(h),
         \A i \in 1 .. Count(g) : At(h, i) = At(g, i),
         \A i \in Count(g) + 1 .. Count(h) : At(h, i) = <<>>
  PROVE  InBuffer(h) = InBuffer(g) /\ (Distinct(g) => Distinct(h))
<1>1. Count(g) \in Nat /\ Count(h) \in Nat BY AtTyped
<1>2. ASSUME NEW i \in 1 .. Count(h), NEW j \in 1 .. Len(At(h, i))
      PROVE  i \in 1 .. Count(g) /\ At(h, i) = At(g, i)
  <2>1. CASE i \in 1 .. Count(g) BY <2>1
  <2>2. CASE i \notin 1 .. Count(g)
    <3>1. At(h, i) = <<>> BY <1>1, <2>2
    <3>2. Len(At(h, i)) = 0 BY <3>1
    <3> QED BY <3>2
  <2> QED BY <2>1, <2>2
<1>3. ASSUME NEW f PROVE f \in InBuffer(h) <=> f \in InBuffer(g)
  <2>1. ASSUME f \in InBuffer(h) PROVE f \in InBuffer(g)
    <3>0. PICK i \in 1 .. Count(h) : \E j \in 1 .. Len(At(h, i)) : At(h, i)[j] = f
      BY <2>1, InBufferIs
    <3>1. PICK j \in 1 .. Len(At(h, i)) : At(h, i)[j] = f BY <3>0
    <3> QED BY <1>2, <3>1, InBufferIs
  <2>2. ASSUME f \in InBuffer(g) PROVE f \in InBuffer(h)
    <3>0. PICK i \in 1 .. Count(g) : \E j \in 1 .. Len(At(g, i)) : At(g, i)[j] = f
      BY <2>2, InBufferIs
    <3>1. PICK j \in 1 .. Len(At(g, i)) : At(g, i)[j] = f BY <3>0
    <3>2. i \in 1 .. Count(h) /\ At(h, i) = At(g, i) BY <1>1, <3>1
    <3> QED BY <3>1, <3>2, InBufferIs
  <2> QED BY <2>1, <2>2
<1>4. Distinct(g) => Distinct(h) BY <1>2 DEF Distinct
<1> QED BY <1>3, <1>4

\* One more fragment in the current message.
LEMMA OneMore ==
  ASSUME NEW g \in GatewayBuffer, NEW h \in GatewayBuffer, NEW f \in Fragment,
         h.m_TunnelDataMsgs = g.m_TunnelDataMsgs, h.current = Append(g.current, f)
  PROVE  /\ InBuffer(h) = InBuffer(g) \cup {f}
         /\ (Distinct(g) /\ f \notin InBuffer(g) => Distinct(h))
<1> DEFINE N == Count(g)
           K == Len(g.current)
<1>1. Count(h) = N /\ N \in Nat /\ N > 0 BY AtTyped DEF Count
<1>2. /\ \A i \in 1 .. N : i # N => At(h, i) = At(g, i)
      /\ At(g, N) = g.current /\ At(h, N) = h.current
  BY <1>1, AtTyped DEF At, Count
<1>3. /\ K \in Nat /\ Len(h.current) = K + 1 /\ h.current[K + 1] = f
      /\ \A j \in 1 .. K : h.current[j] = g.current[j]
  BY DEF GatewayBuffer
<1> HIDE DEF N, K
<1>4. ASSUME NEW i \in 1 .. N, NEW j \in 1 .. Len(At(h, i))
      PROVE  \/ i = N /\ j = K + 1 /\ At(h, i)[j] = f
             \/ j \in 1 .. Len(At(g, i)) /\ At(h, i)[j] = At(g, i)[j]
                /\ (i = N => j # K + 1)
  <2>1. CASE i # N BY <2>1, <1>2
  <2>2. CASE i = N
    <3>1. j \in 1 .. K + 1 BY <2>2, <1>2, <1>3
    <3>2. CASE j = K + 1 BY <2>2, <3>2, <1>2, <1>3
    <3>3. CASE j # K + 1
      <4>1. j \in 1 .. K BY <3>1, <3>3, <1>3
      <4> QED BY <2>2, <3>3, <4>1, <1>2, <1>3 DEF K
    <3> QED BY <3>2, <3>3
  <2> QED BY <2>1, <2>2
<1>5. ASSUME NEW i \in 1 .. N, NEW j \in 1 .. Len(At(g, i))
      PROVE  j \in 1 .. Len(At(h, i)) /\ At(h, i)[j] = At(g, i)[j]
  <2>1. CASE i # N BY <2>1, <1>2
  <2>2. CASE i = N
    <3>1. j \in 1 .. K BY <2>2, <1>2 DEF K
    <3>2. j \in 1 .. K + 1 BY <3>1, <1>3
    <3> QED BY <2>2, <3>1, <3>2, <1>2, <1>3
  <2> QED BY <2>1, <2>2
<1>6. ASSUME NEW x PROVE x \in InBuffer(h) <=> x \in InBuffer(g) \/ x = f
  <2>1. ASSUME x \in InBuffer(h) PROVE x \in InBuffer(g) \/ x = f
    <3>0. PICK i \in 1 .. N : \E j \in 1 .. Len(At(h, i)) : At(h, i)[j] = x
      BY <1>1, <2>1, InBufferIs
    <3>1. PICK j \in 1 .. Len(At(h, i)) : At(h, i)[j] = x BY <3>0
    <3>2. CASE At(h, i)[j] = f BY <3>1, <3>2
    <3>3. CASE j \in 1 .. Len(At(g, i)) /\ At(h, i)[j] = At(g, i)[j]
      BY <3>1, <3>3, InBufferIs DEF N
    <3> QED BY <1>4, <3>2, <3>3
  <2>2. ASSUME x \in InBuffer(g) PROVE x \in InBuffer(h)
    <3>0. PICK i \in 1 .. N : \E j \in 1 .. Len(At(g, i)) : At(g, i)[j] = x
      BY <2>2, InBufferIs DEF N
    <3>1. PICK j \in 1 .. Len(At(g, i)) : At(g, i)[j] = x BY <3>0
    <3>2. j \in 1 .. Len(At(h, i)) /\ At(h, i)[j] = x BY <1>5, <3>1
    <3> QED BY <1>1, <3>2, InBufferIs
  <2>3. f \in InBuffer(h)
    <3>1. N \in 1 .. N /\ K + 1 \in 1 .. Len(At(h, N)) /\ At(h, N)[K + 1] = f
      BY <1>1, <1>2, <1>3
    <3> QED BY <1>1, <3>1, InBufferIs
  <2> QED BY <2>1, <2>2, <2>3
<1>7. ASSUME Distinct(g), f \notin InBuffer(g) PROVE Distinct(h)
  <2> SUFFICES ASSUME NEW i \in 1 .. N, NEW k \in 1 .. N,
                      NEW j \in 1 .. Len(At(h, i)), NEW l \in 1 .. Len(At(h, k)),
                      At(h, i)[j] = At(h, k)[l]
               PROVE  i = k /\ j = l
    BY <1>1 DEF Distinct
  <2>1. \A m \in 1 .. N : \A n \in 1 .. Len(At(g, m)) : At(g, m)[n] # f
    BY <1>7, InBufferIs DEF N
  <2>2. CASE i = N /\ j = K + 1 /\ At(h, i)[j] = f
    <3>1. k = N /\ l = K + 1 BY <1>4, <2>1, <2>2
    <3> QED BY <2>2, <3>1
  <2>3. CASE j \in 1 .. Len(At(g, i)) /\ At(h, i)[j] = At(g, i)[j]
    <3>1. l \in 1 .. Len(At(g, k)) /\ At(h, k)[l] = At(g, k)[l] BY <1>4, <2>1, <2>3
    <3>2. At(g, i)[j] = At(g, k)[l] BY <2>3, <3>1
    <3>3. \A a, c \in 1 .. N : \A x \in 1 .. Len(At(g, a)), y \in 1 .. Len(At(g, c)) :
            At(g, a)[x] = At(g, c)[y] => a = c /\ x = y
      BY <1>7 DEF Distinct, N
    <3> QED BY <2>3, <3>1, <3>2, <3>3
  <2> QED BY <1>4, <2>2, <2>3
<1> QED BY <1>6, <1>7

LEMMA GainsTransitive ==
  ASSUME NEW a, NEW b, NEW c, NEW P, NEW Q, Gains(a, b, P), Gains(b, c, Q), P \cap Q = {}
  PROVE  Gains(a, c, P \cup Q)
BY DEF Gains

LEMMA GainsNothing ==
  ASSUME NEW a, NEW b, NEW c, NEW P, Gains(a, b, {}), Gains(b, c, P) PROVE Gains(a, c, P)
BY DEF Gains

LEMMA GainsThenNothing ==
  ASSUME NEW a, NEW b, NEW c, NEW P, Gains(a, b, P), Gains(b, c, {}) PROVE Gains(a, c, P)
BY DEF Gains

LEMMA CompleteGains ==
  ASSUME NEW g, GatewayOK(g)
  PROVE  LET h == CompleteCurrentTunnelDataMessage(g)
         IN  /\ Gains(g, h, {}) /\ ~h.open /\ h.current = <<>>
             /\ h.m_RemainingSize = g.m_RemainingSize
<1> DEFINE h == [g EXCEPT !.open = FALSE, !.current = <<>>,
                          !.m_TunnelDataMsgs = Append(@, g.current)]
           N == Len(g.m_TunnelDataMsgs)
<1>0. g \in GatewayBuffer BY DEF GatewayOK
<1>1. CASE ~g.open
  <2>1. CompleteCurrentTunnelDataMessage(g) = g BY <1>1 DEF CompleteCurrentTunnelDataMessage
  <2> QED BY <1>1, <2>1 DEF Gains, GatewayOK
<1>2. CASE g.open
  <2>1. CompleteCurrentTunnelDataMessage(g) = h BY <1>2 DEF CompleteCurrentTunnelDataMessage
  <2>2. /\ g.m_TunnelDataMsgs \in Seq(Seq(Fragment)) /\ g.current \in Seq(Fragment)
        /\ g.m_RemainingSize \in Nat
    BY <1>0 DEF GatewayBuffer
  <2> DEFINE msgs == Append(g.m_TunnelDataMsgs, g.current)
  <2>3. /\ msgs \in Seq(Seq(Fragment)) /\ Len(msgs) = N + 1 /\ msgs[N + 1] = g.current
        /\ (\A i \in 1 .. N : msgs[i] = g.m_TunnelDataMsgs[i]) /\ N \in Nat
    BY <2>2
  <2> HIDE DEF msgs, N
  <2>4. /\ h \in GatewayBuffer /\ h.m_TunnelDataMsgs = msgs /\ h.current = <<>> /\ ~h.open
        /\ h.m_RemainingSize = g.m_RemainingSize
    <3>1. h = [g EXCEPT !.open = FALSE, !.current = <<>>, !.m_TunnelDataMsgs = msgs]
      BY DEF msgs
    <3>2. <<>> \in Seq(Fragment) BY EmptySeq
    <3> HIDE DEF h
    <3> QED BY <1>0, <2>3, <3>1, <3>2 DEF GatewayBuffer
  <2> HIDE DEF h
  <2>5. Used(g.current) <= TUNNEL_DATA_MAX_PAYLOAD_SIZE
    BY <1>2, <2>2, UsedTyped, Sizes DEF GatewayOK
  <2>6. \A i \in 1 .. Len(h.m_TunnelDataMsgs) :
          Used(h.m_TunnelDataMsgs[i]) <= TUNNEL_DATA_MAX_PAYLOAD_SIZE
    <3> TAKE i \in 1 .. Len(h.m_TunnelDataMsgs)
    <3>1. i \in 1 .. N \/ i = N + 1 BY <2>3, <2>4
    <3>2. CASE i \in 1 .. N BY <3>2, <2>3, <2>4 DEF GatewayOK, N
    <3>3. CASE i = N + 1 BY <3>3, <2>3, <2>4, <2>5
    <3> QED BY <3>1, <3>2, <3>3
  <2>7. GatewayOK(h) BY <2>4, <2>6 DEF GatewayOK
  <2>8. Count(g) = N + 1 /\ Count(h) = N + 2 BY <2>3, <2>4 DEF Count, N
  <2>9. \A i \in 1 .. Count(g) : At(h, i) = At(g, i) BY <2>3, <2>4, <2>8 DEF At, N
  <2>10. \A i \in Count(g) + 1 .. Count(h) : At(h, i) = <<>> BY <2>3, <2>4, <2>8 DEF At
  <2>11. InBuffer(h) = InBuffer(g) /\ (Distinct(g) => Distinct(h))
    BY <1>0, <2>3, <2>4, <2>8, <2>9, <2>10, EmptySlots
  <2>12. Gains(g, h, {}) BY <2>7, <2>11 DEF Gains
  <2> QED BY <2>1, <2>4, <2>12
<1> QED BY <1>1, <1>2

LEMMA CreateGains ==
  ASSUME NEW g, GatewayOK(g), g.current = <<>>
  PROVE  LET h == CreateCurrentTunnelDataMessage(g)
         IN  /\ Gains(g, h, {}) /\ h.open
             /\ h.m_RemainingSize = TUNNEL_DATA_MAX_PAYLOAD_SIZE
<1> DEFINE h == [g EXCEPT !.open = TRUE, !.current = <<>>,
                          !.m_RemainingSize = TUNNEL_DATA_MAX_PAYLOAD_SIZE]
<1>0. g \in GatewayBuffer BY DEF GatewayOK
<1>1. CreateCurrentTunnelDataMessage(g) = h BY DEF CreateCurrentTunnelDataMessage
<1>2. /\ h \in GatewayBuffer /\ h.open /\ h.current = <<>>
      /\ h.m_RemainingSize = TUNNEL_DATA_MAX_PAYLOAD_SIZE
      /\ h.m_TunnelDataMsgs = g.m_TunnelDataMsgs
  BY <1>0, Sizes, EmptySeq DEF GatewayBuffer
<1> HIDE DEF h
<1>3. GatewayOK(h) BY <1>2, UsedNothing, Sizes DEF GatewayOK
<1>4. Count(h) = Count(g) /\ Count(g) \in Nat BY <1>0, <1>2, AtTyped DEF Count
<1>5. \A i \in 1 .. Count(g) : At(h, i) = At(g, i) BY <1>2 DEF At
<1>6. InBuffer(h) = InBuffer(g) /\ (Distinct(g) => Distinct(h))
  <2>1. \A i \in Count(g) + 1 .. Count(h) : At(h, i) = <<>> BY <1>4
  <2>2. Count(g) <= Count(h) BY <1>4
  <2> QED BY <1>0, <1>2, <1>5, <2>1, <2>2, EmptySlots
<1> QED BY <1>1, <1>2, <1>3, <1>6 DEF Gains

\* A fragment that fits; a message that is full is completed.
LEMMA AddGains ==
  ASSUME NEW g, GatewayOK(g), g.open, NEW f \in Fragment, Space(f) <= g.m_RemainingSize
  PROVE  Gains(g, Add(g, f, Space(f)), {f})
<1> DEFINE c == Append(g.current, f)
           r == g.m_RemainingSize - Space(f)
           h == [g EXCEPT !.current = c, !.m_RemainingSize = r]
<1>0. /\ g \in GatewayBuffer /\ g.current \in Seq(Fragment) /\ g.m_RemainingSize \in Nat
      /\ Space(f) \in Nat /\ Used(g.current) \in Nat
  BY SpaceTyped, UsedTyped DEF GatewayOK, GatewayBuffer
<1>1. Add(g, f, Space(f)) = IF h.m_RemainingSize = 0
                            THEN CompleteCurrentTunnelDataMessage(h) ELSE h
  BY DEF Add
<1>2. r \in Nat /\ c \in Seq(Fragment) /\ Used(c) = Used(g.current) + Space(f)
  BY <1>0, UsedAppend
<1>2a. c = Append(g.current, f) /\ Used(c) + r = TUNNEL_DATA_MAX_PAYLOAD_SIZE
  BY <1>0, <1>2 DEF GatewayOK
<1> HIDE DEF c, r
<1>3. /\ h \in GatewayBuffer /\ h.open /\ h.current = c /\ h.m_RemainingSize = r
      /\ h.m_TunnelDataMsgs = g.m_TunnelDataMsgs
  BY <1>0, <1>2 DEF GatewayBuffer
<1> HIDE DEF h
<1>4. GatewayOK(h) BY <1>2a, <1>3 DEF GatewayOK
<1>5. InBuffer(h) = InBuffer(g) \cup {f} /\ (Distinct(g) /\ f \notin InBuffer(g) => Distinct(h))
  BY <1>0, <1>2a, <1>3, OneMore
<1>6. Gains(g, h, {f}) BY <1>4, <1>5 DEF Gains
<1>7. Gains(h, CompleteCurrentTunnelDataMessage(h), {}) BY <1>4, CompleteGains
<1> QED BY <1>1, <1>6, <1>7, GainsThenNothing

\* A first fragment takes all that is left.
LEMMA HeadGains ==
  ASSUME NEW g, GatewayOK(g), g.open, NEW f \in Fragment, Space(f) = g.m_RemainingSize
  PROVE  LET h == CompleteCurrentTunnelDataMessage([g EXCEPT !.current = Append(@, f)])
         IN  Gains(g, h, {f}) /\ ~h.open /\ h.current = <<>>
<1> DEFINE c == Append(g.current, f)
           k == [g EXCEPT !.current = c]
           z == [g EXCEPT !.current = c, !.m_RemainingSize = 0]
           h == CompleteCurrentTunnelDataMessage(k)
           y == CompleteCurrentTunnelDataMessage(z)
<1>0. /\ g \in GatewayBuffer /\ g.current \in Seq(Fragment) /\ g.m_RemainingSize \in Nat
      /\ Space(f) \in Nat /\ Used(g.current) \in Nat
  BY SpaceTyped, UsedTyped DEF GatewayOK, GatewayBuffer
<1>1. c \in Seq(Fragment) /\ Used(c) = TUNNEL_DATA_MAX_PAYLOAD_SIZE /\ c = Append(g.current, f)
  BY <1>0, UsedAppend DEF GatewayOK
<1> HIDE DEF c
<1>2. /\ z \in GatewayBuffer /\ z.open /\ z.current = c /\ z.m_RemainingSize = 0
      /\ z.m_TunnelDataMsgs = g.m_TunnelDataMsgs
      /\ k \in GatewayBuffer /\ k.open /\ k.current = c
      /\ k.m_TunnelDataMsgs = g.m_TunnelDataMsgs /\ k.m_RemainingSize = g.m_RemainingSize
  BY <1>0, <1>1 DEF GatewayBuffer
<1>3. GatewayOK(z)
  <2> HIDE DEF z
  <2> QED BY <1>1, <1>2, Sizes DEF GatewayOK
<1>4. Gains(g, z, {f})
  <2> HIDE DEF z
  <2>1. InBuffer(z) = InBuffer(g) \cup {f} /\ (Distinct(g) /\ f \notin InBuffer(g) => Distinct(z))
    BY <1>0, <1>1, <1>2, OneMore
  <2> QED BY <1>3, <2>1 DEF Gains
<1>5. Gains(z, y, {}) /\ ~y.open /\ y.current = <<>> BY <1>3, CompleteGains
<1>6. h = [y EXCEPT !.m_RemainingSize = g.m_RemainingSize] /\ y \in GatewayBuffer
  <2>1. y = [z EXCEPT !.open = FALSE, !.current = <<>>, !.m_TunnelDataMsgs = Append(@, z.current)]
    BY <1>2 DEF CompleteCurrentTunnelDataMessage
  <2>2. h = [k EXCEPT !.open = FALSE, !.current = <<>>, !.m_TunnelDataMsgs = Append(@, k.current)]
    BY <1>2 DEF CompleteCurrentTunnelDataMessage
  <2>3. y \in GatewayBuffer BY <1>5 DEF Gains, GatewayOK
  <2> HIDE DEF y, h
  <2> QED BY <1>0, <2>1, <2>2, <2>3 DEF GatewayBuffer
<1> HIDE DEF y, z, k, h
<1>7. /\ h \in GatewayBuffer /\ ~h.open /\ h.current = <<>>
      /\ h.m_TunnelDataMsgs = y.m_TunnelDataMsgs
  BY <1>0, <1>5, <1>6 DEF GatewayBuffer
<1>8. GatewayOK(h) BY <1>5, <1>7 DEF GatewayOK, Gains
<1>9. InBuffer(h) = InBuffer(y) /\ (Distinct(y) => Distinct(h))
  <2>1. Count(h) = Count(y) /\ Count(y) \in Nat BY <1>6, <1>7, AtTyped DEF Count
  <2>2. \A i \in 1 .. Count(y) : At(h, i) = At(y, i) BY <1>5, <1>7 DEF At
  <2>3. \A i \in Count(y) + 1 .. Count(h) : At(h, i) = <<>> BY <2>1
  <2>4. Count(y) <= Count(h) BY <2>1
  <2> QED BY <1>6, <1>7, <2>2, <2>3, <2>4, EmptySlots
<1>10. Gains(y, h, {}) BY <1>8, <1>9 DEF Gains
<1>11. Gains(g, h, {f}) BY <1>4, <1>5, <1>10, GainsThenNothing
<1> QED BY <1>7, <1>11 DEF h, k, c

\* Messages of one fragment each behind those that wait.
RunOK(F, k) ==
  /\ \A i \in 1 .. k : F[i] \in Fragment /\ Space(F[i]) <= TUNNEL_DATA_MAX_PAYLOAD_SIZE
  /\ \A i, j \in 1 .. k : F[i] = F[j] => i = j
Elements(F, k) == {F[i] : i \in 1 .. k}
WithRun(g, k, F) == [g EXCEPT !.m_TunnelDataMsgs = @ \o [i \in 1 .. k |-> <<F[i]>>]]

LEMMA RunGains ==
  ASSUME NEW g, GatewayOK(g), ~g.open, NEW k \in Nat, NEW F, RunOK(F, k)
  PROVE  /\ Gains(g, WithRun(g, k, F), Elements(F, k))
         /\ ~WithRun(g, k, F).open /\ WithRun(g, k, F).current = <<>>
<1> DEFINE run == [i \in 1 .. k |-> <<F[i]>>]
           msgs == g.m_TunnelDataMsgs \o run
           h == [g EXCEPT !.m_TunnelDataMsgs = msgs]
           N == Len(g.m_TunnelDataMsgs)
<1>0. /\ \A i \in 1 .. k : F[i] \in Fragment /\ Space(F[i]) <= TUNNEL_DATA_MAX_PAYLOAD_SIZE
      /\ \A i, j \in 1 .. k : F[i] = F[j] => i = j
  BY DEF RunOK
<1>1. /\ g \in GatewayBuffer /\ g.m_TunnelDataMsgs \in Seq(Seq(Fragment)) /\ N \in Nat
      /\ g.current = <<>>
  BY DEF GatewayOK, GatewayBuffer
<1>2. \A i \in 1 .. k : <<F[i]>> \in Seq(Fragment) BY <1>0, UsedOne
<1>3. run \in Seq(Seq(Fragment)) /\ Len(run) = k
  <2>1. run \in [1 .. k -> Seq(Fragment)] BY <1>2
  <2> HIDE DEF run
  <2>2. Len(run) = k BY <2>1
  <2>3. run \in Seq(Seq(Fragment)) BY <2>1
  <2> QED BY <2>2, <2>3
<1>4. \A i \in 1 .. k : run[i] = <<F[i]>> OBVIOUS
<1>4a. msgs = g.m_TunnelDataMsgs \o run OBVIOUS
<1> HIDE DEF run
<1>5. /\ msgs \in Seq(Seq(Fragment)) /\ Len(msgs) = N + k
      /\ \A i \in 1 .. N : msgs[i] = g.m_TunnelDataMsgs[i]
      /\ \A i \in N + 1 .. N + k : msgs[i] = run[i - N]
  <2> DEFINE s == g.m_TunnelDataMsgs
  <2>1. s \in Seq(Seq(Fragment)) /\ run \in Seq(Seq(Fragment)) /\ msgs = s \o run
        /\ N = Len(s) /\ Len(run) = k
    BY <1>1, <1>3
  <2> HIDE DEF s, msgs, N
  <2>2. msgs \in Seq(Seq(Fragment)) BY <2>1
  <2>3. Len(msgs) = N + k
    <3>1. ASSUME NEW T, NEW u \in Seq(T), NEW v \in Seq(T) PROVE Len(u \o v) = Len(u) + Len(v)
      OBVIOUS
    <3> QED BY <2>1, <3>1
  <2>4. \A i \in 1 .. N : msgs[i] = s[i] BY <2>1
  <2>5. \A i \in N + 1 .. N + k : msgs[i] = run[i - N] BY <2>1
  <2> QED BY <2>2, <2>3, <2>4, <2>5 DEF s
<1> HIDE DEF msgs, N
<1>6. h \in GatewayBuffer /\ h.m_TunnelDataMsgs = msgs /\ ~h.open /\ h.current = <<>>
  <2>1. h.m_TunnelDataMsgs = msgs /\ h.open = g.open /\ h.current = g.current
    BY <1>1 DEF GatewayBuffer
  <2> QED BY <1>1, <1>5, <2>1 DEF GatewayBuffer
<1>6a. h = WithRun(g, k, F)
  BY DEF msgs, run, WithRun
<1> HIDE DEF h
<1>7. GatewayOK(h)
  <2>1. \A i \in 1 .. Len(h.m_TunnelDataMsgs) :
          Used(h.m_TunnelDataMsgs[i]) <= TUNNEL_DATA_MAX_PAYLOAD_SIZE
    <3> TAKE i \in 1 .. Len(h.m_TunnelDataMsgs)
    <3>1. i \in 1 .. N \/ i \in N + 1 .. N + k BY <1>1, <1>5, <1>6
    <3>2. CASE i \in 1 .. N BY <3>2, <1>5, <1>6 DEF GatewayOK, N
    <3>3. CASE i \in N + 1 .. N + k
      <4>1. i - N \in 1 .. k BY <3>3, <1>1
      <4>2. h.m_TunnelDataMsgs[i] = <<F[i - N]>> BY <3>3, <4>1, <1>4, <1>5, <1>6
      <4>3. Used(<<F[i - N]>>) = Space(F[i - N]) BY <1>0, <4>1, UsedOne
      <4> QED BY <1>0, <4>1, <4>2, <4>3
    <3> QED BY <3>1, <3>2, <3>3
  <2> QED BY <1>6, <2>1 DEF GatewayOK
<1>8. Count(g) = N + 1 /\ Count(h) = N + k + 1 BY <1>1, <1>5, <1>6 DEF Count, N
<1>9. ASSUME NEW i \in 1 .. N PROVE At(h, i) = At(g, i)
  BY <1>1, <1>5, <1>6 DEF At, N
<1>10. ASSUME NEW i \in N + 1 .. N + k
       PROVE  i - N \in 1 .. k /\ Len(At(h, i)) = 1 /\ At(h, i)[1] = F[i - N]
  <2>1. i - N \in 1 .. k BY <1>1
  <2>2. i <= Len(h.m_TunnelDataMsgs) BY <1>1, <1>5, <1>6
  <2>3. At(h, i) = run[i - N] BY <2>2, <1>5, <1>6 DEF At
  <2>4. At(h, i) = <<F[i - N]>> BY <2>1, <2>3, <1>4
  <2> QED BY <2>1, <2>4
<1>11. Len(At(g, N + 1)) = 0 /\ Len(At(h, N + k + 1)) = 0
  <2>1. At(g, N + 1) = <<>> /\ At(h, N + k + 1) = <<>> BY <1>1, <1>5, <1>6 DEF At, N
  <2> QED BY <2>1
<1>12. ASSUME NEW i \in 1 .. Count(h), NEW j \in 1 .. Len(At(h, i))
       PROVE  \/ i \in 1 .. N /\ At(h, i) = At(g, i)
              \/ i \in N + 1 .. N + k /\ j = 1 /\ i - N \in 1 .. k /\ At(h, i)[j] = F[i - N]
  <2>0. i \in 1 .. N + k + 1 BY <1>8
  <2>1. i \in 1 .. N \/ i \in N + 1 .. N + k \/ i = N + k + 1
    <3> HIDE DEF h
    <3> QED BY <1>1, <2>0
  <2>2. CASE i = N + k + 1 BY <2>2, <1>11
  <2>3. CASE i \in N + 1 .. N + k
    <3>0. Len(At(h, i)) = 1 BY <1>10, <2>3
    <3>1. j = 1 BY <3>0
    <3> QED BY <1>10, <2>3, <3>1
  <2> QED BY <2>1, <2>2, <2>3, <1>9
<1> DEFINE P == {F[i] : i \in 1 .. k}
<1>13. ASSUME NEW x PROVE x \in InBuffer(h) <=> x \in InBuffer(g) \/ x \in P
  <2>1. ASSUME x \in InBuffer(h) PROVE x \in InBuffer(g) \/ x \in P
    <3>0. PICK i \in 1 .. Count(h) : \E j \in 1 .. Len(At(h, i)) : At(h, i)[j] = x
      BY <1>6, <2>1, InBufferIs
    <3>1. PICK j \in 1 .. Len(At(h, i)) : At(h, i)[j] = x BY <3>0
    <3>2. CASE i \in 1 .. N /\ At(h, i) = At(g, i)
      <4>1. i \in 1 .. Count(g) BY <1>1, <1>8, <3>2
      <4> QED BY <1>1, <3>1, <3>2, <4>1, InBufferIs
    <3>3. CASE i - N \in 1 .. k /\ At(h, i)[j] = F[i - N] BY <3>1, <3>3
    <3> QED BY <1>12, <3>2, <3>3
  <2>2. ASSUME x \in InBuffer(g) PROVE x \in InBuffer(h)
    <3>0. PICK i \in 1 .. Count(g) : \E j \in 1 .. Len(At(g, i)) : At(g, i)[j] = x
      BY <1>1, <2>2, InBufferIs
    <3>1. PICK j \in 1 .. Len(At(g, i)) : At(g, i)[j] = x BY <3>0
    <3>2. i \in 1 .. N BY <1>1, <1>8, <1>11, <3>1
    <3>3. i \in 1 .. Count(h) BY <1>1, <1>8, <3>2
    <3> QED BY <1>6, <1>9, <3>1, <3>2, <3>3, InBufferIs
  <2>3. ASSUME NEW i \in 1 .. k PROVE F[i] \in InBuffer(h)
    <3>1. N + i \in N + 1 .. N + k /\ (N + i) - N = i /\ N + i \in 1 .. Count(h) BY <1>1, <1>8
    <3>2. 1 \in 1 .. Len(At(h, N + i)) /\ At(h, N + i)[1] = F[i] BY <1>10, <3>1
    <3> QED BY <1>6, <3>1, <3>2, InBufferIs
  <2> QED BY <2>1, <2>2, <2>3
<1>14. ASSUME Distinct(g), P \cap InBuffer(g) = {} PROVE Distinct(h)
  <2>0. \A a \in 1 .. N : a \in 1 .. Count(g) BY <1>1, <1>8
  <2>1. ASSUME NEW i \in 1 .. Count(h), NEW j \in 1 .. Len(At(h, i)),
               NEW a \in 1 .. Count(h), NEW c \in 1 .. Len(At(h, a)),
               At(h, i)[j] = At(h, a)[c]
        PROVE  i = a /\ j = c
    <3>1. CASE i \in 1 .. N /\ At(h, i) = At(g, i) /\ a \in 1 .. N /\ At(h, a) = At(g, a)
      BY <1>14, <2>0, <2>1, <3>1 DEF Distinct
    <3>2. ASSUME i \in 1 .. N, At(h, i) = At(g, i), a - N \in 1 .. k, At(h, a)[c] = F[a - N]
          PROVE  FALSE
      <4>1. F[a - N] \in InBuffer(g) BY <1>1, <2>0, <2>1, <3>2, InBufferIs
      <4> QED BY <1>14, <3>2, <4>1
    <3>3. ASSUME a \in 1 .. N, At(h, a) = At(g, a), i - N \in 1 .. k, At(h, i)[j] = F[i - N]
          PROVE  FALSE
      <4>1. F[i - N] \in InBuffer(g) BY <1>1, <2>0, <2>1, <3>3, InBufferIs
      <4> QED BY <1>14, <3>3, <4>1
    <3>4. CASE /\ i - N \in 1 .. k /\ j = 1 /\ At(h, i)[j] = F[i - N]
               /\ a - N \in 1 .. k /\ c = 1 /\ At(h, a)[c] = F[a - N]
      <4>1. i - N = a - N BY <1>0, <2>1, <3>4
      <4>2. i = a BY <4>1, <1>1, <1>8
      <4> QED BY <3>4, <4>2
    <3> QED BY <1>12, <3>1, <3>2, <3>3, <3>4
  <2> QED BY <2>1 DEF Distinct
<1>15. Gains(g, h, P) BY <1>7, <1>13, <1>14 DEF Gains
<1> QED BY <1>6, <1>6a, <1>15 DEF Elements

\* What a block needs from the message it goes into.
LEMMA WholeGains ==
  ASSUME NEW g, GatewayOK(g), g.open, NEW b \in TunnelMessageBlock,
         FullMsgLen(b) <= g.m_RemainingSize
  PROVE  \E P : IsPieces(P, b) /\ Gains(g, PutWhole(g, b), P)
<1>1. Space(Whole(b)) = FullMsgLen(b)
  <2>1. Whole(b).size = b.len /\ Whole(b).num = 0 /\ Whole(b).last = TRUE /\ Whole(b).type = b.type
    BY DEF Whole
  <2>2. ~(0 > 0) OBVIOUS
  <2>3. Space(Whole(b)) = b.len + (DeliveryInstructions(b.type) + 2) BY <2>1, <2>2 DEF Space
  <2> QED BY <2>3, BlockTyped DEF FullMsgLen
<1>2. PutWhole(g, b) = Add(g, Whole(b), Space(Whole(b))) BY <1>1 DEF PutWhole, Whole
<1>3. Gains(g, PutWhole(g, b), {Whole(b)}) BY <1>1, <1>2, WholeTyped, AddGains
<1> QED BY <1>3 DEF IsPieces

LEMMA FragmentsGains ==
  ASSUME NEW g, GatewayOK(g), g.open, NEW b \in TunnelMessageBlock,
         DeliveryInstructions(b.type) + FragmentInstructions <= g.m_RemainingSize
  PROVE  \E P : IsPieces(P, b) /\ Gains(g, PutFragments(g, b), P)
<1> DEFINE first == FirstSize(g, b)
           num == NumFollowOn(b, first)
           head == FirstPiece(b, first)
           g1 == CompleteCurrentTunnelDataMessage([g EXCEPT !.current = Append(@, head)])
           k == num - 1
           F == [i \in 1 .. k |-> FollowOn(b, first, i)]
           g2 == [g1 EXCEPT !.m_TunnelDataMsgs = @ \o [i \in 1 .. k |-> <<F[i]>>]]
           tail == FollowOn(b, first, num)
           g3 == CreateCurrentTunnelDataMessage(g2)
           g4 == Add(g3, tail, Space(tail))
<1>0. g.m_RemainingSize \in Nat BY DEF GatewayOK, GatewayBuffer
<1>1. first \in Nat /\ Space(head) = g.m_RemainingSize
  <2>1. first \in Nat /\ first + DeliveryInstructions(b.type) + FragmentInstructions = g.m_RemainingSize
    BY <1>0, BlockTyped DEF FirstSize, FragmentInstructions
  <2> HIDE DEF first
  <2>2. head.size = first /\ head.num = 0 /\ head.last = FALSE /\ head.type = b.type
    BY DEF FirstPiece
  <2>3. ~(0 > 0) OBVIOUS
  <2>4. Space(head) = first + (DeliveryInstructions(b.type) + FragmentInstructions)
    BY <2>2, <2>3 DEF Space
  <2> QED BY <2>1, <2>4, BlockTyped DEF FragmentInstructions
<1>2. num \in Nat BY <1>1, NumTyped
<1>3. PutFragments(g, b) = IF num = 0 THEN g1
                           ELSE Add(g3, tail, tail.size + FollowOnInstructions)
  <2>1. [i \in 1 .. k |-> <<F[i]>>] = [i \in 1 .. k |-> <<FollowOn(b, first, i)>>] OBVIOUS
  <2> HIDE DEF F
  <2> QED BY <2>1 DEF PutFragments, FirstPiece
<1> HIDE DEF first, num
<1>4. Gains(g, g1, {head}) /\ ~g1.open /\ g1.current = <<>>
  <2>1. head \in Fragment BY <1>1, HeadTyped
  <2> HIDE DEF head
  <2> QED BY <1>1, <2>1, HeadGains
<1> HIDE DEF g1
<1>5. CASE num = 0
  <2>1. Split(b, first) = {head} BY <1>5 DEF Split, num
  <2> HIDE DEF head
  <2> QED BY <1>1, <1>3, <1>4, <1>5, <2>1 DEF IsPieces
<1>6. CASE num # 0
  <2>1. k \in Nat BY <1>2, <1>6
  <2>2. ASSUME NEW i \in 1 .. num
        PROVE  /\ FollowOn(b, first, i) \in Fragment /\ FollowOn(b, first, i).num = i
               /\ Space(FollowOn(b, first, i)) = FollowOn(b, first, i).size + FollowOnInstructions
               /\ Space(FollowOn(b, first, i)) <= TUNNEL_DATA_MAX_PAYLOAD_SIZE
    <3> DEFINE f == FollowOn(b, first, i)
    <3>1. f \in Fragment /\ f.num = i /\ f.size <= FollowOnSize
      BY <1>1, FollowOnIs DEF FollowOnFits, num
    <3>1a. f.size \in Nat BY <3>1 DEF Fragment
    <3> HIDE DEF f
    <3>2. f.num > 0 BY <3>1, <1>2
    <3>3. Space(f) = f.size + FollowOnInstructions BY <3>2 DEF Space
    <3>4. Space(f) <= TUNNEL_DATA_MAX_PAYLOAD_SIZE
      BY <3>1, <3>1a, <3>3, Sizes DEF FollowOnInstructions
    <3> QED BY <3>1, <3>3, <3>4 DEF f
  <2>3. \A i \in 1 .. k : i \in 1 .. num BY <1>2, <2>1
  <2>4. \A i \in 1 .. k : F[i] \in Fragment /\ Space(F[i]) <= TUNNEL_DATA_MAX_PAYLOAD_SIZE
                          /\ F[i].num = i
    BY <2>2, <2>3
  <2>5. Gains(g1, g2, Elements(F, k)) /\ ~g2.open /\ g2.current = <<>>
    <3>1. GatewayOK(g1) BY <1>4 DEF Gains
    <3>2. \A i, j \in 1 .. k : F[i] = F[j] => i = j BY <2>4
    <3>3. RunOK(F, k)
      <4> HIDE DEF F
      <4> QED BY <2>4, <3>2 DEF RunOK
    <3>4. ~g1.open BY <1>4
    <3>5. g2 = WithRun(g1, k, F) BY DEF WithRun
    <3> HIDE DEF F, k, g2
    <3> QED BY <2>1, <3>1, <3>3, <3>4, <3>5, RunGains
  <2>6. num \in 1 .. num BY <1>2, <1>6
  <2>7. tail \in Fragment /\ tail.num = num /\ Space(tail) = tail.size + FollowOnInstructions
        /\ Space(tail) <= TUNNEL_DATA_MAX_PAYLOAD_SIZE
    BY <2>2, <2>6
  <2>8. Split(b, first) = ({head} \cup Elements(F, k)) \cup {tail}
    <3>1. 1 .. num = (1 .. k) \cup {num} BY <1>2, <2>1, <1>6
    <3>2. {FollowOn(b, first, i) : i \in 1 .. num}
            = {FollowOn(b, first, i) : i \in 1 .. k} \cup {tail}
      BY <3>1
    <3>3. Elements(F, k) = {FollowOn(b, first, i) : i \in 1 .. k} BY DEF Elements
    <3> HIDE DEF head, tail, F, k
    <3> QED BY <3>2, <3>3 DEF Split, num, head
  <2>9. head.num = 0 BY DEF FirstPiece
  <2>10. {head} \cap Elements(F, k) = {} /\ ({head} \cup Elements(F, k)) \cap {tail} = {}
    <3>1. \A i \in 1 .. k : F[i] # head /\ F[i] # tail
      <4> TAKE i \in 1 .. k
      <4>1. F[i].num = i /\ i # 0 /\ i # num BY <2>1, <2>4, <1>2
      <4> HIDE DEF F, head, tail
      <4> QED BY <2>7, <2>9, <4>1
    <3>2. head # tail BY <1>6, <2>7, <2>9
    <3> HIDE DEF F, head, tail
    <3> QED BY <3>1, <3>2 DEF Elements
  <2> HIDE DEF F, g2, head, tail, k
  <2>11. Gains(g2, g3, {}) /\ g3.open /\ g3.m_RemainingSize = TUNNEL_DATA_MAX_PAYLOAD_SIZE
    BY <2>5, CreateGains DEF Gains
  <2> HIDE DEF g3
  <2>12. Gains(g3, g4, {tail}) BY <2>7, <2>11, AddGains DEF Gains
  <2> HIDE DEF g4
  <2>13. Gains(g, g2, {head} \cup Elements(F, k))
    BY <1>4, <2>5, <2>10, GainsTransitive
  <2>14. Gains(g2, g4, {tail}) BY <2>11, <2>12, GainsNothing
  <2>15. Gains(g, g4, Split(b, first)) BY <2>8, <2>10, <2>13, <2>14, GainsTransitive
  <2>16. PutFragments(g, b) = g4 BY <1>3, <1>6, <2>7 DEF g4
  <2> QED BY <1>1, <2>15, <2>16 DEF IsPieces
<1> QED BY <1>5, <1>6

LEMMA FreshGains ==
  ASSUME NEW g, GatewayOK(g), g.current = <<>>, NEW b \in TunnelMessageBlock
  PROVE  \E P : IsPieces(P, b) /\ Gains(g, PutInFresh(g, b), P)
<1> DEFINE h == CreateCurrentTunnelDataMessage(g)
<1>1. Gains(g, h, {}) /\ h.open /\ h.m_RemainingSize = TUNNEL_DATA_MAX_PAYLOAD_SIZE
  BY CreateGains
<1>2. PutInFresh(g, b) = IF FullMsgLen(b) <= h.m_RemainingSize THEN PutWhole(h, b)
                         ELSE PutFragments(h, b)
  BY DEF PutInFresh
<1> HIDE DEF h
<1>3. GatewayOK(h) BY <1>1 DEF Gains
<1>4. DeliveryInstructions(b.type) + FragmentInstructions <= h.m_RemainingSize
  BY <1>1, BlockTyped, Sizes DEF FragmentInstructions
<1>5. PICK P : IsPieces(P, b) /\ Gains(h, PutInFresh(g, b), P)
  BY <1>1, <1>2, <1>3, <1>4, WholeGains, FragmentsGains
<1>6. Gains(g, PutInFresh(g, b), P) BY <1>1, <1>5, GainsNothing
<1> QED BY <1>5, <1>6

\* PutI2NPMsg adds the fragments of the block it is given, and nothing else.
LEMMA PutGains ==
  ASSUME NEW g, GatewayOK(g), NEW b \in TunnelMessageBlock
  PROVE  \E P : IsPieces(P, b) /\ Gains(g, PutI2NPMsg(g, b), P)
<1> DEFINE done == CompleteCurrentTunnelDataMessage(g)
           fresh == CreateCurrentTunnelDataMessage(done)
           next == IF CompletePrevious(g, b) THEN fresh ELSE g
           last == CompleteCurrentTunnelDataMessage(next)
<1>1. Gains(g, done, {}) /\ done.current = <<>> BY CompleteGains
<1>2. GatewayOK(done) BY <1>1 DEF Gains
<1>3. PutI2NPMsg(g, b) =
        IF ~g.open THEN PutInFresh(g, b)
        ELSE IF FullMsgLen(b) <= g.m_RemainingSize THEN PutWhole(g, b)
        ELSE IF DeliveryInstructions(b.type) + FragmentInstructions <= next.m_RemainingSize
             THEN PutFragments(next, b) ELSE PutInFresh(last, b)
  BY DEF PutI2NPMsg
<1> HIDE DEF done
<1>4. Gains(done, fresh, {}) /\ fresh.open BY <1>1, <1>2, CreateGains
<1> HIDE DEF fresh
<1>5. Gains(g, fresh, {}) BY <1>1, <1>4, GainsNothing
<1>6. Gains(g, g, {}) BY DEF Gains
<1>7. Gains(g, next, {}) /\ (g.open => next.open) BY <1>4, <1>5, <1>6
<1> HIDE DEF next
<1>8. GatewayOK(next) BY <1>7 DEF Gains
<1>9. Gains(next, last, {}) /\ last.current = <<>> BY <1>8, CompleteGains
<1> HIDE DEF last
<1>10. Gains(g, last, {}) /\ GatewayOK(last) BY <1>7, <1>9, GainsNothing DEF Gains
<1>11. CASE ~g.open
  <2>1. g.current = <<>> BY <1>11 DEF GatewayOK
  <2> QED BY <1>3, <1>11, <2>1, FreshGains
<1>12. CASE g.open /\ FullMsgLen(b) <= g.m_RemainingSize BY <1>3, <1>12, WholeGains
<1>13. CASE g.open /\ ~(FullMsgLen(b) <= g.m_RemainingSize)
            /\ DeliveryInstructions(b.type) + FragmentInstructions <= next.m_RemainingSize
  <2>1. PICK P : IsPieces(P, b) /\ Gains(next, PutFragments(next, b), P)
    BY <1>7, <1>8, <1>13, FragmentsGains
  <2>2. Gains(g, PutFragments(next, b), P) BY <1>7, <2>1, GainsNothing
  <2> QED BY <1>3, <1>13, <2>1, <2>2
<1>14. CASE g.open /\ ~(FullMsgLen(b) <= g.m_RemainingSize)
            /\ ~(DeliveryInstructions(b.type) + FragmentInstructions <= next.m_RemainingSize)
  <2>1. PICK P : IsPieces(P, b) /\ Gains(last, PutInFresh(last, b), P)
    BY <1>9, <1>10, FreshGains
  <2>2. Gains(g, PutInFresh(last, b), P) BY <1>10, <2>1, GainsNothing
  <2> QED BY <1>3, <1>14, <2>1, <2>2
<1> QED BY <1>11, <1>12, <1>13, <1>14

-----------------------------------------------------------------------------
(***************************************************************************)
(* What holds of a tunnel: World relates the gateway's buffer g, the       *)
(* endpoint e, the messages N on their way, the blocks G given, the        *)
(* fragments A that arrived, and whether none arrived twice (once).        *)
(***************************************************************************)
OnWire(N) == UNION {Range(m.frags) : m \in N}
Made(g, N, A) == InBuffer(g) \cup OnWire(N) \cup A
Pieces(O, id) == {f \in O : f.msgID = id}

\* Each message fits, and each fragment is in one of them, in one place.
NetOK(N) ==
  /\ \A m \in N : m.frags \in Seq(Fragment) /\ Used(m.frags) <= TUNNEL_DATA_MAX_PAYLOAD_SIZE
  /\ \A m, k \in N : \A j \in 1 .. Len(m.frags), l \in 1 .. Len(k.frags) :
       m.frags[j] = k.frags[l] => m = k /\ j = l

\* A fragment is in the buffer, on its way or at the endpoint.
Apart(g, N, A, once) ==
  /\ InBuffer(g) \cap OnWire(N) = {}
  /\ InBuffer(g) \cap A = {}
  /\ once => OnWire(N) \cap A = {}

\* The fragments that were made are the pieces of the blocks that were given.
BlocksOK(G, O) ==
  /\ G \subseteq TunnelMessageBlock
  /\ \A b, c \in G : b.msgID = c.msgID => b = c
  /\ \A f \in O : \E b \in G : f.msgID = b.msgID
  /\ \A b \in G : IsPieces(Pieces(O, b.msgID), b)

Partial(T) == UNION {[D -> T] : D \in SUBSET Nat}
HandedMessage ==
  [msgID: Nat, type: TunnelDeliveryType, data: Seq([off: Nat, size: Nat])]
Endpoint ==
  [m_IsInbound: BOOLEAN, m_IncompleteMessages: Partial(TunnelMessageBlockEx),
   m_OutOfSequenceFragments: Partial(Fragment), handed: Seq(HandedMessage)]

\* The first fragment of b and the follow-on fragments below number k.
Assembled(b, first, k) ==
  [i \in 1 .. k |-> IF i = 1 THEN [off |-> 0, size |-> first] ELSE Bytes(FollowOn(b, first, i - 1))]

\* An incomplete message is the beginning of a block that was split.
Beginning(m, b, O) ==
  /\ m.type = b.type
  /\ m.nextFragmentNum > 0
  /\ m.nextFragmentNum = 1 => m.len = TunnelDataEnd
  /\ \E first \in Nat : /\ Pieces(O, b.msgID) = Split(b, first)
                        /\ m.data = Assembled(b, first, m.nextFragmentNum)
Incomplete(m, id, G, O) == \E b \in G : b.msgID = id /\ Beginning(m, b, O)

\* A saved fragment is a follow-on fragment that arrived.
Saved(f, id, A) == f \in A /\ f.msgID = id /\ f.num > 0

Intact(h, G) == \E b \in G : b.msgID = h.msgID /\ b.type = h.type /\ Tiles(h.data, b.len)

EndSafe(e, A, G, O) ==
  /\ e \in Endpoint
  /\ e.m_IsInbound => \A b \in G : b.type = "Local"
  /\ \A id \in DOMAIN e.m_IncompleteMessages : Incomplete(e.m_IncompleteMessages[id], id, G, O)
  /\ \A id \in DOMAIN e.m_OutOfSequenceFragments : Saved(e.m_OutOfSequenceFragments[id], id, A)
  /\ \A i \in 1 .. Len(e.handed) : Intact(e.handed[i], G)

HandedOnce(e, id) ==
  \E i \in 1 .. Len(e.handed) :
    /\ e.handed[i].msgID = id
    /\ \A j \in 1 .. Len(e.handed) : e.handed[j].msgID = id => i = j
NotHanded(e, id) == \A i \in 1 .. Len(e.handed) : e.handed[i].msgID # id

\* How far a block has got when no fragment arrived twice: a whole one, and one
\* with a single follow-on fragment that is not dropped for its length.
WholeProgress(e, A, b) ==
  IF Whole(b) \in A THEN HandedOnce(e, b.msgID) ELSE NotHanded(e, b.msgID)
PairProgress(e, A, b, head, next) ==
  IF head \in A /\ next \in A THEN HandedOnce(e, b.msgID)
  ELSE /\ NotHanded(e, b.msgID)
       /\ b.msgID \in DOMAIN e.m_IncompleteMessages <=> head \in A
       /\ b.msgID \in DOMAIN e.m_OutOfSequenceFragments <=> next \in A
       /\ head \in A => e.m_IncompleteMessages[b.msgID].nextFragmentNum = 1
IsPair(b, first) ==
  NumFollowOn(b, first) = 1 /\ b.msgID # 0 /\ b.len + TunnelDataEnd < I2NP_MAX_MESSAGE_SIZE
Progress(e, A, b, O) ==
  /\ Pieces(O, b.msgID) = {Whole(b)} => WholeProgress(e, A, b)
  /\ \A first \in Nat : Pieces(O, b.msgID) = Split(b, first) /\ IsPair(b, first) =>
       PairProgress(e, A, b, FirstPiece(b, first), FollowOn(b, first, 1))

EndOK(e, A, G, O, once) ==
  /\ EndSafe(e, A, G, O)
  /\ once => \A b \in G : Progress(e, A, b, O)

World(g, e, N, G, A, once) ==
  /\ GatewayOK(g) /\ Distinct(g)
  /\ NetOK(N)
  /\ Apart(g, N, A, once)
  /\ BlocksOK(G, Made(g, N, A))
  /\ EndOK(e, A, G, Made(g, N, A), once)

\* Another block and its fragments.
Added(G, O, b, P) ==
  /\ P \cap O = {}
  /\ BlocksOK(G \cup {b}, O \cup P)
  /\ Pieces(O \cup P, b.msgID) = P
  /\ \A c \in G : Pieces(O \cup P, c.msgID) = Pieces(O, c.msgID)

LEMMA MoreBlocks ==
  ASSUME NEW G, NEW O, BlocksOK(G, O), NEW b \in TunnelMessageBlock,
         \A c \in G : c.msgID # b.msgID, NEW P, IsPieces(P, b)
  PROVE  Added(G, O, b, P)
<1>1. P \subseteq Fragment /\ (\A f \in P : f.msgID = b.msgID) /\ P # {} BY PiecesTyped
<1>2. \A f \in O : f.msgID # b.msgID BY DEF BlocksOK
<1>3. Pieces(O \cup P, b.msgID) = P BY <1>1, <1>2 DEF Pieces
<1>4. \A c \in G : Pieces(O \cup P, c.msgID) = Pieces(O, c.msgID) BY <1>1 DEF Pieces
<1>5. \A c \in G \cup {b} : IsPieces(Pieces(O \cup P, c.msgID), c)
  <2> TAKE c \in G \cup {b}
  <2>1. CASE c = b BY <2>1, <1>3
  <2>2. CASE c \in G BY <2>2, <1>4 DEF BlocksOK
  <2> QED BY <2>1, <2>2
<1>6. \A f \in O \cup P : \E c \in G \cup {b} : f.msgID = c.msgID BY <1>1 DEF BlocksOK
<1>7. \A c, a \in G \cup {b} : c.msgID = a.msgID => c = a BY DEF BlocksOK
<1>8. BlocksOK(G \cup {b}, O \cup P) BY <1>5, <1>6, <1>7 DEF BlocksOK
<1> QED BY <1>1, <1>2, <1>3, <1>4, <1>8 DEF Added

LEMMA MoreEnd ==
  ASSUME NEW e, NEW A, NEW G, NEW O, NEW once, EndOK(e, A, G, O, once), BlocksOK(G, O), A \subseteq O,
         NEW b \in TunnelMessageBlock, \A c \in G : c.msgID # b.msgID,
         NEW P, IsPieces(P, b), e.m_IsInbound => b.type = "Local"
  PROVE  EndOK(e, A, G \cup {b}, O \cup P, once)
<1> DEFINE G2 == G \cup {b}
           O2 == O \cup P
<1>1. /\ P \cap O = {} /\ Pieces(O2, b.msgID) = P
      /\ \A c \in G : Pieces(O2, c.msgID) = Pieces(O, c.msgID)
  <2>1. Added(G, O, b, P) BY MoreBlocks
  <2> QED BY <2>1 DEF Added
<1>2. EndSafe(e, A, G, O) BY DEF EndOK
<1>2a. /\ \A id \in DOMAIN e.m_IncompleteMessages : Incomplete(e.m_IncompleteMessages[id], id, G, O)
       /\ \A id \in DOMAIN e.m_OutOfSequenceFragments : Saved(e.m_OutOfSequenceFragments[id], id, A)
       /\ \A i \in 1 .. Len(e.handed) : Intact(e.handed[i], G)
  BY <1>2 DEF EndSafe
<1>3. ASSUME NEW m, NEW id, Incomplete(m, id, G, O) PROVE Incomplete(m, id, G2, O2)
  <2>1. PICK c \in G : c.msgID = id /\ Beginning(m, c, O) BY <1>3 DEF Incomplete
  <2>2. Beginning(m, c, O2) BY <1>1, <2>1 DEF Beginning
  <2>3. c \in G2 OBVIOUS
  <2> QED BY <2>1, <2>2, <2>3 DEF Incomplete
<1>4. ASSUME NEW h, Intact(h, G) PROVE Intact(h, G2) BY <1>4 DEF Intact
<1>5. EndSafe(e, A, G2, O2)
  <2>1. e.m_IsInbound => \A c \in G2 : c.type = "Local" BY <1>2 DEF EndSafe
  <2> HIDE DEF G2, O2
  <2> QED BY <1>2, <1>2a, <1>3, <1>4, <2>1 DEF EndSafe
<1>6. /\ NotHanded(e, b.msgID)
      /\ b.msgID \notin DOMAIN e.m_IncompleteMessages
      /\ b.msgID \notin DOMAIN e.m_OutOfSequenceFragments
  <2>1. NotHanded(e, b.msgID)
    <3>1. \A i \in 1 .. Len(e.handed) : \E c \in G : c.msgID = e.handed[i].msgID
      BY <1>2a DEF Intact
    <3> QED BY <3>1 DEF NotHanded
  <2>2. b.msgID \notin DOMAIN e.m_IncompleteMessages
    <3>1. \A id \in DOMAIN e.m_IncompleteMessages : \E c \in G : c.msgID = id
      BY <1>2a DEF Incomplete
    <3> QED BY <3>1
  <2>3. b.msgID \notin DOMAIN e.m_OutOfSequenceFragments
    <3>1. \A id \in DOMAIN e.m_OutOfSequenceFragments : \E f \in O : f.msgID = id
      BY <1>2a DEF Saved
    <3>2. \A f \in O : f.msgID # b.msgID BY DEF BlocksOK
    <3> QED BY <3>1, <3>2
  <2> QED BY <2>1, <2>2, <2>3
<1>7. P \cap A = {} BY <1>1
<1>8. Progress(e, A, b, O2)
  <2>1. ASSUME P = {Whole(b)} PROVE WholeProgress(e, A, b)
    <3>1. Whole(b) \notin A BY <1>7, <2>1
    <3> QED BY <1>6, <3>1 DEF WholeProgress
  <2>2. ASSUME NEW first \in Nat, P = Split(b, first), IsPair(b, first)
        PROVE  PairProgress(e, A, b, FirstPiece(b, first), FollowOn(b, first, 1))
    <3>1. 1 \in 1 .. NumFollowOn(b, first) BY <2>2 DEF IsPair
    <3>2. FirstPiece(b, first) \in P /\ FollowOn(b, first, 1) \in P BY <2>2, <3>1 DEF Split
    <3>3. FirstPiece(b, first) \notin A /\ FollowOn(b, first, 1) \notin A BY <1>7, <3>2
    <3> QED BY <1>6, <3>3 DEF PairProgress
  <2> QED BY <1>1, <2>1, <2>2 DEF Progress
<1>9. ASSUME NEW c \in G, Progress(e, A, c, O) PROVE Progress(e, A, c, O2)
  <2>1. Pieces(O2, c.msgID) = Pieces(O, c.msgID) BY <1>1
  <2> HIDE DEF O2
  <2> QED BY <1>9, <2>1 DEF Progress
<1>10. once => \A c \in G2 : Progress(e, A, c, O2)
  <2> HIDE DEF O2
  <2> QED BY <1>8, <1>9 DEF EndOK
<1> QED BY <1>5, <1>10 DEF EndOK

\* The gateway takes one block.
LEMMA PutWorld ==
  ASSUME NEW g, NEW e, NEW N, NEW G, NEW A, NEW once, World(g, e, N, G, A, once),
         NEW b \in TunnelMessageBlock, \A c \in G : c.msgID # b.msgID,
         e.m_IsInbound => b.type = "Local"
  PROVE  World(PutI2NPMsg(g, b), e, N, G \cup {b}, A, once)
<1> DEFINE h == PutI2NPMsg(g, b)
           O == Made(g, N, A)
<1>1. GatewayOK(g) /\ Distinct(g) /\ NetOK(N) /\ Apart(g, N, A, once) /\ BlocksOK(G, O)
      /\ EndOK(e, A, G, O, once)
  BY DEF World
<1>2. PICK P : IsPieces(P, b) /\ Gains(g, h, P) BY <1>1, PutGains
<1> HIDE DEF h
<1>3. GatewayOK(h) /\ InBuffer(h) = InBuffer(g) \cup P /\ (P \cap InBuffer(g) = {} => Distinct(h))
  BY <1>1, <1>2 DEF Gains
<1>4. Made(h, N, A) = O \cup P BY <1>3 DEF Made
<1>5. A \subseteq O /\ InBuffer(g) \subseteq O /\ OnWire(N) \subseteq O BY DEF Made
<1> HIDE DEF O
<1>6. P \cap O = {} /\ BlocksOK(G \cup {b}, O \cup P) BY <1>1, <1>2, MoreBlocks DEF Added
<1>7. EndOK(e, A, G \cup {b}, O \cup P, once) BY <1>1, <1>2, <1>5, MoreEnd
<1>8. Distinct(h) BY <1>3, <1>5, <1>6
<1>9. Apart(h, N, A, once) BY <1>1, <1>3, <1>5, <1>6 DEF Apart
<1>10. World(h, e, N, G \cup {b}, A, once) BY <1>1, <1>3, <1>4, <1>6, <1>7, <1>8, <1>9 DEF World
<1> QED BY <1>10 DEF h

\* The gateway takes a batch.
LEMMA BatchWorld ==
  ASSUME NEW g, NEW e, NEW N, NEW G, NEW A, NEW once, World(g, e, N, G, A, once),
         NEW bs \in Seq(TunnelMessageBlock), \A i \in 1 .. Len(bs) : \A c \in G : c.msgID # bs[i].msgID,
         \A i, j \in 1 .. Len(bs) : bs[i].msgID = bs[j].msgID => i = j,
         ~e.m_IsInbound
  PROVE  World(PutBatch(g, bs), e, N, G \cup Range(bs), A, once)
<1>1. PICK h : BatchAfter(g, bs, h) /\ PutBatch(g, bs) = h[Len(bs)] BY BatchFold
<1>2. \A i \in 0 .. Len(bs) : h[i] = IF i = 0 THEN g ELSE PutI2NPMsg(h[i - 1], bs[i])
  BY <1>1 DEF BatchAfter
<1>3. Len(bs) \in Nat OBVIOUS
<1> DEFINE Upto(n) == {bs[i] : i \in 1 .. n}
           S == {n \in Nat : n <= Len(bs) => World(h[n], e, N, G \cup Upto(n), A, once)}
<1>4. 0 \in S
  <2>1. h[0] = g BY <1>2, <1>3
  <2>2. G \cup Upto(0) = G OBVIOUS
  <2> HIDE DEF Upto
  <2> QED BY <2>1, <2>2
<1>5. ASSUME NEW n \in S PROVE n + 1 \in S
  <2>1. CASE n + 1 <= Len(bs)
    <3>1. n \in Nat /\ World(h[n], e, N, G \cup Upto(n), A, once) BY <1>3, <2>1
    <3>2. n + 1 \in 1 .. Len(bs) /\ n + 1 \in 0 .. Len(bs) BY <1>3, <2>1, <3>1
    <3>3. h[n + 1] = PutI2NPMsg(h[n], bs[n + 1]) BY <1>2, <3>1, <3>2
    <3>4. bs[n + 1] \in TunnelMessageBlock BY <3>2
    <3>5. \A c \in G \cup Upto(n) : c.msgID # bs[n + 1].msgID
      <4>1. ASSUME NEW i \in 1 .. n PROVE bs[i].msgID # bs[n + 1].msgID
        <5>1. i \in 1 .. Len(bs) /\ i # n + 1 BY <1>3, <2>1, <3>1
        <5> QED BY <3>2, <5>1
      <4>2. \A c \in G : c.msgID # bs[n + 1].msgID BY <3>2
      <4> QED BY <4>1, <4>2
    <3>6. (G \cup Upto(n)) \cup {bs[n + 1]} = G \cup Upto(n + 1)
      <4>1. 1 .. (n + 1) = (1 .. n) \cup {n + 1} BY <3>1
      <4> QED BY <4>1
    <3> HIDE DEF Upto
    <3>7. World(h[n + 1], e, N, G \cup Upto(n + 1), A, once)
      BY <3>1, <3>3, <3>4, <3>5, <3>6, PutWorld
    <3> QED BY <3>1, <3>7
  <2>2. CASE ~(n + 1 <= Len(bs)) BY <2>2
  <2> QED BY <2>1, <2>2
<1>6. Upto(Len(bs)) = Range(bs) BY DEF Range
<1> HIDE DEF S, Upto
<1>7. S = Nat BY <1>4, <1>5, Induction DEF S
<1>8. Len(bs) \in S /\ Len(bs) <= Len(bs) BY <1>3, <1>7
<1>9. World(h[Len(bs)], e, N, G \cup Upto(Len(bs)), A, once) BY <1>8 DEF S
<1> QED BY <1>1, <1>6, <1>9

LEMMA WireIs ==
  ASSUME NEW N, \A m \in N : m.frags \in Seq(Fragment), NEW f
  PROVE  f \in OnWire(N) <=> \E m \in N : \E j \in 1 .. Len(m.frags) : m.frags[j] = f
<1>1. \A m \in N : DOMAIN m.frags = 1 .. Len(m.frags) OBVIOUS
<1>2. \A m \in N : f \in Range(m.frags) <=> \E j \in 1 .. Len(m.frags) : m.frags[j] = f
  BY <1>1 DEF Range
<1> QED BY <1>2 DEF OnWire

\* The waiting messages go on their way.
Emptied(h) == [h EXCEPT !.m_TunnelDataMsgs = <<>>]
Numbered(msgs, s) == {[n |-> s + i, frags |-> msgs[i]] : i \in DOMAIN msgs}

LEMMA SendWorld ==
  ASSUME NEW g, NEW e, NEW N, NEW G, NEW A, NEW once, World(g, e, N, G, A, once), NEW s \in Nat
  PROVE  LET h == CompleteCurrentTunnelDataMessage(g)
         IN  /\ World(Emptied(h), e, N \cup Numbered(h.m_TunnelDataMsgs, s), G, A, once)
             /\ s + Len(h.m_TunnelDataMsgs) \in Nat
<1> DEFINE h == CompleteCurrentTunnelDataMessage(g)
           q == [h EXCEPT !.m_TunnelDataMsgs = <<>>]
           msgs == h.m_TunnelDataMsgs
           Msg(i) == [n |-> s + i, frags |-> msgs[i]]
           M == {Msg(i) : i \in DOMAIN msgs}
<1>1. GatewayOK(g) /\ Distinct(g) /\ NetOK(N) /\ Apart(g, N, A, once)
      /\ BlocksOK(G, Made(g, N, A)) /\ EndOK(e, A, G, Made(g, N, A), once)
  BY DEF World
<1>2. /\ GatewayOK(h) /\ InBuffer(h) = InBuffer(g) /\ Distinct(h) /\ ~h.open /\ h.current = <<>>
  BY <1>1, CompleteGains DEF Gains
<1> HIDE DEF h
<1>3. h \in GatewayBuffer /\ msgs \in Seq(Seq(Fragment)) /\ Len(msgs) \in Nat
      /\ DOMAIN msgs = 1 .. Len(msgs)
  BY <1>2 DEF GatewayOK, GatewayBuffer
<1>4. \A i \in 1 .. Len(msgs) : At(h, i) = msgs[i] BY DEF At
<1>4a. Count(h) = Len(msgs) + 1 /\ At(h, Len(msgs) + 1) = <<>> BY <1>2, <1>3 DEF Count, At
<1>5. GatewayOK(q) /\ q.m_TunnelDataMsgs = <<>> /\ q.current = <<>>
  <2>1. q \in GatewayBuffer /\ q.m_TunnelDataMsgs = <<>> /\ q.current = <<>> /\ ~q.open
    <3>1. <<>> \in Seq(Seq(Fragment)) /\ <<>> \in Seq(Fragment) BY EmptySeq
    <3> QED BY <1>2, <1>3, <3>1 DEF GatewayBuffer
  <2>2. Len(<<>>) = 0 BY EmptySeq
  <2> HIDE DEF q
  <2> QED BY <2>1, <2>2 DEF GatewayOK
<1> HIDE DEF q
<1>6. InBuffer(q) = {} /\ Distinct(q)
  <2>1. q \in GatewayBuffer BY <1>5 DEF GatewayOK
  <2>2. Len(<<>>) = 0 BY EmptySeq
  <2>3. \A i \in 1 .. Count(q) : Len(At(q, i)) = 0
    <3>1. Count(q) = 1 BY <1>5, <2>2 DEF Count
    <3>2. At(q, 1) = <<>> BY <1>5, <2>2 DEF At
    <3> QED BY <2>2, <3>1, <3>2
  <2>4. \A f : f \notin InBuffer(q) BY <2>1, <2>3, InBufferIs
  <2>5. Distinct(q) BY <2>3 DEF Distinct
  <2> QED BY <2>4, <2>5
<1>7. \A i \in 1 .. Len(msgs) : Msg(i).frags = msgs[i] /\ msgs[i] \in Seq(Fragment)
        /\ Used(msgs[i]) <= TUNNEL_DATA_MAX_PAYLOAD_SIZE
  BY <1>2, <1>3 DEF GatewayOK
<1>8. \A m \in M : \E i \in 1 .. Len(msgs) : m = Msg(i) BY <1>3
<1>8a. \A i \in 1 .. Len(msgs) : Msg(i) \in M BY <1>3
<1> HIDE DEF Msg, M, msgs
<1>9. \A m \in N \cup M : m.frags \in Seq(Fragment)
                          /\ Used(m.frags) <= TUNNEL_DATA_MAX_PAYLOAD_SIZE
  BY <1>1, <1>7, <1>8 DEF NetOK
<1>10. OnWire(N \cup M) = OnWire(N) \cup InBuffer(h)
  <2>1. ASSUME NEW f \in OnWire(M) PROVE f \in InBuffer(h)
    <3>0. PICK m \in M : \E j \in 1 .. Len(m.frags) : m.frags[j] = f BY <1>9, WireIs
    <3>1. PICK j \in 1 .. Len(m.frags) : m.frags[j] = f BY <3>0
    <3>2. PICK i \in 1 .. Len(msgs) : m = Msg(i) BY <1>8
    <3>3. i \in 1 .. Count(h) BY <1>3, <1>4a
    <3>4. At(h, i) = m.frags BY <1>4, <1>7, <3>2
    <3> QED BY <1>3, <3>1, <3>3, <3>4, InBufferIs
  <2>2. ASSUME NEW f \in InBuffer(h) PROVE f \in OnWire(M)
    <3>0. PICK i \in 1 .. Count(h) : \E j \in 1 .. Len(At(h, i)) : At(h, i)[j] = f
      BY <1>3, InBufferIs
    <3>1. PICK j \in 1 .. Len(At(h, i)) : At(h, i)[j] = f BY <3>0
    <3>2. i \in 1 .. Len(msgs)
      <4>1. Len(<<>>) = 0 BY EmptySeq
      <4>2. i # Len(msgs) + 1 BY <1>4a, <3>1, <4>1
      <4> QED BY <1>3, <1>4a, <4>2
    <3>3. At(h, i) = Msg(i).frags BY <1>4, <1>7, <3>2
    <3> QED BY <1>8a, <1>9, <3>1, <3>2, <3>3, WireIs
  <2>3. OnWire(N \cup M) = OnWire(N) \cup OnWire(M) BY DEF OnWire
  <2> QED BY <2>1, <2>2, <2>3
<1>11. NetOK(N \cup M)
  <2> SUFFICES ASSUME NEW m \in N \cup M, NEW k \in N \cup M,
                      NEW j \in 1 .. Len(m.frags), NEW l \in 1 .. Len(k.frags),
                      m.frags[j] = k.frags[l]
               PROVE  m = k /\ j = l
    BY <1>9 DEF NetOK
  <2>1. CASE m \in N /\ k \in N BY <1>1, <2>1 DEF NetOK
  <2>2. ASSUME NEW a \in N, NEW c \in M, NEW x \in 1 .. Len(a.frags), NEW y \in 1 .. Len(c.frags)
        PROVE  a.frags[x] # c.frags[y]
    <3>1. a.frags[x] \in OnWire(N) BY <1>9, WireIs
    <3>2. PICK i \in 1 .. Len(msgs) : c = Msg(i) BY <1>8
    <3>3. i \in 1 .. Count(h) /\ At(h, i) = c.frags BY <1>3, <1>4, <1>4a, <1>7, <3>2
    <3>4. c.frags[y] \in InBuffer(h) BY <1>3, <3>3, InBufferIs
    <3> QED BY <1>1, <1>2, <3>1, <3>4 DEF Apart
  <2>3. CASE m \in M /\ k \in M
    <3>1. PICK i \in 1 .. Len(msgs) : m = Msg(i) BY <1>8, <2>3
    <3>2. PICK a \in 1 .. Len(msgs) : k = Msg(a) BY <1>8, <2>3
    <3>3. i \in 1 .. Count(h) /\ At(h, i) = m.frags BY <1>3, <1>4, <1>4a, <1>7, <3>1
    <3>4. a \in 1 .. Count(h) /\ At(h, a) = k.frags BY <1>3, <1>4, <1>4a, <1>7, <3>2
    <3>5. i = a /\ j = l BY <1>2, <3>3, <3>4 DEF Distinct
    <3> QED BY <3>1, <3>2, <3>5
  <2> QED BY <2>1, <2>2, <2>3
<1>12. Made(q, N \cup M, A) = Made(g, N, A) BY <1>2, <1>6, <1>10 DEF Made
<1>13. Apart(q, N \cup M, A, once)
  <2>1. once => OnWire(N \cup M) \cap A = {} BY <1>1, <1>2, <1>10 DEF Apart
  <2> QED BY <1>6, <2>1 DEF Apart
<1>14. World(q, e, N \cup M, G, A, once) BY <1>1, <1>5, <1>6, <1>11, <1>12, <1>13 DEF World
<1> QED BY <1>3, <1>14 DEF q, M, Msg, msgs, h, Emptied, Numbered

-----------------------------------------------------------------------------
(***************************************************************************)
(* The endpoint.                                                           *)
(***************************************************************************)
LEMMA PartialIs ==
  ASSUME NEW T, NEW map
  PROVE  map \in Partial(T) <=>
           /\ DOMAIN map \subseteq Nat /\ map = [id \in DOMAIN map |-> map[id]]
           /\ \A id \in DOMAIN map : map[id] \in T
<1>1. ASSUME map \in Partial(T)
      PROVE  /\ DOMAIN map \subseteq Nat /\ map = [id \in DOMAIN map |-> map[id]]
             /\ \A id \in DOMAIN map : map[id] \in T
  <2>1. PICK D \in SUBSET Nat : map \in [D -> T] BY <1>1 DEF Partial
  <2> QED BY <2>1
<1>2. ASSUME DOMAIN map \subseteq Nat, map = [id \in DOMAIN map |-> map[id]],
             \A id \in DOMAIN map : map[id] \in T
      PROVE  map \in Partial(T)
  <2>1. map \in [DOMAIN map -> T] BY <1>2
  <2> QED BY <1>2, <2>1 DEF Partial
<1> QED BY <1>1, <1>2

\* map2 is map but for what it holds of id.
SameBut(map, map2, id) ==
  \A x : x # id => /\ x \in DOMAIN map2 <=> x \in DOMAIN map
                   /\ x \in DOMAIN map => map2[x] = map[x]

LEMMA InsertIs ==
  ASSUME NEW T, NEW map \in Partial(T), NEW id \in Nat, NEW v \in T
  PROVE  LET map2 == Insert(map, id, v)
         IN  map2 \in Partial(T) /\ id \in DOMAIN map2 /\ map2[id] = v /\ SameBut(map, map2, id)
<1> DEFINE map2 == Insert(map, id, v)
<1>1. DOMAIN map \subseteq Nat /\ \A x \in DOMAIN map : map[x] \in T BY PartialIs
<1>2. map2 = [x \in DOMAIN map \cup {id} |-> IF x = id THEN v ELSE map[x]] BY DEF Insert
<1>3. map2 \in [DOMAIN map \cup {id} -> T] BY <1>1, <1>2
<1>4. map2 \in Partial(T) BY <1>1, <1>3 DEF Partial
<1>5. id \in DOMAIN map2 /\ map2[id] = v BY <1>2
<1>6. SameBut(map, map2, id) BY <1>2 DEF SameBut
<1> QED BY <1>4, <1>5, <1>6

LEMMA WithoutIs ==
  ASSUME NEW T, NEW map \in Partial(T), NEW id
  PROVE  LET map2 == Without(map, id)
         IN  map2 \in Partial(T) /\ id \notin DOMAIN map2 /\ SameBut(map, map2, id)
<1> DEFINE map2 == Without(map, id)
<1>1. DOMAIN map \subseteq Nat /\ \A x \in DOMAIN map : map[x] \in T BY PartialIs
<1>2. map2 = [x \in DOMAIN map \ {id} |-> map[x]] BY DEF Without, Restrict
<1>3. map2 \in [DOMAIN map \ {id} -> T] BY <1>1, <1>2
<1>4. map2 \in Partial(T) BY <1>1, <1>3 DEF Partial
<1>5. id \notin DOMAIN map2 BY <1>2
<1>6. SameBut(map, map2, id) BY <1>2 DEF SameBut
<1> QED BY <1>4, <1>5, <1>6

LEMMA UpdateIs ==
  ASSUME NEW T, NEW map \in Partial(T), NEW id \in DOMAIN map, NEW v \in T
  PROVE  LET map2 == [map EXCEPT ![id] = v]
         IN  map2 \in Partial(T) /\ id \in DOMAIN map2 /\ map2[id] = v /\ SameBut(map, map2, id)
<1> DEFINE map2 == [map EXCEPT ![id] = v]
<1>1. /\ DOMAIN map \subseteq Nat /\ map = [x \in DOMAIN map |-> map[x]]
      /\ \A x \in DOMAIN map : map[x] \in T
  BY PartialIs
<1>2. map2 \in [DOMAIN map -> T] BY <1>1
<1>3. map2 \in Partial(T) BY <1>1, <1>2 DEF Partial
<1>4. id \in DOMAIN map2 /\ map2[id] = v BY <1>1
<1>5. SameBut(map, map2, id) BY <1>1 DEF SameBut
<1> QED BY <1>3, <1>4, <1>5

\* What is assembled grows by the next follow-on fragment, and is the block's
\* bytes in order once it has the last one.
LEMMA AppendAssembled ==
  ASSUME NEW b, NEW first, NEW k \in Nat, k > 0
  PROVE  Append(Assembled(b, first, k), Bytes(FollowOn(b, first, k))) = Assembled(b, first, k + 1)
<1> DEFINE V(i) == IF i = 1 THEN [off |-> 0, size |-> first] ELSE Bytes(FollowOn(b, first, i - 1))
           s == [i \in 1 .. k |-> V(i)]
           t == [i \in 1 .. k + 1 |-> V(i)]
           x == Bytes(FollowOn(b, first, k))
           T == {V(i) : i \in 1 .. k + 1}
<1>1. V(k + 1) = x
  <2>1. k + 1 # 1 /\ (k + 1) - 1 = k OBVIOUS
  <2> QED BY <2>1
<1>2. Assembled(b, first, k) = s /\ Assembled(b, first, k + 1) = t BY DEF Assembled
<1> HIDE DEF V, x
<1>3. s \in [1 .. k -> T]
  <2>1. \A i \in 1 .. k : i \in 1 .. k + 1 OBVIOUS
  <2> QED BY <2>1
<1>4. s \in Seq(T) /\ Len(s) = k
  <2> HIDE DEF s, T
  <2>1. Len(s) = k BY <1>3
  <2> QED BY <1>3, <2>1
<1>5. x \in T BY <1>1
<1>6. Append(s, x) = [i \in 1 .. k + 1 |-> IF i = k + 1 THEN x ELSE s[i]]
  <2> HIDE DEF s, T
  <2>1. Append(s, x) \in Seq(T) /\ Len(Append(s, x)) = k + 1
        /\ \A i \in 1 .. k + 1 : Append(s, x)[i] = IF i = k + 1 THEN x ELSE s[i]
    BY <1>4, <1>5
  <2>2. Append(s, x) = [i \in 1 .. k + 1 |-> Append(s, x)[i]]
    <3> DEFINE u == Append(s, x)
    <3>1. u \in Seq(T) /\ Len(u) = k + 1 BY <2>1
    <3> HIDE DEF u
    <3>2. u = [i \in 1 .. k + 1 |-> u[i]] BY <3>1
    <3> QED BY <3>2 DEF u
  <2> QED BY <2>1, <2>2
<1>7. \A i \in 1 .. k + 1 : (IF i = k + 1 THEN x ELSE s[i]) = V(i) BY <1>1
<1> DEFINE W(i) == IF i = k + 1 THEN x ELSE s[i]
<1>8. [i \in 1 .. k + 1 |-> W(i)] = t
  <2>1. \A i \in 1 .. k + 1 : W(i) = V(i) BY <1>7
  <2> HIDE DEF W, s
  <2> QED BY <2>1
<1>9. Append(s, x) = t BY <1>6, <1>8
<1> QED BY <1>2, <1>9 DEF x

LEMMA AssembledTiles ==
  ASSUME NEW b \in TunnelMessageBlock, NEW first \in Nat, NumFollowOn(b, first) > 0
  PROVE  Tiles(Assembled(b, first, NumFollowOn(b, first) + 1), b.len)
<1> DEFINE n == NumFollowOn(b, first)
           d == Assembled(b, first, n + 1)
           F(i) == FollowOn(b, first, i)
<1>1. n \in Nat /\ b.len \in Nat /\ FollowOnSize \in Nat BY NumTyped, BlockTyped, Sizes
<1>2. \A i \in 1 .. n : /\ F(i).off = first + (i - 1) * FollowOnSize
                        /\ i # n => F(i).size = FollowOnSize
                        /\ i = n => F(i).off + F(i).size = b.len
  BY FollowOnIs DEF FollowOnFits
<1>3. /\ d[1].off = 0 /\ d[1].size = first
      /\ \A i \in 1 .. n : d[i + 1].off = F(i).off /\ d[i + 1].size = F(i).size
  <2>1. d[1] = [off |-> 0, size |-> first]
    <3>1. 1 \in 1 .. n + 1 BY <1>1
    <3> QED BY <3>1 DEF Assembled
  <2>2. ASSUME NEW i \in 1 .. n PROVE d[i + 1] = Bytes(F(i))
    <3>1. i + 1 \in 1 .. n + 1 /\ i + 1 # 1 /\ (i + 1) - 1 = i BY <1>1
    <3> QED BY <3>1 DEF Assembled
  <2>3. \A i \in 1 .. n : Bytes(F(i)).off = F(i).off /\ Bytes(F(i)).size = F(i).size
    BY DEF Bytes
  <2>4. d[1].off = 0 /\ d[1].size = first
    <3> HIDE DEF d
    <3> QED BY <2>1
  <2> HIDE DEF d, F, n
  <2> QED BY <2>2, <2>3, <2>4
<1>4. Len(d) = n + 1
  <2>1. d = [i \in 1 .. n + 1 |-> d[i]] BY DEF Assembled
  <2> HIDE DEF d
  <2> QED BY <1>1, <2>1
<1> HIDE DEF d, F, n
<1>5. n > 0 BY DEF n
<1>6. ASSUME NEW i \in 1 .. n PROVE d[i + 1].off = d[i].off + d[i].size
  <2>1. CASE i = 1
    <3>1. F(1).off = first + (1 - 1) * FollowOnSize BY <1>2, <2>1
    <3>2. (1 - 1) * FollowOnSize = 0 BY <1>1
    <3> QED BY <1>3, <2>1, <3>1, <3>2
  <2>2. CASE i # 1
    <3>1. i - 1 \in 1 .. n /\ (i - 1) + 1 = i /\ i - 1 # n BY <1>1, <2>2
    <3>2. i - 1 \in Nat /\ (i - 1) - 1 \in Nat BY <1>1, <2>2
    <3>3. d[i].off = first + ((i - 1) - 1) * FollowOnSize /\ d[i].size = FollowOnSize
      <4>1. d[(i - 1) + 1].off = F(i - 1).off /\ d[(i - 1) + 1].size = F(i - 1).size BY <1>3, <3>1
      <4>2. F(i - 1).off = first + ((i - 1) - 1) * FollowOnSize /\ F(i - 1).size = FollowOnSize
        BY <1>2, <3>1
      <4> QED BY <3>1, <4>1, <4>2
    <3>4. d[i + 1].off = first + (i - 1) * FollowOnSize BY <1>2, <1>3
    <3>5. (((i - 1) - 1) + 1) * FollowOnSize = ((i - 1) - 1) * FollowOnSize + FollowOnSize
      BY <1>1, <3>2, Next1
    <3>6. ((i - 1) - 1) + 1 = i - 1 BY <3>2
    <3>7. (i - 1) * FollowOnSize = ((i - 1) - 1) * FollowOnSize + FollowOnSize BY <3>5, <3>6
    <3>8. ((i - 1) - 1) * FollowOnSize \in Nat BY <1>1, <3>2, Product
    <3> QED BY <1>1, <3>3, <3>4, <3>7, <3>8
  <2> QED BY <2>1, <2>2
<1>7. d[n + 1].off + d[n + 1].size = b.len
  <2>1. n \in 1 .. n BY <1>1, <1>5
  <2> QED BY <1>2, <1>3, <2>1
<1>8. \A i \in 1 .. Len(d) - 1 : d[i + 1].off = d[i].off + d[i].size BY <1>1, <1>4, <1>6
<1>9. Tiles(d, b.len) BY <1>3, <1>4, <1>7, <1>8 DEF Tiles
<1> QED BY <1>9 DEF d, n

\* The pieces by their numbers.
LEMMA PieceIs ==
  ASSUME NEW G, NEW O, BlocksOK(G, O), NEW b \in G, NEW f \in Pieces(O, b.msgID)
  PROVE  /\ f \in Fragment /\ f.msgID = b.msgID /\ f.type = b.type
         /\ f.num = 0 /\ f.last => Pieces(O, b.msgID) = {Whole(b)} /\ f = Whole(b)
         /\ f.num = 0 /\ ~f.last =>
              \E first \in Nat : Pieces(O, b.msgID) = Split(b, first) /\ f = FirstPiece(b, first)
         /\ f.num > 0 => \A first \in Nat : Pieces(O, b.msgID) = Split(b, first) =>
              f.num \in 1 .. NumFollowOn(b, first) /\ f = FollowOn(b, first, f.num)
<1> DEFINE P == Pieces(O, b.msgID)
<1>1. IsPieces(P, b) /\ b \in TunnelMessageBlock BY DEF BlocksOK
<1>2. CASE P = {Whole(b)}
  <2>1. f = Whole(b) BY <1>2
  <2>2. f.num = 0 /\ f.last = TRUE /\ f.msgID = b.msgID /\ f.type = b.type BY <2>1 DEF Whole
  <2>3. f \in Fragment BY <1>1, <2>1, WholeTyped
  <2> QED BY <1>2, <2>1, <2>2, <2>3
<1>3. ASSUME NEW first \in Nat, P = Split(b, first)
      PROVE  /\ f \in Fragment /\ f.msgID = b.msgID /\ f.type = b.type
             /\ \/ f.num = 0 /\ ~f.last /\ f = FirstPiece(b, first)
                \/ f.num \in 1 .. NumFollowOn(b, first) /\ f = FollowOn(b, first, f.num)
  <2>1. f = FirstPiece(b, first) \/ \E i \in 1 .. NumFollowOn(b, first) : f = FollowOn(b, first, i)
    BY <1>3 DEF Split
  <2>2. CASE f = FirstPiece(b, first)
    <3>1. f.num = 0 /\ f.last = FALSE /\ f.msgID = b.msgID /\ f.type = b.type BY <2>2 DEF FirstPiece
    <3> QED BY <1>1, <2>2, <3>1, HeadTyped
  <2>3. ASSUME NEW i \in 1 .. NumFollowOn(b, first), f = FollowOn(b, first, i)
        PROVE  f \in Fragment /\ f.msgID = b.msgID /\ f.type = b.type /\ f.num = i
    BY <1>1, <2>3, FollowOnIs DEF FollowOnFits
  <2> QED BY <2>1, <2>2, <2>3
<1>4. CASE f.num = 0 /\ f.last
  <2>1. P = {Whole(b)}
    <3> SUFFICES ASSUME NEW first \in Nat, P = Split(b, first) PROVE FALSE BY <1>1 DEF IsPieces
    <3>1. f.num \in 1 .. NumFollowOn(b, first) BY <1>3, <1>4
    <3>2. NumFollowOn(b, first) \in Nat BY <1>1, NumTyped
    <3> QED BY <1>4, <3>1, <3>2
  <2>2. f = Whole(b) BY <2>1
  <2> QED BY <1>2, <1>4, <2>1, <2>2
<1>5. CASE ~(f.num = 0 /\ f.last)
  <2>1. ASSUME P = {Whole(b)} PROVE FALSE
    <3>1. f = Whole(b) BY <2>1
    <3>2. f.num = 0 /\ f.last = TRUE BY <3>1 DEF Whole
    <3> QED BY <1>5, <3>2
  <2>2. PICK first \in Nat : P = Split(b, first) BY <1>1, <2>1 DEF IsPieces
  <2>3. NumFollowOn(b, first) \in Nat BY <1>1, NumTyped
  <2>4. f \in Fragment /\ f.msgID = b.msgID /\ f.type = b.type BY <1>3, <2>2
  <2>5. ASSUME f.num = 0, ~f.last PROVE f = FirstPiece(b, first)
    BY <1>3, <2>2, <2>3, <2>5
  <2>6. ASSUME f.num > 0, NEW i \in Nat, P = Split(b, i)
        PROVE  f.num \in 1 .. NumFollowOn(b, i) /\ f = FollowOn(b, i, f.num)
    BY <1>3, <2>6
  <2> QED BY <1>5, <2>2, <2>4, <2>5, <2>6
<1> QED BY <1>4, <1>5

\* The next fragment of an incomplete message.
LEMMA ExtendBeginning ==
  ASSUME NEW G, NEW O, BlocksOK(G, O), NEW b \in G, NEW m \in TunnelMessageBlockEx,
         Beginning(m, b, O), NEW f \in Pieces(O, b.msgID), f.num = m.nextFragmentNum
  PROVE  LET m1 == Concatenate(m, f)
             m2 == [m1 EXCEPT !.nextFragmentNum = @ + 1]
         IN  /\ m1.type = b.type /\ m1.data \in Seq([off: Nat, size: Nat])
             /\ f.last => Tiles(m1.data, b.len)
             /\ m1.len = m.len + f.size
             /\ m2 \in TunnelMessageBlockEx /\ Beginning(m2, b, O)
<1> DEFINE m1 == Concatenate(m, f)
           m2 == [m1 EXCEPT !.nextFragmentNum = @ + 1]
           k == m.nextFragmentNum
<1>1. PICK first \in Nat : Pieces(O, b.msgID) = Split(b, first) /\ m.data = Assembled(b, first, k)
  BY DEF Beginning
<1>2. k \in Nat /\ k > 0 /\ m.data \in Seq([off: Nat, size: Nat]) /\ m.len \in Nat
      /\ m.type \in TunnelDeliveryType /\ m.type = b.type
  BY DEF Beginning, TunnelMessageBlockEx
<1>3. f \in Fragment /\ f.num \in 1 .. NumFollowOn(b, first) /\ f = FollowOn(b, first, f.num)
  BY <1>1, <1>2, PieceIs
<1>4. b \in TunnelMessageBlock BY DEF BlocksOK
<1>5. f.size \in Nat /\ f.off \in Nat BY <1>3 DEF Fragment
<1>6. Bytes(f) \in [off: Nat, size: Nat] BY <1>5 DEF Bytes
<1> DEFINE s == Append(m.data, Bytes(f))
           l == m.len + f.size
<1>7. s = Assembled(b, first, k + 1)
  <2>1. f = FollowOn(b, first, k) BY <1>3
  <2> QED BY <1>1, <1>2, <2>1, AppendAssembled
<1>8. s \in Seq([off: Nat, size: Nat]) /\ l \in Nat BY <1>2, <1>5, <1>6
<1>9. m1 = [m EXCEPT !.data = s, !.len = l] BY DEF Concatenate
<1> HIDE DEF s, l, m1
<1>10. /\ m1 \in TunnelMessageBlockEx /\ m1.type = m.type /\ m1.data = s /\ m1.len = l
       /\ m1.nextFragmentNum = k
  BY <1>2, <1>8, <1>9 DEF TunnelMessageBlockEx
<1>11. m2 \in TunnelMessageBlockEx /\ m2.type = m.type /\ m2.data = s /\ m2.nextFragmentNum = k + 1
  <2> DEFINE n == k + 1
  <2>1. n \in Nat /\ m2 = [m1 EXCEPT !.nextFragmentNum = n] BY <1>2, <1>10
  <2> HIDE DEF n, m2
  <2>2. m2 \in TunnelMessageBlockEx /\ m2.type = m1.type /\ m2.data = m1.data
        /\ m2.nextFragmentNum = n
    BY <1>10, <2>1 DEF TunnelMessageBlockEx
  <2> QED BY <1>10, <2>2 DEF n
<1> HIDE DEF m2
<1>12. ASSUME f.last PROVE Tiles(s, b.len)
  <2>1. f.num = NumFollowOn(b, first)
    <3>1. FollowOnFits(b, first, f.num) BY <1>3, <1>4, FollowOnIs
    <3> QED BY <1>3, <1>12, <3>1 DEF FollowOnFits
  <2>2. NumFollowOn(b, first) > 0 /\ k = NumFollowOn(b, first) BY <1>2, <2>1
  <2> QED BY <1>4, <1>7, <2>2, AssembledTiles
<1>13. Beginning(m2, b, O)
  <2>1. m2.nextFragmentNum > 0 /\ m2.nextFragmentNum # 1 BY <1>2, <1>11
  <2>2. m2.data = Assembled(b, first, m2.nextFragmentNum) BY <1>7, <1>11
  <2> QED BY <1>1, <1>2, <1>11, <2>1, <2>2 DEF Beginning
<1>14. m1.type = b.type BY <1>2, <1>10
<1> QED BY <1>8, <1>10, <1>11, <1>12, <1>13, <1>14 DEF m1, m2, l

\* One of the maps changes at id.
LEMMA ChangeIncomplete ==
  ASSUME NEW e, NEW A, NEW G, NEW O, EndSafe(e, A, G, O), NEW id,
         NEW map \in Partial(TunnelMessageBlockEx), SameBut(e.m_IncompleteMessages, map, id),
         id \in DOMAIN map => Incomplete(map[id], id, G, O)
  PROVE  LET r == [e EXCEPT !.m_IncompleteMessages = map]
         IN  /\ EndSafe(r, A, G, O) /\ r.m_IncompleteMessages = map
             /\ r.m_OutOfSequenceFragments = e.m_OutOfSequenceFragments
             /\ r.handed = e.handed
<1> DEFINE r == [e EXCEPT !.m_IncompleteMessages = map]
<1>1. /\ r \in Endpoint /\ r.m_IncompleteMessages = map
      /\ r.m_OutOfSequenceFragments = e.m_OutOfSequenceFragments
      /\ r.handed = e.handed /\ r.m_IsInbound = e.m_IsInbound
  BY DEF EndSafe, Endpoint
<1> HIDE DEF r
<1>2. \A x \in DOMAIN map : Incomplete(map[x], x, G, O)
  <2> TAKE x \in DOMAIN map
  <2>1. CASE x = id BY <2>1
  <2>2. CASE x # id
    <3>1. x \in DOMAIN e.m_IncompleteMessages /\ map[x] = e.m_IncompleteMessages[x]
      BY <2>2 DEF SameBut
    <3> QED BY <3>1 DEF EndSafe
  <2> QED BY <2>1, <2>2
<1>3. EndSafe(r, A, G, O) BY <1>1, <1>2 DEF EndSafe
<1> QED BY <1>1, <1>3 DEF r

LEMMA ChangeSaved ==
  ASSUME NEW e, NEW A, NEW G, NEW O, EndSafe(e, A, G, O), NEW id,
         NEW map \in Partial(Fragment), SameBut(e.m_OutOfSequenceFragments, map, id),
         id \in DOMAIN map => Saved(map[id], id, A)
  PROVE  LET r == [e EXCEPT !.m_OutOfSequenceFragments = map]
         IN  /\ EndSafe(r, A, G, O) /\ r.m_OutOfSequenceFragments = map
             /\ r.m_IncompleteMessages = e.m_IncompleteMessages
             /\ r.handed = e.handed
<1> DEFINE r == [e EXCEPT !.m_OutOfSequenceFragments = map]
<1>1. /\ r \in Endpoint /\ r.m_OutOfSequenceFragments = map
      /\ r.m_IncompleteMessages = e.m_IncompleteMessages
      /\ r.handed = e.handed /\ r.m_IsInbound = e.m_IsInbound
  BY DEF EndSafe, Endpoint
<1> HIDE DEF r
<1>2. \A x \in DOMAIN map : Saved(map[x], x, A)
  <2> TAKE x \in DOMAIN map
  <2>1. CASE x = id BY <2>1
  <2>2. CASE x # id
    <3>1. x \in DOMAIN e.m_OutOfSequenceFragments /\ map[x] = e.m_OutOfSequenceFragments[x]
      BY <2>2 DEF SameBut
    <3> QED BY <3>1 DEF EndSafe
  <2> QED BY <2>1, <2>2
<1>3. EndSafe(r, A, G, O) BY <1>1, <1>2 DEF EndSafe
<1> QED BY <1>1, <1>3 DEF r

\* e2 handed on one message more than e, of block b.
Delivered(e, e2, id) ==
  \E h \in HandedMessage : h.msgID = id /\ e2.handed = Append(e.handed, h)

LEMMA Deliver ==
  ASSUME NEW e, NEW A, NEW G, NEW O, EndSafe(e, A, G, O), BlocksOK(G, O), NEW b \in G,
         NEW data \in Seq([off: Nat, size: Nat]), Tiles(data, b.len)
  PROVE  LET r == HandleNextMessage(e, b.msgID, b.type, data)
         IN  /\ EndSafe(r, A, G, O) /\ Delivered(e, r, b.msgID)
             /\ r.m_IncompleteMessages = e.m_IncompleteMessages
             /\ r.m_OutOfSequenceFragments = e.m_OutOfSequenceFragments
<1> DEFINE h == [msgID |-> b.msgID, type |-> b.type, data |-> data]
           s == Append(e.handed, h)
           r == [e EXCEPT !.handed = s]
<1>1. b \in TunnelMessageBlock /\ e \in Endpoint /\ e.handed \in Seq(HandedMessage)
  BY DEF BlocksOK, EndSafe, Endpoint
<1>2. HandleNextMessage(e, b.msgID, b.type, data) = r
  <2>1. ~(b.type = "Router" /\ e.m_IsInbound) BY DEF EndSafe
  <2> QED BY <2>1 DEF HandleNextMessage
<1>3. h \in HandedMessage /\ h.msgID = b.msgID /\ h.type = b.type /\ h.data = data
  BY <1>1, BlockTyped DEF HandedMessage
<1> HIDE DEF h
<1>4. Intact(h, G) BY <1>3 DEF Intact
<1>5. /\ s \in Seq(HandedMessage) /\ Len(s) = Len(e.handed) + 1 /\ Len(e.handed) \in Nat
      /\ \A i \in 1 .. Len(e.handed) : s[i] = e.handed[i]
      /\ s[Len(e.handed) + 1] = h
  BY <1>1, <1>3
<1>6. s = Append(e.handed, h) OBVIOUS
<1> HIDE DEF s
<1>7. /\ r \in Endpoint /\ r.handed = s /\ r.m_IsInbound = e.m_IsInbound
      /\ r.m_IncompleteMessages = e.m_IncompleteMessages
      /\ r.m_OutOfSequenceFragments = e.m_OutOfSequenceFragments
  BY <1>1, <1>5 DEF Endpoint
<1> HIDE DEF r
<1>8. \A i \in 1 .. Len(s) : Intact(s[i], G)
  <2> TAKE i \in 1 .. Len(s)
  <2>1. CASE i = Len(e.handed) + 1 BY <2>1, <1>4, <1>5
  <2>2. CASE i # Len(e.handed) + 1
    <3>1. i \in 1 .. Len(e.handed) BY <2>2, <1>5
    <3> QED BY <3>1, <1>5 DEF EndSafe
  <2> QED BY <2>1, <2>2
<1>9. EndSafe(r, A, G, O) BY <1>7, <1>8 DEF EndSafe
<1>10. Delivered(e, r, b.msgID) BY <1>3, <1>6, <1>7 DEF Delivered
<1> QED BY <1>2, <1>7, <1>9, <1>10

\* From e to e2 only what belongs to id changes.
Elsewhere(e, e2, id) ==
  /\ SameBut(e.m_IncompleteMessages, e2.m_IncompleteMessages, id)
  /\ SameBut(e.m_OutOfSequenceFragments, e2.m_OutOfSequenceFragments, id)
  /\ e2.handed = e.handed \/ Delivered(e, e2, id)

LEMMA SameIsSameBut == \A map, id : SameBut(map, map, id)
BY DEF SameBut

LEMMA SameButTransitive ==
  ASSUME NEW m1, NEW m2, NEW m3, NEW id, SameBut(m1, m2, id), SameBut(m2, m3, id)
  PROVE  SameBut(m1, m3, id)
BY DEF SameBut

\* What a handler leaves: it is safe, and nothing changed but at id.
Step(e, r, A, G, O, id) == EndSafe(r, A, G, O) /\ Elsewhere(e, r, id)

\* The saved fragment joins the incomplete message.
LEMMA OutOfSequenceStep ==
  ASSUME NEW e, NEW A, NEW G, NEW O, EndSafe(e, A, G, O), BlocksOK(G, O), A \subseteq O,
         NEW id \in DOMAIN e.m_IncompleteMessages
  PROVE  LET r == HandleOutOfSequenceFragment(e, id)
         IN  /\ Step(e, r, A, G, O, id)
             /\ id \notin DOMAIN e.m_OutOfSequenceFragments => r = e
             /\ (/\ id \in DOMAIN e.m_OutOfSequenceFragments
                 /\ e.m_OutOfSequenceFragments[id].num = e.m_IncompleteMessages[id].nextFragmentNum
                 /\ e.m_OutOfSequenceFragments[id].last) => Delivered(e, r, id)
<1> DEFINE I == e.m_IncompleteMessages
           S == e.m_OutOfSequenceFragments
           m == I[id]
           saved == S[id]
           m1 == Concatenate(m, saved)
           m2 == [m1 EXCEPT !.nextFragmentNum = @ + 1]
           rest == [e EXCEPT !.m_OutOfSequenceFragments = Without(@, id)]
           out == HandleNextMessage(rest, id, m1.type, m1.data)
           r1 == [out EXCEPT !.m_IncompleteMessages = Without(@, id)]
           r2 == [rest EXCEPT !.m_IncompleteMessages[id] = m2]
           r == HandleOutOfSequenceFragment(e, id)
<1>1. r = IF id \notin DOMAIN S THEN e ELSE IF saved.num # m.nextFragmentNum THEN e
          ELSE IF saved.last THEN r1 ELSE r2
  BY DEF HandleOutOfSequenceFragment
<1>2. e \in Endpoint /\ I \in Partial(TunnelMessageBlockEx) /\ S \in Partial(Fragment)
  BY DEF EndSafe, Endpoint
<1>3. Step(e, e, A, G, O, id) BY SameIsSameBut DEF Step, Elsewhere
<1>4. CASE id \notin DOMAIN S \/ saved.num # m.nextFragmentNum
  <2>1. HandleOutOfSequenceFragment(e, id) = e BY <1>1, <1>4
  <2> QED BY <1>3, <1>4, <2>1
<1>5. CASE id \in DOMAIN S /\ saved.num = m.nextFragmentNum
  <2>1. m \in TunnelMessageBlockEx /\ id \in Nat BY <1>2, PartialIs
  <2>2. PICK b \in G : b.msgID = id /\ Beginning(m, b, O) BY DEF EndSafe, Incomplete
  <2>3. saved \in Pieces(O, b.msgID)
    <3>1. Saved(saved, id, A) BY <1>5 DEF EndSafe
    <3> QED BY <2>2, <3>1 DEF Saved, Pieces
  <2>4. /\ m1.type = b.type /\ m1.data \in Seq([off: Nat, size: Nat])
        /\ saved.last => Tiles(m1.data, b.len)
        /\ m2 \in TunnelMessageBlockEx /\ Beginning(m2, b, O)
    <3> HIDE DEF m, saved
    <3> QED BY <1>5, <2>1, <2>2, <2>3, ExtendBeginning
  <2> HIDE DEF m1, m2
  <2>5. /\ EndSafe(rest, A, G, O) /\ rest.m_IncompleteMessages = I /\ rest.handed = e.handed
        /\ SameBut(S, rest.m_OutOfSequenceFragments, id)
    <3> DEFINE map == Without(S, id)
    <3>1. map \in Partial(Fragment) /\ id \notin DOMAIN map /\ SameBut(S, map, id)
      BY <1>2, WithoutIs
    <3>2. rest = [e EXCEPT !.m_OutOfSequenceFragments = map] OBVIOUS
    <3> HIDE DEF map, rest
    <3> QED BY <3>1, <3>2, ChangeSaved
  <2> HIDE DEF rest
  <2>6. CASE saved.last
    <3>1. /\ EndSafe(out, A, G, O) /\ Delivered(rest, out, id)
          /\ out.m_IncompleteMessages = I
          /\ out.m_OutOfSequenceFragments = rest.m_OutOfSequenceFragments
      <4>1. out = HandleNextMessage(rest, b.msgID, b.type, m1.data) BY <2>2, <2>4
      <4> HIDE DEF out
      <4> QED BY <2>2, <2>4, <2>5, <2>6, <4>1, Deliver
    <3> HIDE DEF out
    <3>2. /\ EndSafe(r1, A, G, O) /\ SameBut(I, r1.m_IncompleteMessages, id)
          /\ r1.m_OutOfSequenceFragments = out.m_OutOfSequenceFragments
          /\ r1.handed = out.handed
      <4> DEFINE map == Without(I, id)
      <4>1. map \in Partial(TunnelMessageBlockEx) /\ id \notin DOMAIN map /\ SameBut(I, map, id)
        BY <1>2, WithoutIs
      <4>2. r1 = [out EXCEPT !.m_IncompleteMessages = map] BY <3>1
      <4>3. SameBut(out.m_IncompleteMessages, map, id) BY <3>1, <4>1
      <4> HIDE DEF map, r1
      <4>4. /\ EndSafe(r1, A, G, O) /\ r1.m_IncompleteMessages = map
            /\ r1.m_OutOfSequenceFragments = out.m_OutOfSequenceFragments
            /\ r1.handed = out.handed
        <5>1. EndSafe(out, A, G, O) BY <3>1
        <5>2. map \in Partial(TunnelMessageBlockEx) BY <4>1
        <5>3. id \in DOMAIN map => Incomplete(map[id], id, G, O) BY <4>1
        <5> QED BY <4>2, <4>3, <5>1, <5>2, <5>3, ChangeIncomplete
      <4> QED BY <4>1, <4>4
    <3> HIDE DEF r1
    <3>3. Delivered(e, r1, id) BY <2>5, <3>1, <3>2 DEF Delivered
    <3>4. Step(e, r1, A, G, O, id) BY <2>5, <3>1, <3>2, <3>3 DEF Step, Elsewhere
    <3> QED BY <1>1, <1>5, <2>6, <3>3, <3>4
  <2>7. CASE ~saved.last
    <3>1. /\ EndSafe(r2, A, G, O) /\ SameBut(I, r2.m_IncompleteMessages, id)
          /\ r2.m_OutOfSequenceFragments = rest.m_OutOfSequenceFragments
          /\ r2.handed = rest.handed
      <4> DEFINE map == [I EXCEPT ![id] = m2]
      <4>1. map \in Partial(TunnelMessageBlockEx) /\ map[id] = m2 /\ SameBut(I, map, id)
        BY <1>2, <2>4, UpdateIs
      <4>2. r2 = [rest EXCEPT !.m_IncompleteMessages = map] BY <2>5
      <4>3. Incomplete(map[id], id, G, O) BY <2>2, <2>4, <4>1 DEF Incomplete
      <4> HIDE DEF map, r2
      <4> QED BY <2>5, <4>1, <4>2, <4>3, ChangeIncomplete
    <3> HIDE DEF r2
    <3>2. Step(e, r2, A, G, O, id) BY <2>5, <3>1 DEF Step, Elsewhere
    <3> QED BY <1>1, <1>5, <2>7, <3>2
  <2> QED BY <2>6, <2>7
<1> QED BY <1>4, <1>5

LEMMA Widen ==
  ASSUME NEW e, NEW A, NEW B, NEW G, NEW O, EndSafe(e, A, G, O), A \subseteq B
  PROVE  EndSafe(e, B, G, O)
<1>1. \A f, id : Saved(f, id, A) => Saved(f, id, B) BY DEF Saved
<1> QED BY <1>1 DEF EndSafe

LEMMA StepThenStep ==
  ASSUME NEW e, NEW r1, NEW r2, NEW A, NEW G, NEW O, NEW id,
         Step(e, r1, A, G, O, id), r1.handed = e.handed, Step(r1, r2, A, G, O, id)
  PROVE  Step(e, r2, A, G, O, id)
<1>1. SameBut(e.m_IncompleteMessages, r2.m_IncompleteMessages, id)
  BY SameButTransitive DEF Step, Elsewhere
<1>2. SameBut(e.m_OutOfSequenceFragments, r2.m_OutOfSequenceFragments, id)
  BY SameButTransitive DEF Step, Elsewhere
<1>3. r2.handed = e.handed \/ Delivered(e, r2, id) BY DEF Step, Elsewhere, Delivered
<1> QED BY <1>1, <1>2, <1>3 DEF Step, Elsewhere

\* A first fragment opens its message, and takes a saved follow-on fragment
\* number 1 with it.
LEMMA FirstStep ==
  ASSUME NEW e, NEW A, NEW G, NEW O, EndSafe(e, A, G, O), BlocksOK(G, O), A \subseteq O,
         NEW f \in A, f.num = 0, ~f.last
  PROVE  LET r == HandleFirstFragment(e, f)
         IN  /\ Step(e, r, A, G, O, f.msgID)
             /\ (/\ f.msgID \notin DOMAIN e.m_IncompleteMessages
                 /\ f.msgID \notin DOMAIN e.m_OutOfSequenceFragments) =>
                  /\ r.handed = e.handed /\ f.msgID \in DOMAIN r.m_IncompleteMessages
                  /\ r.m_IncompleteMessages[f.msgID].nextFragmentNum = 1
                  /\ r.m_OutOfSequenceFragments = e.m_OutOfSequenceFragments
             /\ (/\ f.msgID \notin DOMAIN e.m_IncompleteMessages
                 /\ f.msgID \in DOMAIN e.m_OutOfSequenceFragments
                 /\ e.m_OutOfSequenceFragments[f.msgID].num = 1
                 /\ e.m_OutOfSequenceFragments[f.msgID].last) => Delivered(e, r, f.msgID)
<1> DEFINE id == f.msgID
           I == e.m_IncompleteMessages
           S == e.m_OutOfSequenceFragments
           m == [nextFragmentNum |-> 1, data |-> <<Bytes(f)>>, len |-> TunnelDataEnd, type |-> f.type]
           map == Insert(I, id, m)
           e1 == [e EXCEPT !.m_IncompleteMessages = map]
           r == HandleFirstFragment(e, f)
<1>1. r = IF id \in DOMAIN I THEN e ELSE HandleOutOfSequenceFragment(e1, id)
  BY DEF HandleFirstFragment
<1>2. CASE id \in DOMAIN I
  <2>1. HandleFirstFragment(e, f) = e BY <1>1, <1>2
  <2>2. Step(e, e, A, G, O, id) BY SameIsSameBut DEF Step, Elsewhere
  <2> QED BY <1>2, <2>1, <2>2
<1>3. CASE id \notin DOMAIN I
  <2>1. PICK b \in G : f.msgID = b.msgID BY DEF BlocksOK
  <2>2. f \in Pieces(O, b.msgID) /\ b \in TunnelMessageBlock BY <2>1 DEF Pieces, BlocksOK
  <2>3. f \in Fragment /\ f.type = b.type
        /\ \E first \in Nat : Pieces(O, b.msgID) = Split(b, first) /\ f = FirstPiece(b, first)
    BY <2>1, <2>2, PieceIs
  <2>4. PICK first \in Nat : Pieces(O, b.msgID) = Split(b, first) /\ f = FirstPiece(b, first) BY <2>3
  <2>5. id \in Nat /\ f.off = 0 /\ f.size = first /\ b.type \in TunnelDeliveryType
    <3>1. f.off = 0 /\ f.size = first BY <2>4 DEF FirstPiece
    <3>2. b.msgID \in Nat /\ b.type \in TunnelDeliveryType BY <2>2, BlockTyped
    <3> QED BY <2>1, <3>1, <3>2
  <2>6. Bytes(f) = [off |-> 0, size |-> first] BY <2>5 DEF Bytes
  <2>7. /\ m \in TunnelMessageBlockEx /\ m.type = b.type /\ m.nextFragmentNum = 1
        /\ m.len = TunnelDataEnd /\ m.data = <<[off |-> 0, size |-> first]>>
    <3> DEFINE d == <<[off |-> 0, size |-> first]>>
    <3>1. d \in Seq([off: Nat, size: Nat]) OBVIOUS
    <3>2. m = [nextFragmentNum |-> 1, data |-> d, len |-> TunnelDataEnd, type |-> b.type]
      BY <2>3, <2>6
    <3>3. TunnelDataEnd \in Nat BY DEF TunnelDataEnd
    <3> HIDE DEF m, d
    <3>4. m \in TunnelMessageBlockEx /\ m.type = b.type /\ m.nextFragmentNum = 1
          /\ m.len = TunnelDataEnd /\ m.data = d
      BY <2>5, <3>1, <3>2, <3>3 DEF TunnelMessageBlockEx
    <3> QED BY <3>4 DEF d
  <2> HIDE DEF m
  <2>8. Assembled(b, first, 1) = <<[off |-> 0, size |-> first]>>
    <3> DEFINE x == [off |-> 0, size |-> first]
               V(i) == IF i = 1 THEN x ELSE Bytes(FollowOn(b, first, i - 1))
    <3>1. V(1) = x OBVIOUS
    <3> HIDE DEF V, x
    <3>2. [i \in 1 .. 1 |-> V(i)] = <<x>> BY <3>1
    <3> QED BY <3>2 DEF Assembled, V, x
  <2>9. Incomplete(m, id, G, O)
    <3>1. m.data = Assembled(b, first, m.nextFragmentNum) BY <2>7, <2>8
    <3>2. m.nextFragmentNum > 0 BY <2>7
    <3>3. Beginning(m, b, O) BY <2>4, <2>7, <3>1, <3>2 DEF Beginning
    <3> QED BY <2>1, <3>3 DEF Incomplete
  <2>10. I \in Partial(TunnelMessageBlockEx) BY DEF EndSafe, Endpoint
  <2>11. map \in Partial(TunnelMessageBlockEx) /\ id \in DOMAIN map /\ map[id] = m
         /\ SameBut(I, map, id)
    BY <2>5, <2>7, <2>10, InsertIs
  <2> HIDE DEF map
  <2>12. /\ EndSafe(e1, A, G, O) /\ e1.m_IncompleteMessages = map
         /\ e1.m_OutOfSequenceFragments = S /\ e1.handed = e.handed
    <3>1. Incomplete(map[id], id, G, O) BY <2>9, <2>11
    <3>2. map \in Partial(TunnelMessageBlockEx) /\ SameBut(I, map, id) BY <2>11
    <3> QED BY <3>1, <3>2, ChangeIncomplete
  <2> HIDE DEF e1
  <2>13. Step(e, e1, A, G, O, id) BY <2>11, <2>12, SameIsSameBut DEF Step, Elsewhere
  <2> DEFINE r2 == HandleOutOfSequenceFragment(e1, id)
  <2>14. /\ Step(e1, r2, A, G, O, id)
         /\ id \notin DOMAIN S => r2 = e1
         /\ (id \in DOMAIN S /\ S[id].num = 1 /\ S[id].last) => Delivered(e1, r2, id)
    <3>1. id \in DOMAIN e1.m_IncompleteMessages
          /\ e1.m_IncompleteMessages[id].nextFragmentNum = 1
      BY <2>7, <2>11, <2>12
    <3>2. /\ Step(e1, r2, A, G, O, id)
          /\ id \notin DOMAIN e1.m_OutOfSequenceFragments => r2 = e1
          /\ (/\ id \in DOMAIN e1.m_OutOfSequenceFragments
              /\ e1.m_OutOfSequenceFragments[id].num = e1.m_IncompleteMessages[id].nextFragmentNum
              /\ e1.m_OutOfSequenceFragments[id].last) => Delivered(e1, r2, id)
      BY <2>12, <3>1, OutOfSequenceStep
    <3> HIDE DEF r2
    <3> QED BY <2>12, <3>1, <3>2
  <2>15. HandleFirstFragment(e, f) = r2 BY <1>1, <1>3
  <2> HIDE DEF r2
  <2>16. Step(e, r2, A, G, O, id) BY <2>12, <2>13, <2>14, StepThenStep
  <2>17. ASSUME id \notin DOMAIN S
         PROVE  /\ r2.handed = e.handed /\ id \in DOMAIN r2.m_IncompleteMessages
                /\ r2.m_IncompleteMessages[id].nextFragmentNum = 1
                /\ r2.m_OutOfSequenceFragments = S
    BY <2>7, <2>11, <2>12, <2>14, <2>17
  <2>18. ASSUME id \in DOMAIN S, S[id].num = 1, S[id].last PROVE Delivered(e, r2, id)
    BY <2>12, <2>14, <2>18 DEF Delivered
  <2> QED BY <2>15, <2>16, <2>17, <2>18
<1> QED BY <1>2, <1>3

\* A follow-on fragment is saved, dropped with its message, the last one, or
\* one more.
LEMMA FollowOnStep ==
  ASSUME NEW e, NEW A, NEW G, NEW O, EndSafe(e, A, G, O), BlocksOK(G, O), A \subseteq O,
         NEW f \in A, f.num > 0
  PROVE  LET r == HandleFollowOnFragment(e, f)
         IN  /\ Step(e, r, A, G, O, f.msgID)
             /\ (/\ f.msgID \notin DOMAIN e.m_IncompleteMessages
                 /\ f.msgID \notin DOMAIN e.m_OutOfSequenceFragments) =>
                  /\ r.handed = e.handed
                  /\ r.m_IncompleteMessages = e.m_IncompleteMessages
                  /\ f.msgID \in DOMAIN r.m_OutOfSequenceFragments
             /\ (/\ f.msgID \in DOMAIN e.m_IncompleteMessages
                 /\ f.num = e.m_IncompleteMessages[f.msgID].nextFragmentNum
                 /\ ~(e.m_IncompleteMessages[f.msgID].len + f.size >= I2NP_MAX_MESSAGE_SIZE)
                 /\ f.last) => Delivered(e, r, f.msgID)
<1> DEFINE id == f.msgID
           I == e.m_IncompleteMessages
           S == e.m_OutOfSequenceFragments
           m == I[id]
           m1 == Concatenate(m, f)
           m2 == [m1 EXCEPT !.nextFragmentNum = @ + 1]
           saved == AddOutOfSequenceFragment(e, f)
           dropped == [e EXCEPT !.m_IncompleteMessages = Without(@, id)]
           out == HandleNextMessage(e, id, m1.type, m1.data)
           last == [out EXCEPT !.m_IncompleteMessages = Without(@, id)]
           more == [e EXCEPT !.m_IncompleteMessages[id] = m2]
           next == HandleOutOfSequenceFragment(more, id)
<1>1. HandleFollowOnFragment(e, f) =
        IF id \notin DOMAIN I \/ f.num # m.nextFragmentNum THEN saved
        ELSE IF m1.len >= I2NP_MAX_MESSAGE_SIZE THEN dropped
        ELSE IF f.last THEN last ELSE next
  BY DEF HandleFollowOnFragment
<1>2. e \in Endpoint /\ I \in Partial(TunnelMessageBlockEx) /\ S \in Partial(Fragment)
  BY DEF EndSafe, Endpoint
<1>3. PICK b \in G : id = b.msgID BY DEF BlocksOK
<1>4. f \in Pieces(O, b.msgID) /\ b \in TunnelMessageBlock BY <1>3 DEF Pieces, BlocksOK
<1>5. f \in Fragment /\ f.msgID = b.msgID BY <1>4, PieceIs
<1>6. id \in Nat BY <1>3, <1>4, BlockTyped
<1>7. CASE id \notin DOMAIN I \/ f.num # m.nextFragmentNum
  <2>1. HandleFollowOnFragment(e, f) = saved BY <1>1, <1>7
  <2>2. CASE id \in DOMAIN S
    <3>1. saved = e BY <2>2 DEF AddOutOfSequenceFragment
    <3>2. Step(e, e, A, G, O, id) BY SameIsSameBut DEF Step, Elsewhere
    <3> QED BY <1>7, <2>1, <2>2, <3>1, <3>2
  <2>3. CASE id \notin DOMAIN S
    <3> DEFINE map == Insert(S, id, f)
    <3>1. saved = [e EXCEPT !.m_OutOfSequenceFragments = map]
      BY <2>3 DEF AddOutOfSequenceFragment
    <3>2. map \in Partial(Fragment) /\ id \in DOMAIN map /\ map[id] = f /\ SameBut(S, map, id)
      BY <1>2, <1>5, <1>6, InsertIs
    <3> HIDE DEF map, saved
    <3>3. Saved(map[id], id, A) BY <3>2 DEF Saved
    <3>4. /\ EndSafe(saved, A, G, O) /\ saved.m_OutOfSequenceFragments = map
          /\ saved.m_IncompleteMessages = I /\ saved.handed = e.handed
      BY <3>1, <3>2, <3>3, ChangeSaved
    <3>5. Step(e, saved, A, G, O, id) BY <3>2, <3>4, SameIsSameBut DEF Step, Elsewhere
    <3> QED BY <1>7, <2>1, <3>2, <3>4, <3>5
  <2> QED BY <2>2, <2>3
<1>8. CASE id \in DOMAIN I /\ f.num = m.nextFragmentNum
  <2>1. m \in TunnelMessageBlockEx BY <1>2, <1>8, PartialIs
  <2>2. Beginning(m, b, O)
    <3>1. Incomplete(m, id, G, O) BY <1>8 DEF EndSafe
    <3> HIDE DEF m
    <3> QED BY <1>3, <3>1 DEF Incomplete, BlocksOK
  <2>3. /\ m1.type = b.type /\ m1.data \in Seq([off: Nat, size: Nat])
        /\ f.last => Tiles(m1.data, b.len)
        /\ m1.len = m.len + f.size
        /\ m2 \in TunnelMessageBlockEx /\ Beginning(m2, b, O)
    <3> HIDE DEF m
    <3> QED BY <1>4, <1>8, <2>1, <2>2, ExtendBeginning
  <2> HIDE DEF m1, m2
  <2>4. CASE m1.len >= I2NP_MAX_MESSAGE_SIZE
    <3>1. HandleFollowOnFragment(e, f) = dropped BY <1>1, <1>8, <2>4
    <3> DEFINE map == Without(I, id)
    <3>2. map \in Partial(TunnelMessageBlockEx) /\ id \notin DOMAIN map /\ SameBut(I, map, id)
      BY <1>2, WithoutIs
    <3>3. dropped = [e EXCEPT !.m_IncompleteMessages = map] OBVIOUS
    <3> HIDE DEF map, dropped
    <3>4. /\ EndSafe(dropped, A, G, O) /\ dropped.m_IncompleteMessages = map
          /\ dropped.m_OutOfSequenceFragments = S /\ dropped.handed = e.handed
      <4>1. id \in DOMAIN map => Incomplete(map[id], id, G, O) BY <3>2
      <4>2. map \in Partial(TunnelMessageBlockEx) /\ SameBut(I, map, id) BY <3>2
      <4> QED BY <3>3, <4>1, <4>2, ChangeIncomplete
    <3>5. Step(e, dropped, A, G, O, id) BY <3>2, <3>4, SameIsSameBut DEF Step, Elsewhere
    <3>6. m.len + f.size >= I2NP_MAX_MESSAGE_SIZE BY <2>3, <2>4
    <3> QED BY <1>8, <3>1, <3>5, <3>6
  <2>5. CASE ~(m1.len >= I2NP_MAX_MESSAGE_SIZE) /\ f.last
    <3>1. HandleFollowOnFragment(e, f) = last BY <1>1, <1>8, <2>5
    <3>2. /\ EndSafe(out, A, G, O) /\ Delivered(e, out, id)
          /\ out.m_IncompleteMessages = I /\ out.m_OutOfSequenceFragments = S
      <4>1. out = HandleNextMessage(e, b.msgID, b.type, m1.data) BY <1>3, <2>3
      <4> HIDE DEF out
      <4> QED BY <1>3, <2>3, <2>5, <4>1, Deliver
    <3> HIDE DEF out
    <3> DEFINE map == Without(I, id)
    <3>3. map \in Partial(TunnelMessageBlockEx) /\ id \notin DOMAIN map /\ SameBut(I, map, id)
      BY <1>2, WithoutIs
    <3>4. last = [out EXCEPT !.m_IncompleteMessages = map] BY <3>2
    <3> HIDE DEF map, last
    <3>5. /\ EndSafe(last, A, G, O) /\ last.m_IncompleteMessages = map
          /\ last.m_OutOfSequenceFragments = S /\ last.handed = out.handed
      <4>1. id \in DOMAIN map => Incomplete(map[id], id, G, O) BY <3>3
      <4>2. map \in Partial(TunnelMessageBlockEx) BY <3>3
      <4>3. SameBut(out.m_IncompleteMessages, map, id) BY <3>2, <3>3
      <4>4. EndSafe(out, A, G, O) BY <3>2
      <4>5. /\ EndSafe(last, A, G, O) /\ last.m_IncompleteMessages = map
            /\ last.m_OutOfSequenceFragments = out.m_OutOfSequenceFragments
            /\ last.handed = out.handed
        <5> DEFINE id0 == f.msgID
                   r == [out EXCEPT !.m_IncompleteMessages = map]
        <5>1. id0 \in DOMAIN map => Incomplete(map[id0], id0, G, O) BY <4>1
        <5>2. SameBut(out.m_IncompleteMessages, map, id0) BY <4>3
        <5> HIDE DEF id0
        <5>3. /\ EndSafe(r, A, G, O) /\ r.m_IncompleteMessages = map
              /\ r.m_OutOfSequenceFragments = out.m_OutOfSequenceFragments
              /\ r.handed = out.handed
          BY <4>2, <4>4, <5>1, <5>2, ChangeIncomplete
        <5> QED BY <3>4, <5>3
      <4> QED BY <3>2, <4>5
    <3>6. Delivered(e, last, id) BY <3>2, <3>5 DEF Delivered
    <3>7. Step(e, last, A, G, O, id) BY <3>3, <3>5, <3>6, SameIsSameBut DEF Step, Elsewhere
    <3> QED BY <1>8, <3>1, <3>6, <3>7
  <2>6. CASE ~(m1.len >= I2NP_MAX_MESSAGE_SIZE) /\ ~f.last
    <3>1. HandleFollowOnFragment(e, f) = next BY <1>1, <1>8, <2>6
    <3> DEFINE map == [I EXCEPT ![id] = m2]
    <3>2. /\ map \in Partial(TunnelMessageBlockEx) /\ id \in DOMAIN map /\ map[id] = m2
          /\ SameBut(I, map, id)
      BY <1>2, <1>8, <2>3, UpdateIs
    <3>3. more = [e EXCEPT !.m_IncompleteMessages = map] OBVIOUS
    <3>4. Incomplete(map[id], id, G, O) BY <1>3, <2>3, <3>2 DEF Incomplete
    <3> HIDE DEF map, more
    <3>5. /\ EndSafe(more, A, G, O) /\ more.m_IncompleteMessages = map
          /\ more.m_OutOfSequenceFragments = S /\ more.handed = e.handed
      <4>1. map \in Partial(TunnelMessageBlockEx) /\ SameBut(I, map, id) BY <3>2
      <4> QED BY <3>3, <3>4, <4>1, ChangeIncomplete
    <3>6. Step(e, more, A, G, O, id) BY <3>2, <3>5, SameIsSameBut DEF Step, Elsewhere
    <3>7. Step(more, next, A, G, O, id)
      <4>1. id \in DOMAIN more.m_IncompleteMessages BY <3>2, <3>5
      <4> QED BY <3>5, <4>1, OutOfSequenceStep
    <3> HIDE DEF next
    <3>8. Step(e, next, A, G, O, id) BY <3>5, <3>6, <3>7, StepThenStep
    <3> QED BY <1>8, <2>6, <3>1, <3>8
  <2> QED BY <2>4, <2>5, <2>6
<1> QED BY <1>7, <1>8

LEMMA DeliveredOnce ==
  ASSUME NEW e, NEW r, NEW id, e.handed \in Seq(HandedMessage), Delivered(e, r, id),
         NotHanded(e, id)
  PROVE  HandedOnce(r, id)
<1>1. PICK h \in HandedMessage : h.msgID = id /\ r.handed = Append(e.handed, h) BY DEF Delivered
<1> DEFINE n == Len(e.handed)
<1>2. /\ n \in Nat /\ Len(r.handed) = n + 1 /\ r.handed[n + 1] = h
      /\ \A i \in 1 .. n : r.handed[i] = e.handed[i]
  BY <1>1
<1> HIDE DEF n
<1>3. n + 1 \in 1 .. Len(r.handed) /\ r.handed[n + 1].msgID = id BY <1>1, <1>2
<1>4. ASSUME NEW j \in 1 .. Len(r.handed), r.handed[j].msgID = id PROVE n + 1 = j
  <2> SUFFICES ASSUME n + 1 # j PROVE FALSE OBVIOUS
  <2>1. j \in 1 .. n BY <1>2
  <2>2. e.handed[j].msgID = id BY <1>2, <1>4, <2>1
  <2> QED BY <2>1, <2>2 DEF NotHanded, n
<1> QED BY <1>3, <1>4 DEF HandedOnce

LEMMA HandedElsewhere ==
  ASSUME NEW e, NEW r, NEW id, e.handed \in Seq(HandedMessage),
         r.handed = e.handed \/ Delivered(e, r, id), NEW c, c # id
  PROVE  /\ NotHanded(e, c) => NotHanded(r, c)
         /\ HandedOnce(e, c) => HandedOnce(r, c)
<1>1. CASE r.handed = e.handed BY <1>1 DEF NotHanded, HandedOnce
<1>2. CASE Delivered(e, r, id)
  <2>1. PICK h \in HandedMessage : h.msgID = id /\ r.handed = Append(e.handed, h)
    BY <1>2 DEF Delivered
  <2> DEFINE n == Len(e.handed)
  <2>2. /\ n \in Nat /\ Len(r.handed) = n + 1 /\ r.handed[n + 1] = h
        /\ \A i \in 1 .. n : r.handed[i] = e.handed[i]
    BY <2>1
  <2> HIDE DEF n
  <2>3. ASSUME NEW j \in 1 .. Len(r.handed), r.handed[j].msgID = c
        PROVE  j \in 1 .. n /\ e.handed[j].msgID = c
    <3>1. j # n + 1 BY <2>1, <2>2, <2>3
    <3>2. j \in 1 .. n BY <2>2, <3>1
    <3> QED BY <2>2, <2>3, <3>2
  <2>4. ASSUME NotHanded(e, c) PROVE NotHanded(r, c) BY <2>3, <2>4 DEF NotHanded, n
  <2>5. ASSUME HandedOnce(e, c) PROVE HandedOnce(r, c)
    <3>1. PICK i \in 1 .. n : e.handed[i].msgID = c
            /\ \A j \in 1 .. n : e.handed[j].msgID = c => i = j
      BY <2>5 DEF HandedOnce, n
    <3>2. i \in 1 .. Len(r.handed) /\ r.handed[i].msgID = c BY <2>2, <3>1
    <3>3. \A j \in 1 .. Len(r.handed) : r.handed[j].msgID = c => i = j BY <2>3, <3>1
    <3> QED BY <3>2, <3>3 DEF HandedOnce
  <2> QED BY <2>4, <2>5
<1> QED BY <1>1, <1>2

\* The blocks a fragment is not of get no further and lose nothing.
LEMMA OthersProgress ==
  ASSUME NEW e, NEW r, NEW A, NEW O, NEW c, NEW f, e.handed \in Seq(HandedMessage),
         Elsewhere(e, r, f.msgID), c.msgID # f.msgID, Progress(e, A, c, O)
  PROVE  Progress(r, A \cup {f}, c, O)
<1> DEFINE B == A \cup {f}
<1>1. ASSUME NEW x, x.msgID = c.msgID PROVE x \in B <=> x \in A BY <1>1
<1> HIDE DEF B
<1>2. /\ NotHanded(e, c.msgID) => NotHanded(r, c.msgID)
      /\ HandedOnce(e, c.msgID) => HandedOnce(r, c.msgID)
  BY HandedElsewhere DEF Elsewhere
<1>3. /\ c.msgID \in DOMAIN r.m_IncompleteMessages <=> c.msgID \in DOMAIN e.m_IncompleteMessages
      /\ c.msgID \in DOMAIN e.m_IncompleteMessages =>
           r.m_IncompleteMessages[c.msgID] = e.m_IncompleteMessages[c.msgID]
      /\ c.msgID \in DOMAIN r.m_OutOfSequenceFragments <=>
           c.msgID \in DOMAIN e.m_OutOfSequenceFragments
  BY DEF Elsewhere, SameBut
<1>4. ASSUME Pieces(O, c.msgID) = {Whole(c)} PROVE WholeProgress(r, B, c)
  <2>1. WholeProgress(e, A, c) BY <1>4 DEF Progress
  <2>2. Whole(c) \in B <=> Whole(c) \in A
    <3>1. Whole(c).msgID = c.msgID BY DEF Whole
    <3> QED BY <1>1, <3>1
  <2> QED BY <1>2, <2>1, <2>2 DEF WholeProgress
<1>5. ASSUME NEW first \in Nat, Pieces(O, c.msgID) = Split(c, first), IsPair(c, first)
      PROVE  PairProgress(r, B, c, FirstPiece(c, first), FollowOn(c, first, 1))
  <2> DEFINE head == FirstPiece(c, first)
             next == FollowOn(c, first, 1)
  <2>1. PairProgress(e, A, c, head, next) BY <1>5 DEF Progress
  <2>2. head.msgID = c.msgID /\ next.msgID = c.msgID BY DEF FirstPiece, FollowOn
  <2> HIDE DEF head, next
  <2>3. (head \in B <=> head \in A) /\ (next \in B <=> next \in A) BY <1>1, <2>2
  <2>4. PairProgress(r, B, c, head, next) BY <1>2, <1>3, <2>1, <2>3 DEF PairProgress
  <2> QED BY <2>4 DEF head, next
<1> QED BY <1>4, <1>5 DEF Progress, B

\* A fragment arrives.
LEMMA FragmentEnd ==
  ASSUME NEW e, NEW A, NEW G, NEW O, NEW once, EndOK(e, A, G, O, once), BlocksOK(G, O),
         A \subseteq O, NEW f \in O, once => f \notin A
  PROVE  EndOK(HandleFragment(e, f), A \cup {f}, G, O, once)
<1> DEFINE B == A \cup {f}
           r == HandleFragment(e, f)
           id == f.msgID
           I == e.m_IncompleteMessages
           S == e.m_OutOfSequenceFragments
<1>1. EndSafe(e, A, G, O) /\ EndSafe(e, B, G, O) /\ B \subseteq O /\ f \in B BY Widen DEF EndOK
<1>2. PICK b \in G : id = b.msgID BY DEF BlocksOK
<1>3. f \in Pieces(O, b.msgID) /\ b \in TunnelMessageBlock BY <1>2 DEF Pieces, BlocksOK
<1>4. /\ f \in Fragment /\ f.type = b.type
      /\ f.num = 0 /\ f.last => Pieces(O, b.msgID) = {Whole(b)} /\ f = Whole(b)
      /\ f.num = 0 /\ ~f.last =>
           \E first \in Nat : Pieces(O, b.msgID) = Split(b, first) /\ f = FirstPiece(b, first)
      /\ f.num > 0 => \A first \in Nat : Pieces(O, b.msgID) = Split(b, first) =>
           f.num \in 1 .. NumFollowOn(b, first) /\ f = FollowOn(b, first, f.num)
  BY <1>3, PieceIs
<1>4a. f.num \in Nat BY <1>4 DEF Fragment
<1>5. e.handed \in Seq(HandedMessage) BY <1>1 DEF EndSafe, Endpoint
<1>6. r = IF f.num = 0 /\ f.last THEN HandleNextMessage(e, id, f.type, <<Bytes(f)>>)
          ELSE IF id = 0 THEN e
          ELSE IF f.num = 0 THEN HandleFirstFragment(e, f) ELSE HandleFollowOnFragment(e, f)
  BY DEF HandleFragment
<1> HIDE DEF r, B
<1>7. SUFFICES Step(e, r, B, G, O, id) /\ (once => Progress(r, B, b, O))
  <2>1. ASSUME Step(e, r, B, G, O, id), once => Progress(r, B, b, O), once, NEW c \in G
        PROVE  Progress(r, B, c, O)
    <3>1. CASE c = b BY <2>1, <3>1
    <3>2. CASE c # b
      <4>1. c.msgID # f.msgID BY <1>2, <3>2 DEF BlocksOK
      <4>2. Progress(e, A, c, O) BY <2>1 DEF EndOK
      <4>3. Elsewhere(e, r, f.msgID) BY <2>1 DEF Step
      <4> QED BY <1>5, <4>1, <4>2, <4>3, OthersProgress DEF B
    <3> QED BY <3>1, <3>2
  <2>2. ASSUME Step(e, r, B, G, O, id), once => Progress(r, B, b, O) PROVE EndOK(r, B, G, O, once)
    BY <2>1, <2>2 DEF EndOK, Step
  <2> QED BY <2>2 DEF r, B
\* A block that is whole has one piece; a pair's head and follow-on fragment
\* differ.
<1>8. ASSUME NEW first \in Nat, Pieces(O, b.msgID) = Split(b, first), IsPair(b, first)
      PROVE  /\ f = FirstPiece(b, first) \/ f = FollowOn(b, first, 1)
             /\ FirstPiece(b, first).num = 0 /\ FirstPiece(b, first).last = FALSE
             /\ FollowOn(b, first, 1).num = 1 /\ FollowOn(b, first, 1).last
             /\ FollowOn(b, first, 1).size \in Nat /\ FollowOn(b, first, 1).size <= b.len
             /\ \A x \in Pieces(O, b.msgID) : x.num > 0 => x = FollowOn(b, first, 1)
  <2>1. Split(b, first) = {FirstPiece(b, first), FollowOn(b, first, 1)}
    <3>1. 1 .. NumFollowOn(b, first) = {1} BY <1>8 DEF IsPair
    <3> QED BY <3>1 DEF Split
  <2>2. FirstPiece(b, first).num = 0 /\ FirstPiece(b, first).last = FALSE BY DEF FirstPiece
  <2>3. FollowOnFits(b, first, 1)
    <3>1. 1 \in 1 .. NumFollowOn(b, first) BY <1>8 DEF IsPair
    <3> QED BY <1>3, <3>1, FollowOnIs
  <2>4. FollowOn(b, first, 1).num = 1 /\ FollowOn(b, first, 1).last
        /\ FollowOn(b, first, 1).size \in Nat /\ FollowOn(b, first, 1).size <= b.len
    BY <1>8, <2>3 DEF FollowOnFits, IsPair, Fragment
  <2> QED BY <1>3, <1>8, <2>1, <2>2, <2>4
<1>9. CASE f.num = 0 /\ f.last
  <2>1. Pieces(O, b.msgID) = {Whole(b)} /\ f = Whole(b) BY <1>4, <1>9
  <2> DEFINE d == <<Bytes(f)>>
  <2>2. d \in Seq([off: Nat, size: Nat]) /\ Tiles(d, b.len)
    <3>1. f.off = 0 /\ f.size = b.len BY <2>1 DEF Whole
    <3>2. Bytes(f) = [off |-> 0, size |-> b.len] /\ b.len \in Nat BY <1>3, <3>1, BlockTyped DEF Bytes
    <3>3. d = <<[off |-> 0, size |-> b.len]>> BY <3>2
    <3>4. Len(d) = 1 /\ d[1].off = 0 /\ d[1].size = b.len BY <3>3
    <3>5. d \in Seq([off: Nat, size: Nat]) BY <3>2, <3>3
    <3> HIDE DEF d
    <3> QED BY <3>2, <3>4, <3>5 DEF Tiles
  <2>3. r = HandleNextMessage(e, b.msgID, b.type, d) BY <1>2, <1>4, <1>6, <1>9
  <2> HIDE DEF d
  <2>4. /\ EndSafe(r, B, G, O) /\ Delivered(e, r, id)
        /\ r.m_IncompleteMessages = I /\ r.m_OutOfSequenceFragments = S
    BY <1>1, <1>2, <2>2, <2>3, Deliver
  <2>5. Step(e, r, B, G, O, id) BY <2>4, SameIsSameBut DEF Step, Elsewhere
  <2>6. ASSUME once PROVE Progress(r, B, b, O)
    <3>1. NotHanded(e, id)
      <4>1. WholeProgress(e, A, b) BY <2>1, <2>6 DEF EndOK, Progress
      <4> QED BY <1>2, <2>1, <2>6, <4>1 DEF WholeProgress
    <3>2. HandedOnce(r, id) BY <1>5, <2>4, <3>1, DeliveredOnce
    <3>3. WholeProgress(r, B, b) BY <1>1, <1>2, <2>1, <3>2 DEF WholeProgress
    <3>4. ASSUME NEW first \in Nat, Pieces(O, b.msgID) = Split(b, first), IsPair(b, first)
          PROVE  FALSE
      <4>1. f = FirstPiece(b, first) \/ f = FollowOn(b, first, 1) BY <1>8, <3>4
      <4>2. FirstPiece(b, first).last = FALSE /\ FollowOn(b, first, 1).num = 1 BY <1>8, <3>4
      <4> QED BY <1>9, <4>1, <4>2
    <3> QED BY <3>3, <3>4 DEF Progress
  <2> QED BY <2>5, <2>6
<1>10. ASSUME ~(f.num = 0 /\ f.last), Pieces(O, b.msgID) = {Whole(b)} PROVE FALSE
  <2>1. f = Whole(b) BY <1>3, <1>10
  <2>2. f.num = 0 /\ f.last = TRUE BY <2>1 DEF Whole
  <2> QED BY <1>10, <2>2
<1>11. CASE ~(f.num = 0 /\ f.last) /\ id = 0
  <2>1. r = e BY <1>6, <1>11
  <2>2. Step(e, r, B, G, O, id) BY <1>1, <2>1, SameIsSameBut DEF Step, Elsewhere
  <2>3. Progress(r, B, b, O) BY <1>2, <1>10, <1>11 DEF Progress, IsPair
  <2> QED BY <2>2, <2>3
\* What the block had got to, when it is a pair and nothing arrived twice.
<1>12. ASSUME once, NEW first \in Nat, Pieces(O, b.msgID) = Split(b, first), IsPair(b, first)
       PROVE  /\ f \notin A /\ PairProgress(e, A, b, FirstPiece(b, first), FollowOn(b, first, 1))
              /\ NotHanded(e, id)
  <2>1. f \notin A /\ PairProgress(e, A, b, FirstPiece(b, first), FollowOn(b, first, 1))
    BY <1>12 DEF EndOK, Progress
  <2>2. f = FirstPiece(b, first) \/ f = FollowOn(b, first, 1) BY <1>8, <1>12
  <2> QED BY <1>2, <2>1, <2>2 DEF PairProgress
<1>13. CASE id # 0 /\ f.num = 0 /\ ~f.last
  <2>1. r = HandleFirstFragment(e, f) BY <1>6, <1>13
  <2>2. /\ Step(e, r, B, G, O, id)
        /\ (id \notin DOMAIN I /\ id \notin DOMAIN S) =>
             /\ r.handed = e.handed /\ id \in DOMAIN r.m_IncompleteMessages
             /\ r.m_IncompleteMessages[id].nextFragmentNum = 1
             /\ r.m_OutOfSequenceFragments = S
        /\ (id \notin DOMAIN I /\ id \in DOMAIN S /\ S[id].num = 1 /\ S[id].last) =>
             Delivered(e, r, id)
    BY <1>1, <1>13, <2>1, FirstStep
  <2>3. ASSUME once PROVE Progress(r, B, b, O)
    <3>1. ASSUME NEW first \in Nat, Pieces(O, b.msgID) = Split(b, first), IsPair(b, first)
          PROVE  PairProgress(r, B, b, FirstPiece(b, first), FollowOn(b, first, 1))
      <4> DEFINE head == FirstPiece(b, first)
                 next == FollowOn(b, first, 1)
      <4>1. /\ f \notin A /\ PairProgress(e, A, b, head, next) /\ NotHanded(e, id)
        BY <1>12, <2>3, <3>1
      <4>2. /\ f = head \/ f = next
            /\ head.num = 0 /\ next.num = 1 /\ next.last
            /\ \A x \in Pieces(O, b.msgID) : x.num > 0 => x = next
        BY <1>8, <3>1
      <4> HIDE DEF head, next
      <4>3. f = head /\ head # next BY <1>13, <4>2
      <4>4. id \notin DOMAIN I /\ (id \in DOMAIN S <=> next \in A)
        BY <1>2, <4>1, <4>3 DEF PairProgress
      <4>5. head \in B /\ (next \in B <=> next \in A) BY <4>3 DEF B
      <4>6. CASE next \in A
        <5>1. Saved(S[id], id, A) BY <1>1, <4>4, <4>6 DEF EndSafe
        <5>2. S[id] = next BY <1>1, <1>2, <4>2, <5>1 DEF Saved, Pieces, B
        <5>3. Delivered(e, r, id) BY <2>2, <4>2, <4>4, <4>6, <5>2
        <5>4. HandedOnce(r, id) BY <1>5, <4>1, <5>3, DeliveredOnce
        <5> QED BY <1>2, <4>5, <4>6, <5>4 DEF PairProgress, head, next
      <4>7. CASE next \notin A
        <5>1. /\ r.handed = e.handed /\ id \in DOMAIN r.m_IncompleteMessages
              /\ r.m_IncompleteMessages[id].nextFragmentNum = 1
              /\ r.m_OutOfSequenceFragments = S
          BY <2>2, <4>4, <4>7
        <5>2. NotHanded(r, id) BY <4>1, <5>1 DEF NotHanded
        <5>3. PairProgress(r, B, b, head, next)
          BY <1>2, <4>4, <4>5, <4>7, <5>1, <5>2 DEF PairProgress
        <5> QED BY <5>3 DEF head, next
      <4> QED BY <4>6, <4>7
    <3> QED BY <1>10, <1>13, <3>1 DEF Progress
  <2> QED BY <2>2, <2>3
<1>14. CASE id # 0 /\ f.num # 0
  <2>0. f.num > 0 BY <1>4a, <1>14
  <2>1. r = HandleFollowOnFragment(e, f) BY <1>6, <1>14
  <2>2. /\ Step(e, r, B, G, O, id)
        /\ (id \notin DOMAIN I /\ id \notin DOMAIN S) =>
             /\ r.handed = e.handed /\ r.m_IncompleteMessages = I
             /\ id \in DOMAIN r.m_OutOfSequenceFragments
        /\ (/\ id \in DOMAIN I /\ f.num = I[id].nextFragmentNum
            /\ ~(I[id].len + f.size >= I2NP_MAX_MESSAGE_SIZE) /\ f.last) => Delivered(e, r, id)
    BY <1>1, <2>0, <2>1, FollowOnStep
  <2>3. ASSUME once PROVE Progress(r, B, b, O)
    <3>1. ASSUME NEW first \in Nat, Pieces(O, b.msgID) = Split(b, first), IsPair(b, first)
          PROVE  PairProgress(r, B, b, FirstPiece(b, first), FollowOn(b, first, 1))
      <4> DEFINE head == FirstPiece(b, first)
                 next == FollowOn(b, first, 1)
      <4>1. /\ f \notin A /\ PairProgress(e, A, b, head, next) /\ NotHanded(e, id)
        BY <1>12, <2>3, <3>1
      <4>2. /\ f = head \/ f = next
            /\ head.num = 0 /\ next.num = 1 /\ next.last
            /\ next.size \in Nat /\ next.size <= b.len
        BY <1>8, <3>1
      <4> HIDE DEF head, next
      <4>3. f = next /\ head # next BY <1>14, <4>2
      <4>4. id \notin DOMAIN S /\ (id \in DOMAIN I <=> head \in A)
           /\ (head \in A => I[id].nextFragmentNum = 1)
        BY <1>2, <4>1, <4>3 DEF PairProgress
      <4>5. next \in B /\ (head \in B <=> head \in A) BY <4>3 DEF B
      <4>6. CASE head \in A
        <5>1. I[id].len = TunnelDataEnd
          <6>1. Incomplete(I[id], id, G, O) BY <1>1, <4>4, <4>6 DEF EndSafe
          <6> QED BY <4>4, <4>6, <6>1 DEF Incomplete, Beginning
        <5>2. ~(I[id].len + f.size >= I2NP_MAX_MESSAGE_SIZE)
          <6>1. b.len \in Nat /\ TunnelDataEnd \in Nat /\ I2NP_MAX_MESSAGE_SIZE \in Nat
            BY <1>3, BlockTyped, TunnelSizes DEF TunnelDataEnd
          <6>2. b.len + TunnelDataEnd < I2NP_MAX_MESSAGE_SIZE BY <3>1 DEF IsPair
          <6> QED BY <4>2, <4>3, <5>1, <6>1, <6>2
        <5>3. Delivered(e, r, id) BY <2>2, <4>2, <4>3, <4>4, <4>6, <5>2
        <5>4. HandedOnce(r, id) BY <1>5, <4>1, <5>3, DeliveredOnce
        <5> QED BY <1>2, <4>5, <4>6, <5>4 DEF PairProgress, head, next
      <4>7. CASE head \notin A
        <5>1. /\ r.handed = e.handed /\ r.m_IncompleteMessages = I
              /\ id \in DOMAIN r.m_OutOfSequenceFragments
          BY <2>2, <4>4, <4>7
        <5>2. NotHanded(r, id) BY <4>1, <5>1 DEF NotHanded
        <5>3. PairProgress(r, B, b, head, next)
          BY <1>2, <4>4, <4>5, <4>7, <5>1, <5>2 DEF PairProgress
        <5> QED BY <5>3 DEF head, next
      <4> QED BY <4>6, <4>7
    <3> QED BY <1>10, <1>14, <3>1 DEF Progress
  <2> QED BY <2>2, <2>3
<1> QED BY <1>9, <1>11, <1>13, <1>14

\* A tunnel data message arrives.
LEMMA HandleWorld ==
  ASSUME NEW g, NEW e, NEW N, NEW G, NEW A, NEW once, World(g, e, N, G, A, once), NEW m \in N
  PROVE  LET r == HandleDecryptedTunnelDataMsg(e, m.frags)
             B == A \cup Range(m.frags)
         IN  World(g, r, N \ {m}, G, B, once) /\ World(g, r, N, G, B, FALSE)
<1> DEFINE r == HandleDecryptedTunnelDataMsg(e, m.frags)
           s == m.frags
           R == Range(s)
           O == Made(g, N, A)
           Upto(n) == {s[i] : i \in 1 .. n}
<1>1. GatewayOK(g) /\ Distinct(g) /\ NetOK(N) /\ Apart(g, N, A, once) /\ BlocksOK(G, O)
      /\ EndOK(e, A, G, O, once)
  BY DEF World
<1>2. s \in Seq(Fragment) /\ Len(s) \in Nat BY <1>1 DEF NetOK
<1>3. PICK h : EndpointAfter(e, s, h) /\ r = h[Len(s)] BY <1>2, EndpointFold
<1> HIDE DEF r
<1>4. \A i \in 0 .. Len(s) : h[i] = IF i = 0 THEN e ELSE HandleFragment(h[i - 1], s[i])
  BY <1>3 DEF EndpointAfter
<1>5. \A i \in 1 .. Len(s) : s[i] \in OnWire(N)
  <2>1. \A k \in N : k.frags \in Seq(Fragment) BY <1>1 DEF NetOK
  <2> QED BY <2>1, WireIs
<1>6. A \subseteq O /\ OnWire(N) \subseteq O BY DEF Made
<1>7. Upto(Len(s)) = R BY <1>2 DEF Range
<1>8. \A i, j \in 1 .. Len(s) : s[i] = s[j] => i = j BY <1>1 DEF NetOK
<1> HIDE DEF O
<1> DEFINE S == {n \in Nat : n <= Len(s) => EndOK(h[n], A \cup Upto(n), G, O, once)}
<1>9. 0 \in S
  <2>1. h[0] = e BY <1>2, <1>4
  <2>2. A \cup Upto(0) = A OBVIOUS
  <2> HIDE DEF Upto
  <2> QED BY <1>1, <2>1, <2>2
<1>10. ASSUME NEW n \in S PROVE n + 1 \in S
  <2>1. CASE n + 1 <= Len(s)
    <3>1. n \in Nat /\ EndOK(h[n], A \cup Upto(n), G, O, once) BY <1>2, <2>1
    <3>2. n + 1 \in 1 .. Len(s) /\ n + 1 \in 0 .. Len(s) BY <1>2, <2>1, <3>1
    <3>3. h[n + 1] = HandleFragment(h[n], s[n + 1]) BY <1>4, <3>1, <3>2
    <3>4. s[n + 1] \in O /\ s[n + 1] \in OnWire(N) BY <1>5, <1>6, <3>2
    <3>5. A \cup Upto(n) \subseteq O
      <4>1. \A i \in 1 .. n : i \in 1 .. Len(s) BY <1>2, <2>1, <3>1
      <4> QED BY <1>5, <1>6, <4>1
    <3>6. once => s[n + 1] \notin A \cup Upto(n)
      <4>1. ASSUME NEW i \in 1 .. n PROVE s[i] # s[n + 1]
        <5>1. i \in 1 .. Len(s) /\ i # n + 1 BY <1>2, <2>1, <3>1
        <5> QED BY <1>8, <3>2, <5>1
      <4>2. once => s[n + 1] \notin A BY <1>1, <3>4 DEF Apart
      <4> QED BY <4>1, <4>2
    <3>7. (A \cup Upto(n)) \cup {s[n + 1]} = A \cup Upto(n + 1)
      <4>1. 1 .. (n + 1) = (1 .. n) \cup {n + 1} BY <3>1
      <4> QED BY <4>1
    <3> HIDE DEF Upto, s
    <3>8. EndOK(h[n + 1], A \cup Upto(n + 1), G, O, once)
      BY <1>1, <3>1, <3>3, <3>4, <3>5, <3>6, <3>7, FragmentEnd
    <3> QED BY <3>1, <3>8
  <2>2. CASE ~(n + 1 <= Len(s)) BY <2>2
  <2> QED BY <2>1, <2>2
<1> HIDE DEF S, Upto
<1>11. S = Nat BY <1>9, <1>10, Induction DEF S
<1>12. EndOK(r, A \cup R, G, O, once)
  <2>1. Len(s) \in S /\ Len(s) <= Len(s) BY <1>2, <1>11
  <2>2. EndOK(h[Len(s)], A \cup Upto(Len(s)), G, O, once) BY <2>1 DEF S
  <2> QED BY <1>3, <1>7, <2>2
<1>13. OnWire(N) = OnWire(N \ {m}) \cup R BY DEF OnWire
<1>14. OnWire(N \ {m}) \cap R = {}
  <2> SUFFICES ASSUME NEW f \in R, f \in OnWire(N \ {m}) PROVE FALSE OBVIOUS
  <2>1. \A k \in N \ {m} : k.frags \in Seq(Fragment) BY <1>1 DEF NetOK
  <2>2. PICK k \in N \ {m} : \E j \in 1 .. Len(k.frags) : k.frags[j] = f BY <2>1, WireIs
  <2>3. PICK i \in 1 .. Len(s) : s[i] = f BY <1>7 DEF Upto
  <2> QED BY <1>1, <2>2, <2>3 DEF NetOK
<1>15. Made(g, N \ {m}, A \cup R) = O /\ Made(g, N, A \cup R) = O BY <1>13 DEF Made, O
<1>16. NetOK(N \ {m}) BY <1>1 DEF NetOK
<1>17. Apart(g, N \ {m}, A \cup R, once) BY <1>1, <1>13, <1>14 DEF Apart
<1>18. Apart(g, N, A \cup R, FALSE) BY <1>1, <1>13 DEF Apart
<1>19. EndOK(r, A \cup R, G, O, FALSE) BY <1>12 DEF EndOK
<1> HIDE DEF R, s
<1>20. World(g, r, N \ {m}, G, A \cup R, once) BY <1>1, <1>12, <1>15, <1>16, <1>17 DEF World
<1>21. World(g, r, N, G, A \cup R, FALSE) BY <1>1, <1>15, <1>18, <1>19 DEF World
<1> QED BY <1>20, <1>21 DEF r, R, s

LEMMA Forget ==
  ASSUME NEW g, NEW e, NEW N, NEW G, NEW A, NEW once, World(g, e, N, G, A, FALSE), ~once
  PROVE  World(g, e, N, G, A, once)
BY DEF World, Apart, EndOK

-----------------------------------------------------------------------------
(***************************************************************************)
(* The inductive invariant, the three facts about it, and the theorem.     *)
(***************************************************************************)
\* TunnelData::TunnelDataSafe as it is carried from step to step: the buffer,
\* the messages on their way and what arrived hold the fragments of the blocks
\* given, each once, and what the endpoint keeps is made of them.
TunnelDataIInv ==
  /\ World(m_Buffer, m_Endpoint, net, given, arrived, duplicates = 0)
  /\ sent \in Nat
  /\ duplicates \in Nat

LEMMA InitTunnelData == Init => TunnelDataIInv
<1> SUFFICES ASSUME Init PROVE TunnelDataIInv OBVIOUS
<1>1. PICK i \in Inbound : m_Endpoint = NewEndpoint(i) BY DEF Init
<1>2. m_Buffer = EmptyBuffer /\ net = {} /\ given = {} /\ sent = 0 /\ arrived = {} /\ duplicates = 0
  BY DEF Init
<1>3. GatewayOK(EmptyBuffer) /\ InBuffer(EmptyBuffer) = {} /\ Distinct(EmptyBuffer)
  <2> DEFINE g == EmptyBuffer
  <2>1. /\ ~g.open /\ g.current = <<>> /\ g.m_RemainingSize = 0 /\ g.m_TunnelDataMsgs = <<>>
        /\ g \in GatewayBuffer
    <3>1. <<>> \in Seq(Seq(Fragment)) /\ <<>> \in Seq(Fragment) BY EmptySeq
    <3> QED BY <3>1 DEF EmptyBuffer, GatewayBuffer
  <2>2. Len(<<>>) = 0 BY EmptySeq
  <2> HIDE DEF g
  <2>3. GatewayOK(g) BY <2>1, <2>2 DEF GatewayOK
  <2>4. \A k \in 1 .. Count(g) : Len(At(g, k)) = 0
    <3>1. Count(g) = 1 BY <2>1, <2>2 DEF Count
    <3>2. At(g, 1) = <<>> BY <2>1, <2>2 DEF At
    <3> QED BY <2>2, <3>1, <3>2
  <2>5. \A f : f \notin InBuffer(g) BY <2>1, <2>4, InBufferIs
  <2>6. Distinct(g) BY <2>4 DEF Distinct
  <2> QED BY <2>3, <2>5, <2>6 DEF g
<1>4. OnWire({}) = {} BY DEF OnWire
<1>5. Made(EmptyBuffer, {}, {}) = {} BY <1>3, <1>4 DEF Made
<1>6. NetOK({}) /\ Apart(EmptyBuffer, {}, {}, TRUE) /\ BlocksOK({}, {})
  BY <1>3, <1>4 DEF NetOK, Apart, BlocksOK
<1>7. EndOK(NewEndpoint(i), {}, {}, {}, TRUE)
  <2> DEFINE e == NewEndpoint(i)
  <2>1. i \in BOOLEAN BY TunnelBounds
  <2>2. EmptyMap \in Partial(TunnelMessageBlockEx) /\ EmptyMap \in Partial(Fragment)
        /\ DOMAIN EmptyMap = {}
    <3>1. DOMAIN EmptyMap = {} BY DEF EmptyMap
    <3>2. EmptyMap = [id \in DOMAIN EmptyMap |-> EmptyMap[id]] BY DEF EmptyMap
    <3> QED BY <3>1, <3>2, PartialIs
  <2>3. <<>> \in Seq(HandedMessage) /\ Len(<<>>) = 0 BY EmptySeq
  <2>4. e = [m_IsInbound |-> i, m_IncompleteMessages |-> EmptyMap,
             m_OutOfSequenceFragments |-> EmptyMap, handed |-> <<>>]
    BY DEF NewEndpoint
  <2> HIDE DEF e
  <2>5. /\ e \in Endpoint
        /\ e.m_IncompleteMessages = EmptyMap /\ e.m_OutOfSequenceFragments = EmptyMap
        /\ e.handed = <<>>
    BY <2>1, <2>2, <2>3, <2>4 DEF Endpoint
  <2>6. EndSafe(e, {}, {}, {}) BY <2>2, <2>3, <2>5 DEF EndSafe
  <2> QED BY <2>6 DEF EndOK, e
<1>8. World(EmptyBuffer, NewEndpoint(i), {}, {}, {}, TRUE) BY <1>3, <1>5, <1>6, <1>7 DEF World
<1>9. (duplicates = 0) = TRUE BY <1>2
<1> QED BY <1>1, <1>2, <1>8, <1>9 DEF TunnelDataIInv

LEMMA SendStep ==
  ASSUME NEW g, World(g, m_Endpoint, net, given', arrived, duplicates = 0), sent \in Nat,
         SendBuffer(g)
  PROVE  World(m_Buffer', m_Endpoint, net', given', arrived, duplicates = 0) /\ sent' \in Nat
<1> DEFINE h == CompleteCurrentTunnelDataMessage(g)
           msgs == h.m_TunnelDataMsgs
<1>1. /\ net' = net \cup Numbered(msgs, sent)
      /\ sent' = sent + Len(msgs)
      /\ m_Buffer' = Emptied(h)
  BY DEF SendBuffer, Numbered, Emptied
<1>2. /\ World(Emptied(h), m_Endpoint, net \cup Numbered(msgs, sent), given', arrived,
               duplicates = 0)
      /\ sent + Len(msgs) \in Nat
  BY SendWorld
<1> QED BY <1>1, <1>2

LEMMA NextTunnelData == TunnelDataIInv /\ [Next]_vars => TunnelDataIInv'
<1> SUFFICES ASSUME TunnelDataIInv, [Next]_vars PROVE TunnelDataIInv' OBVIOUS
<1>1. /\ World(m_Buffer, m_Endpoint, net, given, arrived, duplicates = 0)
      /\ sent \in Nat /\ duplicates \in Nat
  BY DEF TunnelDataIInv
<1>2. BlocksOK(given, Made(m_Buffer, net, arrived)) /\ m_Endpoint \in Endpoint
  BY <1>1 DEF World, EndOK, EndSafe
<1>3. ASSUME NEW n \in 1 .. MaxBatch, NEW bs \in [1 .. n -> TunnelMessageBlock],
             SendTunnelDataMsg(bs)
      PROVE  TunnelDataIInv'
  <2>1. /\ ~m_Endpoint.m_IsInbound
        /\ \A i \in DOMAIN bs : New(bs[i])
        /\ \A i, j \in DOMAIN bs : bs[i].msgID = bs[j].msgID => i = j
        /\ given' = given \cup Range(bs)
        /\ SendBuffer(PutBatch(m_Buffer, bs))
        /\ m_Endpoint' = m_Endpoint /\ arrived' = arrived /\ duplicates' = duplicates
    BY <1>3 DEF SendTunnelDataMsg
  <2>2. n \in Nat BY TunnelBounds
  <2>3. bs \in Seq(TunnelMessageBlock) /\ DOMAIN bs = 1 .. Len(bs)
    <3>1. Len(bs) = n BY <2>2
    <3> QED BY <2>2, <3>1
  <2>4. \A i \in 1 .. Len(bs) : \A c \in given : c.msgID # bs[i].msgID BY <2>1, <2>3 DEF New
  <2>5. World(PutBatch(m_Buffer, bs), m_Endpoint, net, given', arrived, duplicates = 0)
    <3>1. \A i, j \in 1 .. Len(bs) : bs[i].msgID = bs[j].msgID => i = j BY <2>1, <2>3
    <3> QED BY <1>1, <2>1, <2>3, <2>4, <3>1, BatchWorld
  <2>6. World(m_Buffer', m_Endpoint, net', given', arrived, duplicates = 0) /\ sent' \in Nat
    BY <1>1, <2>1, <2>5, SendStep
  <2> QED BY <1>1, <2>1, <2>6 DEF TunnelDataIInv
<1>4. ASSUME NEW b \in TunnelMessageBlock, PutTunnelDataMsg(b) PROVE TunnelDataIInv'
  <2>1. /\ New(b) /\ b.type = "Local" /\ given' = given \cup {b}
        /\ m_Buffer' = PutI2NPMsg(m_Buffer, b)
        /\ m_Endpoint' = m_Endpoint /\ net' = net /\ sent' = sent /\ arrived' = arrived
        /\ duplicates' = duplicates
    BY <1>4 DEF PutTunnelDataMsg
  <2>2. World(PutI2NPMsg(m_Buffer, b), m_Endpoint, net, given \cup {b}, arrived, duplicates = 0)
    BY <1>1, <2>1, PutWorld DEF New
  <2> QED BY <1>1, <2>1, <2>2 DEF TunnelDataIInv
<1>5. CASE FlushTunnelDataMsgs
  <2>1. /\ SendBuffer(m_Buffer) /\ given' = given
        /\ m_Endpoint' = m_Endpoint /\ arrived' = arrived /\ duplicates' = duplicates
    BY <1>5 DEF FlushTunnelDataMsgs
  <2>2. World(m_Buffer', m_Endpoint, net', given', arrived, duplicates = 0) /\ sent' \in Nat
    BY <1>1, <2>1, SendStep
  <2> QED BY <1>1, <2>1, <2>2 DEF TunnelDataIInv
<1>6. ASSUME NEW m \in net, HandleTunnelDataMsg(m) PROVE TunnelDataIInv'
  <2> DEFINE r == HandleDecryptedTunnelDataMsg(m_Endpoint, m.frags)
             B == arrived \cup Range(m.frags)
  <2>1. /\ m_Endpoint' = r /\ arrived' = B
        /\ m_Buffer' = m_Buffer /\ given' = given /\ sent' = sent
        /\ \/ net' = net \ {m} /\ duplicates' = duplicates
           \/ duplicates' = duplicates + 1 /\ net' = net
    BY <1>6 DEF HandleTunnelDataMsg
  <2>2. /\ World(m_Buffer, r, net \ {m}, given, B, duplicates = 0)
        /\ World(m_Buffer, r, net, given, B, FALSE)
    BY <1>1, HandleWorld
  <2> HIDE DEF r, B
  <2>3. CASE net' = net \ {m} /\ duplicates' = duplicates
    BY <1>1, <2>1, <2>2, <2>3 DEF TunnelDataIInv
  <2>4. CASE duplicates' = duplicates + 1 /\ net' = net
    <3>1. duplicates' \in Nat /\ ~(duplicates' = 0) BY <1>1, <2>4
    <3>2. World(m_Buffer, r, net, given, B, duplicates' = 0) BY <2>2, <3>1, Forget
    <3> QED BY <1>1, <2>1, <2>4, <3>1, <3>2 DEF TunnelDataIInv
  <2> QED BY <2>1, <2>3, <2>4
<1>7. CASE UNCHANGED vars
  BY <1>1, <1>7 DEF vars, TunnelDataIInv
<1> QED BY <1>3, <1>4, <1>5, <1>6, <1>7 DEF Next

LEMMA TunnelDataIInvIsSafe == TunnelDataIInv => TunnelDataSafe
<1> SUFFICES ASSUME TunnelDataIInv PROVE TunnelDataSafe OBVIOUS
<1> DEFINE O == Made(m_Buffer, net, arrived)
<1>1. /\ GatewayOK(m_Buffer) /\ NetOK(net) /\ BlocksOK(given, O)
      /\ EndOK(m_Endpoint, arrived, given, O, duplicates = 0)
  BY DEF TunnelDataIInv, World
<1>2. EndSafe(m_Endpoint, arrived, given, O) BY <1>1 DEF EndOK
<1>3. /\ m_Endpoint.m_IncompleteMessages \in Partial(TunnelMessageBlockEx)
      /\ m_Endpoint.m_OutOfSequenceFragments \in Partial(Fragment)
      /\ m_Endpoint.handed \in Seq(HandedMessage)
  BY <1>2 DEF EndSafe, Endpoint
<1>3a. DOMAIN m_Endpoint.handed = 1 .. Len(m_Endpoint.handed) BY <1>3
<1>4. TypeOK
  <2>1. m_Buffer \in GatewayBuffer BY <1>1 DEF GatewayOK
  <2>2. \A id \in DOMAIN m_Endpoint.m_IncompleteMessages :
          m_Endpoint.m_IncompleteMessages[id] \in TunnelMessageBlockEx
    BY <1>3, PartialIs
  <2>3. \A id \in DOMAIN m_Endpoint.m_OutOfSequenceFragments :
          m_Endpoint.m_OutOfSequenceFragments[id] \in Fragment
    BY <1>3, PartialIs
  <2>4. \A m \in net : m.frags \in Seq(Fragment) BY <1>1 DEF NetOK
  <2> QED BY <2>1, <2>2, <2>3, <2>4 DEF TypeOK
<1>5. PayloadFits BY <1>1 DEF PayloadFits, GatewayOK, NetOK
<1>6. HandedIntact BY <1>2, <1>3a DEF EndSafe, Intact, HandedIntact
<1>7. AllHanded
  <2> SUFFICES ASSUME net = {}, ~m_Buffer.open, m_Buffer.m_TunnelDataMsgs = <<>>, duplicates = 0,
                      NEW b \in given, Acceptable(b)
               PROVE  HandedOnce(m_Endpoint, b.msgID)
    BY <1>3a DEF AllHanded, HandedOnce
  <2>1. OnWire(net) = {} /\ InBuffer(m_Buffer) = {}
    <3>1. m_Buffer \in GatewayBuffer /\ m_Buffer.current = <<>> BY <1>1 DEF GatewayOK
    <3>2. Len(<<>>) = 0 BY EmptySeq
    <3>3. Count(m_Buffer) = 1 /\ At(m_Buffer, 1) = <<>> BY <3>1, <3>2 DEF Count, At
    <3>4. \A f : f \notin InBuffer(m_Buffer) BY <3>1, <3>2, <3>3, InBufferIs
    <3> QED BY <3>4 DEF OnWire
  <2>2. O = arrived BY <2>1 DEF Made
  <2>3. Fragments(b) = Pieces(O, b.msgID) BY <2>1, <2>2 DEF Fragments, Pieces
  <2> HIDE DEF O
  <2>4. Progress(m_Endpoint, arrived, b, O) BY <1>1 DEF EndOK
  <2>5. b \in TunnelMessageBlock /\ IsPieces(Pieces(O, b.msgID), b) BY <1>1 DEF BlocksOK
  <2>6. \A f \in Pieces(O, b.msgID) : f \in arrived BY <2>2 DEF Pieces
  <2>7. CASE Pieces(O, b.msgID) = {Whole(b)}
    <3>1. Whole(b) \in arrived BY <2>6, <2>7
    <3> QED BY <2>4, <2>7, <3>1 DEF Progress, WholeProgress
  <2>8. ASSUME NEW first \in Nat, Pieces(O, b.msgID) = Split(b, first)
        PROVE  HandedOnce(m_Endpoint, b.msgID)
    <3> DEFINE n == NumFollowOn(b, first)
    <3>1. n \in Nat BY <2>5, NumTyped
    <3>2. \A i \in 1 .. n : FollowOn(b, first, i) \in Split(b, first)
      BY DEF Split
    <3>3. \A i \in 1 .. n : FollowOn(b, first, i).num = i BY DEF FollowOn
    <3>4. n <= 1
      <4> SUFFICES ASSUME ~(n <= 1) PROVE FALSE OBVIOUS
      <4>1. 2 \in 1 .. n BY <3>1
      <4>2. FollowOn(b, first, 2) \in Fragments(b) /\ FollowOn(b, first, 2).num = 2
        BY <2>3, <2>8, <3>2, <3>3, <4>1
      <4>3. \A f \in Fragments(b) : f.num <= 1 BY DEF Acceptable
      <4>4. FollowOn(b, first, 2).num <= 1 BY <4>2, <4>3
      <4> QED BY <4>2, <4>4
    <3>5. n # 0
      <4> SUFFICES ASSUME n = 0 PROVE FALSE OBVIOUS
      <4>1. Split(b, first) = {FirstPiece(b, first)} BY DEF Split
      <4>2. PICK f \in Fragments(b) : f.last BY DEF Acceptable
      <4>3. f = FirstPiece(b, first) BY <2>3, <2>8, <4>1, <4>2
      <4>4. f.last = FALSE BY <4>3 DEF FirstPiece
      <4> QED BY <4>2, <4>4
    <3>6. n = 1 BY <3>1, <3>4, <3>5
    <3>7. IsPair(b, first) BY <3>6 DEF IsPair, Acceptable
    <3>8. PairProgress(m_Endpoint, arrived, b, FirstPiece(b, first), FollowOn(b, first, 1))
      BY <2>4, <2>8, <3>7 DEF Progress
    <3>9. FirstPiece(b, first) \in Split(b, first) /\ FollowOn(b, first, 1) \in Split(b, first)
      <4>1. 1 \in 1 .. n BY <3>6
      <4> QED BY <3>2, <4>1 DEF Split
    <3>10. FirstPiece(b, first) \in arrived /\ FollowOn(b, first, 1) \in arrived BY <2>6, <2>8, <3>9
    <3> QED BY <3>8, <3>10 DEF PairProgress
  <2> QED BY <2>5, <2>7, <2>8 DEF IsPieces
<1> QED BY <1>4, <1>5, <1>6, <1>7 DEF TunnelDataSafe

\* Whatever is lost, doubled or reordered between a gateway and its endpoint,
\* no tunnel data message is overrun, what is handed on is what was given, byte
\* for byte, and with all that was sent there all of it that can be is handed
\* on, once (TunnelData::TunnelDataSafe).
THEOREM TunnelDataIsSafe == Spec => []TunnelDataSafe
<1>1. Spec => []TunnelDataIInv BY InitTunnelData, NextTunnelData, PTL DEF Spec
<1> QED BY <1>1, TunnelDataIInvIsSafe, PTL

-----------------------------------------------------------------------------
(***************************************************************************)
(* A client destination (Destination.tla), for any destinations, callers   *)
(* and floodfills: nothing waits without a timer, a publication counts as  *)
(* confirmed only when it is stored, and whoever asks for a LeaseSet is    *)
(* answered once.                                                          *)
(*                                                                         *)
(* The invariant has three parts that no action mixes: of the publication, *)
(* of the requests' timers, and of the callers.  That a caller is answered *)
(* once is a sum over queues and requests; it is proved from where the one *)
(* callback of a caller can be (CallerOK), which rests on each request     *)
(* holding a callback of its own destination only (CallbackOK).            *)
(***************************************************************************)

TimerState == [armed : BOOLEAN, queued : 0 .. MaxQueued]
Request == [open : BOOLEAN, callback : DCallers \cup {DNobody}, excluded : SUBSET DFloodfills]
Lookup == DFloodfills \X SUBSET DFloodfills
State ==
  [case : DCases, running : BOOLEAN, tunnels : BOOLEAN, leaseSet : Nat, token : Nat,
   tokens : Nat, publishTimer : TimerState, excludedFloodfills : SUBSET DFloodfills,
   stores : SUBSET Nat, statuses : SUBSET Nat, stored : SUBSET Nat, confirmed : SUBSET Nat,
   posted : Seq(DCallers), begun : SUBSET DCallers, calls : [DCallers -> Nat],
   unanswered : SUBSET DCallers, remote : [DDests -> {"none", "live", "expired"}],
   requests : [DDests -> Request], requestTimer : [DDests -> TimerState],
   lookups : [DDests -> SUBSET Lookup]]

\* The publication: a token in use is newer than what is stored, and one that
\* waits has a timer.
PublicationOK(d) ==
  /\ d.leaseSet \in 0 .. d.case.updates /\ d.token \in 0 .. d.tokens
  /\ d.excludedFloodfills \subseteq d.case.floodfills
  /\ d.stores \cup d.statuses \cup d.stored \cup d.confirmed \subseteq 1 .. d.tokens
  /\ d.statuses \cup d.confirmed \subseteq d.stored
  /\ d.running /\ d.token # 0 => Waiting(d.publishTimer)

TimersOK(d) ==
  d.running => \A x \in DDests : d.requests[x].open => Waiting(d.requestTimer[x])

\* A callback belongs to an open request for the destination its caller wants.
CallbackOK(d, x) ==
  LET c == d.requests[x].callback IN
  c # DNobody => d.requests[x].open /\ c \in DOMAIN d.case.wanted /\ d.case.wanted[c] = x

Posted(d, c) == \E i \in DOMAIN d.posted : d.posted[i] = c
Asking(d, c) == \E x \in DDests : d.requests[x].callback = c

\* The callback of a caller is in one place, or was called.
CallerOK(d, c) ==
  /\ d.calls[c] \in {0, 1}
  /\ c \in d.begun \ d.unanswered <=> (d.calls[c] = 1 \/ Posted(d, c) \/ Asking(d, c))
  /\ ~(d.calls[c] = 1 /\ Posted(d, c))
  /\ ~(d.calls[c] = 1 /\ Asking(d, c))
  /\ ~(Posted(d, c) /\ Asking(d, c))

CallersOK(d) ==
  /\ d.unanswered \subseteq d.begun
  /\ \A i \in DOMAIN d.posted : d.posted[i] \in DOMAIN d.case.wanted
  /\ \A i, j \in DOMAIN d.posted : d.posted[i] = d.posted[j] => i = j
  /\ \A x \in DDests : CallbackOK(d, x)
  /\ \A c \in DCallers : CallerOK(d, c)

Sound(d) == d \in State /\ PublicationOK(d) /\ TimersOK(d) /\ CallersOK(d)

IInv == Sound(dest)

\* Two states that differ at most in the publication, or at most elsewhere.
SameRequests(d, e) ==
  /\ e.case = d.case /\ e.running = d.running
  /\ e.posted = d.posted /\ e.begun = d.begun /\ e.calls = d.calls
  /\ e.unanswered = d.unanswered /\ e.requests = d.requests /\ e.requestTimer = d.requestTimer
SamePublication(d, e) ==
  /\ e.case = d.case /\ e.running = d.running
  /\ e.leaseSet = d.leaseSet /\ e.token = d.token /\ e.tokens = d.tokens
  /\ e.publishTimer = d.publishTimer /\ e.excludedFloodfills = d.excludedFloodfills
  /\ e.stores = d.stores /\ e.statuses = d.statuses /\ e.stored = d.stored
  /\ e.confirmed = d.confirmed
-----------------------------------------------------------------------------
LEMMA RequestsKept ==
  ASSUME NEW d \in State, NEW e \in State, SameRequests(d, e), TimersOK(d), CallersOK(d)
  PROVE  TimersOK(e) /\ CallersOK(e)
BY DEF SameRequests, TimersOK, CallersOK, CallbackOK, CallerOK, Posted, Asking

LEMMA PublicationKept ==
  ASSUME NEW d \in State, NEW e \in State, SamePublication(d, e), PublicationOK(d)
  PROVE  PublicationOK(e)
BY DEF SamePublication, PublicationOK

LEMMA ClosestIsKnown ==
  ASSUME NEW d \in State, NEW excluded, NEW f \in ClosestFloodfill(d, excluded)
  PROVE  f \in d.case.floodfills /\ d.case.floodfills \subseteq DFloodfills
BY DestinationAssumption DEF State, ClosestFloodfill
-----------------------------------------------------------------------------
(***************************************************************************)
(* The publication.                                                        *)
(***************************************************************************)
LEMMA PublishSound ==
  ASSUME NEW d \in State, PublicationOK(d)
  PROVE  /\ Publish(d) \in State /\ PublicationOK(Publish(d))
         /\ SameRequests(d, Publish(d))
<1> DEFINE floodfill == ClosestFloodfill(d, d.excludedFloodfills)
           new == [d EXCEPT !.excludedFloodfills = @ \cup floodfill,
                            !.token = d.tokens + 1, !.tokens = @ + 1,
                            !.publishTimer = Armed(@),
                            !.stores = @ \cup {d.tokens + 1}]
<1>1. CASE Publish(d) = d BY <1>1 DEF SameRequests
<1>2. CASE Publish(d) = [d EXCEPT !.excludedFloodfills = {}]
  BY <1>2 DEF SameRequests, PublicationOK, State
<1>3. CASE Publish(d) = new
  <2>1. floodfill \subseteq d.case.floodfills /\ floodfill \subseteq DFloodfills
    BY ClosestIsKnown
  <2>2. Armed(d.publishTimer) \in TimerState /\ Waiting(Armed(d.publishTimer))
    BY DEF State, TimerState, Armed, Waiting
  <2>3. d.tokens \in Nat /\ d.tokens + 1 \in Nat BY DEF State
  <2> HIDE DEF floodfill
  <2>4. new \in State BY <2>1, <2>2, <2>3 DEF State
  <2>5. /\ SameRequests(d, new) /\ new.leaseSet = d.leaseSet
        /\ new.token = d.tokens + 1 /\ new.tokens = d.tokens + 1
        /\ new.excludedFloodfills = d.excludedFloodfills \cup floodfill
        /\ new.stores = d.stores \cup {d.tokens + 1} /\ new.statuses = d.statuses
        /\ new.stored = d.stored /\ new.confirmed = d.confirmed
        /\ new.publishTimer = Armed(d.publishTimer)
    BY DEF State, SameRequests
  <2> HIDE DEF new
  <2>6. PublicationOK(new)
    BY <2>1, <2>2, <2>3, <2>5 DEF PublicationOK, SameRequests
  <2> QED BY <1>3, <2>4, <2>5, <2>6
<1> QED BY <1>1, <1>2, <1>3 DEF Publish

\* A step of the publication alone.
LEMMA PublicationStep ==
  ASSUME Sound(dest), dest' \in State, PublicationOK(dest'), SameRequests(dest, dest')
  PROVE  Sound(dest')
BY RequestsKept DEF Sound

LEMMA DestLeaseSetUpdatedStep ==
  ASSUME Sound(dest), DestLeaseSetUpdated PROVE Sound(dest')
<1> DEFINE d == [dest EXCEPT !.leaseSet = @ + 1]
<1>1. d \in State /\ SameRequests(dest, d)
  <2>1. dest \in State /\ dest.leaseSet + 1 \in Nat BY DEF Sound, State
  <2> QED BY <2>1 DEF State, SameRequests
<1>2. PublicationOK(d)
  <2>1. dest \in State /\ dest.case.updates \in Nat
    BY DestinationAssumption DEF Sound, State
  <2>2. d.leaseSet \in 0 .. d.case.updates
    BY <2>1 DEF DestLeaseSetUpdated, State
  <2> QED BY <2>1, <2>2 DEF Sound, State, PublicationOK
<1>3. dest' = Publish(d) BY DEF DestLeaseSetUpdated
<1> HIDE DEF d
<1>4. dest' \in State /\ PublicationOK(dest') /\ SameRequests(d, dest')
  BY <1>1, <1>2, <1>3, PublishSound
<1> QED BY <1>1, <1>4, PublicationStep DEF SameRequests

LEMMA PublishTimerExpiresStep ==
  ASSUME Sound(dest), PublishTimerExpires PROVE Sound(dest')
<1> DEFINE t == [armed |-> FALSE, queued |-> dest.publishTimer.queued + 1]
<1>1. dest \in State /\ PublicationOK(dest) BY DEF Sound
<1>2. t \in TimerState /\ Waiting(t)
  <2>1. dest.publishTimer.queued \in 0 .. MaxQueued /\ dest.publishTimer.queued < MaxQueued
    BY <1>1 DEF State, TimerState, PublishTimerExpires
  <2> QED BY <2>1 DEF TimerState, Waiting, MaxQueued
<1>3. dest' = [dest EXCEPT !.publishTimer = t] BY DEF PublishTimerExpires
<1> HIDE DEF t
<1>4. dest' \in State /\ SameRequests(dest, dest') BY <1>1, <1>2, <1>3 DEF State, SameRequests
<1>5. PublicationOK(dest') BY <1>1, <1>2, <1>3 DEF PublicationOK, State
<1> QED BY <1>4, <1>5, PublicationStep

LEMMA HandlePublishConfirmationTimerStep ==
  ASSUME Sound(dest), HandlePublishConfirmationTimer PROVE Sound(dest')
<1> DEFINE ran == [dest EXCEPT !.publishTimer.queued = @ - 1]
           d   == [ran EXCEPT !.token = 0]
<1>1. dest \in State /\ PublicationOK(dest) BY DEF Sound
<1>2. ran \in State /\ SameRequests(dest, ran)
  <2> DEFINE t == [dest.publishTimer EXCEPT !.queued = @ - 1]
  <2>1. t \in TimerState
    <3>1. dest.publishTimer \in TimerState /\ dest.publishTimer.queued > 0
      BY <1>1 DEF State, HandlePublishConfirmationTimer
    <3> QED BY <3>1 DEF TimerState, MaxQueued
  <2>2. ran = [dest EXCEPT !.publishTimer = t] BY <1>1 DEF State
  <2> HIDE DEF t, ran
  <2> QED BY <1>1, <2>1, <2>2 DEF State, SameRequests
<1>3. d \in State /\ PublicationOK(d) /\ SameRequests(dest, d)
  <2>1. /\ d.token = 0 /\ d.tokens = dest.tokens /\ d.leaseSet = dest.leaseSet
        /\ d.excludedFloodfills = dest.excludedFloodfills /\ d.stores = dest.stores
        /\ d.statuses = dest.statuses /\ d.stored = dest.stored
        /\ d.confirmed = dest.confirmed
    BY <1>1 DEF State
  <2> HIDE DEF ran
  <2>2. d \in State /\ SameRequests(dest, d) BY <1>2 DEF State, SameRequests
  <2>3. d.case = dest.case /\ 0 \in 0 .. dest.tokens
    BY <1>1, <2>2 DEF SameRequests, State
  <2> HIDE DEF d
  <2>4. PublicationOK(d) BY <1>1, <2>1, <2>3 DEF PublicationOK
  <2> QED BY <2>2, <2>4
<1>4. CASE dest.token = 0
  <2>1. dest' = ran BY <1>4 DEF HandlePublishConfirmationTimer
  <2>2. /\ ran.token = 0 /\ ran.tokens = dest.tokens /\ ran.leaseSet = dest.leaseSet
        /\ ran.excludedFloodfills = dest.excludedFloodfills /\ ran.stores = dest.stores
        /\ ran.statuses = dest.statuses /\ ran.stored = dest.stored
        /\ ran.confirmed = dest.confirmed
    BY <1>1, <1>4 DEF State
  <2> HIDE DEF ran
  <2>3. ran.case = dest.case BY <1>2 DEF SameRequests
  <2>4. PublicationOK(ran) BY <1>1, <1>4, <2>2, <2>3 DEF PublicationOK
  <2> QED BY <1>2, <2>1, <2>4, PublicationStep
<1>5. CASE dest.token # 0
  <2>1. dest' = Publish(d) BY <1>5 DEF HandlePublishConfirmationTimer
  <2> HIDE DEF d
  <2>2. dest' \in State /\ PublicationOK(dest') /\ SameRequests(d, dest')
    BY <1>3, <2>1, PublishSound
  <2> QED BY <1>3, <2>2, PublicationStep DEF SameRequests
<1> QED BY <1>4, <1>5

LEMMA HandlePublishConfirmationStep ==
  ASSUME Sound(dest), NEW token \in 1 .. dest.tokens, HandlePublishConfirmation(token)
  PROVE  Sound(dest')
<1> DEFINE d == [dest EXCEPT !.statuses = @ \ {token}]
<1>1. dest \in State /\ PublicationOK(dest) /\ token \in dest.stored
  BY DEF Sound, PublicationOK, HandlePublishConfirmation
<1>2. dest' = Confirm(d, token) BY DEF HandlePublishConfirmation
<1>3. CASE dest.token # token
  <2>1. dest' = d BY <1>1, <1>2, <1>3 DEF Confirm, State
  <2>2. d \in State /\ SameRequests(dest, d) /\ PublicationOK(d)
    BY <1>1 DEF State, SameRequests, PublicationOK
  <2> QED BY <2>1, <2>2, PublicationStep
<1>4. CASE dest.token = token
  <2>1. dest' = [dest EXCEPT !.statuses = @ \ {token}, !.excludedFloodfills = {},
                             !.token = 0, !.confirmed = @ \cup {token}]
    BY <1>1, <1>2, <1>4 DEF Confirm, State
  <2>2. dest' \in State /\ SameRequests(dest, dest') BY <1>1, <2>1 DEF State, SameRequests
  <2>3. PublicationOK(dest') BY <1>1, <2>1 DEF State, PublicationOK
  <2> QED BY <2>2, <2>3, PublicationStep
<1> QED BY <1>3, <1>4

LEMMA FloodfillStoresStep ==
  ASSUME Sound(dest), NEW token \in 1 .. dest.tokens, FloodfillStores(token)
  PROVE  Sound(dest')
<1>1. dest \in State /\ PublicationOK(dest) BY DEF Sound
<1>2. dest' = [dest EXCEPT !.stores = @ \ {token}, !.stored = @ \cup {token},
                           !.statuses = @ \cup {token}]
  BY DEF FloodfillStores
<1>3. token \in Nat BY <1>1 DEF State
<1>4. dest' \in State /\ SameRequests(dest, dest') BY <1>1, <1>2, <1>3 DEF State, SameRequests
<1>5. PublicationOK(dest') BY <1>1, <1>2 DEF State, PublicationOK
<1> QED BY <1>4, <1>5, PublicationStep
-----------------------------------------------------------------------------
(***************************************************************************)
(* The requests.                                                           *)
(***************************************************************************)
OthersTimed(d, x) ==
  d.running => \A y \in DDests \ {x} : d.requests[y].open => Waiting(d.requestTimer[y])

\* The request for x and its timer become q and t.
WithRequest(d, x, q, t) ==
  [d EXCEPT !.requests = [@ EXCEPT ![x] = q], !.requestTimer = [@ EXCEPT ![x] = t]]

LEMMA WithRequestType ==
  ASSUME NEW d \in State, NEW x \in DDests, NEW q \in Request, NEW t \in TimerState
  PROVE  LET new == WithRequest(d, x, q, t) IN
         /\ new \in State /\ SamePublication(d, new)
         /\ new.posted = d.posted /\ new.begun = d.begun /\ new.calls = d.calls
         /\ new.unanswered = d.unanswered /\ new.tunnels = d.tunnels
         /\ new.requests[x] = q /\ new.requestTimer[x] = t
         /\ \A y \in DDests \ {x} : /\ new.requests[y] = d.requests[y]
                                    /\ new.requestTimer[y] = d.requestTimer[y]
<1> DEFINE rs == [d.requests EXCEPT ![x] = q]
           ts == [d.requestTimer EXCEPT ![x] = t]
           new == WithRequest(d, x, q, t)
<1>1. /\ rs \in [DDests -> Request] /\ ts \in [DDests -> TimerState]
      /\ rs[x] = q /\ ts[x] = t
      /\ \A y \in DDests \ {x} : rs[y] = d.requests[y] /\ ts[y] = d.requestTimer[y]
  BY DEF State
<1>2. new = [d EXCEPT !.requests = rs, !.requestTimer = ts] BY DEF WithRequest, State
<1> HIDE DEF rs, ts, new
<1>3. new \in State /\ new.requests = rs /\ new.requestTimer = ts
  BY <1>1, <1>2 DEF State
<1>4. /\ SamePublication(d, new) /\ new.posted = d.posted /\ new.begun = d.begun
      /\ new.calls = d.calls /\ new.unanswered = d.unanswered /\ new.tunnels = d.tunnels
  BY <1>2 DEF State, SamePublication
<1> QED BY <1>1, <1>3, <1>4 DEF new

\* Only the lookups that floodfills were sent change.
LEMMA LookupsChange ==
  ASSUME NEW d \in State, NEW x \in DDests, NEW l \in SUBSET Lookup
  PROVE  LET new == [d EXCEPT !.lookups[x] = l] IN
         /\ new \in State /\ SameRequests(d, new) /\ SamePublication(d, new)
         /\ new.tunnels = d.tunnels
<1> DEFINE ls == [d.lookups EXCEPT ![x] = l]
<1>1. ls \in [DDests -> SUBSET Lookup] BY DEF State
<1> HIDE DEF ls
<1>2. [d EXCEPT !.lookups = ls] \in State BY <1>1 DEF State
<1>3. /\ SameRequests(d, [d EXCEPT !.lookups = ls]) /\ SamePublication(d, [d EXCEPT !.lookups = ls])
      /\ [d EXCEPT !.lookups = ls].tunnels = d.tunnels
  BY DEF State, SameRequests, SamePublication
<1> QED BY <1>2, <1>3 DEF ls

\* A request that is sent again keeps its callback and gets a timer.
LEMMA SendSound ==
  ASSUME NEW d \in State, NEW x \in DDests, NEW F \in SUBSET DFloodfills,
         CallersOK(d), OthersTimed(d, x)
  PROVE  LET new == SendLeaseSetRequest(d, x, F) IN
         new \in State /\ SamePublication(d, new) /\ TimersOK(new) /\ CallersOK(new)
<1> DEFINE q   == [d.requests[x] EXCEPT !.excluded = @ \cup F]
           t   == Armed(d.requestTimer[x])
           l   == d.lookups[x] \cup Lookups(d, x, F)
           mid == WithRequest(d, x, q, t)
           new == SendLeaseSetRequest(d, x, F)
<1>1. q \in Request /\ q.open = d.requests[x].open /\ q.callback = d.requests[x].callback
  <2>1. d.requests[x] \in Request BY DEF State
  <2> QED BY <2>1 DEF Request
<1>2. t \in TimerState /\ Waiting(t)
  <2>1. d.requestTimer[x] \in TimerState BY DEF State
  <2> QED BY <2>1 DEF TimerState, Armed, Waiting
<1>3. l \in SUBSET Lookup
  <2>1. d.lookups[x] \in SUBSET Lookup BY DEF State
  <2>2. d.requests[x].excluded \in SUBSET DFloodfills BY DEF State, Request
  <2>3. Lookups(d, x, F) \in SUBSET Lookup BY <2>2 DEF Lookups, Lookup
  <2> QED BY <2>1, <2>3
<1>4. new = [mid EXCEPT !.lookups[x] = l]
  BY DEF SendLeaseSetRequest, WithRequest, State
<1> HIDE DEF q, t, l, mid, new
<1>5. /\ mid \in State /\ SamePublication(d, mid)
      /\ mid.posted = d.posted /\ mid.begun = d.begun /\ mid.calls = d.calls
      /\ mid.unanswered = d.unanswered
      /\ mid.requests[x] = q /\ mid.requestTimer[x] = t
      /\ \A y \in DDests \ {x} : /\ mid.requests[y] = d.requests[y]
                                 /\ mid.requestTimer[y] = d.requestTimer[y]
  BY <1>1, <1>2, WithRequestType DEF mid
<1>6. TimersOK(mid) BY <1>2, <1>5 DEF TimersOK, OthersTimed, SamePublication
<1>7. \A y \in DDests : /\ mid.requests[y].open = d.requests[y].open
                        /\ mid.requests[y].callback = d.requests[y].callback
  BY <1>1, <1>5
<1>8. \A y \in DDests : CallbackOK(mid, y)
  BY <1>5, <1>7 DEF CallersOK, CallbackOK, SamePublication
<1>9. \A c \in DCallers : CallerOK(mid, c)
  BY <1>5, <1>7 DEF CallersOK, CallerOK, Posted, Asking
<1>10. CallersOK(mid) BY <1>5, <1>8, <1>9 DEF CallersOK, SamePublication
<1>11. new \in State /\ SameRequests(mid, new) /\ SamePublication(mid, new)
  BY <1>3, <1>4, <1>5, LookupsChange
<1>12. TimersOK(new) /\ CallersOK(new) BY <1>5, <1>6, <1>10, <1>11, RequestsKept
<1>13. SamePublication(d, new) BY <1>5, <1>11 DEF SamePublication
<1> QED BY <1>11, <1>12, <1>13 DEF new

LEMMA CallDoneType ==
  ASSUME NEW d \in State, NEW c \in DCallers
  PROVE  LET new == CallDone(d, c) IN
         /\ new \in State /\ SamePublication(d, new)
         /\ new.posted = d.posted /\ new.begun = d.begun /\ new.unanswered = d.unanswered
         /\ new.requests = d.requests /\ new.requestTimer = d.requestTimer
         /\ new.calls[c] = d.calls[c] + 1
         /\ \A b \in DCallers \ {c} : new.calls[b] = d.calls[b]
<1> DEFINE calls == [d.calls EXCEPT ![c] = @ + 1]
<1>1. /\ calls \in [DCallers -> Nat] /\ calls[c] = d.calls[c] + 1
      /\ \A b \in DCallers \ {c} : calls[b] = d.calls[b]
  BY DEF State
<1>2. CallDone(d, c) = [d EXCEPT !.calls = calls]
  BY DestinationAssumption DEF CallDone, State
<1> HIDE DEF calls
<1> QED BY <1>1, <1>2 DEF State, SamePublication

\* The end of a request calls back the caller that it holds, and no other.
LEMMA EndRequestSound ==
  ASSUME NEW d \in State, NEW x \in DDests, CallersOK(d), OthersTimed(d, x)
  PROVE  LET new == EndRequest(d, x) IN
         new \in State /\ SamePublication(d, new) /\ TimersOK(new) /\ CallersOK(new)
<1> DEFINE t   == Cancelled(d.requestTimer[x])
           mid == WithRequest(d, x, NoRequest, t)
           a   == d.requests[x].callback
           new == EndRequest(d, x)
<1>1. NoRequest \in Request /\ ~NoRequest.open /\ NoRequest.callback = DNobody
  BY DEF NoRequest, Request
<1>2. t \in TimerState
  <2>1. d.requestTimer[x] \in TimerState BY DEF State
  <2> QED BY <2>1 DEF TimerState, Cancelled
<1>3. new = CallDone(mid, a) BY DEF EndRequest, WithRequest, State
<1> HIDE DEF t, mid, new
<1>4. /\ mid \in State /\ SamePublication(d, mid)
      /\ mid.posted = d.posted /\ mid.begun = d.begun /\ mid.calls = d.calls
      /\ mid.unanswered = d.unanswered /\ mid.requests[x] = NoRequest
      /\ \A y \in DDests \ {x} : /\ mid.requests[y] = d.requests[y]
                                 /\ mid.requestTimer[y] = d.requestTimer[y]
  BY <1>1, <1>2, WithRequestType DEF mid
<1>5. TimersOK(mid) BY <1>1, <1>4 DEF TimersOK, OthersTimed, SamePublication
<1>6. \A y \in DDests : CallbackOK(mid, y)
  BY <1>1, <1>4 DEF CallersOK, CallbackOK, SamePublication
<1>7. a \in DCallers \cup {DNobody}
  <2>1. d.requests[x] \in Request BY DEF State
  <2> QED BY <2>1 DEF Request
<1>8. ASSUME NEW c \in DCallers, c # a
      PROVE  CallerOK(mid, c)
  <2>1. Asking(mid, c) <=> Asking(d, c)
    BY <1>1, <1>4, <1>8, DestinationAssumption DEF Asking
  <2> QED BY <1>4, <2>1 DEF CallersOK, CallerOK, Posted
<1>9. CASE a = DNobody
  <2>1. new = mid BY <1>3, <1>9 DEF CallDone
  <2> QED BY <1>4, <1>5, <1>6, <1>8, <1>9, <2>1, DestinationAssumption
        DEF CallersOK, SamePublication, new
<1>10. CASE a \in DCallers
  <2>1. /\ new \in State /\ SamePublication(mid, new)
        /\ new.posted = mid.posted /\ new.begun = mid.begun /\ new.unanswered = mid.unanswered
        /\ new.requests = mid.requests /\ new.requestTimer = mid.requestTimer
        /\ new.calls[a] = mid.calls[a] + 1
        /\ \A b \in DCallers \ {a} : new.calls[b] = mid.calls[b]
    BY <1>3, <1>4, <1>10, CallDoneType
  <2>2. TimersOK(new) BY <1>5, <2>1 DEF TimersOK, SamePublication
  <2>3. \A y \in DDests : CallbackOK(new, y) BY <1>6, <2>1 DEF CallbackOK, SamePublication
  <2>4. ASSUME NEW c \in DCallers, c # a PROVE CallerOK(new, c)
    BY <1>8, <2>1, <2>4 DEF CallerOK, Posted, Asking
  <2>5. CallerOK(new, a)
    <3>1. Asking(d, a) /\ CallerOK(d, a) BY <1>10 DEF Asking, CallersOK
    <3>2. d.calls[a] = 0 /\ ~Posted(d, a) /\ a \in d.begun \ d.unanswered
      BY <3>1 DEF CallerOK
    <3>3. ~Asking(new, a)
      <4>1. a # DNobody BY <1>10, DestinationAssumption
      <4>2. ASSUME NEW y \in DDests, y # x, d.requests[y].callback = a PROVE FALSE
        BY <4>1, <4>2 DEF CallersOK, CallbackOK
      <4> QED BY <1>1, <1>4, <2>1, <4>1, <4>2 DEF Asking
    <3>4. new.calls[a] = 1 BY <1>4, <2>1, <3>2
    <3>5. ~Posted(new, a) BY <1>4, <2>1, <3>2 DEF Posted
    <3> QED BY <1>4, <2>1, <3>2, <3>3, <3>4, <3>5 DEF CallerOK
  <2> QED BY <1>4, <2>1, <2>2, <2>3, <2>4, <2>5 DEF CallersOK, SamePublication, new
<1> QED BY <1>7, <1>9, <1>10

\* Caller c is between two places: it was taken from one and is in no other.
Between(d, c) ==
  /\ d.unanswered \subseteq d.begun
  /\ \A i \in DOMAIN d.posted : d.posted[i] \in DOMAIN d.case.wanted
  /\ \A i, j \in DOMAIN d.posted : d.posted[i] = d.posted[j] => i = j
  /\ \A x \in DDests : CallbackOK(d, x)
  /\ \A b \in DCallers \ {c} : CallerOK(d, b)
  /\ c \in DOMAIN d.case.wanted /\ c \in d.begun \ d.unanswered
  /\ d.calls[c] = 0 /\ ~Posted(d, c) /\ ~Asking(d, c)

LEMMA BetweenCalled ==
  ASSUME NEW d \in State, NEW c \in DCallers, Between(d, c), TimersOK(d)
  PROVE  LET new == CallDone(d, c) IN
         new \in State /\ SamePublication(d, new) /\ TimersOK(new) /\ CallersOK(new)
<1> DEFINE new == CallDone(d, c)
<1>1. /\ new \in State /\ SamePublication(d, new)
      /\ new.posted = d.posted /\ new.begun = d.begun /\ new.unanswered = d.unanswered
      /\ new.requests = d.requests /\ new.requestTimer = d.requestTimer
      /\ new.calls[c] = d.calls[c] + 1
      /\ \A b \in DCallers \ {c} : new.calls[b] = d.calls[b]
  BY CallDoneType
<1> HIDE DEF new
<1>2. TimersOK(new) BY <1>1 DEF TimersOK, SamePublication
<1>3. \A x \in DDests : CallbackOK(new, x)
  BY <1>1 DEF Between, CallbackOK, SamePublication
<1>4. \A b \in DCallers \ {c} : CallerOK(new, b)
  BY <1>1 DEF Between, CallerOK, Posted, Asking
<1>5. CallerOK(new, c) BY <1>1 DEF Between, CallerOK, Posted, Asking
<1> QED BY <1>1, <1>2, <1>3, <1>4, <1>5 DEF Between, CallersOK, SamePublication, new

LEMMA BetweenUnanswered ==
  ASSUME NEW d \in State, NEW c \in DCallers, Between(d, c), TimersOK(d)
  PROVE  LET new == [d EXCEPT !.unanswered = @ \cup {c}] IN
         new \in State /\ SamePublication(d, new) /\ TimersOK(new) /\ CallersOK(new)
<1> DEFINE new == [d EXCEPT !.unanswered = @ \cup {c}]
<1>1. /\ new \in State /\ SamePublication(d, new) /\ new.posted = d.posted
      /\ new.begun = d.begun /\ new.calls = d.calls /\ new.requests = d.requests
      /\ new.requestTimer = d.requestTimer /\ new.unanswered = d.unanswered \cup {c}
  BY DEF State, SamePublication
<1> HIDE DEF new
<1>2. TimersOK(new) BY <1>1 DEF TimersOK, SamePublication
<1>3. \A x \in DDests : CallbackOK(new, x)
  BY <1>1 DEF Between, CallbackOK, SamePublication
<1>4. \A b \in DCallers : CallerOK(new, b)
  BY <1>1 DEF Between, CallerOK, Posted, Asking
<1> QED BY <1>1, <1>2, <1>3, <1>4 DEF Between, CallersOK, SamePublication, new

LEMMA BetweenPosted ==
  ASSUME NEW d \in State, NEW c \in DCallers, Between(d, c), TimersOK(d)
  PROVE  LET new == [d EXCEPT !.posted = Append(@, c)] IN
         new \in State /\ SamePublication(d, new) /\ TimersOK(new) /\ CallersOK(new)
<1> DEFINE q == d.posted
           p == Append(q, c)
           new == [d EXCEPT !.posted = p]
<1>1. q \in Seq(DCallers) BY DEF State
<1> HIDE DEF q
<1>2. /\ p \in Seq(DCallers) /\ DOMAIN p = DOMAIN q \cup {Len(q) + 1}
      /\ Len(q) + 1 \notin DOMAIN q
      /\ \A i \in DOMAIN q : p[i] = q[i]
      /\ p[Len(q) + 1] = c
  BY <1>1
<1> HIDE DEF p
<1>3. /\ new \in State /\ SamePublication(d, new) /\ new.posted = p
      /\ new.begun = d.begun /\ new.calls = d.calls /\ new.requests = d.requests
      /\ new.requestTimer = d.requestTimer /\ new.unanswered = d.unanswered
  BY <1>2 DEF State, SamePublication
<1> HIDE DEF new
<1>4. TimersOK(new) BY <1>3 DEF TimersOK, SamePublication
<1>5. \A x \in DDests : CallbackOK(new, x)
  BY <1>3 DEF Between, CallbackOK, SamePublication
<1>6. \A b \in DCallers : Asking(new, b) <=> Asking(d, b) BY <1>3 DEF Asking
<1>7. \A b \in DCallers : Posted(new, b) <=> (Posted(d, b) \/ b = c)
  BY <1>2, <1>3 DEF Posted, q
<1>8. \A b \in DCallers : CallerOK(new, b)
  BY <1>3, <1>6, <1>7 DEF Between, CallerOK
<1>9. \A i \in DOMAIN p : p[i] \in DOMAIN new.case.wanted
  BY <1>2, <1>3 DEF Between, SamePublication, q
<1>10. \A i, j \in DOMAIN p : p[i] = p[j] => i = j
  BY <1>2 DEF Between, Posted, q
<1> QED BY <1>3, <1>4, <1>5, <1>8, <1>9, <1>10 DEF Between, CallersOK, new, p, q

LEMMA RequestStep ==
  ASSUME Sound(dest), dest' \in State, SamePublication(dest, dest'),
         TimersOK(dest'), CallersOK(dest')
  PROVE  Sound(dest')
BY PublicationKept DEF Sound

LEMMA BeginStep ==
  ASSUME Sound(dest), NEW c \in DCallers, Begin(c) PROVE Sound(dest')
<1> DEFINE d == [dest EXCEPT !.begun = @ \cup {c}]
<1>1. /\ dest \in State /\ TimersOK(dest) /\ CallersOK(dest)
      /\ c \in DOMAIN dest.case.wanted /\ c \notin dest.begun
  BY DEF Sound, Begin
<1>2. /\ d \in State /\ SamePublication(dest, d) /\ d.posted = dest.posted
      /\ d.begun = dest.begun \cup {c} /\ d.calls = dest.calls /\ d.requests = dest.requests
      /\ d.requestTimer = dest.requestTimer /\ d.unanswered = dest.unanswered
  BY <1>1 DEF State, SamePublication
<1>3. dest' = CallDone(d, c) \/ dest' = [d EXCEPT !.posted = Append(@, c)]
  <2>1. d.posted = dest.posted BY <1>2
  <2> HIDE DEF d
  <2> QED BY DEF Begin, d
<1> HIDE DEF d
<1>4. TimersOK(d) BY <1>1, <1>2 DEF TimersOK, SamePublication
<1>5. CallerOK(dest, c) BY <1>1 DEF CallersOK
<1>6. \A b \in DCallers : CallerOK(dest, b) BY <1>1 DEF CallersOK
<1>7. Between(d, c)
  <2>1. dest.calls[c] = 0 /\ ~Posted(dest, c) /\ ~Asking(dest, c)
    BY <1>1, <1>5 DEF CallerOK
  <2>2. \A b \in DCallers \ {c} : CallerOK(d, b)
    BY <1>2, <1>6 DEF CallerOK, Posted, Asking
  <2>3. \A x \in DDests : CallbackOK(d, x)
    BY <1>1, <1>2 DEF CallersOK, CallbackOK, SamePublication
  <2>4. /\ d.unanswered \subseteq d.begun /\ c \in DOMAIN d.case.wanted
        /\ c \in d.begun \ d.unanswered
    BY <1>1, <1>2 DEF CallersOK, SamePublication
  <2>5. /\ \A i \in DOMAIN d.posted : d.posted[i] \in DOMAIN d.case.wanted
        /\ \A i, j \in DOMAIN d.posted : d.posted[i] = d.posted[j] => i = j
    BY <1>1, <1>2 DEF CallersOK, SamePublication
  <2> QED BY <1>2, <2>1, <2>2, <2>3, <2>4, <2>5 DEF Between, Posted, Asking
<1>8. dest' \in State /\ SamePublication(d, dest') /\ TimersOK(dest') /\ CallersOK(dest')
  BY <1>2, <1>3, <1>4, <1>7, BetweenCalled, BetweenPosted
<1> QED BY <1>2, <1>8, RequestStep DEF SamePublication

\* The caller at the head of the queue leaves it.
LEMMA HeadTaken ==
  ASSUME Sound(dest), dest.posted # <<>>
  PROVE  LET c == Head(dest.posted)
             d == [dest EXCEPT !.posted = Tail(@)]
         IN /\ c \in DCallers /\ d \in State /\ SamePublication(dest, d)
            /\ TimersOK(d) /\ Between(d, c) /\ d.requests = dest.requests
<1> DEFINE q == dest.posted
           r == Tail(q)
           c == Head(q)
           d == [dest EXCEPT !.posted = r]
<1>1. dest \in State /\ TimersOK(dest) /\ CallersOK(dest) BY DEF Sound
<1>2. q \in Seq(DCallers) /\ q # <<>> BY <1>1 DEF State
<1> HIDE DEF q
<1>3. /\ c \in DCallers /\ r \in Seq(DCallers) /\ 1 \in DOMAIN q /\ q[1] = c
      /\ \A i \in DOMAIN r : i + 1 \in DOMAIN q /\ r[i] = q[i + 1] /\ i + 1 # 1
      /\ \A i \in DOMAIN q : i # 1 => i - 1 \in DOMAIN r /\ r[i - 1] = q[i]
      /\ DOMAIN r \subseteq Nat
  BY <1>2
<1> HIDE DEF r, c
<1>4. /\ d \in State /\ SamePublication(dest, d) /\ d.posted = r
      /\ d.begun = dest.begun /\ d.calls = dest.calls /\ d.requests = dest.requests
      /\ d.requestTimer = dest.requestTimer /\ d.unanswered = dest.unanswered
  BY <1>1, <1>3 DEF State, SamePublication
<1> HIDE DEF d
<1>5. TimersOK(d) BY <1>1, <1>4 DEF TimersOK, SamePublication
<1>6. \A i, j \in DOMAIN q : q[i] = q[j] => i = j BY <1>1 DEF CallersOK, q
<1>7. \A i \in DOMAIN q : q[i] \in DOMAIN dest.case.wanted BY <1>1 DEF CallersOK, q
<1>8. ~Posted(d, c)
  <2> SUFFICES ASSUME NEW i \in DOMAIN r, r[i] = c PROVE FALSE
    BY <1>4 DEF Posted
  <2>1. q[i + 1] = q[1] /\ i + 1 \in DOMAIN q /\ 1 \in DOMAIN q BY <1>3
  <2> QED BY <2>1, <1>3, <1>6
<1>9. ASSUME NEW b \in DCallers \ {c}
      PROVE  Posted(d, b) <=> Posted(dest, b)
  <2>1. ASSUME NEW i \in DOMAIN r, r[i] = b PROVE \E j \in DOMAIN q : q[j] = b
    BY <1>3, <2>1
  <2>2. ASSUME NEW j \in DOMAIN q, q[j] = b PROVE \E i \in DOMAIN r : r[i] = b
    <3>1. j # 1 BY <1>3, <2>2
    <3> QED BY <1>3, <2>2, <3>1
  <2> QED BY <1>4, <2>1, <2>2 DEF Posted, q
<1>10. Posted(dest, c) BY <1>3 DEF Posted, q
<1>11. CallerOK(dest, c) /\ \A b \in DCallers : CallerOK(dest, b)
  BY <1>1, <1>3 DEF CallersOK
<1>12. c \in dest.begun \ dest.unanswered /\ dest.calls[c] = 0 /\ ~Asking(dest, c)
  BY <1>10, <1>11 DEF CallerOK
<1>13. \A b \in DCallers \ {c} : CallerOK(d, b)
  BY <1>4, <1>9, <1>11 DEF CallerOK, Asking
<1>14. \A x \in DDests : CallbackOK(d, x)
  BY <1>1, <1>4 DEF CallersOK, CallbackOK, SamePublication
<1>15. /\ \A i \in DOMAIN r : r[i] \in DOMAIN d.case.wanted
       /\ \A i, j \in DOMAIN r : r[i] = r[j] => i = j
  <2>1. ASSUME NEW i \in DOMAIN r, NEW j \in DOMAIN r, r[i] = r[j] PROVE i = j
    <3>1. i + 1 = j + 1 BY <1>3, <1>6, <2>1
    <3> QED BY <1>3, <3>1
  <2> QED BY <1>3, <1>4, <1>7, <2>1 DEF SamePublication
<1>16. c \in DOMAIN d.case.wanted BY <1>3, <1>4, <1>7 DEF SamePublication
<1>17. d.unanswered \subseteq d.begun BY <1>1, <1>4 DEF CallersOK
<1>18. Between(d, c)
  BY <1>4, <1>8, <1>12, <1>13, <1>14, <1>15, <1>16, <1>17 DEF Between, Asking
<1> QED BY <1>3, <1>4, <1>5, <1>18 DEF c, d, r, q

LEMMA RequestLeaseSetStep ==
  ASSUME Sound(dest), RequestLeaseSet PROVE Sound(dest')
<1> DEFINE c  == Head(dest.posted)
           d  == [dest EXCEPT !.posted = Tail(@)]
           x  == dest.case.wanted[c]
           q  == [NoRequest EXCEPT !.open = TRUE, !.callback = c]
           d2 == [d EXCEPT !.requests[x] = q]
           floodfill == ClosestFloodfill(dest, {})
<1>1. /\ c \in DCallers /\ d \in State /\ SamePublication(dest, d) /\ TimersOK(d)
      /\ Between(d, c) /\ d.requests = dest.requests
  BY HeadTaken DEF RequestLeaseSet
<1>2. \/ dest' = [d EXCEPT !.unanswered = @ \cup {c}]
      \/ dest' = CallDone(d, c)
      \/ floodfill # {} /\ ~dest.requests[x].open /\ dest' = SendLeaseSetRequest(d2, x, floodfill)
  BY Zenon DEF RequestLeaseSet
<1>3. x \in DDests
  <2>1. d.case = dest.case /\ d.case \in DCases BY <1>1 DEF SamePublication, State
  <2>2. c \in DOMAIN d.case.wanted BY <1>1 DEF Between
  <2> QED BY <2>1, <2>2, DestinationAssumption
<1> HIDE DEF d, c
<1>4. CASE dest' = [d EXCEPT !.unanswered = @ \cup {c}]
  BY <1>1, <1>4, BetweenUnanswered, RequestStep DEF SamePublication
<1>5. CASE dest' = CallDone(d, c)
  BY <1>1, <1>5, BetweenCalled, RequestStep DEF SamePublication
<1>6. CASE floodfill # {} /\ ~dest.requests[x].open /\ dest' = SendLeaseSetRequest(d2, x, floodfill)
  <2>1. dest \in State BY DEF Sound
  <2>2. floodfill \in SUBSET DFloodfills BY <2>1, ClosestIsKnown
  <2>3. q \in Request /\ q.open = TRUE /\ q.callback = c
    BY <1>1 DEF NoRequest, Request
  <2>4. d2 = WithRequest(d, x, q, d.requestTimer[x])
    BY <1>1, <1>3 DEF WithRequest, State
  <2>5. d.requestTimer[x] \in TimerState BY <1>1, <1>3 DEF State
  <2> HIDE DEF x, q, d2, floodfill
  <2>6. /\ d2 \in State /\ SamePublication(d, d2)
        /\ d2.posted = d.posted /\ d2.begun = d.begun /\ d2.calls = d.calls
        /\ d2.unanswered = d.unanswered /\ d2.requests[x] = q
        /\ \A y \in DDests \ {x} : /\ d2.requests[y] = d.requests[y]
                                   /\ d2.requestTimer[y] = d.requestTimer[y]
    BY <1>1, <1>3, <2>3, <2>4, <2>5, WithRequestType
  <2>7. OthersTimed(d2, x) BY <1>1, <2>6 DEF TimersOK, OthersTimed, SamePublication
  <2>8. c # DNobody BY <1>1, DestinationAssumption
  <2>9. c \in DOMAIN d.case.wanted /\ d.case.wanted[c] = x
    <3>1. d.case = dest.case BY <1>1 DEF SamePublication
    <3> QED BY <1>1, <3>1 DEF Between, x
  <2>10. d.requests[x].callback = DNobody
    <3>1. CallbackOK(d, x) /\ ~d.requests[x].open BY <1>1, <1>3, <1>6 DEF Between
    <3> QED BY <3>1 DEF CallbackOK
  <2>11. \A y \in DDests : CallbackOK(d2, y)
    BY <1>1, <2>3, <2>6, <2>9 DEF Between, CallbackOK, SamePublication
  <2>12. ASSUME NEW b \in DCallers \ {c} PROVE CallerOK(d2, b)
    <3>1. b # DNobody BY DestinationAssumption
    <3>2. Asking(d2, b) <=> Asking(d, b)
      BY <2>3, <2>6, <2>10, <3>1 DEF Asking
    <3>3. CallerOK(d, b) BY <1>1 DEF Between
    <3> QED BY <2>6, <3>2, <3>3 DEF CallerOK, Posted
  <2>13. Asking(d2, c) BY <1>3, <2>3, <2>6 DEF Asking
  <2>14. CallerOK(d2, c) BY <1>1, <2>6, <2>13 DEF Between, CallerOK, Posted
  <2>15. \A b \in DCallers : CallerOK(d2, b) BY <2>12, <2>14
  <2>16. CallersOK(d2)
    BY <1>1, <2>6, <2>11, <2>15 DEF Between, CallersOK, SamePublication
  <2>17. dest' \in State /\ SamePublication(d2, dest') /\ TimersOK(dest') /\ CallersOK(dest')
    BY <1>3, <1>6, <2>2, <2>6, <2>7, <2>16, SendSound
  <2> QED BY <1>1, <2>6, <2>17, RequestStep DEF SamePublication
<1> QED BY <1>2, <1>4, <1>5, <1>6

LEMMA HandleDatabaseStoreMessageStep ==
  ASSUME Sound(dest), NEW x \in DDests, NEW content \in {"LeaseSet", "invalid", "other"},
         HandleDatabaseStoreMessage(x, content)
  PROVE  Sound(dest')
<1> DEFINE r == CASE content = "LeaseSet" -> "live"
                  [] content = "invalid" -> "none"
                  [] OTHER -> dest.remote[x]
           rs == [dest.remote EXCEPT ![x] = r]
           d  == [dest EXCEPT !.remote = rs]
<1>1. dest \in State /\ TimersOK(dest) /\ CallersOK(dest) BY DEF Sound
<1>2. rs \in [DDests -> {"none", "live", "expired"}]
  <2>1. dest.remote \in [DDests -> {"none", "live", "expired"}] BY <1>1 DEF State
  <2>2. r \in {"none", "live", "expired"} BY <2>1
  <2> HIDE DEF r
  <2> QED BY <2>1, <2>2
<1>3. dest' = IF d.requests[x].open THEN EndRequest(d, x) ELSE d
  BY DEF HandleDatabaseStoreMessage
<1> HIDE DEF rs
<1>4. d \in State /\ SameRequests(dest, d) /\ SamePublication(dest, d)
  BY <1>1, <1>2 DEF State, SameRequests, SamePublication
<1> HIDE DEF d
<1>5. TimersOK(d) /\ CallersOK(d) BY <1>1, <1>4, RequestsKept
<1>6. OthersTimed(d, x) BY <1>5 DEF TimersOK, OthersTimed
<1>7. dest' \in State /\ SamePublication(d, dest') /\ TimersOK(dest') /\ CallersOK(dest')
  BY <1>3, <1>4, <1>5, <1>6, EndRequestSound DEF SamePublication
<1> QED BY <1>4, <1>7, RequestStep DEF SamePublication

LEMMA HandleDatabaseSearchReplyMessageStep ==
  ASSUME Sound(dest), NEW x \in DDests, NEW suggested,
         HandleDatabaseSearchReplyMessage(x, suggested)
  PROVE  Sound(dest')
<1> DEFINE known == suggested \cap dest.case.floodfills
           d(left) == [dest EXCEPT !.lookups[x] = left]
<1>1. dest \in State /\ TimersOK(dest) /\ CallersOK(dest) BY DEF Sound
<1>2. PICK left \in LookupsLeft(x, suggested) :
        dest' = SendLeaseSetRequest(d(left), x, known) \/ dest' = EndRequest(d(left), x)
  BY Zenon DEF HandleDatabaseSearchReplyMessage
<1>3. known \in SUBSET DFloodfills BY <1>1, DestinationAssumption DEF State
<1>4. left \in SUBSET Lookup
  <2>1. dest.lookups[x] \in SUBSET Lookup BY <1>1 DEF State
  <2> QED BY <2>1 DEF LookupsLeft
<1>5. d(left) \in State /\ SameRequests(dest, d(left)) /\ SamePublication(dest, d(left))
  BY <1>1, <1>4, LookupsChange
<1> HIDE DEF known, d
<1>6. TimersOK(d(left)) /\ CallersOK(d(left)) BY <1>1, <1>5, RequestsKept
<1>7. OthersTimed(d(left), x) BY <1>6 DEF TimersOK, OthersTimed
<1>8. /\ dest' \in State /\ SamePublication(d(left), dest')
      /\ TimersOK(dest') /\ CallersOK(dest')
  BY <1>2, <1>3, <1>5, <1>6, <1>7, SendSound, EndRequestSound
<1> QED BY <1>5, <1>8, RequestStep DEF SamePublication

\* Only the timer of one request changes.
LEMMA TimerChanges ==
  ASSUME NEW d \in State, NEW x \in DDests, NEW t \in TimerState, CallersOK(d)
  PROVE  LET new == [d EXCEPT !.requestTimer[x] = t] IN
         /\ new \in State /\ SamePublication(d, new) /\ CallersOK(new)
         /\ new.requests = d.requests /\ new.requestTimer[x] = t
         /\ \A y \in DDests \ {x} : new.requestTimer[y] = d.requestTimer[y]
<1> DEFINE ts  == [d.requestTimer EXCEPT ![x] = t]
           new == [d EXCEPT !.requestTimer = ts]
<1>1. /\ ts \in [DDests -> TimerState] /\ ts[x] = t
      /\ \A y \in DDests \ {x} : ts[y] = d.requestTimer[y]
  BY DEF State
<1> HIDE DEF ts
<1>2. /\ new \in State /\ SamePublication(d, new) /\ new.requests = d.requests
      /\ new.requestTimer = ts /\ new.posted = d.posted /\ new.begun = d.begun
      /\ new.calls = d.calls /\ new.unanswered = d.unanswered
  BY <1>1 DEF State, SamePublication
<1> HIDE DEF new
<1>3. CallersOK(new)
  BY <1>2 DEF CallersOK, CallbackOK, CallerOK, Posted, Asking, SamePublication
<1> QED BY <1>1, <1>2, <1>3 DEF new, ts

LEMMA RequestTimerExpiresStep ==
  ASSUME Sound(dest), NEW x \in DDests, RequestTimerExpires(x) PROVE Sound(dest')
<1> DEFINE t == [armed |-> FALSE, queued |-> dest.requestTimer[x].queued + 1]
<1>1. dest \in State /\ TimersOK(dest) /\ CallersOK(dest) BY DEF Sound
<1>2. t \in TimerState /\ Waiting(t)
  <2>1. dest.requestTimer[x] \in TimerState /\ dest.requestTimer[x].queued < MaxQueued
    BY <1>1 DEF State, RequestTimerExpires
  <2> QED BY <2>1 DEF TimerState, Waiting, MaxQueued
<1>3. dest' = [dest EXCEPT !.requestTimer[x] = t] BY DEF RequestTimerExpires
<1> HIDE DEF t
<1>4. /\ dest' \in State /\ SamePublication(dest, dest') /\ CallersOK(dest')
      /\ dest'.requests = dest.requests /\ dest'.requestTimer[x] = t
      /\ \A y \in DDests \ {x} : dest'.requestTimer[y] = dest.requestTimer[y]
  BY <1>1, <1>2, <1>3, TimerChanges
<1>5. TimersOK(dest') BY <1>1, <1>2, <1>4 DEF TimersOK, SamePublication
<1> QED BY <1>4, <1>5, RequestStep

LEMMA HandleRequestTimoutTimerStep ==
  ASSUME Sound(dest), NEW x \in DDests, HandleRequestTimoutTimer(x) PROVE Sound(dest')
<1> DEFINE t == [dest.requestTimer[x] EXCEPT !.queued = @ - 1]
           d == [dest EXCEPT !.requestTimer[x].queued = @ - 1]
           floodfill == ClosestFloodfill(d, d.requests[x].excluded)
<1>1. dest \in State /\ TimersOK(dest) /\ CallersOK(dest) BY DEF Sound
<1>2. t \in TimerState
  <2>1. dest.requestTimer[x] \in TimerState /\ dest.requestTimer[x].queued > 0
    BY <1>1 DEF State, HandleRequestTimoutTimer
  <2> QED BY <2>1 DEF TimerState, MaxQueued
<1>3. d = [dest EXCEPT !.requestTimer[x] = t] BY <1>1 DEF State
<1>4. \/ dest' = d /\ ~d.requests[x].open
      \/ floodfill # {} /\ dest' = SendLeaseSetRequest(d, x, floodfill)
      \/ dest' = EndRequest(d, x)
  BY Zenon DEF HandleRequestTimoutTimer
<1> HIDE DEF t, d
<1>5. /\ d \in State /\ SamePublication(dest, d) /\ CallersOK(d)
      /\ d.requests = dest.requests
      /\ \A y \in DDests \ {x} : d.requestTimer[y] = dest.requestTimer[y]
  BY <1>1, <1>2, <1>3, TimerChanges
<1>6. OthersTimed(d, x) BY <1>1, <1>5 DEF TimersOK, OthersTimed, SamePublication
<1>7. CASE dest' = d /\ ~d.requests[x].open
  <2>1. TimersOK(d) BY <1>6, <1>7 DEF TimersOK, OthersTimed
  <2> QED BY <1>5, <1>7, <2>1, RequestStep
<1>8. CASE dest' = SendLeaseSetRequest(d, x, floodfill)
  <2>1. floodfill \in SUBSET DFloodfills BY <1>5, ClosestIsKnown
  <2> HIDE DEF floodfill
  <2>2. dest' \in State /\ SamePublication(d, dest') /\ TimersOK(dest') /\ CallersOK(dest')
    BY <1>5, <1>6, <1>8, <2>1, SendSound
  <2> QED BY <1>5, <2>2, RequestStep DEF SamePublication
<1>9. CASE dest' = EndRequest(d, x)
  <2>1. dest' \in State /\ SamePublication(d, dest') /\ TimersOK(dest') /\ CallersOK(dest')
    BY <1>5, <1>6, <1>9, EndRequestSound
  <2> QED BY <1>5, <2>1, RequestStep DEF SamePublication
<1> QED BY <1>4, <1>7, <1>8, <1>9
-----------------------------------------------------------------------------
(***************************************************************************)
(* The rest of the world, the start and the end.                           *)
(***************************************************************************)
\* Known LeaseSets and tunnels are no part of any wait.
LEMMA WorldStep ==
  ASSUME Sound(dest), dest' \in State,
         SameRequests(dest, dest'), SamePublication(dest, dest')
  PROVE  Sound(dest')
BY RequestsKept, PublicationKept DEF Sound

LEMMA LeasesExpireStep ==
  ASSUME Sound(dest), NEW x \in DDests, LeasesExpire(x) PROVE Sound(dest')
<1> DEFINE rs == [dest.remote EXCEPT ![x] = "expired"]
<1>1. dest \in State BY DEF Sound
<1>2. rs \in [DDests -> {"none", "live", "expired"}] BY <1>1 DEF State
<1>3. dest' = [dest EXCEPT !.remote = rs] BY DEF LeasesExpire
<1> HIDE DEF rs
<1> QED BY <1>1, <1>2, <1>3, WorldStep DEF State, SameRequests, SamePublication

LEMMA HandleCleanupTimerStep ==
  ASSUME Sound(dest), HandleCleanupTimer PROVE Sound(dest')
<1> DEFINE rs == [x \in DDests |-> IF dest.remote[x] = "expired" THEN "none" ELSE dest.remote[x]]
<1>1. dest \in State BY DEF Sound
<1>2. rs \in [DDests -> {"none", "live", "expired"}] BY <1>1 DEF State
<1>3. dest' = [dest EXCEPT !.remote = rs] BY DEF HandleCleanupTimer
<1> HIDE DEF rs
<1> QED BY <1>1, <1>2, <1>3, WorldStep DEF State, SameRequests, SamePublication

LEMMA TunnelsChangeStep == ASSUME Sound(dest), TunnelsChange PROVE Sound(dest')
<1>1. dest \in State BY DEF Sound
<1>2. dest' = [dest EXCEPT !.tunnels = ~dest.tunnels] BY DEF TunnelsChange
<1>3. dest' \in State BY <1>1, <1>2 DEF State
<1>4. SameRequests(dest, dest') /\ SamePublication(dest, dest')
  BY <1>1, <1>2 DEF State, SameRequests, SamePublication
<1> QED BY <1>3, <1>4, WorldStep

LEMMA StopDestinationStep == ASSUME Sound(dest), StopDestination PROVE Sound(dest')
<1> DEFINE none == {c \in dest.unanswered \cup dest.begun : dest.calls[c] = 0}
           rs   == [x \in DDests |-> NoRequest]
           ts   == [x \in DDests |-> Timer]
<1>1. dest \in State /\ PublicationOK(dest) /\ CallersOK(dest) BY DEF Sound
<1>2. dest' = [dest EXCEPT !.running = FALSE, !.posted = <<>>, !.requests = rs,
                 !.requestTimer = ts, !.publishTimer = Timer, !.unanswered = none]
  BY <1>1 DEF StopDestination, State
<1>3. Timer \in TimerState BY DEF Timer, TimerState, MaxQueued
<1>4. /\ rs \in [DDests -> Request] /\ ts \in [DDests -> TimerState]
      /\ \A x \in DDests : ~rs[x].open /\ rs[x].callback = DNobody
  BY <1>3 DEF NoRequest, Request
<1>5. none \in SUBSET DCallers /\ none \subseteq dest.begun /\ <<>> \in Seq(DCallers)
  BY <1>1 DEF State, CallersOK
<1>6. \A c \in DCallers : c \in none <=> c \in dest.begun /\ dest.calls[c] = 0
  BY <1>1 DEF CallersOK
<1> HIDE DEF none, rs, ts
<1>7. /\ dest' \in State /\ dest'.requests = rs /\ dest'.posted = <<>>
      /\ dest'.unanswered = none /\ ~dest'.running
  BY <1>1, <1>2, <1>3, <1>4, <1>5 DEF State
<1>8. /\ dest'.case = dest.case /\ dest'.begun = dest.begun /\ dest'.calls = dest.calls
      /\ dest'.leaseSet = dest.leaseSet /\ dest'.token = dest.token
      /\ dest'.tokens = dest.tokens /\ dest'.excludedFloodfills = dest.excludedFloodfills
      /\ dest'.stores = dest.stores /\ dest'.statuses = dest.statuses
      /\ dest'.stored = dest.stored /\ dest'.confirmed = dest.confirmed
  BY <1>1, <1>2 DEF State
<1>9. PublicationOK(dest') BY <1>1, <1>7, <1>8 DEF PublicationOK
<1>10. TimersOK(dest') BY <1>7 DEF TimersOK
<1>11. CallersOK(dest')
  <2>1. DOMAIN <<>> = {} OBVIOUS
  <2>2. \A x \in DDests : CallbackOK(dest', x) BY <1>4, <1>7 DEF CallbackOK
  <2>3. ASSUME NEW c \in DCallers PROVE CallerOK(dest', c)
    <3>1. ~Posted(dest', c) BY <1>7, <2>1 DEF Posted
    <3>2. ~Asking(dest', c) BY <1>4, <1>7, DestinationAssumption DEF Asking
    <3>3. CallerOK(dest, c) BY <1>1 DEF CallersOK
    <3>4. dest.calls[c] \in {0, 1} /\ (dest.calls[c] = 1 => c \in dest.begun)
      BY <3>3 DEF CallerOK
    <3> QED BY <1>6, <1>7, <1>8, <3>1, <3>2, <3>4 DEF CallerOK
  <2> QED BY <1>5, <1>7, <1>8, <2>1, <2>2, <2>3 DEF CallersOK
<1> QED BY <1>7, <1>9, <1>10, <1>11 DEF Sound

LEMMA InitSound == DestinationInit => Sound(dest)
<1> SUFFICES ASSUME NEW c \in DCases, DestinationInitWith(c) PROVE Sound(dest)
  BY DEF DestinationInit
<1>1. Timer \in TimerState /\ NoRequest \in Request
  BY DEF Timer, TimerState, MaxQueued, NoRequest, Request
<1>2. <<>> \in Seq(DCallers) /\ DOMAIN <<>> = {} OBVIOUS
<1>3. dest \in State BY <1>1, <1>2 DEF DestinationInitWith, State
<1>4. /\ dest.case = c /\ dest.leaseSet = 0 /\ dest.token = 0 /\ dest.tokens = 0
      /\ dest.excludedFloodfills = {} /\ dest.stores = {} /\ dest.statuses = {}
      /\ dest.stored = {} /\ dest.confirmed = {} /\ dest.posted = <<>>
      /\ dest.begun = {} /\ dest.unanswered = {}
      /\ \A b \in DCallers : dest.calls[b] = 0
      /\ \A x \in DDests : ~dest.requests[x].open /\ dest.requests[x].callback = DNobody
  BY DEF DestinationInitWith, NoRequest
<1>5. PublicationOK(dest)
  <2>1. c.updates \in Nat BY DestinationAssumption
  <2> QED BY <1>4, <2>1 DEF PublicationOK
<1>6. TimersOK(dest) BY <1>4 DEF TimersOK
<1>7. \A b \in DCallers : CallerOK(dest, b)
  BY <1>2, <1>4, DestinationAssumption DEF CallerOK, Posted, Asking
<1>8. CallersOK(dest) BY <1>2, <1>4, <1>7 DEF CallersOK, CallbackOK
<1> QED BY <1>3, <1>5, <1>6, <1>8 DEF Sound

LEMMA NextSound == IInv /\ [DestinationNext]_destVars => IInv'
<1> SUFFICES ASSUME Sound(dest), [DestinationNext]_destVars PROVE Sound(dest')
  BY DEF IInv
<1>1. CASE DestLeaseSetUpdated BY <1>1, DestLeaseSetUpdatedStep
<1>2. CASE PublishTimerExpires BY <1>2, PublishTimerExpiresStep
<1>3. CASE HandlePublishConfirmationTimer BY <1>3, HandlePublishConfirmationTimerStep
<1>4. CASE \E t \in 1..dest.tokens : HandlePublishConfirmation(t) \/ FloodfillStores(t)
  BY <1>4, HandlePublishConfirmationStep, FloodfillStoresStep
<1>5. CASE \E c \in DCallers : Begin(c) BY <1>5, BeginStep
<1>6. CASE RequestLeaseSet BY <1>6, RequestLeaseSetStep
<1>7. ASSUME NEW x \in DDests, NEW content \in {"LeaseSet", "invalid", "other"},
             HandleDatabaseStoreMessage(x, content)
      PROVE  Sound(dest')
  BY <1>7, HandleDatabaseStoreMessageStep
<1>8. ASSUME NEW x \in DDests, NEW s, HandleDatabaseSearchReplyMessage(x, s) PROVE Sound(dest')
  BY <1>8, HandleDatabaseSearchReplyMessageStep
<1>9. ASSUME NEW x \in DDests, RequestTimerExpires(x) PROVE Sound(dest')
  BY <1>9, RequestTimerExpiresStep
<1>10. ASSUME NEW x \in DDests, HandleRequestTimoutTimer(x) PROVE Sound(dest')
  BY <1>10, HandleRequestTimoutTimerStep
<1>11. ASSUME NEW x \in DDests, LeasesExpire(x) PROVE Sound(dest')
  BY <1>11, LeasesExpireStep
<1>12. CASE HandleCleanupTimer BY <1>12, HandleCleanupTimerStep
<1>13. CASE TunnelsChange BY <1>13, TunnelsChangeStep
<1>14. CASE StopDestination BY <1>14, StopDestinationStep
<1>15. CASE UNCHANGED destVars BY <1>15 DEF destVars
<1> QED BY <1>1, <1>2, <1>3, <1>4, <1>5, <1>6, <1>7, <1>8, <1>9, <1>10, <1>11, <1>12,
           <1>13, <1>14, <1>15 DEF DestinationNext

\* In every behaviour each wait has its timer and each callback its one place.
THEOREM Soundness == DestinationSpec => []IInv
<1>1. DestinationInit => IInv BY InitSound DEF IInv
<1> QED BY <1>1, NextSound, PTL DEF DestinationSpec

\* Where the callback of a caller is in one place, the sum over all places is one.
LEMMA PlacesAddUp == Sound(dest) => AnsweredOnce
<1> SUFFICES ASSUME Sound(dest), NEW c \in DCallers
             PROVE  dest.calls[c]
                      + Cardinality({i \in DOMAIN dest.posted : dest.posted[i] = c})
                      + Cardinality({x \in DDests : dest.requests[x].callback = c})
                      = IF c \in dest.begun \ dest.unanswered THEN 1 ELSE 0
  BY DEF AnsweredOnce
<1> DEFINE P == {i \in DOMAIN dest.posted : dest.posted[i] = c}
           A == {x \in DDests : dest.requests[x].callback = c}
<1>1. CallersOK(dest) /\ CallerOK(dest, c) BY DEF Sound, CallersOK
<1>2. Cardinality(P) = IF Posted(dest, c) THEN 1 ELSE 0
  <2>1. CASE Posted(dest, c)
    <3>1. PICK i \in DOMAIN dest.posted : dest.posted[i] = c BY <2>1 DEF Posted
    <3>2. P = {i} BY <1>1, <3>1 DEF CallersOK
    <3> QED BY <2>1, <3>2, FS_Singleton
  <2>2. CASE ~Posted(dest, c)
    <3>1. P = {} BY <2>2 DEF Posted
    <3> QED BY <2>2, <3>1, FS_EmptySet
  <2> QED BY <2>1, <2>2
<1>3. Cardinality(A) = IF Asking(dest, c) THEN 1 ELSE 0
  <2>1. CASE Asking(dest, c)
    <3>1. PICK x \in DDests : dest.requests[x].callback = c BY <2>1 DEF Asking
    <3>2. \A y \in A : dest.case.wanted[c] = y
      BY <1>1, DestinationAssumption DEF CallersOK, CallbackOK
    <3>3. A = {x} BY <3>1, <3>2
    <3> QED BY <2>1, <3>3, FS_Singleton
  <2>2. CASE ~Asking(dest, c)
    <3>1. A = {} BY <2>2 DEF Asking
    <3> QED BY <2>2, <3>1, FS_EmptySet
  <2> QED BY <2>1, <2>2
<1> HIDE DEF P, A
<1>4. dest.calls[c] + Cardinality(P) + Cardinality(A)
        = IF c \in dest.begun \ dest.unanswered THEN 1 ELSE 0
  BY <1>1, <1>2, <1>3 DEF CallerOK
<1> QED BY <1>4 DEF P, A

LEMMA TypesFromSound == Sound(dest) => DestinationTypeOK
<1> SUFFICES ASSUME Sound(dest) PROVE DestinationTypeOK
  OBVIOUS
<1>1. dest \in State /\ PublicationOK(dest) /\ CallersOK(dest) BY DEF Sound
<1>2. ASSUME NEW x \in DDests
      PROVE  /\ dest.requests[x].excluded \subseteq DFloodfills
             /\ dest.requests[x].callback \in DCallers \cup {DNobody}
             /\ dest.requestTimer[x].queued \in 0..MaxQueued
  <2>1. dest.requests[x] \in Request /\ dest.requestTimer[x] \in TimerState
    BY <1>1 DEF State
  <2> QED BY <2>1 DEF Request, TimerState
<1>3. dest.unanswered \subseteq dest.begun BY <1>1 DEF CallersOK
<1>4. /\ dest.begun \subseteq DCallers
      /\ dest.remote \in [DDests -> {"none", "live", "expired"}]
  BY <1>1 DEF State
<1>5. /\ dest.leaseSet \in 0..dest.case.updates
      /\ dest.token \in 0..dest.tokens
      /\ dest.excludedFloodfills \subseteq dest.case.floodfills
      /\ dest.stores \cup dest.statuses \cup dest.stored \cup dest.confirmed \subseteq 1..dest.tokens
  BY <1>1 DEF PublicationOK
<1> QED BY <1>2, <1>3, <1>4, <1>5 DEF DestinationTypeOK

\* A destination waits for nothing without a timer, takes for published only what
\* a floodfill has, and answers whoever asks for a LeaseSet once, whatever stale
\* handlers, late replies, missing tunnels and its own stop come between.
THEOREM DestinationSafety == DestinationSpec => []DestinationSafe
<1>1. Sound(dest) => WaitHasTimer /\ ConfirmedIsStored
  BY DEF Sound, PublicationOK, TimersOK, WaitHasTimer, ConfirmedIsStored
<1>2. IInv => DestinationSafe
  BY <1>1, PlacesAddUp, TypesFromSound DEF DestinationSafe, IInv
<1> QED BY <1>2, Soundness, PTL

-----------------------------------------------------------------------------
(***************************************************************************)
(* I2P tunnels (I2PTunnel.tla), for any data, access and faults.           *)
(*                                                                         *)
(* TunnelSound of the tunnel's record: where the connection stands, and    *)
(* with it socket and stream (Phase); that each direction has one          *)
(* operation while it is up (OpsOK); who is in m_Handlers (HandlersOK);    *)
(* that what was relayed to the network is the beginning of what the       *)
(* application sent (ToNetOK); and that the places of what was written to  *)
(* the socket and of what was cut make up the first places of what the     *)
(* network sent, but for what m_StreamBuffer holds (ToAppOK).              *)
(***************************************************************************)
\* The values of each part.
SocketStates == {"none", "open", "closed"}
StreamStates == {"none", "open", "closing", "reset", "closed"}
Reads == {"none", "waiting", "data", "error", "aborted"}
Writes == {"none", "waiting", "done", "error", "aborted"}
Sends == {"none", "waiting", "done", "error"}
StreamReads == {"none", "waiting", "data", "reset", "timed_out", "aborted"}
TunnelRecord ==
  [case: I2PTunnelCases, started: BOOLEAN, accepting: BOOLEAN, ident: BOOLEAN, known: BOOLEAN,
   m_Handlers: SUBSET {"handler", "conn"},
   handler: {"none", "asking", "stranded", "dead"}, conn: {"none", "connecting", "up", "dead"},
   socket: SocketStates, stream: StreamStates, rd: Reads, wr: Writes, snd: Sends,
   srd: StreamReads,
   m_Buffer: Seq(Nat), m_StreamBuffer: Seq(Nat), m_Stream: BOOLEAN,
   taken: Nat, given: Nat, toNet: Seq(Nat), toApp: Seq(Nat), cut: SUBSET Nat,
   rejected: BOOLEAN]

\* Nothing was relayed.
Untouched(t) ==
  /\ t.taken = 0 /\ t.given = 0 /\ t.toNet = <<>> /\ t.toApp = <<>> /\ t.cut = {}

\* Where the connection stands, and what its socket and stream are then.
Phase(t) ==
  /\ t.conn = "none" =>
       /\ Untouched(t) /\ ~t.m_Stream
       /\ t.handler \in {"none", "asking"} => t.stream \in {"none", "closing", "closed"}
       /\ t.socket = (CASE t.handler = "none" -> "none"
                        [] t.handler \in {"asking", "stranded"} -> "open"
                        [] OTHER -> "closed")
  /\ t.conn # "none" => t.handler \notin {"asking", "stranded"}
  /\ t.conn = "connecting" =>
       /\ Untouched(t) /\ t.m_Stream /\ t.stream \in {"open", "reset"}
       /\ t.socket = "none"
  /\ t.conn = "up" =>
       /\ t.m_Stream /\ t.stream \in {"open", "reset"} /\ t.socket = "open"
  /\ t.conn = "dead" =>
       /\ ~t.m_Stream /\ t.stream \in {"closing", "reset", "closed"} /\ t.socket = "closed"

\* Which operations are under way: while the connection is up one in each
\* direction, the read or what is done with its data.
OpsOK(t) ==
  /\ t.conn \in {"none", "connecting"} =>
       t.rd = "none" /\ t.wr = "none" /\ t.snd = "none" /\ t.srd = "none"
  /\ t.conn = "up" =>
       /\ (t.rd = "none") # (t.snd = "none") /\ t.rd # "aborted"
       /\ (t.srd = "none") # (t.wr = "none") /\ t.srd # "aborted" /\ t.wr # "aborted"
  /\ t.conn = "dead" => t.rd # "waiting" /\ t.wr # "waiting"

\* Who is in m_Handlers.
HandlersOK(t) ==
  /\ "conn" \in t.m_Handlers => t.conn \in {"connecting", "up"}
  /\ "handler" \in t.m_Handlers => t.handler \in {"asking", "stranded"}
  /\ t.handler = "stranded" => "handler" \in t.m_Handlers /\ May(t, "gone")
  /\ ~May(t, "stop") =>
       /\ t.conn \in {"connecting", "up"} => "conn" \in t.m_Handlers
       /\ t.handler = "asking" => "handler" \in t.m_Handlers
  /\ t.handler # "none" => t.case.side = "client"
  /\ t.case.side = "client" /\ t.conn = "none" /\ t.handler \in {"none", "asking"} =>
       t.stream = "none"
  /\ t.case.side = "client" /\ t.conn # "none" => t.handler = "dead"

\* From the application to the network.
ToNetOK(t) ==
  /\ t.taken <= Len(t.case.app)
  /\ \E n \in 0 .. t.taken :
       /\ t.toNet \o (IF t.rd = "data" /\ t.m_Stream THEN t.m_Buffer ELSE <<>>)
            = SubSeq(t.case.app, 1, n)
       /\ t.conn # "dead" => n = t.taken

\* The octets in m_StreamBuffer that are still to be written.
ToWrite(t) == IF t.srd = "data" \/ t.wr \in {"waiting", "error"} THEN Len(t.m_StreamBuffer) ELSE 0

\* Of the first m places some are cut and f counts the others.
Counts(f, k, m, cut) ==
  /\ cut \subseteq 1 .. m
  /\ \A i \in 1 .. k : f[i] \in 1 .. m
  /\ \A i, j \in 1 .. k : i < j => f[i] < f[j]
  /\ \A p \in 1 .. m : p \in cut <=> \A j \in 1 .. k : f[j] # p

\* f are the places of what was written, and the first m places are settled.
Placed(t, f, m) ==
  /\ \A i \in 1 .. Len(t.toApp) : t.toApp[i] = t.case.net[f[i]]
  /\ Counts(f, Len(t.toApp), m, t.cut)
  /\ t.conn # "dead" => m = t.given - ToWrite(t)

ToAppOK(t) ==
  /\ t.given <= Len(t.case.net)
  /\ t.conn # "dead" =>
       /\ ToWrite(t) <= t.given
       /\ ToWrite(t) > 0 => t.m_StreamBuffer = Chunk(t.case.net, t.given - ToWrite(t), ToWrite(t))
  /\ \E m \in 0 .. t.given : \E f \in [1 .. Len(t.toApp) -> 1 .. t.given] : Placed(t, f, m)

TunnelSound(t) ==
  /\ t \in TunnelRecord
  /\ Phase(t)
  /\ OpsOK(t)
  /\ HandlersOK(t)
  /\ ToNetOK(t)
  /\ ToAppOK(t)

-----------------------------------------------------------------------------
\* What the two directions of a record u are made of is that of t, or the
\* connection has ended and what was on its way is dropped.
SameData(t, u) ==
  /\ u.case = t.case /\ u.taken = t.taken /\ u.given = t.given
  /\ u.toNet = t.toNet /\ u.toApp = t.toApp /\ u.cut = t.cut
  /\ u.m_Buffer = t.m_Buffer /\ u.m_StreamBuffer = t.m_StreamBuffer

LEMMA Prefix ==
  ASSUME NEW s \in Seq(Nat), NEW n \in 0 .. Len(s), NEW a \in Seq(Nat), NEW b \in Seq(Nat),
         a \o b = SubSeq(s, 1, n)
  PROVE  Len(a) <= n /\ a = SubSeq(s, 1, Len(a))
<1>1. /\ SubSeq(s, 1, n) \in Seq(Nat) /\ Len(SubSeq(s, 1, n)) = n
      /\ \A i \in 1 .. n : SubSeq(s, 1, n)[i] = s[i]
  BY SubSeqProperties
<1>2. Len(a \o b) = Len(a) + Len(b) /\ \A i \in 1 .. Len(a) : (a \o b)[i] = a[i]
  BY ConcatProperties
<1>3. Len(a) \in 0 .. n BY <1>1, <1>2
<1>4. /\ SubSeq(s, 1, Len(a)) \in Seq(Nat) /\ Len(SubSeq(s, 1, Len(a))) = Len(a)
      /\ \A i \in 1 .. Len(a) : SubSeq(s, 1, Len(a))[i] = s[i]
  BY <1>3, SubSeqProperties
<1>5. \A i \in 1 .. Len(a) : a[i] = SubSeq(s, 1, Len(a))[i] BY <1>1, <1>2, <1>3, <1>4
<1> QED BY <1>3, <1>4, <1>5, SeqEqual

LEMMA NothingAdded == \A a \in Seq(Nat) : a \o <<>> = a
BY ConcatEmptySeq

LEMMA NetKept ==
  ASSUME NEW t \in TunnelRecord, NEW u \in TunnelRecord, ToNetOK(t), SameData(t, u),
         t.conn = "dead" => u.conn = "dead",
         \/ (u.rd = "data" /\ u.m_Stream) <=> (t.rd = "data" /\ t.m_Stream)
         \/ u.conn = "dead" /\ ~u.m_Stream
  PROVE  ToNetOK(u)
<1>1. t.toNet \in Seq(Nat) /\ t.m_Buffer \in Seq(Nat) /\ t.taken \in Nat BY DEF TunnelRecord
<1>2. t.case.app \in Seq(Nat) BY I2PTunnelAssumption DEF TunnelRecord
<1>3. CASE (u.rd = "data" /\ u.m_Stream) <=> (t.rd = "data" /\ t.m_Stream)
  BY <1>3 DEF ToNetOK, SameData
<1>4. CASE u.conn = "dead" /\ ~u.m_Stream
  <2>1. PICK n \in 0 .. t.taken :
          t.toNet \o (IF t.rd = "data" /\ t.m_Stream THEN t.m_Buffer ELSE <<>>)
            = SubSeq(t.case.app, 1, n)
    BY DEF ToNetOK
  <2>2. t.taken <= Len(t.case.app) BY DEF ToNetOK
  <2> DEFINE m == IF t.rd = "data" /\ t.m_Stream THEN t.m_Buffer ELSE <<>>
  <2>3. m \in Seq(Nat) BY <1>1, EmptySeq
  <2>4. n \in 0 .. Len(t.case.app) BY <1>1, <1>2, <2>2, LenProperties
  <2> HIDE DEF m
  <2>5. Len(t.toNet) <= n /\ t.toNet = SubSeq(t.case.app, 1, Len(t.toNet))
    BY <1>1, <1>2, <2>1, <2>3, <2>4, Prefix DEF m
  <2>6. Len(t.toNet) \in 0 .. u.taken BY <1>1, <2>5, LenProperties DEF SameData
  <2>7. u.toNet \o (IF u.rd = "data" /\ u.m_Stream THEN u.m_Buffer ELSE <<>>)
          = SubSeq(u.case.app, 1, Len(t.toNet))
    BY <1>1, <1>4, <2>5, NothingAdded DEF SameData
  <2> QED BY <1>4, <2>2, <2>6, <2>7 DEF ToNetOK, SameData
<1> QED BY <1>3, <1>4

LEMMA AppKept ==
  ASSUME NEW t \in TunnelRecord, NEW u \in TunnelRecord, ToAppOK(t), SameData(t, u),
         t.conn = "dead" => u.conn = "dead",
         u.conn = "dead" \/ ToWrite(u) = ToWrite(t)
  PROVE  ToAppOK(u)
<1>1. PICK m \in 0 .. t.given, f \in [1 .. Len(t.toApp) -> 1 .. t.given] : Placed(t, f, m)
  BY DEF ToAppOK
<1>2. m \in 0 .. u.given /\ f \in [1 .. Len(u.toApp) -> 1 .. u.given] BY DEF SameData
<1>3. CASE u.conn = "dead"
  <2>1. Placed(u, f, m) BY <1>1, <1>3 DEF Placed, SameData
  <2> QED BY <1>2, <1>3, <2>1 DEF ToAppOK, SameData
<1>4. CASE u.conn # "dead"
  <2>1. ToWrite(u) = ToWrite(t) /\ t.conn # "dead" BY <1>4
  <2>2. Placed(u, f, m) BY <1>1, <2>1 DEF Placed, SameData
  <2> QED BY <1>2, <2>1, <2>2 DEF ToAppOK, SameData
<1> QED BY <1>3, <1>4

\* What Terminate of the connection makes of a record.
LEMMA TerminateIs ==
  ASSUME NEW t \in TunnelRecord, t.conn # "dead"
  PROVE  LET u == TerminateConnection(t)
         IN  /\ u \in TunnelRecord /\ SameData(t, u)
             /\ u.conn = "dead" /\ u.socket = "closed" /\ ~u.m_Stream
             /\ u.handler = t.handler /\ u.m_Handlers = t.m_Handlers \ {"conn"}
             /\ u.stream = IF t.stream = "open" THEN "closing" ELSE t.stream
             /\ u.rd # "waiting" /\ u.wr # "waiting"
<1> DEFINE s == CloseStream(t)
           r == CloseSocket(s)
           u == TerminateConnection(t)
<1>1. s \in TunnelRecord
  <2> DEFINE stream == IF t.stream = "open" THEN "closing" ELSE t.stream
             snd == IF t.stream = "reset" /\ t.snd = "waiting" THEN "error" ELSE t.snd
  <2>1. stream \in StreamStates /\ snd \in Sends BY DEF TunnelRecord, StreamStates, Sends
  <2>2. s = [t EXCEPT !.stream = stream, !.m_Stream = FALSE, !.snd = snd] BY DEF CloseStream
  <2> HIDE DEF stream, snd, s
  <2> QED BY <2>1, <2>2 DEF TunnelRecord
<1>2. /\ SameData(t, s) /\ s.handler = t.handler /\ s.m_Handlers = t.m_Handlers /\ ~s.m_Stream
      /\ s.stream = IF t.stream = "open" THEN "closing" ELSE t.stream
  BY DEF TunnelRecord, CloseStream, SameData
<1>3. r \in TunnelRecord
  <2> DEFINE rd == IF s.rd = "waiting" THEN "aborted" ELSE s.rd
             wr == IF s.wr = "waiting" THEN "aborted" ELSE s.wr
  <2> HIDE DEF s
  <2>1. rd \in Reads /\ wr \in Writes /\ "closed" \in SocketStates
    BY <1>1 DEF TunnelRecord, Reads, Writes, SocketStates
  <2>2. r = [s EXCEPT !.socket = "closed", !.rd = rd, !.wr = wr] BY DEF CloseSocket
  <2> HIDE DEF rd, wr, r
  <2> QED BY <1>1, <2>1, <2>2 DEF TunnelRecord
<1>4. /\ SameData(s, r) /\ r.handler = s.handler /\ r.m_Handlers = s.m_Handlers
      /\ r.m_Stream = s.m_Stream /\ r.stream = s.stream
      /\ r.socket = "closed" /\ r.rd # "waiting" /\ r.wr # "waiting"
  BY <1>1 DEF TunnelRecord, CloseSocket, SameData
<1>5. u = [r EXCEPT !.conn = "dead", !.m_Handlers = @ \ {"conn"}] BY DEF TerminateConnection
<1> HIDE DEF r, s, u
<1>6. u \in TunnelRecord BY <1>3, <1>5 DEF TunnelRecord
<1>7. /\ SameData(r, u) /\ u.handler = r.handler /\ u.m_Handlers = r.m_Handlers \ {"conn"}
      /\ u.m_Stream = r.m_Stream /\ u.stream = r.stream /\ u.conn = "dead"
      /\ u.socket = r.socket /\ u.rd = r.rd /\ u.wr = r.wr
  BY <1>3, <1>5 DEF TunnelRecord, SameData
<1> QED BY <1>2, <1>4, <1>6, <1>7 DEF SameData, u

\* What an operation that ended changes of t: one operation of the socket or the
\* stream, or its result, and nothing else.
SameStanding(t, u) ==
  /\ u \in TunnelRecord
  /\ SameData(t, u)
  /\ u.handler = t.handler /\ u.conn = t.conn /\ u.m_Handlers = t.m_Handlers
  /\ u.socket = t.socket /\ u.stream = t.stream /\ u.m_Stream = t.m_Stream

\* A connection may end at any time, whatever handler ends it.
LEMMA EndSound ==
  ASSUME NEW t, TunnelSound(t), t.conn \in {"connecting", "up", "dead"},
         NEW u, SameStanding(t, u),
         u.conn = "dead" => u.rd # "waiting" /\ u.wr # "waiting"
  PROVE  TunnelSound(TerminateConnection(u))
<1>1. /\ t \in TunnelRecord /\ Phase(t) /\ HandlersOK(t) /\ ToNetOK(t) /\ ToAppOK(t)
      /\ u \in TunnelRecord /\ SameData(t, u)
  BY DEF TunnelSound, SameStanding
<1>2. CASE u.conn = "dead"
  <2>1. TerminateConnection(u) = u BY <1>2 DEF TerminateConnection
  <2>2. t.conn = "dead" BY <1>2 DEF SameStanding
  <2>3. Phase(u) /\ OpsOK(u) BY <1>1, <1>2, <2>2 DEF Phase, OpsOK, Untouched, SameStanding, SameData
  <2>4. HandlersOK(u) BY <1>1 DEF HandlersOK, SameStanding, SameData, May
  <2>5. ~u.m_Stream BY <1>2, <2>3 DEF Phase
  <2>6. ToNetOK(u) BY <1>1, <1>2, <2>5, NetKept
  <2>7. ToAppOK(u) BY <1>1, <1>2, AppKept
  <2> QED BY <1>1, <2>1, <2>3, <2>4, <2>6, <2>7 DEF TunnelSound
<1>3. CASE u.conn # "dead"
  <2> DEFINE v == TerminateConnection(u)
  <2>1. /\ v \in TunnelRecord /\ SameData(u, v)
        /\ v.conn = "dead" /\ v.socket = "closed" /\ ~v.m_Stream
        /\ v.handler = u.handler /\ v.m_Handlers = u.m_Handlers \ {"conn"}
        /\ v.stream = IF u.stream = "open" THEN "closing" ELSE u.stream
        /\ v.rd # "waiting" /\ v.wr # "waiting"
    BY <1>1, <1>3, TerminateIs
  <2> HIDE DEF v
  <2>2. /\ SameData(t, v) /\ v.handler = t.handler /\ v.m_Handlers = t.m_Handlers \ {"conn"}
        /\ t.conn \in {"connecting", "up"} /\ t.stream \in {"open", "reset"}
        /\ v.stream \in {"closing", "reset"}
    BY <1>1, <1>3, <2>1 DEF SameData, SameStanding, Phase
  <2>3. Phase(v) /\ OpsOK(v) BY <1>1, <2>1, <2>2 DEF Phase, OpsOK
  <2>4. HandlersOK(v) BY <1>1, <2>1, <2>2 DEF HandlersOK, SameData, May
  <2>5. ToNetOK(v) BY <1>1, <2>1, <2>2, NetKept
  <2>6. ToAppOK(v) BY <1>1, <2>1, <2>2, AppKept
  <2> QED BY <2>1, <2>3, <2>4, <2>5, <2>6 DEF TunnelSound, v
<1> QED BY <1>2, <1>3

\* The operations may end, and begin, as long as one in each direction is left.
LEMMA StandSound ==
  ASSUME NEW t, TunnelSound(t), NEW u, SameStanding(t, u), OpsOK(u),
         (u.rd = "data" /\ u.m_Stream) <=> (t.rd = "data" /\ t.m_Stream),
         u.conn = "dead" \/ ToWrite(u) = ToWrite(t)
  PROVE  TunnelSound(u)
<1>1. /\ t \in TunnelRecord /\ Phase(t) /\ HandlersOK(t) /\ ToNetOK(t) /\ ToAppOK(t)
      /\ u \in TunnelRecord /\ SameData(t, u) /\ u.conn = t.conn
  BY DEF TunnelSound, SameStanding
<1>2. Phase(u) BY <1>1 DEF Phase, Untouched, SameStanding, SameData
<1>3. HandlersOK(u) BY <1>1 DEF HandlersOK, SameStanding, SameData, May
<1>4. ToNetOK(u) BY <1>1, NetKept
<1>5. ToAppOK(u) BY <1>1, AppKept
<1> QED BY <1>1, <1>2, <1>3, <1>4, <1>5 DEF TunnelSound

SameOps(t, u) == u.rd = t.rd /\ u.wr = t.wr /\ u.snd = t.snd /\ u.srd = t.srd

LEMMA RestSound ==
  ASSUME NEW t, TunnelSound(t), NEW u, SameStanding(t, u), SameOps(t, u)
  PROVE  TunnelSound(u)
<1>1. OpsOK(u) BY DEF TunnelSound, OpsOK, SameOps, SameStanding
<1>2. ToWrite(u) = ToWrite(t) BY DEF ToWrite, SameOps, SameStanding, SameData
<1> QED BY <1>1, <1>2, StandSound DEF SameOps, SameStanding

-----------------------------------------------------------------------------
LEMMA StartClientStep == ASSUME TunnelSound(tunnel), StartClient PROVE TunnelSound(tunnel')
<1> DEFINE t == tunnel
<1>1. t \in TunnelRecord BY DEF TunnelSound
<1>2. tunnel' = [t EXCEPT !.started = TRUE, !.accepting = TRUE, !.ident = t.ident \/ t.known]
  BY <1>1 DEF StartClient, GetIdentHash, TunnelRecord
<1> HIDE DEF t
<1>3. SameStanding(t, tunnel') /\ SameOps(t, tunnel')
  BY <1>1, <1>2 DEF TunnelRecord, SameStanding, SameData, SameOps
<1> QED BY <1>3, RestSound DEF t

LEMMA StartServerStep == ASSUME TunnelSound(tunnel), StartServer PROVE TunnelSound(tunnel')
<1>1. tunnel \in TunnelRecord BY DEF TunnelSound
<1>2. CASE tunnel' = [tunnel EXCEPT !.started = TRUE, !.accepting = TRUE]
  <2>1. SameStanding(tunnel, tunnel') /\ SameOps(tunnel, tunnel')
    BY <1>1, <1>2 DEF TunnelRecord, SameStanding, SameData, SameOps
  <2> QED BY <2>1, RestSound
<1>3. CASE tunnel' = [tunnel EXCEPT !.started = TRUE]
  <2>1. SameStanding(tunnel, tunnel') /\ SameOps(tunnel, tunnel')
    BY <1>1, <1>3 DEF TunnelRecord, SameStanding, SameData, SameOps
  <2> QED BY <2>1, RestSound
<1> QED BY <1>2, <1>3 DEF StartServer

LEMMA AcceptFailsStep ==
  ASSUME TunnelSound(tunnel), AcceptFails \/ BookLearns PROVE TunnelSound(tunnel')
<1>1. tunnel \in TunnelRecord BY DEF TunnelSound
<1>2. CASE tunnel' = [tunnel EXCEPT !.accepting = FALSE]
  <2>1. SameStanding(tunnel, tunnel') /\ SameOps(tunnel, tunnel')
    BY <1>1, <1>2 DEF TunnelRecord, SameStanding, SameData, SameOps
  <2> QED BY <2>1, RestSound
<1>3. CASE tunnel' = [tunnel EXCEPT !.known = TRUE]
  <2>1. SameStanding(tunnel, tunnel') /\ SameOps(tunnel, tunnel')
    BY <1>1, <1>3 DEF TunnelRecord, SameStanding, SameData, SameOps
  <2> QED BY <2>1, RestSound
<1> QED BY <1>2, <1>3 DEF AcceptFails, BookLearns

LEMMA StopStep == ASSUME TunnelSound(tunnel), StopClient \/ StopServer PROVE TunnelSound(tunnel')
<1> DEFINE t == tunnel
           u == tunnel'
<1>1. /\ t \in TunnelRecord /\ Phase(t) /\ OpsOK(t) /\ HandlersOK(t) /\ ToNetOK(t) /\ ToAppOK(t)
  BY DEF TunnelSound
<1>2. /\ u \in TunnelRecord /\ SameData(t, u) /\ SameOps(t, u)
      /\ u.handler = IF t.handler = "stranded" THEN "dead" ELSE t.handler
      /\ u.socket = IF t.handler = "stranded" THEN "closed" ELSE t.socket
      /\ u.conn = t.conn /\ u.m_Handlers = {}
      /\ u.stream = t.stream /\ u.m_Stream = t.m_Stream
      /\ May(t, "stop")
  <2>1. CASE StopClient
    <3> DEFINE handler == IF t.handler = "stranded" THEN "dead" ELSE t.handler
               socket == IF t.handler = "stranded" THEN "closed" ELSE t.socket
    <3>1. u = [t EXCEPT !.accepting = FALSE, !.m_Handlers = {}, !.ident = FALSE,
                        !.handler = handler, !.socket = socket]
      BY <1>1, <2>1 DEF StopClient, TunnelRecord
    <3>2. handler \in {"none", "asking", "stranded", "dead"} /\ socket \in SocketStates
      BY <1>1 DEF TunnelRecord, SocketStates
    <3> HIDE DEF handler, socket
    <3>3. /\ u \in TunnelRecord /\ SameData(t, u) /\ SameOps(t, u)
          /\ u.handler = handler /\ u.socket = socket /\ u.conn = t.conn /\ u.m_Handlers = {}
          /\ u.stream = t.stream /\ u.m_Stream = t.m_Stream
      BY <1>1, <3>1, <3>2 DEF TunnelRecord, SameData, SameOps
    <3> QED BY <2>1, <3>3 DEF StopClient, handler, socket
  <2>2. CASE StopServer
    <3>1. t.handler # "stranded" BY <1>1, <2>2 DEF StopServer, HandlersOK
    <3> QED BY <1>1, <2>2, <3>1 DEF StopServer, TunnelRecord, SameData, SameOps
  <2> QED BY <2>1, <2>2
<1> HIDE DEF t, u
<1>3. Phase(u) BY <1>1, <1>2 DEF Phase, Untouched, SameData
<1>4. OpsOK(u) BY <1>1, <1>2 DEF OpsOK, SameOps
<1>5. HandlersOK(u) BY <1>1, <1>2 DEF HandlersOK, SameData, May
<1>6. ToNetOK(u) BY <1>1, <1>2, NetKept DEF SameOps
<1>7. ToWrite(u) = ToWrite(t) BY <1>2 DEF ToWrite, SameOps, SameData
<1>8. ToAppOK(u) BY <1>1, <1>2, <1>7, AppKept
<1> QED BY <1>2, <1>3, <1>4, <1>5, <1>6, <1>8 DEF TunnelSound, u

\* The ends of operations that carry no data.
LEMMA OperationEndsStep ==
  ASSUME TunnelSound(tunnel), SocketEnds \/ SocketWriteFails \/ StreamHasSent \/ StreamIdle
  PROVE  TunnelSound(tunnel')
<1> DEFINE t == tunnel
           u == tunnel'
<1>1. t \in TunnelRecord /\ OpsOK(t) BY DEF TunnelSound
<1>2. CASE t.rd = "waiting" /\ u = [t EXCEPT !.rd = "error"]
  <2>1. SameStanding(t, u) /\ u.rd = "error" /\ u.wr = t.wr /\ u.snd = t.snd /\ u.srd = t.srd
    BY <1>1, <1>2 DEF TunnelRecord, Reads, SameStanding, SameData
  <2> HIDE DEF t, u
  <2>2. OpsOK(u) BY <1>1, <1>2, <2>1 DEF OpsOK, SameStanding
  <2>3. ToWrite(u) = ToWrite(t) BY <2>1 DEF ToWrite, SameStanding, SameData
  <2> QED BY <1>2, <2>1, <2>2, <2>3, StandSound DEF t, u
<1>3. CASE t.wr = "waiting" /\ u = [t EXCEPT !.wr = "error"]
  <2>1. SameStanding(t, u) /\ u.rd = t.rd /\ u.wr = "error" /\ u.snd = t.snd /\ u.srd = t.srd
    BY <1>1, <1>3 DEF TunnelRecord, Writes, SameStanding, SameData
  <2> HIDE DEF t, u
  <2>2. OpsOK(u) BY <1>1, <1>3, <2>1 DEF OpsOK, SameStanding
  <2>3. ToWrite(u) = ToWrite(t) BY <1>3, <2>1 DEF ToWrite, SameStanding, SameData
  <2> QED BY <2>1, <2>2, <2>3, StandSound DEF t, u, SameStanding
<1>4. CASE t.snd = "waiting" /\ u = [t EXCEPT !.snd = "done"]
  <2>1. SameStanding(t, u) /\ u.rd = t.rd /\ u.wr = t.wr /\ u.snd = "done" /\ u.srd = t.srd
    BY <1>1, <1>4 DEF TunnelRecord, Sends, SameStanding, SameData
  <2> HIDE DEF t, u
  <2>2. OpsOK(u) BY <1>1, <1>4, <2>1 DEF OpsOK, SameStanding
  <2>3. ToWrite(u) = ToWrite(t) BY <2>1 DEF ToWrite, SameStanding, SameData
  <2> QED BY <2>1, <2>2, <2>3, StandSound DEF t, u, SameStanding
<1>5. CASE t.srd = "waiting" /\ u = [t EXCEPT !.srd = "timed_out"]
  <2>1. SameStanding(t, u) /\ u.rd = t.rd /\ u.wr = t.wr /\ u.snd = t.snd /\ u.srd = "timed_out"
    BY <1>1, <1>5 DEF TunnelRecord, StreamReads, SameStanding, SameData
  <2> HIDE DEF t, u
  <2>2. OpsOK(u) BY <1>1, <1>5, <2>1 DEF OpsOK, SameStanding
  <2>3. ToWrite(u) = ToWrite(t) BY <1>5, <2>1 DEF ToWrite, SameStanding, SameData
  <2> QED BY <2>1, <2>2, <2>3, StandSound DEF t, u, SameStanding
<1> QED BY <1>2, <1>3, <1>4, <1>5 DEF SocketEnds, SocketWriteFails, StreamHasSent, StreamIdle

LEMMA HandleWriteStep ==
  ASSUME TunnelSound(tunnel), tunnel.wr \in {"done", "error", "aborted"},
         tunnel' = HandleWrite(tunnel)
  PROVE  TunnelSound(tunnel')
<1> DEFINE t == tunnel
           r == [t EXCEPT !.wr = "none"]
<1>1. t \in TunnelRecord /\ Phase(t) /\ OpsOK(t) BY DEF TunnelSound
<1>2. SameStanding(t, r) /\ r.rd = t.rd /\ r.wr = "none" /\ r.snd = t.snd /\ r.srd = t.srd
  BY <1>1 DEF TunnelRecord, Writes, SameStanding, SameData
<1>3. t.conn \in {"up", "dead"} BY <1>1 DEF OpsOK, TunnelRecord
<1> HIDE DEF r
<1>4. CASE t.wr = "error"
  <2>1. tunnel' = TerminateConnection(r) BY <1>4 DEF HandleWrite, r
  <2>2. r.conn = "dead" => r.rd # "waiting" /\ r.wr # "waiting"
    BY <1>1, <1>2 DEF OpsOK, SameStanding
  <2> QED BY <1>2, <1>3, <2>1, <2>2, EndSound
<1>5. CASE t.wr = "aborted"
  <2>1. tunnel' = r /\ t.conn = "dead" BY <1>1, <1>3, <1>5 DEF HandleWrite, r, OpsOK
  <2>2. OpsOK(r) BY <1>1, <1>2, <2>1 DEF OpsOK, SameStanding
  <2> QED BY <1>2, <2>1, <2>2, StandSound DEF SameStanding
<1>6. CASE t.wr = "done"
  <2>1. tunnel' = StreamReceive(r) BY <1>6 DEF HandleWrite, r
  <2>2. CASE r.m_Stream
    <3> DEFINE srd == IF r.stream = "reset" THEN "reset" ELSE "waiting"
               u == StreamReceive(r)
    <3>1. srd \in {"reset", "waiting"} /\ srd \in StreamReads BY DEF StreamReads
    <3>2. u = [r EXCEPT !.srd = srd] BY <2>2 DEF StreamReceive
    <3> HIDE DEF u, srd
    <3>3. SameStanding(r, u) /\ u.rd = r.rd /\ u.wr = r.wr /\ u.snd = r.snd /\ u.srd = srd
      BY <1>2, <3>1, <3>2 DEF TunnelRecord, SameStanding, SameData
    <3>4. SameStanding(t, u) BY <1>2, <3>3 DEF SameStanding, SameData
    <3>5. t.conn = "up" BY <1>1, <1>2, <1>3, <2>2 DEF Phase, SameStanding
    <3>6. t.srd = "none" BY <1>1, <1>6, <3>5 DEF OpsOK
    <3>7. OpsOK(u) BY <1>1, <1>2, <1>6, <3>1, <3>3, <3>4, <3>5 DEF OpsOK, SameStanding
    <3>8. ToWrite(u) = ToWrite(t)
      BY <1>2, <1>6, <3>1, <3>3, <3>6 DEF ToWrite
    <3> QED BY <1>2, <2>1, <3>3, <3>4, <3>7, <3>8, StandSound DEF u, SameStanding
  <2>3. CASE ~r.m_Stream
    <3>1. tunnel' = r BY <2>1, <2>3 DEF StreamReceive
    <3>2. t.conn = "dead" BY <1>1, <1>2, <1>3, <2>3 DEF Phase, SameStanding
    <3>3. OpsOK(r) BY <1>1, <1>2, <3>2 DEF OpsOK, SameStanding
    <3> QED BY <1>2, <3>1, <3>2, <3>3, StandSound DEF SameStanding
  <2> QED BY <2>2, <2>3
<1> QED BY <1>4, <1>5, <1>6

LEMMA HandleStreamReceiveStep ==
  ASSUME TunnelSound(tunnel), tunnel.srd \in {"data", "reset", "timed_out", "aborted"},
         tunnel' = HandleStreamReceive(tunnel)
  PROVE  TunnelSound(tunnel')
<1> DEFINE t == tunnel
           r == [t EXCEPT !.srd = "none"]
<1>1. t \in TunnelRecord /\ Phase(t) /\ OpsOK(t) BY DEF TunnelSound
<1>2. SameStanding(t, r) /\ r.rd = t.rd /\ r.wr = t.wr /\ r.snd = t.snd /\ r.srd = "none"
  BY <1>1 DEF TunnelRecord, StreamReads, SameStanding, SameData
<1>3. t.conn \in {"up", "dead"} BY <1>1 DEF OpsOK, TunnelRecord
<1> HIDE DEF r
<1>4. CASE t.srd \in {"reset", "timed_out"}
  <2>1. tunnel' = TerminateConnection(r) BY <1>4 DEF HandleStreamReceive, r
  <2>2. r.conn = "dead" => r.rd # "waiting" /\ r.wr # "waiting"
    BY <1>1, <1>2 DEF OpsOK, SameStanding
  <2> QED BY <1>2, <1>3, <2>1, <2>2, EndSound
<1>5. CASE t.srd = "aborted"
  <2>1. tunnel' = r /\ t.conn = "dead" BY <1>1, <1>3, <1>5 DEF HandleStreamReceive, r, OpsOK
  <2>2. OpsOK(r) BY <1>1, <1>2, <2>1 DEF OpsOK, SameStanding
  <2> QED BY <1>2, <2>1, <2>2, StandSound DEF SameStanding
<1>6. CASE t.srd = "data"
  <2> DEFINE wr == IF r.socket = "open" THEN "waiting" ELSE "error"
             u == WriteToSocket(r)
  <2>1. tunnel' = u BY <1>6 DEF HandleStreamReceive, r
  <2>2. wr \in {"waiting", "error"} /\ wr \in Writes BY DEF Writes
  <2>3. u = [r EXCEPT !.wr = wr] BY DEF WriteToSocket
  <2>4. t.conn = "dead" => wr # "waiting" BY <1>1, <1>2 DEF Phase, SameStanding
  <2> HIDE DEF u, wr
  <2>5. SameStanding(r, u) /\ u.rd = r.rd /\ u.wr = wr /\ u.snd = r.snd /\ u.srd = r.srd
    BY <1>2, <2>2, <2>3 DEF TunnelRecord, SameStanding, SameData
  <2>6. SameStanding(t, u) BY <1>2, <2>5 DEF SameStanding, SameData
  <2>7. OpsOK(u) BY <1>1, <1>2, <1>6, <2>2, <2>4, <2>5, <2>6 DEF OpsOK, SameStanding
  <2>8. ToWrite(u) = ToWrite(t)
    BY <1>2, <1>6, <2>2, <2>5, <2>6 DEF ToWrite, SameStanding, SameData
  <2> QED BY <1>2, <2>1, <2>5, <2>6, <2>7, <2>8, StandSound DEF SameStanding
<1> QED BY <1>4, <1>5, <1>6

LEMMA HandleSentStep ==
  ASSUME TunnelSound(tunnel), tunnel.snd \in {"done", "error"}, tunnel' = HandleSent(tunnel)
  PROVE  TunnelSound(tunnel')
<1> DEFINE t == tunnel
           r == [t EXCEPT !.snd = "none"]
<1>1. t \in TunnelRecord /\ Phase(t) /\ OpsOK(t) BY DEF TunnelSound
<1>2. SameStanding(t, r) /\ r.rd = t.rd /\ r.wr = t.wr /\ r.snd = "none" /\ r.srd = t.srd
  BY <1>1 DEF TunnelRecord, Sends, SameStanding, SameData
<1>3. t.conn \in {"up", "dead"} BY <1>1 DEF OpsOK, TunnelRecord
<1> HIDE DEF r
<1>4. CASE t.snd = "error"
  <2>1. tunnel' = TerminateConnection(r) BY <1>4 DEF HandleSent, r
  <2>2. r.conn = "dead" => r.rd # "waiting" /\ r.wr # "waiting"
    BY <1>1, <1>2 DEF OpsOK, SameStanding
  <2> QED BY <1>2, <1>3, <2>1, <2>2, EndSound
<1>5. CASE t.snd = "done"
  <2> DEFINE rd == IF r.socket = "open" THEN "waiting" ELSE "error"
             u == Receive(r)
  <2>1. tunnel' = u BY <1>5 DEF HandleSent, r
  <2>2. rd \in {"waiting", "error"} /\ rd \in Reads BY DEF Reads
  <2>3. u = [r EXCEPT !.rd = rd] BY DEF Receive
  <2>4. t.conn = "dead" => rd # "waiting" BY <1>1, <1>2 DEF Phase, SameStanding
  <2> HIDE DEF u, rd
  <2>5. SameStanding(r, u) /\ u.rd = rd /\ u.wr = r.wr /\ u.snd = r.snd /\ u.srd = r.srd
    BY <1>2, <2>2, <2>3 DEF TunnelRecord, SameStanding, SameData
  <2>6. SameStanding(t, u) BY <1>2, <2>5 DEF SameStanding, SameData
  <2>7. OpsOK(u) BY <1>1, <1>2, <1>5, <2>2, <2>4, <2>5, <2>6 DEF OpsOK, SameStanding
  <2>8. ToWrite(u) = ToWrite(t) BY <1>2, <2>5, <2>6 DEF ToWrite, SameStanding, SameData
  <2>9. ~(t.rd = "data" /\ t.m_Stream)
    BY <1>1, <1>3, <1>5 DEF Phase, OpsOK
  <2> QED BY <1>2, <2>1, <2>2, <2>5, <2>6, <2>7, <2>8, <2>9, StandSound DEF SameStanding
<1> QED BY <1>4, <1>5

LEMMA Extend ==
  ASSUME NEW s \in Seq(Nat), NEW m \in Nat, NEW n \in Nat, m + n <= Len(s)
  PROVE  /\ Chunk(s, m, n) \in Seq(Nat) /\ Len(Chunk(s, m, n)) = n
         /\ \A i \in 1 .. n : Chunk(s, m, n)[i] = s[m + i]
         /\ SubSeq(s, 1, m) \o Chunk(s, m, n) = SubSeq(s, 1, m + n)
<1> DEFINE a == SubSeq(s, 1, m)
           b == Chunk(s, m, n)
           c == SubSeq(s, 1, m + n)
<1>1. Len(s) \in Nat BY LenProperties
<1>2. a \in Seq(Nat) /\ Len(a) = m /\ \A i \in 1 .. m : a[i] = s[i]
  <2>1. m \in 0 .. Len(s) BY <1>1
  <2> QED BY <2>1, SubSeqProperties
<1>3. b \in Seq(Nat) /\ Len(b) = n /\ \A i \in 1 .. n : b[i] = s[m + i]
  <2>1. /\ m + 1 \in 1 .. Len(s) + 1 /\ m + n \in (m + 1) - 1 .. Len(s) BY <1>1
  <2>2. /\ b \in Seq(Nat) /\ Len(b) = IF m + 1 <= m + n THEN m + n - (m + 1) + 1 ELSE 0
        /\ \A i \in 1 .. m + n - (m + 1) + 1 : b[i] = s[m + 1 + i - 1]
    BY <2>1, SubSeqProperties DEF Chunk
  <2> HIDE DEF b
  <2>3. Len(b) = n BY <2>2
  <2>4. \A i \in 1 .. n : m + 1 + i - 1 = m + i /\ i \in 1 .. m + n - (m + 1) + 1 OBVIOUS
  <2> QED BY <2>2, <2>3, <2>4
<1>4. c \in Seq(Nat) /\ Len(c) = m + n /\ \A i \in 1 .. (m + n) : c[i] = s[i]
  <2>1. m + n \in 0 .. Len(s) BY <1>1
  <2> QED BY <2>1, SubSeqProperties
<1> HIDE DEF a, b, c
<1>5. /\ a \o b \in Seq(Nat) /\ Len(a \o b) = m + n
      /\ \A i \in 1 .. (m + n) : (a \o b)[i] = IF i <= m THEN a[i] ELSE b[i - m]
  BY <1>2, <1>3, ConcatProperties
<1>6. \A i \in 1 .. (m + n) : (a \o b)[i] = c[i]
  <2> TAKE i \in 1 .. (m + n)
  <2>1. CASE i <= m
    <3>1. i \in 1 .. m BY <2>1
    <3> QED BY <1>2, <1>4, <1>5, <2>1, <3>1
  <2>2. CASE ~(i <= m)
    <3>1. i - m \in 1 .. n /\ m + (i - m) = i BY <2>2
    <3> QED BY <1>3, <1>4, <1>5, <2>2, <3>1
  <2> QED BY <2>1, <2>2
<1>7. a \o b = c BY <1>4, <1>5, <1>6, SeqEqual
<1> QED BY <1>3, <1>7 DEF a, b, c

\* SameData but for the direction from the application.
SameApp(t, u) ==
  /\ u.given = t.given /\ u.toApp = t.toApp /\ u.cut = t.cut
  /\ u.m_StreamBuffer = t.m_StreamBuffer /\ u.wr = t.wr /\ u.srd = t.srd
\* SameData but for the direction to the application.
SameNet(t, u) ==
  /\ u.taken = t.taken /\ u.toNet = t.toNet /\ u.m_Buffer = t.m_Buffer
  /\ u.rd = t.rd /\ u.snd = t.snd
SameRest(t, u) ==
  /\ u \in TunnelRecord /\ u.case = t.case
  /\ u.handler = t.handler /\ u.conn = t.conn /\ u.m_Handlers = t.m_Handlers
  /\ u.socket = t.socket /\ u.stream = t.stream /\ u.m_Stream = t.m_Stream

LEMMA OtherDirection ==
  ASSUME NEW t \in TunnelRecord, NEW u, SameRest(t, u)
  PROVE  /\ SameApp(t, u) /\ ToAppOK(t) => ToAppOK(u)
         /\ SameNet(t, u) /\ ToNetOK(t) => ToNetOK(u)
         /\ HandlersOK(t) => HandlersOK(u)
         /\ t.conn \in {"up", "dead"} /\ Phase(t) => Phase(u)
<1>1. ASSUME SameApp(t, u), ToAppOK(t) PROVE ToAppOK(u)
  <2>1. ToWrite(u) = ToWrite(t) BY <1>1 DEF ToWrite, SameApp
  <2>2. PICK m \in 0 .. t.given, f \in [1 .. Len(t.toApp) -> 1 .. t.given] : Placed(t, f, m)
    BY <1>1 DEF ToAppOK
  <2>3. Placed(u, f, m) BY <1>1, <2>1, <2>2 DEF Placed, SameApp, SameRest
  <2>4. m \in 0 .. u.given /\ f \in [1 .. Len(u.toApp) -> 1 .. u.given] BY <1>1 DEF SameApp
  <2> QED BY <1>1, <2>1, <2>3, <2>4 DEF ToAppOK, SameApp, SameRest
<1>2. ASSUME SameNet(t, u), ToNetOK(t) PROVE ToNetOK(u) BY <1>2 DEF ToNetOK, SameNet, SameRest
<1>3. ASSUME HandlersOK(t) PROVE HandlersOK(u) BY <1>3 DEF HandlersOK, SameRest, May
<1>4. ASSUME t.conn \in {"up", "dead"}, Phase(t) PROVE Phase(u) BY <1>4 DEF Phase, SameRest
<1> QED BY <1>1, <1>2, <1>3, <1>4

LEMMA HandleReceivedStep ==
  ASSUME TunnelSound(tunnel), tunnel.rd \in {"data", "error", "aborted"},
         tunnel' = HandleReceived(tunnel)
  PROVE  TunnelSound(tunnel')
<1> DEFINE t == tunnel
           r == [t EXCEPT !.rd = "none"]
<1>1. /\ t \in TunnelRecord /\ Phase(t) /\ OpsOK(t) /\ HandlersOK(t) /\ ToNetOK(t) /\ ToAppOK(t)
  BY DEF TunnelSound
<1>2. SameStanding(t, r) /\ r.rd = "none" /\ r.wr = t.wr /\ r.snd = t.snd /\ r.srd = t.srd
  BY <1>1 DEF TunnelRecord, Reads, SameStanding, SameData
<1>3. t.conn \in {"up", "dead"} BY <1>1 DEF OpsOK, TunnelRecord
<1> HIDE DEF r
<1>4. CASE t.rd = "error"
  <2>1. tunnel' = TerminateConnection(r) BY <1>4 DEF HandleReceived, r
  <2>2. r.conn = "dead" => r.rd # "waiting" /\ r.wr # "waiting"
    BY <1>1, <1>2 DEF OpsOK, SameStanding
  <2> QED BY <1>2, <1>3, <2>1, <2>2, EndSound
<1>5. CASE t.rd = "aborted" \/ (t.rd = "data" /\ ~t.m_Stream)
  <2>1. tunnel' = r BY <1>5 DEF HandleReceived, r
  <2>2. t.conn = "dead" BY <1>1, <1>3, <1>5 DEF OpsOK, Phase
  <2>3. OpsOK(r) BY <1>1, <1>2, <2>2 DEF OpsOK, SameStanding
  <2>4. ~t.m_Stream BY <1>1, <2>2 DEF Phase
  <2> QED BY <1>2, <2>1, <2>2, <2>3, <2>4, StandSound DEF SameStanding
<1>6. CASE t.rd = "data" /\ t.m_Stream
  <2> DEFINE u == tunnel'
             toNet == t.toNet \o t.m_Buffer
  <2>1. u = [t EXCEPT !.rd = "none", !.toNet = toNet, !.snd = "waiting"]
    BY <1>1, <1>6 DEF HandleReceived, TunnelRecord
  <2>2. toNet \in Seq(Nat) BY <1>1, ConcatProperties DEF TunnelRecord
  <2> HIDE DEF u, t, toNet
  <2>3. /\ SameRest(t, u) /\ SameApp(t, u)
        /\ u.taken = t.taken /\ u.toNet = toNet /\ u.rd = "none" /\ u.snd = "waiting"
    BY <1>1, <2>1, <2>2 DEF TunnelRecord, Reads, Sends, SameRest, SameApp
  <2>4. t.conn = "up" BY <1>1, <1>3, <1>6 DEF Phase
  <2>5. OpsOK(u) BY <1>1, <2>3, <2>4 DEF OpsOK, SameRest, SameApp
  <2>6. u.toNet \o <<>> = u.toNet BY <2>2, <2>3, NothingAdded
  <2>7. ToNetOK(u)
    BY <1>1, <1>6, <2>3, <2>4, <2>6 DEF ToNetOK, SameRest, toNet
  <2>8. ToAppOK(u) /\ HandlersOK(u) /\ Phase(u) /\ u \in TunnelRecord
    BY <1>1, <1>3, <2>3, OtherDirection DEF SameRest
  <2> QED BY <2>5, <2>7, <2>8 DEF TunnelSound, u
<1> QED BY <1>4, <1>5, <1>6

LEMMA SocketHasDataStep ==
  ASSUME TunnelSound(tunnel), NEW n, n \in 1 .. Len(tunnel.case.app), SocketHasData(n)
  PROVE  TunnelSound(tunnel')
<1> DEFINE t == tunnel
           u == tunnel'
           chunk == Chunk(t.case.app, t.taken, n)
<1>1. /\ t \in TunnelRecord /\ Phase(t) /\ OpsOK(t) /\ HandlersOK(t) /\ ToNetOK(t) /\ ToAppOK(t)
  BY DEF TunnelSound
<1>2. t.conn = "up" BY <1>1 DEF OpsOK, TunnelRecord, SocketHasData
<1>3. t.case.app \in Seq(Nat) /\ t.taken \in Nat /\ Len(t.case.app) \in Nat
  BY <1>1, I2PTunnelAssumption, LenProperties DEF TunnelRecord
<1>4. n \in Nat /\ t.taken + n <= Len(t.case.app) BY <1>3 DEF SocketHasData
<1>5. u = [t EXCEPT !.rd = "data", !.taken = t.taken + n, !.m_Buffer = chunk]
  BY <1>1 DEF SocketHasData, TunnelRecord
<1>6. chunk \in Seq(Nat) /\ SubSeq(t.case.app, 1, t.taken) \o chunk
                             = SubSeq(t.case.app, 1, t.taken + n)
  BY <1>3, <1>4, Extend
<1>7. t.rd = "waiting" BY DEF SocketHasData
<1> HIDE DEF u, t, chunk
<1>8. /\ SameRest(t, u) /\ SameApp(t, u) /\ u.rd = "data" /\ u.snd = t.snd
      /\ u.taken = t.taken + n /\ u.m_Buffer = chunk /\ u.toNet = t.toNet
  <2>1. t.taken + n \in Nat /\ "data" \in Reads BY <1>3, <1>4 DEF Reads
  <2> QED BY <1>1, <1>5, <1>6, <2>1 DEF TunnelRecord, SameRest, SameApp
<1>9. t.toNet = SubSeq(t.case.app, 1, t.taken)
  <2>1. t.toNet \o <<>> = SubSeq(t.case.app, 1, t.taken) BY <1>1, <1>2, <1>7 DEF ToNetOK
  <2> QED BY <1>1, <2>1, NothingAdded DEF TunnelRecord
<1>10. ToNetOK(u)
  <2>1. u.m_Stream BY <1>1, <1>2, <1>8 DEF Phase, SameRest
  <2>2. u.toNet \o u.m_Buffer = SubSeq(u.case.app, 1, u.taken)
    BY <1>6, <1>8, <1>9 DEF SameRest
  <2>3. u.taken \in 0 .. u.taken /\ u.taken <= Len(u.case.app) BY <1>3, <1>4, <1>8 DEF SameRest
  <2> QED BY <1>8, <2>1, <2>2, <2>3 DEF ToNetOK
<1>11. OpsOK(u) BY <1>1, <1>2, <1>7, <1>8 DEF OpsOK, SameRest, SameApp
<1>12. ToAppOK(u) /\ HandlersOK(u) /\ Phase(u) /\ u \in TunnelRecord
  BY <1>1, <1>2, <1>8, OtherDirection DEF SameRest
<1> QED BY <1>10, <1>11, <1>12 DEF TunnelSound, u

LEMMA StreamHasDataStep ==
  ASSUME TunnelSound(tunnel), NEW n, n \in 1 .. Len(tunnel.case.net), StreamHasData(n)
  PROVE  TunnelSound(tunnel')
<1> DEFINE t == tunnel
           u == tunnel'
           chunk == Chunk(t.case.net, t.given, n)
<1>1. /\ t \in TunnelRecord /\ Phase(t) /\ OpsOK(t) /\ HandlersOK(t) /\ ToNetOK(t) /\ ToAppOK(t)
  BY DEF TunnelSound
<1>2. t.conn \in {"up", "dead"} /\ t.srd = "waiting"
  BY <1>1 DEF OpsOK, TunnelRecord, StreamHasData
<1>3. t.case.net \in Seq(Nat) /\ t.given \in Nat /\ Len(t.case.net) \in Nat
  BY <1>1, I2PTunnelAssumption, LenProperties DEF TunnelRecord
<1>4. n \in Nat /\ n > 0 /\ t.given + n <= Len(t.case.net) BY <1>3 DEF StreamHasData
<1>5. u = [t EXCEPT !.srd = "data", !.given = t.given + n, !.m_StreamBuffer = chunk]
  BY <1>1 DEF StreamHasData, TunnelRecord
<1>6. chunk \in Seq(Nat) /\ Len(chunk) = n BY <1>3, <1>4, Extend
<1> HIDE DEF u, t, chunk
<1>8. /\ SameRest(t, u) /\ SameNet(t, u) /\ u.srd = "data" /\ u.wr = t.wr
      /\ u.given = t.given + n /\ u.m_StreamBuffer = chunk /\ u.toApp = t.toApp /\ u.cut = t.cut
  <2>1. t.given + n \in Nat /\ "data" \in StreamReads BY <1>3, <1>4 DEF StreamReads
  <2> QED BY <1>1, <1>5, <1>6, <2>1 DEF TunnelRecord, SameRest, SameNet
<1>9. ToWrite(u) = n BY <1>6, <1>8 DEF ToWrite
<1>10. t.conn # "dead" => ToWrite(t) = 0 BY <1>1, <1>2 DEF OpsOK, ToWrite
<1>11. PICK m \in 0 .. t.given, f \in [1 .. Len(t.toApp) -> 1 .. t.given] : Placed(t, f, m)
  BY <1>1 DEF ToAppOK
<1>12. m \in 0 .. u.given /\ f \in [1 .. Len(u.toApp) -> 1 .. u.given]
  <2>1. 1 .. t.given \subseteq 1 .. u.given /\ 0 .. t.given \subseteq 0 .. u.given
    BY <1>3, <1>4, <1>8
  <2> QED BY <1>8, <1>11, <2>1
<1>13. u.given - ToWrite(u) = t.given BY <1>3, <1>4, <1>8, <1>9
<1>14. t.conn # "dead" => t.given - ToWrite(t) = t.given BY <1>3, <1>10
<1>15. Placed(u, f, m) BY <1>8, <1>11, <1>13, <1>14 DEF Placed, SameRest
<1>16. ToAppOK(u)
  <2>1. u.m_StreamBuffer = Chunk(u.case.net, u.given - ToWrite(u), ToWrite(u))
    BY <1>8, <1>9, <1>13 DEF SameRest, chunk
  <2>2. u.given <= Len(u.case.net) /\ ToWrite(u) <= u.given BY <1>3, <1>4, <1>8, <1>9 DEF SameRest
  <2> QED BY <1>12, <1>15, <2>1, <2>2 DEF ToAppOK
<1>17. OpsOK(u) BY <1>1, <1>2, <1>8 DEF OpsOK, SameRest, SameNet
<1>18. ToNetOK(u) /\ HandlersOK(u) /\ Phase(u) /\ u \in TunnelRecord
  BY <1>1, <1>2, <1>8, OtherDirection DEF SameRest
<1> QED BY <1>16, <1>17, <1>18 DEF TunnelSound, u

\* g goes on where f ends: n of the next L places are written, the others cut.
GoesOn(g, f, k, base, L, n, cut) ==
  /\ g \in [1 .. (k + n) -> 1 .. (base + L)]
  /\ \A i \in 1 .. k : g[i] = f[i]
  /\ \A i \in 1 .. n : g[k + i] = base + i
  /\ Counts(g, k + n, base + L, cut \cup (base + n + 1) .. (base + L))

LEMMA CountOn ==
  ASSUME NEW k \in Nat, NEW base \in Nat, NEW L \in Nat, NEW n \in 1 .. L, NEW f, NEW cut,
         Counts(f, k, base, cut)
  PROVE  \E g : GoesOn(g, f, k, base, L, n, cut)
<1> DEFINE g == [i \in 1 .. (k + n) |-> IF i <= k THEN f[i] ELSE base + (i - k)]
           all == cut \cup (base + n + 1) .. (base + L)
<1>1. ASSUME NEW i \in 1 .. (k + n), i <= k
      PROVE  i \in 1 .. k /\ g[i] = f[i] /\ g[i] \in 1 .. base
  <2>1. i \in 1 .. k /\ g[i] = f[i] BY <1>1
  <2> QED BY <2>1 DEF Counts
<1>2. ASSUME NEW i \in 1 .. (k + n), i > k
      PROVE  i - k \in 1 .. n /\ g[i] = base + (i - k)
  <2>1. i - k \in 1 .. n BY <1>2
  <2>2. g[i] = base + (i - k) BY <1>2
  <2> QED BY <2>1, <2>2
<1>3. DOMAIN g = 1 .. (k + n) /\ g = [i \in 1 .. (k + n) |-> g[i]] OBVIOUS
<1> HIDE DEF g
<1>4. \A i \in 1 .. (k + n) : g[i] \in 1 .. (base + n)
  <2> TAKE i \in 1 .. (k + n)
  <2>1. CASE i <= k
    <3>1. g[i] \in 1 .. base BY <1>1, <2>1
    <3> QED BY <3>1
  <2>2. CASE i > k
    <3>1. i - k \in 1 .. n /\ g[i] = base + (i - k) BY <1>2, <2>2
    <3> QED BY <3>1
  <2> QED BY <2>1, <2>2
<1>5. g \in [1 .. (k + n) -> 1 .. (base + L)]
  <2>1. \A i \in 1 .. (k + n) : g[i] \in 1 .. (base + L) BY <1>4
  <2> QED BY <1>3, <2>1
<1>6. \A i \in 1 .. k : g[i] = f[i]
  <2> TAKE i \in 1 .. k
  <2>1. i \in 1 .. (k + n) /\ i <= k OBVIOUS
  <2> QED BY <1>1, <2>1
<1>7. \A i \in 1 .. n : g[k + i] = base + i
  <2> TAKE i \in 1 .. n
  <2>1. k + i \in 1 .. (k + n) /\ k + i > k /\ (k + i) - k = i OBVIOUS
  <2> QED BY <1>2, <2>1
<1>8. ASSUME NEW i \in 1 .. (k + n), NEW j \in 1 .. (k + n), i < j PROVE g[i] < g[j]
  <2>1. CASE j <= k
    <3>1. i <= k BY <1>8, <2>1
    <3>2. i \in 1 .. k /\ j \in 1 .. k /\ g[i] = f[i] /\ g[j] = f[j] BY <1>1, <2>1, <3>1
    <3> QED BY <1>8, <3>2 DEF Counts
  <2>2. CASE j > k /\ i <= k
    <3>1. g[j] = base + (j - k) /\ j - k \in 1 .. n /\ g[i] \in 1 .. base BY <1>1, <1>2, <2>2
    <3> QED BY <3>1
  <2>3. CASE j > k /\ i > k
    <3>1. g[j] = base + (j - k) /\ g[i] = base + (i - k) BY <1>2, <2>3
    <3> QED BY <1>8, <3>1
  <2> QED BY <2>1, <2>2, <2>3
<1>9. ASSUME NEW p \in 1 .. (base + L)
      PROVE  p \in all <=> \A j \in 1 .. (k + n) : g[j] # p
  <2>1. CASE p <= base
    <3>1. p \in 1 .. base BY <2>1
    <3>2. p \in cut <=> \A j \in 1 .. k : f[j] # p BY <3>1 DEF Counts
    <3>3. p \notin (base + n + 1) .. (base + L) BY <2>1
    <3>4. ASSUME NEW j \in 1 .. k, f[j] = p PROVE \E i \in 1 .. (k + n) : g[i] = p
      <4>1. j \in 1 .. (k + n) /\ j <= k OBVIOUS
      <4> QED BY <1>6, <3>4, <4>1
    <3>5. ASSUME NEW j \in 1 .. (k + n), g[j] = p PROVE \E i \in 1 .. k : f[i] = p
      <4>1. CASE j > k
        <5>1. j - k \in 1 .. n /\ g[j] = base + (j - k) BY <1>2, <4>1
        <5> QED BY <2>1, <3>5, <5>1
      <4>2. CASE j <= k BY <1>1, <3>5, <4>2
      <4> QED BY <4>1, <4>2
    <3>6. (\A j \in 1 .. (k + n) : g[j] # p) <=> (\A j \in 1 .. k : f[j] # p) BY <3>4, <3>5
    <3>7. (p \in all) <=> (p \in cut) BY <3>3
    <3> HIDE DEF all
    <3> QED BY <3>2, <3>6, <3>7
  <2>2. CASE p > base /\ p <= base + n
    <3>1. p \notin (base + n + 1) .. (base + L) BY <2>2
    <3>2. p \notin cut
      <4>1. p \notin 1 .. base BY <2>2
      <4> QED BY <4>1 DEF Counts
    <3>3. PICK i \in 1 .. n : p = base + i
      <4>1. p - base \in 1 .. n /\ p = base + (p - base) BY <2>2
      <4> QED BY <4>1
    <3>4. g[k + i] = p /\ k + i \in 1 .. (k + n) BY <1>7, <3>3
    <3> QED BY <3>1, <3>2, <3>4
  <2>3. CASE p > base + n
    <3>1. p \in all
      <4>1. p \in (base + n + 1) .. (base + L) BY <2>3
      <4> QED BY <4>1
    <3>2. ASSUME NEW j \in 1 .. (k + n) PROVE g[j] # p
      <4>1. g[j] \in 1 .. (base + n) BY <1>4
      <4> QED BY <2>3, <4>1
    <3> QED BY <3>1, <3>2
  <2>4. p <= base \/ (p > base /\ p <= base + n) \/ p > base + n OBVIOUS
  <2> HIDE DEF all
  <2> QED BY <2>1, <2>2, <2>3, <2>4
<1>10. all \subseteq 1 .. (base + L)
  <2>1. 1 .. base \subseteq 1 .. (base + L) OBVIOUS
  <2>2. (base + n + 1) .. (base + L) \subseteq 1 .. (base + L) OBVIOUS
  <2> QED BY <2>1, <2>2 DEF Counts
<1> HIDE DEF all
<1>11. \A i \in 1 .. (k + n) : g[i] \in 1 .. (base + L) BY <1>5
<1>12. Counts(g, k + n, base + L, all) BY <1>8, <1>9, <1>10, <1>11 DEF Counts
<1> QED BY <1>5, <1>6, <1>7, <1>12 DEF GoesOn, all

\* g are the places of v, among the first m.
WrittenTo(g, v, octets, m, cut) ==
  /\ g \in [1 .. Len(v) -> 1 .. m]
  /\ \A i \in 1 .. Len(v) : v[i] = octets[g[i]]
  /\ Counts(g, Len(v), m, cut)

\* n octets of the L that were given last are written.
LEMMA WriteOn ==
  ASSUME NEW octets \in Seq(Nat), NEW toApp \in Seq(Nat), NEW base \in Nat, NEW L \in Nat,
         base + L <= Len(octets), NEW n \in 1 .. L, NEW f, NEW cut,
         Counts(f, Len(toApp), base, cut),
         \A i \in 1 .. Len(toApp) : toApp[i] = octets[f[i]]
  PROVE  \E g : WrittenTo(g, toApp \o SubSeq(Chunk(octets, base, L), 1, n), octets, base + L,
                         cut \cup (base + n + 1) .. (base + L))
<1> DEFINE k == Len(toApp)
           c == Chunk(octets, base, L)
           w == SubSeq(c, 1, n)
           v == toApp \o w
<1>1. k \in Nat /\ Len(octets) \in Nat BY LenProperties
<1>2. c \in Seq(Nat) /\ Len(c) = L /\ \A i \in 1 .. L : c[i] = octets[base + i] BY Extend
<1> HIDE DEF c
<1>3. w \in Seq(Nat) /\ Len(w) = n /\ \A i \in 1 .. n : w[i] = octets[base + i]
  <2>1. n \in 0 .. Len(c) BY <1>2
  <2>2. w \in Seq(Nat) /\ Len(w) = n /\ \A i \in 1 .. n : w[i] = c[i]
    BY <1>2, <2>1, SubSeqProperties
  <2> HIDE DEF w
  <2>3. \A i \in 1 .. n : i \in 1 .. L OBVIOUS
  <2> QED BY <1>2, <2>2, <2>3
<1> HIDE DEF w
<1>4. /\ Len(v) = k + n
      /\ \A i \in 1 .. (k + n) : v[i] = IF i <= k THEN toApp[i] ELSE w[i - k]
  BY <1>3, ConcatProperties
<1> HIDE DEF v
<1>0. Counts(f, k, base, cut) OBVIOUS
<1> HIDE DEF k
<1>5. PICK g : GoesOn(g, f, k, base, L, n, cut) BY <1>0, <1>1, CountOn
<1>6. ASSUME NEW i \in 1 .. (k + n) PROVE v[i] = octets[g[i]]
  <2>1. CASE i <= k
    <3>1. i \in 1 .. k /\ v[i] = toApp[i] BY <1>1, <1>4, <2>1
    <3>2. toApp[i] = octets[f[i]] BY <3>1 DEF k
    <3> QED BY <1>5, <3>1, <3>2 DEF GoesOn
  <2>2. CASE i > k
    <3>1. PICK j \in 1 .. n : i = k + j
      <4>1. i - k \in 1 .. n /\ i = k + (i - k) BY <1>1, <2>2
      <4> QED BY <4>1
    <3>2. i - k = j BY <1>1, <3>1
    <3>3. v[i] = w[j] BY <1>1, <1>4, <2>2, <3>2
    <3> QED BY <1>3, <1>5, <3>1, <3>3 DEF GoesOn
  <2> QED BY <1>1, <2>1, <2>2
<1>7. WrittenTo(g, v, octets, base + L, cut \cup (base + n + 1) .. (base + L))
  BY <1>4, <1>5, <1>6 DEF WrittenTo, GoesOn
<1> QED BY <1>7 DEF v, w, c

LEMMA WritePlaced ==
  ASSUME NEW t \in TunnelRecord, NEW u \in TunnelRecord, ToAppOK(t), t.conn # "dead",
         NEW n \in 1 .. ToWrite(t), ToWrite(t) = Len(t.m_StreamBuffer),
         u.case = t.case, u.given = t.given, ToWrite(u) = 0,
         u.toApp = t.toApp \o SubSeq(t.m_StreamBuffer, 1, n),
         u.cut = t.cut \cup (t.given - Len(t.m_StreamBuffer) + n + 1) .. t.given
  PROVE  ToAppOK(u)
<1> DEFINE L == ToWrite(t)
           base == t.given - L
           octets == t.case.net
<1>1. /\ t.toApp \in Seq(Nat) /\ t.m_StreamBuffer \in Seq(Nat) /\ t.given \in Nat
      /\ octets \in Seq(Nat)
  BY I2PTunnelAssumption DEF TunnelRecord
<1>2. L \in Nat /\ Len(octets) \in Nat BY <1>1, LenProperties
<1>3. L <= t.given /\ t.given <= Len(octets) /\ L > 0 BY <1>2 DEF ToAppOK
<1>4. t.m_StreamBuffer = Chunk(octets, base, L) BY <1>3 DEF ToAppOK
<1>5. PICK m \in 0 .. t.given, f \in [1 .. Len(t.toApp) -> 1 .. t.given] : Placed(t, f, m)
  BY DEF ToAppOK
<1>6. m = base BY <1>5 DEF Placed
<1>7. /\ \A i \in 1 .. Len(t.toApp) : t.toApp[i] = octets[f[i]]
      /\ Counts(f, Len(t.toApp), base, t.cut)
  BY <1>5, <1>6 DEF Placed
<1>8. /\ u.toApp = t.toApp \o SubSeq(Chunk(octets, base, L), 1, n)
      /\ u.cut = t.cut \cup (base + n + 1) .. t.given
  BY <1>4
<1>9. n \in 1 .. L /\ base \in Nat /\ base + L = t.given
  <2>1. \A a, b \in Nat : b <= a => a - b \in Nat /\ (a - b) + b = a OBVIOUS
  <2>2. n \in 1 .. L BY DEF L
  <2> HIDE DEF L
  <2>3. base \in Nat /\ base + L = t.given BY <1>1, <1>2, <1>3, <2>1
  <2> QED BY <2>2, <2>3
<1> HIDE DEF L, base, octets
<1>10. \E g : WrittenTo(g, t.toApp \o SubSeq(Chunk(octets, base, L), 1, n), octets, base + L,
                       t.cut \cup (base + n + 1) .. (base + L))
  BY <1>1, <1>2, <1>3, <1>7, <1>9, WriteOn
<1>11. PICK g : WrittenTo(g, u.toApp, octets, u.given, u.cut) BY <1>8, <1>9, <1>10
<1>12. Placed(u, g, u.given)
  <2>1. u.given - ToWrite(u) = t.given BY <1>1
  <2> QED BY <1>11, <2>1 DEF Placed, WrittenTo, octets
<1>13. u.given \in 0 .. u.given /\ g \in [1 .. Len(u.toApp) -> 1 .. u.given]
  BY <1>1, <1>11 DEF WrittenTo
<1>14. u.given <= Len(u.case.net) /\ ToWrite(u) <= u.given BY <1>1, <1>3 DEF octets
<1> QED BY <1>12, <1>13, <1>14 DEF ToAppOK

LEMMA SocketWritesStep ==
  ASSUME TunnelSound(tunnel), NEW n, n \in 1 .. Len(tunnel.case.net), SocketWrites(n)
  PROVE  TunnelSound(tunnel')
<1> DEFINE t == tunnel
           u == tunnel'
           w == SubSeq(t.m_StreamBuffer, 1, n)
           rest == (t.given - Len(t.m_StreamBuffer) + n + 1) .. t.given
<1>1. /\ t \in TunnelRecord /\ Phase(t) /\ OpsOK(t) /\ HandlersOK(t) /\ ToNetOK(t) /\ ToAppOK(t)
  BY DEF TunnelSound
<1>2. t.conn = "up" /\ t.wr = "waiting" /\ t.srd = "none"
  BY <1>1 DEF OpsOK, TunnelRecord, SocketWrites
<1>3. ToWrite(t) = Len(t.m_StreamBuffer) BY <1>2 DEF ToWrite
<1>4. /\ t.m_StreamBuffer \in Seq(Nat) /\ Len(t.m_StreamBuffer) \in Nat /\ t.given \in Nat
      /\ t.toApp \in Seq(Nat) /\ ToWrite(t) <= t.given
  BY <1>1, <1>2, LenProperties DEF TunnelRecord, ToAppOK
<1>5. n \in 1 .. ToWrite(t) /\ n \in 0 .. Len(t.m_StreamBuffer)
  BY <1>3, <1>4 DEF SocketWrites
<1>6. w \in Seq(Nat) BY <1>4, <1>5, SubSeqProperties
<1>7. t.toApp \o w \in Seq(Nat) BY <1>4, <1>6, ConcatProperties
<1>8. t.cut \cup rest \in SUBSET Nat
  <2>1. t.given - Len(t.m_StreamBuffer) + n + 1 \in Nat BY <1>3, <1>4, <1>5
  <2> QED BY <1>1, <1>4, <2>1 DEF TunnelRecord
<1>9. u = [t EXCEPT !.wr = "done", !.toApp = t.toApp \o w, !.cut = t.cut \cup rest]
  BY <1>1 DEF SocketWrites, TunnelRecord
<1>10. "done" \in Writes BY DEF Writes
<1> HIDE DEF u, t, w, rest
<1>11. /\ SameRest(t, u) /\ SameNet(t, u) /\ u.wr = "done" /\ u.srd = t.srd
       /\ u.given = t.given /\ u.toApp = t.toApp \o w /\ u.cut = t.cut \cup rest
  BY <1>1, <1>7, <1>8, <1>9, <1>10 DEF TunnelRecord, SameRest, SameNet
<1>12. ToWrite(u) = 0 BY <1>2, <1>11 DEF ToWrite
<1>13. ToAppOK(u)
  BY <1>1, <1>2, <1>3, <1>5, <1>11, <1>12, WritePlaced DEF SameRest, w, rest
<1>14. OpsOK(u) BY <1>1, <1>2, <1>11 DEF OpsOK, SameRest, SameNet
<1>15. ToNetOK(u) /\ HandlersOK(u) /\ Phase(u) /\ u \in TunnelRecord
  BY <1>1, <1>2, <1>11, OtherDirection DEF SameRest
<1> QED BY <1>13, <1>14, <1>15 DEF TunnelSound, u

-----------------------------------------------------------------------------
\* A connection that has not relayed anything, or does not begin to.
LEMMA FreshData ==
  ASSUME NEW t \in TunnelRecord, NEW u \in TunnelRecord, Phase(t), ToNetOK(t), ToAppOK(t),
         SameData(t, u), t.conn \in {"none", "connecting"}, OpsOK(t),
         u.rd # "data", u.srd # "data", u.wr = "none"
  PROVE  ToNetOK(u) /\ ToAppOK(u)
<1>1. ToWrite(t) = 0 /\ ToWrite(u) = 0 BY DEF ToWrite, OpsOK
<1>2. ToNetOK(u) BY NetKept DEF OpsOK
<1>3. ToAppOK(u) BY <1>1, AppKept
<1> QED BY <1>2, <1>3

LEMMA AcceptSound ==
  ASSUME NEW t, TunnelSound(t), t.handler = "none", t.case.side = "client"
  PROVE  /\ TunnelSound(HandleAccept(GetIdentHash(t)))
         /\ GetIdentHash(t).ident => HandleAccept(GetIdentHash(t)).handler = "asking"
         /\ May(HandleAccept(GetIdentHash(t)), "gone") <=> May(t, "gone")
<1> DEFINE u == HandleAccept(GetIdentHash(t))
           ident == t.ident \/ t.known
           s == [t EXCEPT !.ident = ident]
<1>1. /\ t \in TunnelRecord /\ Phase(t) /\ OpsOK(t) /\ HandlersOK(t) /\ ToNetOK(t) /\ ToAppOK(t)
  BY DEF TunnelSound
<1>0. ident \in BOOLEAN BY <1>1 DEF TunnelRecord
<1> HIDE DEF ident
<1>2. s \in TunnelRecord BY <1>0, <1>1 DEF TunnelRecord
<1>3. SameStanding(t, s) /\ SameOps(t, s) /\ s.ident = ident
  BY <1>1, <1>2 DEF TunnelRecord, SameStanding, SameData, SameOps
<1>4. s = GetIdentHash(t) BY <1>1 DEF GetIdentHash, TunnelRecord, ident
<1> HIDE DEF s
<1>5. TunnelSound(s) BY <1>3, RestSound
<1>6. CASE ~s.ident
  <2>1. u = [s EXCEPT !.rejected = TRUE] BY <1>4, <1>6 DEF HandleAccept
  <2>2. SameStanding(s, u) /\ SameOps(s, u)
    BY <1>2, <2>1 DEF TunnelRecord, SameStanding, SameData, SameOps
  <2>3. u.case = t.case BY <1>3, <2>2 DEF SameStanding, SameData
  <2> QED BY <1>4, <1>5, <1>6, <2>2, <2>3, RestSound DEF May
<1>7. CASE s.ident
  <2>1. u = [s EXCEPT !.m_Handlers = s.m_Handlers \cup {"handler"}, !.handler = "asking",
                      !.socket = "open"]
    BY <1>2, <1>4, <1>7 DEF HandleAccept, TunnelRecord
  <2>2. "open" \in SocketStates BY DEF SocketStates
  <2> HIDE DEF u
  <2>3. /\ u \in TunnelRecord /\ SameData(s, u) /\ SameOps(s, u)
        /\ u.m_Handlers = s.m_Handlers \cup {"handler"} /\ u.handler = "asking"
        /\ u.socket = "open" /\ u.conn = s.conn /\ u.stream = s.stream
        /\ u.m_Stream = s.m_Stream
    BY <1>2, <2>1, <2>2 DEF TunnelRecord, SameData, SameOps
  <2>4. /\ Phase(s) /\ OpsOK(s) /\ HandlersOK(s) /\ ToNetOK(s) /\ ToAppOK(s)
    BY <1>5 DEF TunnelSound
  <2>5. /\ s.conn = "none" /\ s.case.side = "client" /\ s.handler = "none"
        /\ s.case = t.case
    BY <1>3, <2>4 DEF HandlersOK, SameStanding, SameData
  <2>6. Phase(u) BY <2>3, <2>4, <2>5 DEF Phase, Untouched, SameData
  <2>7. OpsOK(u) BY <2>3, <2>4 DEF OpsOK, SameOps
  <2>8. HandlersOK(u) BY <2>3, <2>4, <2>5 DEF HandlersOK, May, SameData
  <2>9. ToNetOK(u) /\ ToAppOK(u)
    BY <1>2, <2>3, <2>4, <2>5, FreshData DEF OpsOK, SameOps
  <2>10. TunnelSound(u) BY <2>3, <2>6, <2>7, <2>8, <2>9 DEF TunnelSound
  <2> QED BY <2>3, <2>5, <2>10 DEF May, SameData, u
<1> QED BY <1>6, <1>7

LEMMA AcceptedStep == ASSUME TunnelSound(tunnel), Accepted PROVE TunnelSound(tunnel')
BY AcceptSound DEF Accepted

\* The hand-over throws: what was relayed is nothing yet, and the handler stays
\* with its socket if it is listed.
LEMMA ThrownSound ==
  ASSUME NEW t, TunnelSound(t), t.handler = "asking", May(t, "gone")
  PROVE  TunnelSound(ConnectionThrows(t))
<1> DEFINE u == ConnectionThrows(t)
           kept == "handler" \in t.m_Handlers
           handler == IF kept THEN "stranded" ELSE "dead"
           socket == IF kept THEN t.socket ELSE "closed"
<1>1. /\ t \in TunnelRecord /\ Phase(t) /\ OpsOK(t) /\ HandlersOK(t) /\ ToNetOK(t) /\ ToAppOK(t)
  BY DEF TunnelSound
<1>2. t.conn = "none" /\ t.case.side = "client" /\ t.socket = "open"
  BY <1>1 DEF Phase, HandlersOK
<1>3. u = [t EXCEPT !.handler = handler, !.socket = socket, !.stream = "open"]
  BY <1>1 DEF ConnectionThrows, TunnelRecord
<1>4. /\ handler \in {"none", "asking", "stranded", "dead"}
      /\ socket \in SocketStates /\ "open" \in StreamStates
  BY <1>1 DEF TunnelRecord, SocketStates, StreamStates
<1> HIDE DEF u, handler, socket
<1>5. /\ u \in TunnelRecord /\ SameData(t, u) /\ SameOps(t, u)
      /\ u.m_Handlers = t.m_Handlers /\ u.handler = handler /\ u.socket = socket
      /\ u.conn = t.conn /\ u.m_Stream = t.m_Stream
  BY <1>1, <1>3, <1>4 DEF TunnelRecord, SameData, SameOps
<1>6. Phase(u) BY <1>1, <1>2, <1>5 DEF Phase, Untouched, SameData, handler, socket
<1>7. OpsOK(u) BY <1>1, <1>5 DEF OpsOK, SameOps
<1>8. HandlersOK(u) BY <1>1, <1>2, <1>5 DEF HandlersOK, May, SameData, handler
<1>9. ToNetOK(u) /\ ToAppOK(u) BY <1>1, <1>2, <1>5, FreshData DEF OpsOK, SameOps
<1> QED BY <1>5, <1>6, <1>7, <1>8, <1>9 DEF TunnelSound, u

LEMMA AcceptedAndThrownStep ==
  ASSUME TunnelSound(tunnel), AcceptedAndThrown PROVE TunnelSound(tunnel')
<1> DEFINE s == HandleAccept(GetIdentHash(tunnel))
           v == ConnectionThrows(s)
<1>1. TunnelSound(s) /\ s.handler = "asking" /\ May(s, "gone")
  BY AcceptSound DEF AcceptedAndThrown
<1> HIDE DEF s
<1>2. TunnelSound(v) BY <1>1, ThrownSound
<1>3. tunnel' = [v EXCEPT !.accepting = FALSE] BY DEF AcceptedAndThrown, s
<1> HIDE DEF v
<1>4. v \in TunnelRecord BY <1>2 DEF TunnelSound
<1>5. SameStanding(v, tunnel') /\ SameOps(v, tunnel')
  BY <1>3, <1>4 DEF TunnelRecord, SameStanding, SameData, SameOps
<1> QED BY <1>2, <1>5, RestSound

\* I2PConnect and a successful HandleConnect, once the socket is open: the stream
\* and the socket are read.
LEMMA BeginsSound ==
  ASSUME NEW r \in TunnelRecord, r.socket = "open", r.conn = "up", r.m_Stream,
         r.stream \in {"open", "reset"}, r.handler \notin {"asking", "stranded"},
         HandlersOK(r),
         r.rd = "none", r.wr = "none", r.snd = "none", r.srd = "none",
         ToNetOK(r), ToAppOK(r)
  PROVE  TunnelSound(Receive(StreamReceive(r)))
<1> DEFINE srd == IF r.stream = "reset" THEN "reset" ELSE "waiting"
           s == [r EXCEPT !.srd = srd]
           u == [s EXCEPT !.rd = "waiting"]
<1>1. StreamReceive(r) = s BY DEF StreamReceive
<1>2. srd \in {"reset", "waiting"} /\ srd \in StreamReads BY DEF StreamReads
<1> HIDE DEF srd
<1>3. /\ s \in TunnelRecord /\ SameStanding(r, s)
      /\ s.rd = "none" /\ s.wr = "none" /\ s.snd = "none" /\ s.srd = srd
  BY <1>2 DEF TunnelRecord, SameStanding, SameData
<1>4. s.socket = "open" BY <1>3 DEF SameStanding
<1> HIDE DEF s
<1>5. Receive(s) = u BY <1>4 DEF Receive
<1>6. "waiting" \in Reads BY DEF Reads
<1>7. /\ u \in TunnelRecord /\ SameStanding(s, u)
      /\ u.rd = "waiting" /\ u.wr = "none" /\ u.snd = "none" /\ u.srd = srd
  BY <1>3, <1>6 DEF TunnelRecord, SameStanding, SameData
<1> HIDE DEF u
<1>8. SameStanding(r, u) /\ SameData(r, u) BY <1>3, <1>7 DEF SameStanding, SameData
<1>9. Phase(u) BY <1>8 DEF Phase, SameStanding
<1>10. OpsOK(u) BY <1>2, <1>7, <1>8 DEF OpsOK, SameStanding
<1>11. HandlersOK(u) BY <1>8 DEF HandlersOK, SameStanding, SameData, May
<1>12. ToWrite(r) = 0 /\ ToWrite(u) = 0 BY <1>2, <1>7 DEF ToWrite
<1>13. ToNetOK(u) BY <1>7, <1>8, NetKept DEF SameStanding
<1>14. ToAppOK(u) BY <1>7, <1>8, <1>12, AppKept DEF SameStanding
<1> QED BY <1>1, <1>5, <1>7, <1>9, <1>10, <1>11, <1>13, <1>14 DEF TunnelSound

LEMMA StreamRequestCompleteStep ==
  ASSUME TunnelSound(tunnel), StreamRequestComplete PROVE TunnelSound(tunnel')
<1> DEFINE t == tunnel
           u == tunnel'
<1>1. /\ t \in TunnelRecord /\ Phase(t) /\ OpsOK(t) /\ HandlersOK(t) /\ ToNetOK(t) /\ ToAppOK(t)
  BY DEF TunnelSound
<1>2. t.handler = "asking" /\ t.conn = "none" /\ t.case.side = "client" /\ t.socket = "open"
  BY <1>1 DEF StreamRequestComplete, Phase, HandlersOK
<1>3. CASE u = HandlerTerminates(t)
  <2>1. u = [t EXCEPT !.handler = "dead", !.socket = "closed",
                      !.m_Handlers = t.m_Handlers \ {"handler"}]
    BY <1>1, <1>3 DEF HandlerTerminates, TunnelRecord
  <2>2. "closed" \in SocketStates BY DEF SocketStates
  <2> HIDE DEF u, t
  <2>3. /\ u \in TunnelRecord /\ SameData(t, u) /\ SameOps(t, u)
        /\ u.m_Handlers = t.m_Handlers \ {"handler"} /\ u.handler = "dead"
        /\ u.socket = "closed" /\ u.conn = t.conn /\ u.stream = t.stream
        /\ u.m_Stream = t.m_Stream
    BY <1>1, <2>1, <2>2 DEF TunnelRecord, SameData, SameOps
  <2>4. Phase(u) BY <1>1, <1>2, <2>3 DEF Phase, Untouched, SameData
  <2>5. OpsOK(u) BY <1>1, <2>3 DEF OpsOK, SameOps
  <2>6. HandlersOK(u) BY <1>1, <1>2, <2>3 DEF HandlersOK, May, SameData
  <2>7. ToNetOK(u) /\ ToAppOK(u)
    BY <1>1, <1>2, <2>3, FreshData DEF OpsOK, SameOps
  <2> QED BY <2>3, <2>4, <2>5, <2>6, <2>7 DEF TunnelSound, u
<1>4. CASE u = NewConnection(t)
  <2> DEFINE s == [t EXCEPT !.handler = "dead", !.stream = "open", !.m_Stream = TRUE,
                            !.m_Handlers = (t.m_Handlers \ {"handler"}) \cup {"conn"}]
             r == [s EXCEPT !.conn = "up"]
  <2>1. u = Receive(StreamReceive(r))
    BY <1>1, <1>4 DEF NewConnection, I2PConnect, TunnelRecord
  <2>2. "open" \in StreamStates BY DEF StreamStates
  <2>3. /\ s \in TunnelRecord /\ SameData(t, s) /\ SameOps(t, s)
        /\ s.m_Handlers = (t.m_Handlers \ {"handler"}) \cup {"conn"} /\ s.handler = "dead"
        /\ s.socket = t.socket /\ s.stream = "open" /\ s.m_Stream
    BY <1>1, <2>2 DEF TunnelRecord, SameData, SameOps
  <2> HIDE DEF s, u, t
  <2>4. /\ r \in TunnelRecord /\ SameData(s, r) /\ SameOps(s, r)
        /\ r.m_Handlers = s.m_Handlers /\ r.handler = "dead" /\ r.conn = "up"
        /\ r.socket = s.socket /\ r.stream = "open" /\ r.m_Stream
    BY <2>3 DEF TunnelRecord, SameData, SameOps
  <2> HIDE DEF r
  <2>5. SameData(t, r) /\ SameOps(t, r) /\ r.socket = "open"
    BY <1>2, <2>3, <2>4 DEF SameData, SameOps
  <2>6. HandlersOK(r) BY <1>1, <1>2, <2>3, <2>4, <2>5 DEF HandlersOK, May, SameData
  <2>7. /\ r.rd = "none" /\ r.wr = "none" /\ r.snd = "none" /\ r.srd = "none"
    BY <1>1, <1>2, <2>5 DEF OpsOK, SameOps
  <2>8. ToNetOK(r) /\ ToAppOK(r)
    BY <1>1, <1>2, <2>4, <2>5, <2>7, FreshData
  <2> QED BY <2>1, <2>4, <2>5, <2>6, <2>7, <2>8, BeginsSound DEF u
<1>5. CASE May(t, "gone") /\ u = ConnectionThrows(t) BY <1>2, <1>5, ThrownSound
<1> QED BY <1>3, <1>4, <1>5 DEF StreamRequestComplete

LEMMA HandleIncomingStep == ASSUME TunnelSound(tunnel), HandleIncoming PROVE TunnelSound(tunnel')
<1> DEFINE t == tunnel
           u == tunnel'
<1>1. /\ t \in TunnelRecord /\ Phase(t) /\ OpsOK(t) /\ HandlersOK(t) /\ ToNetOK(t) /\ ToAppOK(t)
  BY DEF TunnelSound
<1>2. t.case.side = "server" /\ t.conn = "none" /\ t.stream = "none" BY DEF HandleIncoming
<1>3. t.handler = "none" BY <1>1, <1>2 DEF HandlersOK
<1>4. {"open", "closing"} \subseteq StreamStates BY DEF StreamStates
<1>5. CASE t.case.allowed
  <2>1. u = [t EXCEPT !.conn = "connecting", !.stream = "open", !.m_Stream = TRUE,
                      !.m_Handlers = t.m_Handlers \cup {"conn"}]
    BY <1>1, <1>5 DEF HandleIncoming, TunnelRecord
  <2> HIDE DEF u, t
  <2>2. /\ u \in TunnelRecord /\ SameData(t, u) /\ SameOps(t, u)
        /\ u.m_Handlers = t.m_Handlers \cup {"conn"} /\ u.handler = t.handler
        /\ u.socket = t.socket /\ u.conn = "connecting" /\ u.stream = "open" /\ u.m_Stream
    BY <1>1, <1>4, <2>1 DEF TunnelRecord, SameData, SameOps
  <2>3. Phase(u) BY <1>1, <1>2, <1>3, <2>2 DEF Phase, Untouched, SameData
  <2>4. OpsOK(u) BY <1>1, <1>2, <2>2 DEF OpsOK, SameOps
  <2>5. HandlersOK(u) BY <1>1, <1>2, <1>3, <2>2 DEF HandlersOK, May, SameData
  <2>6. ToNetOK(u) /\ ToAppOK(u)
    BY <1>1, <1>2, <2>2, FreshData DEF OpsOK, SameOps
  <2> QED BY <2>2, <2>3, <2>4, <2>5, <2>6 DEF TunnelSound, u
<1>6. CASE ~t.case.allowed
  <2>1. u = [t EXCEPT !.stream = "closing", !.rejected = TRUE]
    BY <1>1, <1>6 DEF HandleIncoming, TunnelRecord
  <2> HIDE DEF u, t
  <2>2. /\ u \in TunnelRecord /\ SameData(t, u) /\ SameOps(t, u)
        /\ u.m_Handlers = t.m_Handlers /\ u.handler = t.handler
        /\ u.socket = t.socket /\ u.conn = "none" /\ u.stream = "closing"
        /\ u.m_Stream = t.m_Stream
    BY <1>1, <1>2, <1>4, <2>1 DEF TunnelRecord, SameData, SameOps
  <2>3. Phase(u) BY <1>1, <1>2, <1>3, <2>2 DEF Phase, Untouched, SameData
  <2>4. OpsOK(u) BY <1>1, <1>2, <2>2 DEF OpsOK, SameOps
  <2>5. HandlersOK(u) BY <1>1, <1>2, <1>3, <2>2 DEF HandlersOK, May, SameData
  <2>6. ToNetOK(u) /\ ToAppOK(u)
    BY <1>1, <1>2, <2>2, FreshData DEF OpsOK, SameOps
  <2> QED BY <2>2, <2>3, <2>4, <2>5, <2>6 DEF TunnelSound, u
<1> QED BY <1>5, <1>6

LEMMA ConnectsStep == ASSUME TunnelSound(tunnel), Connects PROVE TunnelSound(tunnel')
<1> DEFINE t == tunnel
           u == tunnel'
<1>1. /\ t \in TunnelRecord /\ Phase(t) /\ OpsOK(t) /\ HandlersOK(t) /\ ToNetOK(t) /\ ToAppOK(t)
  BY DEF TunnelSound
<1>2. /\ t.conn = "connecting" /\ t.handler \notin {"asking", "stranded"} /\ t.m_Stream
      /\ t.stream \in {"open", "reset"}
  BY <1>1 DEF Connects, Phase
<1>3. CASE u = HandleConnect(t, FALSE)
  <2>1. u = TerminateConnection(t) BY <1>3 DEF HandleConnect
  <2>2. SameStanding(t, t) BY <1>1 DEF SameStanding, SameData
  <2> QED BY <1>1, <1>2, <2>1, <2>2, EndSound
<1>4. CASE u = HandleConnect(t, TRUE)
  <2> DEFINE r == [t EXCEPT !.conn = "up", !.socket = "open"]
  <2>1. u = Receive(StreamReceive(r)) BY <1>4 DEF HandleConnect
  <2>2. "open" \in SocketStates BY DEF SocketStates
  <2> HIDE DEF u, t
  <2>3. /\ r \in TunnelRecord /\ SameData(t, r) /\ SameOps(t, r)
        /\ r.m_Handlers = t.m_Handlers /\ r.handler = t.handler /\ r.conn = "up"
        /\ r.socket = "open" /\ r.stream = t.stream /\ r.m_Stream = t.m_Stream
    BY <1>1, <2>2 DEF TunnelRecord, SameData, SameOps
  <2> HIDE DEF r
  <2>4. HandlersOK(r) BY <1>1, <1>2, <2>3 DEF HandlersOK, May, SameData
  <2>5. /\ r.rd = "none" /\ r.wr = "none" /\ r.snd = "none" /\ r.srd = "none"
    BY <1>1, <1>2, <2>3 DEF OpsOK, SameOps
  <2>6. ToNetOK(r) /\ ToAppOK(r)
    BY <1>1, <1>2, <2>3, <2>5, FreshData
  <2> QED BY <1>2, <2>1, <2>3, <2>4, <2>5, <2>6, BeginsSound DEF u
<1> QED BY <1>3, <1>4 DEF Connects

LEMMA StreamEndsStep == ASSUME TunnelSound(tunnel), StreamEnds PROVE TunnelSound(tunnel')
<1> DEFINE t == tunnel
           u == tunnel'
           stream == IF t.stream = "open" THEN "reset" ELSE "closed"
           snd == IF t.snd = "waiting" THEN "error" ELSE t.snd
           srd == IF t.srd # "waiting" THEN t.srd
                  ELSE IF t.stream = "open" THEN "reset" ELSE "aborted"
<1>1. /\ t \in TunnelRecord /\ Phase(t) /\ OpsOK(t) /\ HandlersOK(t) /\ ToNetOK(t) /\ ToAppOK(t)
  BY DEF TunnelSound
<1>2. u = [t EXCEPT !.stream = stream, !.snd = snd, !.srd = srd]
  BY <1>1 DEF StreamEnds, TunnelRecord
<1>3. stream \in StreamStates /\ snd \in Sends /\ srd \in StreamReads
  BY <1>1 DEF TunnelRecord, StreamStates, Sends, StreamReads
<1>4. t.stream \in {"open", "closing"} BY DEF StreamEnds
<1>5. /\ (snd = "none") <=> (t.snd = "none")
      /\ (srd = "none") <=> (t.srd = "none")
      /\ (srd = "data") <=> (t.srd = "data")
      /\ srd = "aborted" => t.srd = "aborted" \/ t.stream = "closing"
      /\ stream = IF t.stream = "open" THEN "reset" ELSE "closed"
  BY <1>4
<1> HIDE DEF u, t, stream, snd, srd
<1>6. /\ u \in TunnelRecord /\ SameData(t, u)
      /\ u.rd = t.rd /\ u.wr = t.wr /\ u.snd = snd /\ u.srd = srd
      /\ u.m_Handlers = t.m_Handlers /\ u.handler = t.handler /\ u.conn = t.conn
      /\ u.socket = t.socket /\ u.stream = stream /\ u.m_Stream = t.m_Stream
  BY <1>1, <1>2, <1>3 DEF TunnelRecord, SameData
<1>7. Phase(u) BY <1>1, <1>4, <1>5, <1>6 DEF Phase, Untouched, SameData
<1>8. OpsOK(u)
  <2>1. t.conn = "up" => t.stream = "open" BY <1>1, <1>4 DEF Phase
  <2> QED BY <1>1, <1>5, <1>6, <2>1 DEF OpsOK
<1>9. HandlersOK(u)
  <2>1. ~(t.case.side = "client" /\ t.conn = "none" /\ t.handler \in {"none", "asking"})
    BY <1>1, <1>4 DEF HandlersOK
  <2> QED BY <1>1, <1>6, <2>1 DEF HandlersOK, May, SameData
<1>10. ToNetOK(u) BY <1>1, <1>6, NetKept
<1>11. ToWrite(u) = ToWrite(t) BY <1>5, <1>6 DEF ToWrite, SameData
<1>12. ToAppOK(u) BY <1>1, <1>6, <1>11, AppKept
<1> QED BY <1>6, <1>7, <1>8, <1>9, <1>10, <1>12 DEF TunnelSound, u

-----------------------------------------------------------------------------
LEMMA InitTunnel == I2PTunnelInit => TunnelSound(tunnel)
<1> SUFFICES ASSUME NEW c \in I2PTunnelCases, I2PTunnelInitWith(c) PROVE TunnelSound(tunnel)
  BY DEF I2PTunnelInit
<1> DEFINE t == tunnel
<1>1. <<>> \in Seq(Nat) /\ Len(<<>>) = 0 BY EmptySeq
<1>2. c.known \in BOOLEAN /\ c.app \in Seq(Nat) /\ c.net \in Seq(Nat) BY I2PTunnelAssumption
<1>3. /\ "none" \in SocketStates /\ "none" \in StreamStates /\ "none" \in Reads
      /\ "none" \in Writes /\ "none" \in Sends /\ "none" \in StreamReads
  BY DEF SocketStates, StreamStates, Reads, Writes, Sends, StreamReads
<1>4. /\ t.case = c /\ t.m_Handlers = {} /\ t.handler = "none" /\ t.conn = "none"
      /\ t.socket = "none" /\ t.stream = "none" /\ t.rd = "none" /\ t.wr = "none"
      /\ t.snd = "none" /\ t.srd = "none" /\ ~t.m_Stream /\ t.taken = 0 /\ t.given = 0
      /\ t.toNet = <<>> /\ t.toApp = <<>> /\ t.cut = {} /\ t \in TunnelRecord
  BY <1>1, <1>2, <1>3 DEF I2PTunnelInitWith, TunnelRecord
<1> HIDE DEF t
<1>5. Phase(t) /\ OpsOK(t) /\ HandlersOK(t) BY <1>4 DEF Phase, Untouched, OpsOK, HandlersOK
<1>6. Len(c.app) \in Nat /\ Len(c.net) \in Nat BY <1>2, LenProperties
<1>7. ToNetOK(t)
  <2>1. t.toNet \o <<>> = <<>> BY <1>1, <1>4, NothingAdded
  <2>2. SubSeq(c.app, 1, 0) = <<>>
    <3>1. SubSeq(c.app, 1, 0) \in Seq(Nat) /\ Len(SubSeq(c.app, 1, 0)) = 0
      BY <1>2, <1>6, SubSeqProperties
    <3> QED BY <3>1, EmptySeq
  <2> QED BY <1>4, <1>6, <2>1, <2>2 DEF ToNetOK
<1>8. ToAppOK(t)
  <2> DEFINE f == [i \in 1 .. 0 |-> 1]
  <2>1. ToWrite(t) = 0 BY <1>4 DEF ToWrite
  <2>2. Placed(t, f, 0) BY <1>1, <1>4, <2>1 DEF Placed, Counts
  <2>3. f \in [1 .. Len(t.toApp) -> 1 .. t.given] BY <1>1, <1>4
  <2> HIDE DEF f
  <2>4. /\ t.given = 0 /\ 0 \in 0 .. t.given /\ t.given <= Len(t.case.net)
        /\ ToWrite(t) <= t.given /\ ~(ToWrite(t) > 0)
    BY <1>4, <1>6, <2>1
  <2> QED BY <2>2, <2>3, <2>4 DEF ToAppOK
<1> QED BY <1>4, <1>5, <1>7, <1>8 DEF TunnelSound, t

\* The inductive invariant of an I2P tunnel.
TunnelIInv == TunnelSound(tunnel)

LEMMA NextTunnel == TunnelIInv /\ [I2PTunnelNext]_i2pTunnelVars => TunnelIInv'
<1> SUFFICES ASSUME TunnelSound(tunnel), [I2PTunnelNext]_i2pTunnelVars PROVE TunnelSound(tunnel')
  BY DEF TunnelIInv
<1>1. CASE StartClient BY <1>1, StartClientStep
<1>2. CASE Accepted \/ AcceptedAndThrown BY <1>2, AcceptedStep, AcceptedAndThrownStep
<1>3. CASE AcceptFails \/ BookLearns BY <1>3, AcceptFailsStep
<1>4. CASE StreamRequestComplete BY <1>4, StreamRequestCompleteStep
<1>5. CASE StopClient \/ StopServer BY <1>5, StopStep
<1>6. CASE StartServer BY <1>6, StartServerStep
<1>7. CASE HandleIncoming BY <1>7, HandleIncomingStep
<1>8. CASE Connects BY <1>8, ConnectsStep
<1>9. CASE \E n \in 1..Len(tunnel.case.app) : SocketHasData(n) BY <1>9, SocketHasDataStep
<1>10. CASE \E n \in 1..Len(tunnel.case.net) : SocketWrites(n) BY <1>10, SocketWritesStep
<1>11. CASE \E n \in 1..Len(tunnel.case.net) : StreamHasData(n) BY <1>11, StreamHasDataStep
<1>12. CASE SocketEnds \/ SocketWriteFails \/ StreamHasSent \/ StreamIdle
  BY <1>12, OperationEndsStep
<1>13. CASE StreamEnds BY <1>13, StreamEndsStep
<1>14. CASE HandlerRuns
  BY <1>14, HandleReceivedStep, HandleSentStep, HandleStreamReceiveStep, HandleWriteStep
     DEF HandlerRuns
<1>15. CASE UNCHANGED i2pTunnelVars BY <1>15 DEF i2pTunnelVars
<1> QED
  BY <1>1, <1>2, <1>3, <1>4, <1>5, <1>6, <1>7, <1>8, <1>9, <1>10, <1>11, <1>12, <1>13, <1>14,
     <1>15
     DEF I2PTunnelNext

LEMMA SoundIsSafe == TunnelIInv => I2PTunnelSafe
<1> SUFFICES ASSUME TunnelSound(tunnel) PROVE I2PTunnelSafe BY DEF TunnelIInv
<1> DEFINE t == tunnel
<1>1. /\ t \in TunnelRecord /\ Phase(t) /\ OpsOK(t) /\ HandlersOK(t) /\ ToNetOK(t) /\ ToAppOK(t)
  BY DEF TunnelSound
<1>2. I2PTunnelTypeOK
  BY <1>1 DEF I2PTunnelTypeOK, TunnelRecord, SocketStates, StreamStates, Reads, Writes, Sends,
              StreamReads
<1>3. t.taken \in Nat /\ t.given \in Nat /\ t.toApp \in Seq(Nat) BY <1>1 DEF TunnelRecord
<1>4. PICK m \in 0 .. t.given, f \in [1 .. Len(t.toApp) -> 1 .. t.given] : Placed(t, f, m)
  BY <1>1 DEF ToAppOK
<1>5. PlacesOfToApp(f)
  <2>1. DOMAIN t.toApp = 1 .. Len(t.toApp) /\ DOMAIN f = 1 .. Len(t.toApp)
    BY <1>3, <1>4, LenProperties
  <2>2. \A p \in 1 .. t.given, i \in 1 .. Len(t.toApp) : p <= f[i] => p \in 1 .. m
    <3> TAKE p \in 1 .. t.given, i \in 1 .. Len(t.toApp)
    <3>1. f[i] \in 1 .. m BY <1>4 DEF Placed, Counts
    <3> QED BY <1>3, <1>4, <3>1
  <2> QED BY <1>4, <2>1, <2>2 DEF PlacesOfToApp, Placed, Counts
<1>6. RelayedInOrder
  <2>1. t.toNet \o (IF t.rd = "data" /\ t.m_Stream THEN t.m_Buffer ELSE <<>>)
          \in {SubSeq(t.case.app, 1, n) : n \in IF t.conn = "dead" THEN 0..t.taken ELSE {t.taken}}
    BY <1>1 DEF ToNetOK
  <2> QED BY <1>4, <1>5, <2>1 DEF RelayedInOrder
<1>7. UpIsServed BY <1>1 DEF OpsOK, UpIsServed
<1>8. DeadIsReleased BY <1>1 DEF Phase, TunnelRecord, DeadIsReleased
<1>9. KeepsLiveHandlers BY <1>1 DEF HandlersOK, KeepsLiveHandlers
<1> QED BY <1>2, <1>6, <1>7, <1>8, <1>9 DEF I2PTunnelSafe

\* I2PTunnelConnection, its acceptors and its handlers: whatever is sent and
\* fails, a connection is relayed in both directions in order and once, is read
\* as long as it is up, and lets go of socket, stream and handler together; a
\* hand-over that throws leaves a dead handler and its socket until Stop.
THEOREM I2PTunnelIsSafe == I2PTunnelSpec => []I2PTunnelSafe
<1>1. I2PTunnelInit => TunnelIInv BY InitTunnel DEF TunnelIInv
<1> QED BY <1>1, NextTunnel, SoundIsSafe, PTL DEF I2PTunnelSpec
=============================================================================
