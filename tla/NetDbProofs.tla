---------------------------- MODULE NetDbProofs ----------------------------
(***************************************************************************)
(* The network database (NetDb.tla), for any routers, floodfills, callers  *)
(* and bounds: whoever asks for a RouterInfo is called back once, or twice *)
(* while two threads complete its request at the same time; the network    *)
(* thread asks no floodfill twice; a reply names routers that are in the   *)
(* table, and the files are what the table was when it was saved.          *)
(*                                                                         *)
(* The invariant has two parts.  No handler mixes them: InfosOK is about   *)
(* the objects and the files, RequestsOK about the requests, the callers   *)
(* and where the transports' thread is in RequestDestination.              *)
(* A step on requests replaces each by another (MapFits), lets go of some  *)
(* (SettleSound), completes one (CompleteSound) or adds new ones (AddFits).*)
(***************************************************************************)
EXTENDS NetDb, FiniteSetTheorems, TLAPS

Info == [ident : NDRouters, version : Nat, updated : BOOLEAN,
         unreachable : BOOLEAN, inTable : BOOLEAN, listed : BOOLEAN]
Request == [dest : NDIdents, exploratory : BOOLEAN, asked : Seq(NDRouters),
            excluded : SUBSET NDRouters, age : {"unsent", "fresh", "waiting", "stale"},
            callback : NDRequesters \cup {Unasked}, inTable : BOOLEAN, held : BOOLEAN,
            found : BOOLEAN]
Caller == [at : {"idle", "begun", "chosen", "called"}, who : NDRequesters \cup {Unasked},
           floodfills : SUBSET NDRouters]
Reply == [named : SUBSET NDRouters, excluded : SUBSET NDRouters, exploratory : BOOLEAN]
State == [infos : SUBSET Info, requests : SUBSET Request, calls : [NDRequesters -> Nat],
          issued : SUBSET NDRequesters, files : [NDRouters -> Nat], running : BOOLEAN,
          restarts : Nat, reply : Reply, caller : Caller, case : NDCases]

\* The objects and the files.  An object that left the table is kept in the list
\* of floodfills only if it was found unreachable.
InfosOK(nd) ==
  /\ \A o \in nd.infos :
       /\ o.version \in 1..Len(NDPublished[o.ident])
       /\ o.inTable \/ (o.listed /\ o.unreachable)
       /\ o.inTable => o.updated \/ nd.files[o.ident] = o.version
  /\ \A o, p \in TableOf(nd) : o.ident = p.ident => o = p
  /\ \A r \in NDRouters : nd.files[r] \in 0..Len(NDPublished[r])
  /\ nd.restarts \in 0..nd.case.restarts

\* What a request asked are routers it excludes; one more, asked by the
\* transports' thread, may be excluded.
AskedOK(q) ==
  /\ IsFiniteSet(q.excluded)
  /\ Cardinality(q.excluded) \in {Len(q.asked), Len(q.asked) + 1}
  /\ q.held => Cardinality(q.excluded) = Len(q.asked)
  /\ \A i \in DOMAIN q.asked : q.asked[i] \in q.excluded
  /\ \A i, j \in DOMAIN q.asked : q.asked[i] = q.asked[j] => i = j
  /\ Len(q.asked) <= NDMaxAsked

\* The table has one request for a destination.
Fit(R) ==
  /\ \A q \in R : AskedOK(q)
  /\ \A q, r \in R : q.inTable /\ r.inTable /\ q.dest = r.dest => q = r

\* What the transports' thread holds, and what it found.
Work(R, caller) ==
  /\ caller.at = "idle" => \A q \in R : ~q.held
  /\ caller.at # "idle" => caller.who \in NDRequesters
  /\ \A q \in R : q.held /\ q.inTable => q.callback = caller.who
  /\ \A q, x \in R : q.held /\ x.inTable /\ x.dest = q.dest => x = q \/ x.callback = Unasked
  /\ \A q \in R : q.found => caller.at = "called"

\* The caller whose callback is called and not yet cleared.
Failing(caller) == IF caller.at = "called" THEN caller.who ELSE Unasked

Holding(R, c) == \E q \in R : q.callback = c
Told(calls, R, c) == calls[c] + IF Holding(R, c) THEN 1 ELSE 0

\* The callback of a caller is in one request, or was called; it is both or was
\* called twice only while the transports' thread calls it.  That an entry this
\* thread found is still in the table says that no other has called it.
CallerOK(calls, R, issued, w, c) ==
  /\ \A q, r \in R : q.callback = c /\ r.callback = c => q = r
  /\ c \notin issued => Told(calls, R, c) = 0
  /\ c \in issued => Told(calls, R, c) = 1 \/ (c = w /\ Told(calls, R, c) = 2)
  /\ c = w => \A q \in R : q.found /\ q.inTable =>
                \/ q.callback = c /\ calls[c] = 1
                \/ q.callback = Unasked /\ (c \in issued => Told(calls, R, c) = 1)

CallersOK(calls, R, issued, w) == \A c \in NDRequesters : CallerOK(calls, R, issued, w, c)

Good(nd, R) ==
  Fit(R) /\ Work(R, nd.caller) /\ CallersOK(nd.calls, R, nd.issued, Failing(nd.caller))

RequestsOK(nd) ==
  Good(nd, nd.requests) /\ \A q \in nd.requests : q.inTable \/ q.held

Named(nd) ==
  ~nd.reply.exploratory =>
    \A f \in nd.reply.named : f \notin nd.reply.excluded /\ FindRouter(nd, f) # {}

IInv == netdb \in State /\ InfosOK(netdb) /\ RequestsOK(netdb) /\ Named(netdb)

\* A step on the requests leaves the rest alone.
SameInfos(nd, e) ==
  /\ e.infos = nd.infos /\ e.files = nd.files /\ e.running = nd.running
  /\ e.restarts = nd.restarts /\ e.reply = nd.reply /\ e.caller = nd.caller
  /\ e.case = nd.case
-----------------------------------------------------------------------------
(***************************************************************************)
(* The requests.                                                           *)
(***************************************************************************)
LEMMA CountOne ==
  ASSUME NEW R, NEW c, \A q, r \in R : q.callback = c /\ r.callback = c => q = r
  PROVE  Cardinality({q \in R : q.callback = c}) = IF Holding(R, c) THEN 1 ELSE 0
<1>1. CASE Holding(R, c)
  <2>1. PICK q \in R : q.callback = c BY <1>1 DEF Holding
  <2>2. {r \in R : r.callback = c} = {q} BY <2>1
  <2> QED BY <2>2, <1>1, FS_Singleton
<1>2. CASE ~Holding(R, c)
  <2>1. {r \in R : r.callback = c} = {} BY <1>2 DEF Holding
  <2> QED BY <2>1, <1>2, FS_EmptySet
<1> QED BY <1>1, <1>2

LEMMA CallBackSound ==
  ASSUME NEW nd \in State, NEW R,
         \A c \in NDRequesters : \A q, r \in R : q.callback = c /\ r.callback = c => q = r
  PROVE  LET e == CallBack(nd, R)
         IN /\ e \in State /\ SameInfos(nd, e)
            /\ e.requests = nd.requests /\ e.issued = nd.issued
            /\ \A c \in NDRequesters :
                 e.calls[c] = nd.calls[c] + IF Holding(R, c) THEN 1 ELSE 0
<1> DEFINE calls == [c \in NDRequesters |->
                       nd.calls[c] + Cardinality({q \in R : q.callback = c})]
<1>1. CallBack(nd, R) = [nd EXCEPT !.calls = calls] BY DEF CallBack
<1>2. \A c \in NDRequesters : Cardinality({q \in R : q.callback = c}) = IF Holding(R, c) THEN 1 ELSE 0
  BY CountOne
<1>3. \A c \in NDRequesters : /\ calls[c] = nd.calls[c] + IF Holding(R, c) THEN 1 ELSE 0
                              /\ calls[c] \in Nat
  BY <1>2 DEF State
<1>4. calls \in [NDRequesters -> Nat] BY <1>3
<1> HIDE DEF calls
<1>5. /\ [nd EXCEPT !.calls = calls] \in State /\ SameInfos(nd, [nd EXCEPT !.calls = calls])
      /\ [nd EXCEPT !.calls = calls].requests = nd.requests
      /\ [nd EXCEPT !.calls = calls].issued = nd.issued
      /\ [nd EXCEPT !.calls = calls].calls = calls
  BY <1>4 DEF State, SameInfos
<1> QED BY <1>1, <1>3, <1>5

\* Whoever holds a request that nobody keeps is called back by its destructor.
LEMMA SettleSound ==
  ASSUME NEW nd \in State, NEW R \in SUBSET Request, Good(nd, R)
  PROVE  LET e == Settle(nd, R)
         IN /\ e \in State /\ SameInfos(nd, e) /\ e.issued = nd.issued
            /\ RequestsOK(e) /\ e.requests \subseteq R
            /\ \A q \in e.requests : q.inTable \/ q.held
            /\ \A c \in NDRequesters : Told(e.calls, e.requests, c) = Told(nd.calls, R, c)
<1> DEFINE dropped == {q \in R : ~q.inTable /\ ~q.held}
           b == CallBack(nd, dropped)
           e == [b EXCEPT !.requests = R \ dropped]
           w == Failing(nd.caller)
<1>1. Settle(nd, R) = e BY DEF Settle
<1>2. /\ b \in State /\ SameInfos(nd, b) /\ b.issued = nd.issued
      /\ \A c \in NDRequesters :
           b.calls[c] = nd.calls[c] + IF Holding(dropped, c) THEN 1 ELSE 0
  <2>1. \A c \in NDRequesters : \A q, r \in dropped : q.callback = c /\ r.callback = c => q = r
    BY DEF Good, CallersOK, CallerOK
  <2> HIDE DEF dropped
  <2> QED BY <2>1, CallBackSound
<1>3. /\ e \in State /\ SameInfos(nd, e) /\ e.issued = nd.issued /\ e.calls = b.calls
      /\ e.requests = R \ dropped /\ e.caller = nd.caller
  <2> HIDE DEF b, dropped
  <2> QED BY <1>2 DEF State, SameInfos
<1>4. /\ Fit(e.requests) /\ Work(e.requests, e.caller)
      /\ \A q \in e.requests : q.inTable \/ q.held
  BY <1>3 DEF Good, Fit, Work
<1>5. ASSUME NEW c \in NDRequesters
      PROVE  /\ CallerOK(e.calls, e.requests, e.issued, w, c)
             /\ Told(e.calls, e.requests, c) = Told(nd.calls, R, c)
  <2> DEFINE S == R \ dropped
  <2>1. CallerOK(nd.calls, R, nd.issued, w, c) BY DEF Good, CallersOK
  <2>2. Holding(R, c) <=> Holding(dropped, c) \/ Holding(S, c) BY DEF Holding
  <2>3. ~(Holding(dropped, c) /\ Holding(S, c)) BY <2>1 DEF Holding, CallerOK
  <2>4. e.calls[c] = nd.calls[c] + IF Holding(dropped, c) THEN 1 ELSE 0 BY <1>2, <1>3
  <2>5. \A q \in S : q.callback = c => ~Holding(dropped, c) BY <2>3 DEF Holding
  <2>6. S \subseteq R /\ e.requests = S /\ nd.calls[c] \in Nat BY <1>3 DEF State
  <2> HIDE DEF e, dropped, S, w
  <2>7. Told(e.calls, S, c) = Told(nd.calls, R, c) BY <2>2, <2>3, <2>4, <2>6 DEF Told
  <2>8. \A q \in S : q.callback = c => e.calls[c] = nd.calls[c] BY <2>4, <2>5, <2>6
  <2> QED BY <2>1, <2>6, <2>7, <2>8, <1>3 DEF CallerOK
<1> HIDE DEF e
<1>6. e.requests \subseteq R BY <1>3
<1>7. CallersOK(e.calls, e.requests, e.issued, Failing(e.caller)) BY <1>3, <1>5 DEF CallersOK
<1> QED BY <1>1, <1>3, <1>4, <1>5, <1>6, <1>7 DEF RequestsOK, Good

\* What a request that takes the place of another keeps of it.
Fits(a, q) ==
  /\ a \in Request /\ a.dest = q.dest /\ a.callback = q.callback /\ a.found = q.found
  /\ a.inTable => q.inTable
  /\ a.held => q.held
  /\ AskedOK(a)

\* Requests that are replaced one by one, each keeping its callback.
LEMMA MapFits ==
  ASSUME NEW nd \in State, NEW Q, NEW f \in [Q -> Request], Good(nd, Q),
         \A q \in Q : Fits(f[q], q)
  PROVE  LET R == {f[q] : q \in Q} IN R \in SUBSET Request /\ Good(nd, R)
<1> DEFINE R == {f[q] : q \in Q}
           w == Failing(nd.caller)
<1>1. R \in SUBSET Request OBVIOUS
<1>2. \A x \in R : \E q \in Q : /\ x = f[q] /\ x.dest = q.dest /\ x.callback = q.callback
                                /\ x.found = q.found /\ AskedOK(x)
                                /\ x.inTable => q.inTable
                                /\ x.held => q.held
  BY DEF Fits
<1>3. \A q \in Q : f[q] \in R /\ f[q].callback = q.callback BY DEF Fits
<1> HIDE DEF R
<1>4. Fit(R) BY <1>2 DEF Good, Fit
<1>5. Work(R, nd.caller)
  <2>1. Work(Q, nd.caller) BY DEF Good
  <2>2. /\ nd.caller.at = "idle" => \A x \in R : ~x.held
        /\ nd.caller.at # "idle" => nd.caller.who \in NDRequesters
        /\ \A x \in R : x.held /\ x.inTable => x.callback = nd.caller.who
        /\ \A x \in R : x.found => nd.caller.at = "called"
    BY <1>2, <2>1 DEF Work
  <2>3. \A x, y \in R : x.held /\ y.inTable /\ y.dest = x.dest => y = x \/ y.callback = Unasked
    BY <1>2, <2>1 DEF Work
  <2> QED BY <2>2, <2>3 DEF Work
<1>6. ASSUME NEW c \in NDRequesters PROVE CallerOK(nd.calls, R, nd.issued, w, c)
  <2>1. CallerOK(nd.calls, Q, nd.issued, w, c) BY DEF Good, CallersOK
  <2>2. Holding(R, c) <=> Holding(Q, c) BY <1>2, <1>3 DEF Holding
  <2>3. \A q, r \in R : q.callback = c /\ r.callback = c => q = r BY <1>2, <2>1 DEF CallerOK
  <2>4. Told(nd.calls, R, c) = Told(nd.calls, Q, c) BY <2>2 DEF Told
  <2> HIDE DEF w
  <2> QED BY <1>2, <2>1, <2>3, <2>4 DEF CallerOK
<1> QED BY <1>1, <1>4, <1>5, <1>6 DEF Good, CallersOK, R

\* Requests whose callback is cleared and whose entry is erased.
Clear(q) == [q EXCEPT !.callback = Unasked, !.inTable = FALSE]

LEMMA ClearFits ==
  ASSUME NEW nd \in State, RequestsOK(nd), NEW done \in SUBSET nd.requests
  PROVE  LET cleared == {Clear(q) : q \in done}
             R == (nd.requests \ done) \cup cleared
         IN /\ R \in SUBSET Request /\ Fit(R) /\ Work(R, nd.caller)
            /\ \A q \in cleared : q.callback = Unasked /\ ~q.inTable
            /\ \A c \in NDRequesters : Holding(R, c) <=> Holding(nd.requests \ done, c)
<1> DEFINE cleared == {Clear(q) : q \in done}
           rest == nd.requests \ done
           R == rest \cup cleared
<1>1. done \subseteq nd.requests /\ nd.requests \subseteq Request BY DEF State
<1>2. \A p \in Request : LET q == Clear(p)
                         IN /\ q \in Request /\ q.callback = Unasked /\ ~q.inTable
                            /\ q.held = p.held /\ q.found = p.found /\ q.dest = p.dest
                            /\ q.asked = p.asked /\ q.excluded = p.excluded
  BY DEF Request, Clear
<1>3. \A q \in cleared : \E p \in nd.requests :
        /\ q \in Request /\ q.callback = Unasked /\ ~q.inTable
        /\ q.held = p.held /\ q.found = p.found /\ q.dest = p.dest
        /\ q.asked = p.asked /\ q.excluded = p.excluded
  BY <1>1, <1>2
<1> HIDE DEF cleared
<1>4. R \in SUBSET Request BY <1>1, <1>3
<1>5. Fit(R)
  <2>1. Fit(nd.requests) BY DEF RequestsOK, Good
  <2>2. \A q \in R : AskedOK(q) BY <2>1, <1>3 DEF Fit, AskedOK
  <2>3. \A q, r \in R : q.inTable /\ r.inTable /\ q.dest = r.dest => q = r
    BY <2>1, <1>3 DEF Fit
  <2> QED BY <2>2, <2>3 DEF Fit
<1>6. Work(R, nd.caller)
  <2>1. Work(nd.requests, nd.caller) BY DEF RequestsOK, Good
  <2>2. /\ nd.caller.at = "idle" => \A x \in R : ~x.held
        /\ nd.caller.at # "idle" => nd.caller.who \in NDRequesters
        /\ \A x \in R : x.held /\ x.inTable => x.callback = nd.caller.who
        /\ \A x \in R : x.found => nd.caller.at = "called"
    BY <1>3, <2>1 DEF Work
  <2>3. \A x, y \in R : x.held /\ y.inTable /\ y.dest = x.dest => y = x \/ y.callback = Unasked
    <3> SUFFICES ASSUME NEW x \in R, NEW y \in R, x.held, y.inTable, y.dest = x.dest
        PROVE  y = x \/ y.callback = Unasked
      OBVIOUS
    <3>1. y \in rest BY <1>3
    <3>2. CASE x \in rest BY <3>1, <3>2, <2>1 DEF Work
    <3>3. CASE x \in cleared
      <4>1. PICK p \in done : x = Clear(p) BY <3>3 DEF cleared
      <4>2. p \in nd.requests /\ p.held /\ p.dest = x.dest BY <4>1, <1>1, <1>2
      <4>3. y # p BY <3>1, <4>1
      <4> QED BY <3>1, <4>2, <4>3, <2>1 DEF Work
    <3> QED BY <3>2, <3>3
  <2> QED BY <2>2, <2>3 DEF Work
<1>7. ASSUME NEW c \in NDRequesters PROVE Holding(R, c) <=> Holding(rest, c)
  BY <1>3, NetDbAssumption DEF Holding
<1>8. \A q \in cleared : q.callback = Unasked /\ ~q.inTable BY <1>3
<1> QED BY <1>4, <1>5, <1>6, <1>7, <1>8 DEF cleared

LEMMA CompleteSound ==
  ASSUME NEW nd \in State, NEW ident, RequestsOK(nd)
  PROVE  LET e == RequestComplete(nd, ident)
         IN /\ e \in State /\ SameInfos(nd, e) /\ e.issued = nd.issued /\ RequestsOK(e)
<1> DEFINE done == RequestFor(nd, ident)
           b == CallBack(nd, done)
           cleared == {Clear(q) : q \in done}
           rest == nd.requests \ done
           R == rest \cup cleared
           w == Failing(nd.caller)
<1>1. RequestComplete(nd, ident) = Settle(b, R)
  <2>1. cleared = {[q EXCEPT !.callback = Unasked, !.inTable = FALSE] : q \in done} BY DEF Clear
  <2> HIDE DEF cleared
  <2> QED BY <2>1 DEF RequestComplete
<1>2. done \in SUBSET nd.requests BY DEF RequestFor
<1>3. /\ b \in State /\ SameInfos(nd, b) /\ b.issued = nd.issued /\ b.caller = nd.caller
      /\ \A c \in NDRequesters :
           b.calls[c] = nd.calls[c] + IF Holding(done, c) THEN 1 ELSE 0
  <2>1. \A c \in NDRequesters : \A q, r \in done : q.callback = c /\ r.callback = c => q = r
    BY <1>2 DEF RequestsOK, Good, CallersOK, CallerOK
  <2> HIDE DEF done
  <2> QED BY <2>1, CallBackSound DEF SameInfos
<1> HIDE DEF done
<1>4. /\ R \in SUBSET Request /\ Fit(R) /\ Work(R, nd.caller)
      /\ \A q \in cleared : q.callback = Unasked /\ ~q.inTable
      /\ \A c \in NDRequesters : Holding(R, c) <=> Holding(rest, c)
  BY <1>2, ClearFits
<1> HIDE DEF cleared
<1>5. ASSUME NEW c \in NDRequesters PROVE CallerOK(b.calls, R, b.issued, w, c)
  <2>1. CallerOK(nd.calls, nd.requests, nd.issued, w, c) BY DEF RequestsOK, Good, CallersOK
  <2>2. c # Unasked BY NetDbAssumption
  <2>3. Holding(R, c) <=> Holding(rest, c) BY <1>4
  <2>4. Holding(nd.requests, c) <=> Holding(done, c) \/ Holding(rest, c) BY <1>2 DEF Holding
  <2>5. ~(Holding(done, c) /\ Holding(rest, c)) BY <1>2, <2>1 DEF Holding, CallerOK
  <2>6. \A q, r \in R : q.callback = c /\ r.callback = c => q = r
    BY <2>1, <2>2, <1>4 DEF CallerOK
  <2>7. b.calls[c] = nd.calls[c] + IF Holding(done, c) THEN 1 ELSE 0 BY <1>3
  <2>8. \A q \in rest : q.callback = c => ~Holding(done, c) BY <2>5 DEF Holding
  <2>9. \A q \in R : q.inTable => q \in rest /\ q \in nd.requests BY <1>4
  <2>10. nd.calls[c] \in Nat BY DEF State
  <2> HIDE DEF b, R, rest, w
  <2>11. Told(b.calls, R, c) = Told(nd.calls, nd.requests, c)
    BY <2>3, <2>4, <2>5, <2>7, <2>10 DEF Told
  <2>12. \A q \in rest : q.callback = c => b.calls[c] = nd.calls[c] BY <2>7, <2>8, <2>10
  <2> QED BY <2>1, <2>6, <2>9, <2>11, <2>12, <1>3 DEF CallerOK
<1> HIDE DEF b, R, w
<1>6. CallersOK(b.calls, R, b.issued, Failing(b.caller)) BY <1>3, <1>5 DEF CallersOK, w
<1>7. Good(b, R) BY <1>3, <1>4, <1>6 DEF Good
<1> QED BY <1>1, <1>3, <1>4, <1>7, SettleSound DEF SameInfos

LEMMA ClosestIsRouter ==
  ASSUME NEW nd \in State, NEW ident, NEW excluded
  PROVE  GetClosestFloodfill(nd, ident, excluded) \subseteq NDRouters \ excluded
BY DEF GetClosestFloodfill, Candidates, State, Info

\* The network thread asks a floodfill that is not excluded, if it may.
LEMMA AskSound ==
  ASSUME NEW q \in Request, AskedOK(q), NEW floodfills \in SUBSET (NDRouters \ q.excluded),
         floodfills # {}, Len(q.asked) < NDMaxAsked
  PROVE  LET a == Ask(q, floodfills)
         IN Fits(a, q) /\ a.inTable = q.inTable /\ a.held = q.held
<1> DEFINE f == AnyOf(floodfills)
           asked == Append(q.asked, f)
           excluded == q.excluded \cup {f}
           a == [q EXCEPT !.asked = asked, !.excluded = excluded, !.age = "fresh"]
<1>1. Ask(q, floodfills) = a BY DEF Ask, CreateRequestMessage, Request
<1>2. f \in NDRouters \ q.excluded BY DEF AnyOf
<1> HIDE DEF f
<1>3. q.asked \in Seq(NDRouters) /\ q.excluded \in SUBSET NDRouters BY DEF Request
<1>4. /\ asked \in Seq(NDRouters) /\ excluded \in SUBSET NDRouters
      /\ Len(asked) = Len(q.asked) + 1 /\ DOMAIN asked = 1..(Len(q.asked) + 1)
      /\ asked[Len(q.asked) + 1] = f
      /\ \A i \in DOMAIN q.asked : asked[i] = q.asked[i]
      /\ DOMAIN q.asked = 1..Len(q.asked) /\ Len(q.asked) \in Nat
  BY <1>2, <1>3
<1>5. /\ IsFiniteSet(excluded)
      /\ Cardinality(excluded) = Cardinality(q.excluded) + 1
      /\ Cardinality(q.excluded) \in Nat
  BY <1>2, FS_AddElement, FS_CardinalityType DEF AskedOK
<1>6. \A i \in DOMAIN asked : asked[i] \in excluded BY <1>4 DEF AskedOK
<1>7. \A i, j \in DOMAIN asked : asked[i] = asked[j] => i = j BY <1>2, <1>4 DEF AskedOK
<1>8. NDMaxAsked \in Nat BY NetDbAssumption
<1> HIDE DEF asked, excluded
<1>9. /\ a \in Request /\ a.dest = q.dest /\ a.callback = q.callback /\ a.found = q.found
      /\ a.inTable = q.inTable /\ a.held = q.held /\ a.asked = asked /\ a.excluded = excluded
  BY <1>4 DEF Request
<1> HIDE DEF a
<1>10. AskedOK(a) BY <1>4, <1>5, <1>6, <1>7, <1>8, <1>9 DEF AskedOK
<1> QED BY <1>1, <1>9, <1>10 DEF Fits

\* The same for a request that excludes fewer than it may.
LEMMA AskNextSound ==
  ASSUME NEW nd \in State, NEW q \in nd.requests, AskedOK(q),
         GetClosestFloodfill(nd, q.dest, q.excluded) # {}, Cardinality(q.excluded) < NDMaxAsked
  PROVE  Fits(Ask(q, GetClosestFloodfill(nd, q.dest, q.excluded)), q)
<1>1. q \in Request /\ q.asked \in Seq(NDRouters) BY DEF State, Request
<1>2. GetClosestFloodfill(nd, q.dest, q.excluded) \subseteq NDRouters \ q.excluded
  BY ClosestIsRouter
<1>3. Len(q.asked) < NDMaxAsked
  <2>1. Len(q.asked) \in Nat /\ NDMaxAsked \in Nat BY <1>1, NetDbAssumption
  <2> QED BY <2>1 DEF AskedOK
<1> QED BY <1>1, <1>2, <1>3, AskSound

LEMMA ReplaceSound ==
  ASSUME NEW nd \in State, RequestsOK(nd), NEW q \in nd.requests, NEW a, Fits(a, q)
  PROVE  LET R == (nd.requests \ {q}) \cup {a} IN R \in SUBSET Request /\ Good(nd, R)
<1> DEFINE f == [x \in nd.requests |-> IF x = q THEN a ELSE x]
           R == (nd.requests \ {q}) \cup {a}
<1>1. nd.requests \subseteq Request /\ a \in Request BY DEF State, Fits
<1>2. f \in [nd.requests -> Request] BY <1>1
<1>3. R = {f[x] : x \in nd.requests}
  <2>1. ASSUME NEW x \in R PROVE \E y \in nd.requests : x = f[y]
    <3>1. CASE x = a BY <3>1
    <3>2. CASE x \in nd.requests \ {q} BY <3>2
    <3> QED BY <3>1, <3>2
  <2> QED BY <2>1
<1>4. \A x \in nd.requests : Fits(f[x], x)
  BY <1>1 DEF RequestsOK, Good, Fit, Fits
<1> HIDE DEF f, R
<1>5. Good(nd, nd.requests) BY DEF RequestsOK
<1> DEFINE S == {f[x] : x \in nd.requests}
<1>6. S \in SUBSET Request /\ Good(nd, S) BY <1>2, <1>4, <1>5, MapFits
<1> QED BY <1>3, <1>6 DEF R

LEMMA TryNextSound ==
  ASSUME NEW nd \in State, RequestsOK(nd), NEW q \in nd.requests, NEW throughTunnels
  PROVE  LET e == TryNext(nd, q, GetClosestFloodfill(nd, q.dest, q.excluded), throughTunnels)
         IN e \in State /\ SameInfos(nd, e) /\ e.issued = nd.issued /\ RequestsOK(e)
<1> DEFINE next == GetClosestFloodfill(nd, q.dest, q.excluded)
           e == TryNext(nd, q, next, throughTunnels)
           R == (nd.requests \ {q}) \cup {Ask(q, next)}
<1>1. CASE next # {} /\ Cardinality(q.excluded) < NDMaxAsked /\ e = Settle(nd, R)
  <2>1. AskedOK(q) BY DEF RequestsOK, Good, Fit
  <2>2. Fits(Ask(q, next), q) BY <1>1, <2>1, AskNextSound
  <2> HIDE DEF next
  <2>3. R \in SUBSET Request /\ Good(nd, R) BY <2>2, ReplaceSound
  <2> HIDE DEF R, e
  <2> QED BY <1>1, <2>3, SettleSound DEF e, next
<1>2. CASE e = RequestComplete(nd, q.dest) BY <1>2, CompleteSound
<1>3. \/ next # {} /\ Cardinality(q.excluded) < NDMaxAsked /\ e = Settle(nd, R)
      \/ e = RequestComplete(nd, q.dest)
  BY DEF TryNext
<1> QED BY <1>1, <1>2, <1>3

LEMMA ManageOneSound ==
  ASSUME NEW nd \in State, RequestsOK(nd), NEW q \in nd.requests, NEW throughTunnels
  PROVE  Fits(ManageOne(nd, q, throughTunnels), q)
<1> DEFINE next == GetClosestFloodfill(nd, q.dest, q.excluded)
           a == ManageOne(nd, q, throughTunnels)
<1>1. AskedOK(q) /\ q \in Request BY DEF RequestsOK, Good, Fit, State
<1>2. CASE a = q BY <1>1, <1>2 DEF Fits
<1>3. CASE next # {} /\ Cardinality(q.excluded) < NDMaxAsked /\ a = Ask(q, next)
  BY <1>1, <1>3, AskNextSound
<1>4. CASE a = [q EXCEPT !.inTable = FALSE]
  <2> HIDE DEF a
  <2>1. /\ a \in Request /\ a.dest = q.dest /\ a.callback = q.callback /\ ~a.inTable
        /\ a.held = q.held /\ a.found = q.found /\ a.asked = q.asked /\ a.excluded = q.excluded
    BY <1>1, <1>4 DEF Request
  <2> QED BY <1>1, <2>1 DEF AskedOK, Fits, a
<1>5. \/ a = q \/ a = [q EXCEPT !.inTable = FALSE]
      \/ next # {} /\ Cardinality(q.excluded) < NDMaxAsked /\ a = Ask(q, next)
  BY DEF ManageOne
<1> QED BY <1>2, <1>3, <1>4, <1>5

LEMMA ManageSound ==
  ASSUME NEW nd \in State, RequestsOK(nd), NEW throughTunnels
  PROVE  LET e == ManageRequests(nd, throughTunnels)
         IN e \in State /\ SameInfos(nd, e) /\ e.issued = nd.issued /\ RequestsOK(e)
<1> DEFINE f == [q \in nd.requests |->
                   IF q.inTable THEN ManageOne(nd, q, throughTunnels) ELSE q]
           R == {f[q] : q \in nd.requests}
<1>1. ManageRequests(nd, throughTunnels) = Settle(nd, R)
  <2>1. R = {IF q.inTable THEN ManageOne(nd, q, throughTunnels) ELSE q : q \in nd.requests}
    OBVIOUS
  <2> QED BY <2>1 DEF ManageRequests
<1>2. ASSUME NEW q \in nd.requests PROVE Fits(f[q], q)
  <2>1. CASE q.inTable BY <2>1, ManageOneSound
  <2>2. CASE ~q.inTable BY <2>2 DEF RequestsOK, Good, Fit, State, Fits
  <2> QED BY <2>1, <2>2
<1> HIDE DEF f
<1>3. f \in [nd.requests -> Request]
  <2>1. f = [q \in nd.requests |-> f[q]] BY DEF f
  <2>2. \A q \in nd.requests : f[q] \in Request BY <1>2 DEF Fits
  <2> QED BY <2>1, <2>2
<1>4. Good(nd, nd.requests) BY DEF RequestsOK
<1>5. R \in SUBSET Request /\ Good(nd, R) BY <1>2, <1>3, <1>4, MapFits
<1> HIDE DEF R
<1> QED BY <1>1, <1>5, SettleSound

Release(q) == [q EXCEPT !.held = FALSE]

LEMMA ReleaseFits ==
  ASSUME NEW q \in Request, AskedOK(q)
  PROVE  Fits(Release(q), q) /\ ~Release(q).held /\ Release(q).inTable = q.inTable
<1>1. /\ Release(q) \in Request /\ Release(q).dest = q.dest /\ Release(q).callback = q.callback
      /\ Release(q).found = q.found /\ Release(q).inTable = q.inTable /\ ~Release(q).held
      /\ Release(q).asked = q.asked /\ Release(q).excluded = q.excluded
  BY DEF Request, Release
<1> QED BY <1>1 DEF Fits, AskedOK

\* The transports' thread lets go of its request and returns, if no caller is
\* told twice and what it found is not in the table any more.
LEMMA LetGoSound ==
  ASSUME NEW nd \in State, NEW R \in SUBSET Request, R = {Release(q) : q \in nd.requests},
         Good(nd, R), \A q \in R : ~q.held /\ ~(q.found /\ q.inTable),
         \A c \in NDRequesters : c \in nd.issued => Told(nd.calls, R, c) = 1
  PROVE  LET e == LetGo(nd)
         IN e \in State /\ SameInfos(nd, [e EXCEPT !.caller = nd.caller]) /\ RequestsOK(e)
<1> DEFINE s == Settle(nd, R)
           e == [s EXCEPT !.caller = NoCaller]
<1>1. LetGo(nd) = e BY DEF LetGo, Release
<1>2. /\ s \in State /\ SameInfos(nd, s) /\ s.issued = nd.issued /\ RequestsOK(s)
      /\ s.requests \subseteq R
      /\ \A q \in s.requests : q.inTable \/ q.held
      /\ \A c \in NDRequesters : Told(s.calls, s.requests, c) = Told(nd.calls, R, c)
  BY SettleSound
<1>3. \A q \in s.requests : q.inTable /\ ~q.held /\ ~q.found BY <1>2
<1>4. \A c \in NDRequesters : c \in nd.issued => Told(s.calls, s.requests, c) = 1 BY <1>2
<1> HIDE DEF s
<1>5. NoCaller \in Caller /\ NoCaller.at = "idle" BY DEF NoCaller, Caller
<1>6. /\ e \in State /\ SameInfos(nd, [e EXCEPT !.caller = nd.caller])
      /\ e.requests = s.requests /\ e.calls = s.calls /\ e.issued = s.issued
      /\ e.caller = NoCaller
  <2> HIDE DEF NoCaller
  <2> QED BY <1>2, <1>5 DEF State, SameInfos
<1> HIDE DEF e
<1>7. Fit(e.requests) BY <1>2, <1>6 DEF RequestsOK, Good
<1>8. Work(e.requests, e.caller) BY <1>3, <1>5, <1>6 DEF Work
<1>9. CallersOK(e.calls, e.requests, e.issued, Failing(e.caller))
  <2>1. CallersOK(s.calls, s.requests, s.issued, Failing(s.caller))
    BY <1>2 DEF RequestsOK, Good
  <2>2. Failing(e.caller) = Unasked BY <1>5, <1>6 DEF Failing
  <2> QED BY <2>1, <2>2, <1>2, <1>4, <1>6, NetDbAssumption DEF CallersOK, CallerOK
<1> QED BY <1>1, <1>3, <1>6, <1>7, <1>8, <1>9 DEF RequestsOK, Good

LEMMA ReleaseSound ==
  ASSUME NEW nd \in State, Good(nd, nd.requests),
         \A q \in nd.requests : ~(q.found /\ q.inTable),
         \A c \in NDRequesters : c \in nd.issued => Told(nd.calls, nd.requests, c) = 1
  PROVE  LET e == LetGo(nd)
         IN e \in State /\ SameInfos(nd, [e EXCEPT !.caller = nd.caller]) /\ RequestsOK(e)
<1> DEFINE Q == nd.requests
           f == [q \in Q |-> Release(q)]
           R == {f[q] : q \in Q}
<1>1. R = {Release(q) : q \in Q} OBVIOUS
<1>2. ASSUME NEW q \in Q PROVE Fits(f[q], q) /\ ~f[q].held /\ f[q].inTable = q.inTable
  BY ReleaseFits DEF State, Good, Fit
<1>3. f \in [Q -> Request] BY <1>2 DEF Fits
<1> HIDE DEF f
<1>4. R \in SUBSET Request /\ Good(nd, R) BY <1>2, <1>3, MapFits
<1>5. \A x \in R : ~x.held /\ ~(x.found /\ x.inTable) BY <1>2 DEF Fits
<1>6. ASSUME NEW c \in NDRequesters, c \in nd.issued PROVE Told(nd.calls, R, c) = 1
  <2>1. Holding(R, c) <=> Holding(Q, c) BY <1>2 DEF Holding, Fits
  <2> QED BY <1>6, <2>1 DEF Told
<1> HIDE DEF R
<1> QED BY <1>1, <1>4, <1>5, <1>6, LetGoSound

\* New requests nobody waits for, for destinations that the table does not have.
LEMMA AddFits ==
  ASSUME NEW nd \in State, RequestsOK(nd), NEW N \in SUBSET Request,
         \A q \in N : /\ q.callback = Unasked /\ q.inTable /\ ~q.held /\ ~q.found
                      /\ AskedOK(q) /\ RequestFor(nd, q.dest) = {},
         \A q, r \in N : q.dest = r.dest => q = r
  PROVE  LET e == [nd EXCEPT !.requests = @ \cup N]
         IN e \in State /\ SameInfos(nd, e) /\ e.issued = nd.issued /\ RequestsOK(e)
<1> DEFINE R == nd.requests \cup N
           e == [nd EXCEPT !.requests = R]
           w == Failing(nd.caller)
<1>1. /\ e \in State /\ SameInfos(nd, e) /\ e.issued = nd.issued /\ e.calls = nd.calls
      /\ e.requests = R /\ e.caller = nd.caller
  BY DEF State, SameInfos
<1>2. \A q \in nd.requests, r \in N : q.inTable => q.dest # r.dest BY DEF RequestFor
<1>3. Fit(R) /\ Work(R, nd.caller) BY <1>2 DEF RequestsOK, Good, Fit, Work
<1>4. ASSUME NEW c \in NDRequesters PROVE CallerOK(nd.calls, R, nd.issued, w, c)
  <2>1. CallerOK(nd.calls, nd.requests, nd.issued, w, c) BY DEF RequestsOK, Good, CallersOK
  <2>2. c # Unasked BY NetDbAssumption
  <2>3. Holding(R, c) <=> Holding(nd.requests, c) BY <2>2 DEF Holding
  <2> HIDE DEF w
  <2> QED BY <2>1, <2>2, <2>3 DEF CallerOK, Told
<1>5. \A q \in R : q.inTable \/ q.held BY DEF RequestsOK
<1> HIDE DEF e, R
<1>6. RequestsOK(e) BY <1>1, <1>3, <1>4, <1>5 DEF RequestsOK, Good, CallersOK
<1> QED BY <1>1, <1>6 DEF e, R

NewOK(q, ident, callback) ==
  /\ q \in Request /\ q.dest = ident /\ q.callback = callback /\ q.inTable /\ ~q.found
  /\ AskedOK(q) /\ q.excluded = {} /\ q.asked = <<>>

LEMMA NewSound ==
  ASSUME NEW ident \in NDIdents, NEW exploratory \in BOOLEAN,
         NEW callback \in NDRequesters \cup {Unasked}, NEW held \in BOOLEAN
  PROVE  NewOK(NewRequest(ident, exploratory, callback, held), ident, callback)
<1> DEFINE q == NewRequest(ident, exploratory, callback, held)
<1>1. /\ q \in Request /\ q.dest = ident /\ q.callback = callback /\ q.inTable
      /\ q.held = held /\ ~q.found /\ q.asked = <<>> /\ q.excluded = {}
  BY DEF NewRequest, Request
<1> HIDE DEF q
<1>2. Len(<<>>) = 0 /\ DOMAIN <<>> = {} /\ NDMaxAsked \in Nat BY NetDbAssumption
<1>3. IsFiniteSet(q.excluded) /\ Cardinality(q.excluded) = 0 BY <1>1, FS_EmptySet
<1>4. AskedOK(q) BY <1>1, <1>2, <1>3 DEF AskedOK
<1> QED BY <1>1, <1>4 DEF q, NewOK

LEMMA FirstAsk ==
  ASSUME NEW nd \in State, NEW ident \in NDIdents, NEW exploratory \in BOOLEAN,
         GetClosestFloodfill(nd, ident, {}) # {}
  PROVE  LET a == Ask(NewRequest(ident, exploratory, Unasked, FALSE),
                      GetClosestFloodfill(nd, ident, {}))
         IN /\ a \in Request /\ a.dest = ident /\ a.callback = Unasked /\ a.inTable /\ ~a.held
            /\ ~a.found /\ AskedOK(a)
<1> DEFINE q == NewRequest(ident, exploratory, Unasked, FALSE)
           fs == GetClosestFloodfill(nd, ident, {})
<1>1. /\ q \in Request /\ q.dest = ident /\ q.callback = Unasked /\ q.inTable /\ ~q.held
      /\ ~q.found /\ q.asked = <<>> /\ q.excluded = {} /\ AskedOK(q)
  <2>1. FALSE \in BOOLEAN /\ Unasked \in NDRequesters \cup {Unasked} OBVIOUS
  <2>2. ~q.held BY DEF NewRequest
  <2>3. NewOK(q, ident, Unasked) BY <2>1, NewSound, Zenon
  <2> HIDE DEF q
  <2> QED BY <2>2, <2>3 DEF NewOK
<1>2. Len(q.asked) < NDMaxAsked
  <2>1. Len(<<>>) = 0 /\ 0 < NDMaxAsked BY NetDbAssumption
  <2> QED BY <1>1, <2>1
<1>3. fs \in SUBSET (NDRouters \ q.excluded) /\ fs # {} BY <1>1, ClosestIsRouter
<1> HIDE DEF q, fs
<1>4. Fits(Ask(q, fs), q) /\ Ask(q, fs).inTable = q.inTable /\ Ask(q, fs).held = q.held
  BY <1>1, <1>2, <1>3, AskSound
<1> QED BY <1>1, <1>4 DEF Fits, q, fs

LEMMA DestinationsSound ==
  ASSUME NEW nd \in State, RequestsOK(nd), NEW idents \in SUBSET NDIdents
  PROVE  LET e == RequestDestinations(nd, idents)
         IN e \in State /\ SameInfos(nd, e) /\ e.issued = nd.issued /\ RequestsOK(e)
<1> DEFINE I == {i \in idents : RequestFor(nd, i) = {} /\ GetClosestFloodfill(nd, i, {}) # {}}
           a(i) == Ask(NewRequest(i, FALSE, Unasked, FALSE), GetClosestFloodfill(nd, i, {}))
           N == {a(i) : i \in I}
<1>1. RequestDestinations(nd, idents) = [nd EXCEPT !.requests = @ \cup N]
  BY DEF RequestDestinations
<1>2. ASSUME NEW i \in I
      PROVE  /\ a(i) \in Request /\ a(i).dest = i /\ a(i).callback = Unasked /\ a(i).inTable
             /\ ~a(i).held /\ ~a(i).found /\ AskedOK(a(i)) /\ RequestFor(nd, i) = {}
  BY FirstAsk
<1> HIDE DEF a, I
<1>3. \A q \in N : \E i \in I : q = a(i) OBVIOUS
<1>4. N \in SUBSET Request BY <1>2, <1>3
<1>5. \A q \in N : /\ q.callback = Unasked /\ q.inTable /\ ~q.held /\ ~q.found /\ AskedOK(q)
                   /\ RequestFor(nd, q.dest) = {}
  BY <1>2, <1>3
<1>6. \A q, r \in N : q.dest = r.dest => q = r BY <1>2, <1>3
<1> HIDE DEF N
<1>7. LET e == [nd EXCEPT !.requests = @ \cup N]
      IN e \in State /\ SameInfos(nd, e) /\ e.issued = nd.issued /\ RequestsOK(e)
  BY <1>4, <1>5, <1>6, AddFits
<1> QED BY <1>1, <1>7

\* What Explore adds; the closest floodfills being different, so are the idents.
LEMMA ExploreSound ==
  ASSUME NEW nd \in State, RequestsOK(nd), NEW idents \in Seq(NDRandom)
  PROVE  LET closest == [k \in DOMAIN idents |-> GetClosestFloodfill(nd, idents[k], {})]
             asked == {k \in DOMAIN idents :
                         /\ \A j \in 1..k : RequestFor(nd, idents[j]) = {}
                         /\ closest[k] # {}
                         /\ \A j \in 1..(k - 1) : closest[j] # closest[k]}
             e == [nd EXCEPT !.requests = @ \cup
                     {Ask(NewRequest(idents[k], TRUE, Unasked, FALSE), closest[k]) : k \in asked}]
         IN e \in State /\ SameInfos(nd, e) /\ e.issued = nd.issued /\ RequestsOK(e)
<1> DEFINE closest == [k \in DOMAIN idents |-> GetClosestFloodfill(nd, idents[k], {})]
           asked == {k \in DOMAIN idents :
                       /\ \A j \in 1..k : RequestFor(nd, idents[j]) = {}
                       /\ closest[k] # {}
                       /\ \A j \in 1..(k - 1) : closest[j] # closest[k]}
           a(k) == Ask(NewRequest(idents[k], TRUE, Unasked, FALSE), closest[k])
           N == {a(k) : k \in asked}
<1>1. ASSUME NEW k \in asked
      PROVE  /\ k \in DOMAIN idents /\ k \in Nat /\ k >= 1 /\ k <= Len(idents)
             /\ idents[k] \in NDIdents /\ RequestFor(nd, idents[k]) = {}
             /\ closest[k] = GetClosestFloodfill(nd, idents[k], {}) /\ closest[k] # {}
             /\ \A j \in 1..(k - 1) : closest[j] # closest[k]
  <2>1. k \in 1..Len(idents) /\ k \in 1..k OBVIOUS
  <2>2. idents[k] \in NDIdents BY <2>1 DEF NDIdents
  <2>3. RequestFor(nd, idents[k]) = {} BY <2>1
  <2>4. closest[k] = GetClosestFloodfill(nd, idents[k], {}) BY <2>1
  <2>5. closest[k] # {} /\ \A j \in 1..(k - 1) : closest[j] # closest[k] OBVIOUS
  <2> QED BY <2>1, <2>2, <2>3, <2>4, <2>5
<1>2. ASSUME NEW k \in asked
      PROVE  /\ a(k) \in Request /\ a(k).dest = idents[k] /\ a(k).callback = Unasked
             /\ a(k).inTable /\ ~a(k).held /\ ~a(k).found /\ AskedOK(a(k))
  <2> DEFINE i == idents[k]
  <2>1. i \in NDIdents /\ GetClosestFloodfill(nd, i, {}) # {}
        /\ a(k) = Ask(NewRequest(i, TRUE, Unasked, FALSE), GetClosestFloodfill(nd, i, {}))
    BY <1>1
  <2> HIDE DEF asked, closest, a, i
  <2>2. LET b == Ask(NewRequest(i, TRUE, Unasked, FALSE), GetClosestFloodfill(nd, i, {}))
        IN /\ b \in Request /\ b.dest = i /\ b.callback = Unasked /\ b.inTable /\ ~b.held
           /\ ~b.found /\ AskedOK(b)
    BY <2>1, FirstAsk
  <2> QED BY <2>1, <2>2 DEF i
<1>3. ASSUME NEW j \in asked, NEW k \in asked, idents[j] = idents[k] PROVE j = k
  <2>1. closest[j] = closest[k] BY <1>1, <1>3
  <2> HIDE DEF asked, closest
  <2>2. ~(j < k) /\ ~(k < j) BY <1>1, <2>1
  <2> QED BY <1>1, <2>2
<1> HIDE DEF a, asked, closest
<1>4. \A q \in N : \E k \in asked : q = a(k) OBVIOUS
<1>5. N \in SUBSET Request BY <1>2, <1>4
<1>6. ASSUME NEW q \in N
      PROVE  /\ q.callback = Unasked /\ q.inTable /\ ~q.held /\ ~q.found /\ AskedOK(q)
             /\ RequestFor(nd, q.dest) = {}
  <2>1. PICK k \in asked : q = a(k) BY <1>4
  <2>2. q.dest = idents[k] BY <1>2, <2>1
  <2>3. RequestFor(nd, idents[k]) = {} BY <1>1
  <2> QED BY <1>2, <2>1, <2>2, <2>3
<1>7. \A q, r \in N : q.dest = r.dest => q = r BY <1>2, <1>3, <1>4
<1>8. N = {Ask(NewRequest(idents[k], TRUE, Unasked, FALSE), closest[k]) : k \in asked}
  BY DEF a
<1> HIDE DEF N
<1>9. LET e == [nd EXCEPT !.requests = @ \cup N]
      IN e \in State /\ SameInfos(nd, e) /\ e.issued = nd.issued /\ RequestsOK(e)
  BY <1>5, <1>6, <1>7, AddFits
<1> QED BY <1>8, <1>9 DEF asked, closest
-----------------------------------------------------------------------------
(***************************************************************************)
(* The objects and the files.                                              *)
(***************************************************************************)
LEMMA InfosKept ==
  ASSUME NEW nd, NEW e, SameInfos(nd, e), InfosOK(nd)
  PROVE  InfosOK(e)
BY DEF SameInfos, InfosOK, TableOf

LEMMA BecomesSound ==
  ASSUME NEW nd \in State, InfosOK(nd), RequestsOK(nd), Becomes(nd)
  PROVE  IInv'
<1> DEFINE e == [nd EXCEPT !.reply = NoReply]
<1>1. NoReply \in Reply BY DEF NoReply, Reply
<1>2. /\ e \in State /\ e.infos = nd.infos /\ e.files = nd.files /\ e.restarts = nd.restarts
      /\ e.case = nd.case /\ e.requests = nd.requests /\ e.calls = nd.calls
      /\ e.issued = nd.issued /\ e.caller = nd.caller /\ e.reply = NoReply
  <2> HIDE DEF NoReply
  <2> QED BY <1>1 DEF State
<1> HIDE DEF e
<1>3. InfosOK(e) BY <1>2 DEF InfosOK, TableOf
<1>4. RequestsOK(e) BY <1>2 DEF RequestsOK, Good
<1>5. Named(e) BY <1>2 DEF Named, NoReply
<1>6. netdb' = e BY DEF Becomes, e
<1> QED BY <1>2, <1>3, <1>4, <1>5, <1>6
        DEF IInv, InfosOK, RequestsOK, Good, Named, TableOf, FindRouter

\* The same for a step of the transports' thread.
LEMMA CallerMoves ==
  ASSUME NEW nd \in State, NEW e \in State, InfosOK(nd), RequestsOK(e), Becomes(e),
         SameInfos(nd, [e EXCEPT !.caller = nd.caller])
  PROVE  IInv'
<1>1. /\ e.infos = nd.infos /\ e.files = nd.files /\ e.restarts = nd.restarts
      /\ e.case = nd.case
  BY DEF SameInfos, State
<1>2. InfosOK(e) BY <1>1 DEF InfosOK, TableOf
<1> QED BY <1>2, BecomesSound

\* A RouterInfo that arrives, or is read from its file.
LEMMA NewKnownSound ==
  ASSUME NEW ident \in NDRouters, NEW version \in 1..Len(NDPublished[ident]),
         NEW updated \in BOOLEAN
  PROVE  LET o == NewKnownRouter(ident, version, updated)
         IN /\ o \in Info /\ o.ident = ident /\ o.version = version
            /\ o.updated = updated /\ o.inTable
<1>1. NDPublished[ident] \in Seq(BOOLEAN) BY NetDbAssumption
<1>2. NDPublished[ident][version] \in BOOLEAN /\ version \in Nat BY <1>1
<1> QED BY <1>2 DEF NewKnownRouter, Info

LEMMA AddRouterInfoSound ==
  ASSUME NEW nd \in State, InfosOK(nd), RequestsOK(nd),
         NEW ident \in NDRouters, NEW version \in 1..Len(NDPublished[ident])
  PROVE  LET e == AddRouterInfo(nd, ident, version)
         IN e \in State /\ InfosOK(e) /\ RequestsOK(e)
<1> DEFINE known == FindRouter(nd, ident)
           new == IF known = {} THEN {NewKnownRouter(ident, version, TRUE)}
                  ELSE {ReplaceRouterInfo(o, version) : o \in known}
           infos == (nd.infos \ known) \cup new
           d == [nd EXCEPT !.infos = infos]
<1>1. AddRouterInfo(nd, ident, version) = RequestComplete(d, ident) BY DEF AddRouterInfo
<1>2. /\ known \subseteq nd.infos /\ known \subseteq Info
      /\ \A o \in nd.infos : o \in known <=> o.inTable /\ o.ident = ident
      /\ \A o, p \in known : o = p
  BY DEF FindRouter, TableOf, State, InfosOK
<1>3. Len(NDPublished[ident]) \in Nat /\ version \in Nat BY NetDbAssumption
<1>4. ASSUME NEW o \in new
      PROVE  o \in Info /\ o.ident = ident /\ o.version = version /\ o.updated /\ o.inTable
  <2>1. CASE known = {}
    <3>1. o = NewKnownRouter(ident, version, TRUE) BY <2>1
    <3> HIDE DEF new
    <3> QED BY <3>1, NewKnownSound, TRUE \in BOOLEAN
  <2>2. CASE known # {}
    <3>1. PICK p \in known : o = ReplaceRouterInfo(p, version) BY <2>2
    <3>2. p \in Info /\ p.ident = ident /\ p.inTable BY <1>2
    <3> HIDE DEF new, known
    <3> QED BY <3>1, <3>2, <1>3 DEF ReplaceRouterInfo, Info
  <2> QED BY <2>1, <2>2
<1>5. \A o, p \in new : o = p BY <1>2
<1> HIDE DEF known, new
<1>6. infos \subseteq Info BY <1>4 DEF State
<1> HIDE DEF infos
<1>7. /\ d \in State /\ d.infos = infos /\ d.files = nd.files /\ d.restarts = nd.restarts
      /\ d.case = nd.case /\ d.requests = nd.requests /\ d.calls = nd.calls
      /\ d.issued = nd.issued /\ d.caller = nd.caller
  BY <1>6 DEF State
<1>8. InfosOK(d)
  <2>1. ASSUME NEW o \in infos
        PROVE  /\ o.version \in 1..Len(NDPublished[o.ident])
               /\ o.inTable \/ (o.listed /\ o.unreachable)
               /\ o.inTable => o.updated \/ nd.files[o.ident] = o.version
    <3>1. CASE o \in new BY <3>1, <1>4
    <3>2. CASE o \in nd.infos BY <3>2 DEF InfosOK
    <3> QED BY <3>1, <3>2 DEF infos
  <2>2. ASSUME NEW o \in infos, NEW p \in infos, o.inTable, p.inTable, o.ident = p.ident
        PROVE  o = p
    <3>1. CASE o \in new /\ p \in new BY <3>1, <1>5
    <3>2. CASE o \in nd.infos \ known /\ p \in nd.infos \ known
      BY <3>2, <2>2 DEF InfosOK, TableOf
    <3>3. ASSUME NEW x \in new, NEW y \in nd.infos \ known, y.inTable PROVE x.ident # y.ident
      BY <3>3, <1>2, <1>4
    <3> QED BY <3>1, <3>2, <3>3, <2>2 DEF infos
  <2> QED BY <2>1, <2>2, <1>7 DEF InfosOK, TableOf
<1> HIDE DEF d
<1>9. RequestsOK(d) BY <1>7 DEF RequestsOK, Good
<1>10. /\ RequestComplete(d, ident) \in State /\ SameInfos(d, RequestComplete(d, ident))
       /\ RequestsOK(RequestComplete(d, ident))
  BY <1>7, <1>9, CompleteSound
<1> QED BY <1>1, <1>8, <1>10, InfosKept

\* The state after a start: what the files hold, no request, and no caller yet.
LEMMA LoadedSound ==
  ASSUME NEW nd, NEW old \in SUBSET NDRouters,
         nd.case \in NDCases, nd.files \in [NDRouters -> Nat], nd.restarts \in Nat,
         \A r \in NDRouters : nd.files[r] \in 0..Len(NDPublished[r])
  PROVE  LET e == Loaded(nd, old)
         IN /\ e \in State /\ RequestsOK(e) /\ e.restarts = nd.restarts + 1 /\ e.case = nd.case
            /\ (nd.restarts + 1 <= nd.case.restarts => InfosOK(e))
            /\ InfosOK([e EXCEPT !.restarts = 0])
            /\ \A r \in NDRouters : e.files[r] \in 0..Len(NDPublished[r])
<1> DEFINE e == Loaded(nd, old)
           files == nd.files
           n == nd.restarts
           c == nd.case
           infos == LoadInfos(files, old)
           kept == [r \in NDRouters |-> IF r \in old THEN 0 ELSE files[r]]
           calls == [x \in NDRequesters |-> 0]
<1>0. /\ c \in NDCases /\ files \in [NDRouters -> Nat] /\ n \in Nat
      /\ \A r \in NDRouters : files[r] \in 0..Len(NDPublished[r])
  OBVIOUS
<1>1. e = [infos |-> infos, requests |-> {}, calls |-> calls, issued |-> {},
           files |-> kept, running |-> TRUE, restarts |-> n + 1, reply |-> NoReply,
           caller |-> NoCaller, case |-> c]
  BY DEF Loaded
<1> HIDE DEF files, n, c
<1>2. ASSUME NEW o \in infos
      PROVE  /\ o \in Info /\ o.ident \in NDRouters \ old
             /\ o.version = files[o.ident] /\ files[o.ident] > 0 /\ o.inTable
  <2>1. PICK r \in NDRouters : /\ files[r] > 0 /\ r \notin old
                               /\ o = NewKnownRouter(r, files[r], FALSE)
    BY DEF LoadInfos
  <2>2. files[r] \in 1..Len(NDPublished[r])
    <3>1. files[r] \in 0..Len(NDPublished[r]) /\ Len(NDPublished[r]) \in Nat /\ files[r] \in Nat
      BY <1>0, NetDbAssumption
    <3> QED BY <3>1, <2>1
  <2>3. /\ o \in Info /\ o.ident = r /\ o.version = files[r] /\ o.inTable
    BY <2>1, <2>2, NewKnownSound, FALSE \in BOOLEAN
  <2> QED BY <2>1, <2>3
<1>3. ASSUME NEW o \in infos, NEW p \in infos, o.ident = p.ident PROVE o = p
  <2>1. PICK r \in NDRouters : o = NewKnownRouter(r, files[r], FALSE) BY DEF LoadInfos
  <2>2. PICK s \in NDRouters : p = NewKnownRouter(s, files[s], FALSE) BY DEF LoadInfos
  <2>3. o.ident = r /\ p.ident = s BY <2>1, <2>2 DEF NewKnownRouter
  <2> QED BY <2>1, <2>2, <2>3, <1>3
<1>4. NoReply \in Reply /\ NoCaller \in Caller /\ NoCaller.at = "idle"
  BY DEF NoReply, Reply, NoCaller, Caller
<1>5. kept \in [NDRouters -> Nat] /\ calls \in [NDRequesters -> Nat] BY <1>0
<1>6. \A r \in NDRouters : kept[r] \in 0..Len(NDPublished[r]) BY <1>0, NetDbAssumption
<1>7. \A r \in NDRouters \ old : kept[r] = files[r] OBVIOUS
<1>8. \A x \in NDRequesters : calls[x] = 0 OBVIOUS
<1>9. infos \subseteq Info BY <1>2
<1> HIDE DEF infos, kept, calls, NoReply, NoCaller, e
<1>10. e \in State BY <1>0, <1>1, <1>4, <1>5, <1>9 DEF State
<1>11. RequestsOK(e)
  <2>1. Fit({}) /\ Work({}, NoCaller) BY <1>4 DEF Fit, Work
  <2>2. Failing(NoCaller) = Unasked BY <1>4 DEF Failing
  <2>3. CallersOK(calls, {}, {}, Unasked)
    BY <1>8, NetDbAssumption DEF CallersOK, CallerOK, Told, Holding
  <2> QED BY <1>1, <2>1, <2>2, <2>3 DEF RequestsOK, Good
<1>12. /\ \A o \in infos : /\ o.version \in 1..Len(NDPublished[o.ident]) /\ o.inTable
                           /\ kept[o.ident] = o.version
       /\ \A o, p \in infos : o.ident = p.ident => o = p
  <2>1. ASSUME NEW o \in infos
        PROVE  /\ o.version \in 1..Len(NDPublished[o.ident]) /\ o.inTable
               /\ kept[o.ident] = o.version
    <3>1. files[o.ident] \in 0..Len(NDPublished[o.ident]) BY <1>0, <1>2 DEF Info
    <3>2. Len(NDPublished[o.ident]) \in Nat /\ files[o.ident] \in Nat
      BY <1>0, <1>2, NetDbAssumption
    <3> QED BY <3>1, <3>2, <1>2, <1>7
  <2> QED BY <2>1, <1>3
<1>13. c.restarts \in Nat BY <1>0, NetDbAssumption
<1>14. n + 1 <= c.restarts => InfosOK(e)
  BY <1>0, <1>1, <1>6, <1>12, <1>13 DEF InfosOK, TableOf
<1>15. InfosOK([e EXCEPT !.restarts = 0])
  <2> DEFINE z == [e EXCEPT !.restarts = 0]
  <2>1. z.infos = e.infos /\ z.files = e.files /\ z.case = e.case /\ z.restarts = 0
    BY <1>10 DEF State
  <2>2. e.infos = infos /\ e.files = kept /\ e.case = c BY <1>1
  <2> HIDE DEF z
  <2> QED BY <2>1, <2>2, <1>6, <1>12, <1>13 DEF InfosOK, TableOf, z
<1> QED BY <1>1, <1>6, <1>10, <1>11, <1>14, <1>15 DEF e, files, n, c

\* SaveUpdated: what is found too old or unreachable loses its file and leaves the
\* table, what was updated gets its file.
LEMMA SaveOneSound ==
  ASSUME NEW o \in Info, NEW expired
  PROVE  LET s == SaveOne(o, expired)
         IN /\ s \in Info /\ s.ident = o.ident /\ s.version = o.version
            /\ s.inTable = o.inTable /\ ~s.updated
            /\ s.unreachable => ~o.updated
            /\ s.unreachable \in BOOLEAN
<1>1. CASE o.updated BY <1>1 DEF SaveOne, Info
<1>2. CASE ~o.updated
  <2> DEFINE gone == o.unreachable \/ o \in expired
             listed == o.listed /\ ~(gone /\ IsFloodfillNow(o))
  <2>1. gone \in BOOLEAN /\ listed \in BOOLEAN BY DEF Info
  <2>2. SaveOne(o, expired) = [o EXCEPT !.unreachable = gone, !.listed = listed]
    BY <1>2 DEF SaveOne
  <2> HIDE DEF gone, listed
  <2> QED BY <2>1, <2>2, <1>2 DEF Info
<1> QED BY <1>1, <1>2

LEMMA SaveUpdatedSound ==
  ASSUME NEW nd \in State, InfosOK(nd), RequestsOK(nd), NEW expired
  PROVE  LET e == SaveUpdated(nd, expired)
         IN e \in State /\ InfosOK(e) /\ RequestsOK(e)
<1> DEFINE T == TableOf(nd)
           Saved(o) == SaveOne(o, expired)
           saved == {Saved(o) : o \in T}
           gone == {o \in saved : o.unreachable}
           deleted == {o.ident : o \in gone}
           purge == \E r \in deleted : nd.files[r] > 0
           table == IF purge THEN {[o EXCEPT !.inTable = ~o.unreachable] : o \in saved}
                    ELSE saved
           orphans == {o \in nd.infos : ~o.inTable}
           infos == {o \in table \cup orphans : o.inTable \/ o.listed}
           files == [r \in NDRouters |->
                       IF r \in deleted THEN 0
                       ELSE IF \E o \in T : o.ident = r /\ o.updated
                            THEN (CHOOSE o \in T : o.ident = r).version
                       ELSE nd.files[r]]
           e == [nd EXCEPT !.infos = infos, !.files = files]
<1>1. SaveUpdated(nd, expired) = e BY DEF SaveUpdated
<1>2. /\ nd.infos \subseteq Info /\ T \subseteq nd.infos /\ T \subseteq Info
      /\ \A o \in T : o.inTable
      /\ \A o, p \in T : o.ident = p.ident => o = p
  BY DEF TableOf, InfosOK, State
<1>3. ASSUME NEW o \in T
      PROVE  /\ Saved(o) \in Info /\ Saved(o).ident = o.ident /\ Saved(o).version = o.version
             /\ Saved(o).inTable /\ ~Saved(o).updated
             /\ Saved(o).unreachable => ~o.updated
             /\ Saved(o).unreachable \in BOOLEAN
             /\ o.ident \in NDRouters /\ o.version \in 1..Len(NDPublished[o.ident])
             /\ o.updated \/ nd.files[o.ident] = o.version
  <2>1. o \in Info /\ o.inTable /\ o \in nd.infos BY <1>2
  <2>2. /\ o.ident \in NDRouters /\ o.version \in 1..Len(NDPublished[o.ident])
        /\ o.updated \/ nd.files[o.ident] = o.version
    BY <2>1 DEF Info, InfosOK
  <2> HIDE DEF T
  <2> QED BY <2>1, <2>2, SaveOneSound
<1> HIDE DEF Saved, T
<1>4. ASSUME NEW o \in T PROVE o.ident \in deleted <=> Saved(o).unreachable
  <2>1. CASE Saved(o).unreachable BY <2>1, <1>3
  <2>2. ASSUME o.ident \in deleted PROVE Saved(o).unreachable
    <3>1. PICK p \in T : Saved(p).unreachable /\ Saved(p).ident = o.ident BY <2>2
    <3> QED BY <3>1, <1>2, <1>3
  <2> QED BY <2>1, <2>2
<1>5. ASSUME NEW o \in T, Saved(o).unreachable PROVE purge
  <2>1. nd.files[o.ident] = o.version /\ o.version > 0 BY <1>3, <1>5
  <2> QED BY <2>1, <1>4, <1>5
<1> HIDE DEF deleted, gone
<1>6. ASSUME NEW t \in table
      PROVE  \E o \in T : /\ t = IF purge THEN [Saved(o) EXCEPT !.inTable = ~Saved(o).unreachable]
                                 ELSE Saved(o)
                          /\ t \in Info /\ t.ident = o.ident /\ t.version = o.version
                          /\ ~t.updated
                          /\ t.inTable = ~t.unreachable /\ t.unreachable = Saved(o).unreachable
  <2>1. PICK o \in T : t = IF purge THEN [Saved(o) EXCEPT !.inTable = ~Saved(o).unreachable]
                           ELSE Saved(o)
    OBVIOUS
  <2> HIDE DEF purge, table
  <2>2. CASE purge
    <3>1. t = [Saved(o) EXCEPT !.inTable = ~Saved(o).unreachable] BY <2>1, <2>2
    <3>2. t \in Info /\ t.ident = Saved(o).ident /\ t.version = Saved(o).version
          /\ t.updated = Saved(o).updated /\ t.unreachable = Saved(o).unreachable
          /\ t.inTable = ~t.unreachable
      BY <3>1, <1>3 DEF Info
    <3> QED BY <2>1, <3>2, <1>3
  <2>3. CASE ~purge
    <3>1. t = Saved(o) /\ ~Saved(o).unreachable BY <2>1, <2>3, <1>5
    <3> QED BY <2>1, <3>1, <1>3
  <2> QED BY <2>2, <2>3
<1>7. ASSUME NEW t \in table, NEW u \in table, t.ident = u.ident PROVE t = u
  <2> HIDE DEF table, purge
  <2>1. PICK o \in T : /\ t = IF purge THEN [Saved(o) EXCEPT !.inTable = ~Saved(o).unreachable]
                              ELSE Saved(o)
                       /\ t.ident = o.ident
    BY <1>6
  <2>2. PICK p \in T : /\ u = IF purge THEN [Saved(p) EXCEPT !.inTable = ~Saved(p).unreachable]
                              ELSE Saved(p)
                       /\ u.ident = p.ident
    BY <1>6
  <2>3. o = p BY <2>1, <2>2, <1>2, <1>7
  <2> QED BY <2>1, <2>2, <2>3
<1>8. ASSUME NEW o \in T, ~Saved(o).unreachable PROVE files[o.ident] = o.version
  <2>1. o.ident \notin deleted /\ o.ident \in NDRouters BY <1>3, <1>4, <1>8
  <2>2. CASE o.updated
    <3>1. (CHOOSE p \in T : p.ident = o.ident) = o BY <1>2
    <3> QED BY <2>1, <2>2, <3>1
  <2>3. CASE ~o.updated
    <3>1. ~\E p \in T : p.ident = o.ident /\ p.updated BY <2>3, <1>2
    <3> QED BY <2>1, <2>3, <3>1, <1>3
  <2> QED BY <2>2, <2>3
<1>9. ASSUME NEW r \in NDRouters PROVE files[r] \in 0..Len(NDPublished[r]) /\ files[r] \in Nat
  <2>1. nd.files[r] \in 0..Len(NDPublished[r]) /\ Len(NDPublished[r]) \in Nat
    BY NetDbAssumption DEF InfosOK
  <2>2. CASE r \in deleted BY <2>1, <2>2
  <2>3. CASE r \notin deleted /\ \E o \in T : o.ident = r /\ o.updated
    <3> DEFINE p == CHOOSE o \in T : o.ident = r
    <3>1. p \in T /\ p.ident = r BY <2>3
    <3>2. files[r] = p.version BY <2>3
    <3> HIDE DEF p, files
    <3> QED BY <2>1, <3>1, <3>2, <1>3
  <2>4. CASE r \notin deleted /\ ~\E o \in T : o.ident = r /\ o.updated BY <2>1, <2>4
  <2> QED BY <2>2, <2>3, <2>4
<1>10. files \in [NDRouters -> Nat]
  <2>1. files = [r \in NDRouters |-> files[r]] OBVIOUS
  <2> HIDE DEF files
  <2> QED BY <2>1, <1>9
<1>11. infos \subseteq Info
  <2> HIDE DEF table
  <2> QED BY <1>2, <1>6
<1> HIDE DEF files, table
<1>12. ASSUME NEW o \in infos
       PROVE  /\ o.version \in 1..Len(NDPublished[o.ident])
              /\ o.inTable \/ (o.listed /\ o.unreachable)
              /\ o.inTable => o.updated \/ files[o.ident] = o.version
              /\ o.inTable => o \in table
  <2>1. CASE o \in table
    <3>1. PICK p \in T : /\ o.ident = p.ident /\ o.version = p.version
                         /\ o \in Info /\ o.inTable = ~o.unreachable
                         /\ o.unreachable = Saved(p).unreachable
      BY <2>1, <1>6
    <3>2. o.inTable \/ (o.listed /\ o.unreachable) BY <3>1 DEF Info
    <3>3. o.version \in 1..Len(NDPublished[o.ident]) BY <3>1, <1>3
    <3>4. o.inTable => files[o.ident] = o.version BY <3>1, <1>8
    <3> QED BY <2>1, <3>2, <3>3, <3>4
  <2>2. CASE o \in orphans
    BY <2>2 DEF InfosOK
  <2> QED BY <2>1, <2>2
<1> HIDE DEF infos
<1>13. /\ e \in State /\ e.infos = infos /\ e.files = files /\ e.restarts = nd.restarts
       /\ e.case = nd.case /\ e.requests = nd.requests /\ e.calls = nd.calls
       /\ e.issued = nd.issued /\ e.caller = nd.caller
  BY <1>10, <1>11 DEF State
<1> HIDE DEF e
<1>14. InfosOK(e)
  <2>1. nd.restarts \in 0..nd.case.restarts BY DEF InfosOK
  <2>2. \A o, p \in {x \in infos : x.inTable} : o.ident = p.ident => o = p BY <1>7, <1>12
  <2> QED BY <2>1, <2>2, <1>9, <1>12, <1>13 DEF InfosOK, TableOf
<1>15. RequestsOK(e) BY <1>13 DEF RequestsOK, Good
<1> QED BY <1>1, <1>13, <1>14, <1>15 DEF e, infos, files, table, deleted, gone, T, Saved
-----------------------------------------------------------------------------
(***************************************************************************)
(* The actions.                                                            *)
(***************************************************************************)
LEMMA InitSound == NetDbInit => IInv
<1> SUFFICES ASSUME NEW c \in NDCases, NetDbInitWith(c) PROVE IInv
  BY DEF NetDbInit
<1> DEFINE files == [r \in NDRouters |-> IF r \in c.seeded THEN 1 ELSE 0]
           nd == [files |-> files, restarts |-> 0, case |-> c]
           e == Loaded(nd, {})
           z == [e EXCEPT !.restarts = 0]
<1>1. files \in [NDRouters -> Nat] OBVIOUS
<1>2. ASSUME NEW r \in NDRouters PROVE files[r] \in 0..Len(NDPublished[r])
  <2>1. NDPublished[r] \in Seq(BOOLEAN) /\ Len(NDPublished[r]) \in Nat
        /\ (r \in c.seeded => NDPublished[r] # <<>>)
    BY NetDbAssumption
  <2>2. r \in c.seeded => Len(NDPublished[r]) > 0 BY <2>1
  <2> QED BY <2>1, <2>2
<1>3. nd.files = files /\ nd.restarts = 0 /\ nd.case = c OBVIOUS
<1>4. netdb = z BY DEF NetDbInitWith
<1> HIDE DEF nd, files
<1>5. e \in State /\ RequestsOK(e) /\ InfosOK(z)
  <2>1. {} \in SUBSET NDRouters /\ 0 \in Nat OBVIOUS
  <2> QED BY <1>1, <1>2, <1>3, <2>1, LoadedSound, SMTT(60)
<1>6. e.reply = NoReply BY DEF Loaded
<1> HIDE DEF e
<1>7. z \in State /\ z.requests = e.requests /\ z.calls = e.calls /\ z.issued = e.issued
      /\ z.caller = e.caller /\ z.reply = NoReply
  BY <1>5, <1>6 DEF State
<1> HIDE DEF z
<1>8. RequestsOK(z) BY <1>5, <1>7 DEF RequestsOK, Good
<1>9. Named(z) BY <1>7 DEF Named, NoReply
<1> QED BY <1>4, <1>5, <1>7, <1>8, <1>9 DEF IInv, z

LEMMA StoreSound ==
  ASSUME IInv, NEW m \in netdb.case.stores, HandleDatabaseStoreMsg(m[1], m[2])
  PROVE  IInv'
<1>1. netdb.case \in NDCases BY DEF IInv, State
<1>2. m[1] \in NDRouters /\ m[2] \in 1..Len(NDPublished[m[1]]) BY <1>1, NetDbAssumption
<1>3. /\ AddRouterInfo(netdb, m[1], m[2]) \in State
      /\ InfosOK(AddRouterInfo(netdb, m[1], m[2]))
      /\ RequestsOK(AddRouterInfo(netdb, m[1], m[2]))
  BY <1>2, AddRouterInfoSound DEF IInv
<1> QED BY <1>3, BecomesSound DEF HandleDatabaseStoreMsg

LEMMA ReplySound ==
  ASSUME IInv, NEW m \in netdb.case.replies, NEW throughTunnels \in BOOLEAN,
         NEW outdated \in {{}, m[2]},
         HandleDatabaseSearchReplyMsg(m[1], m[2], outdated, throughTunnels)
  PROVE  IInv'
<1> DEFINE ident == m[1]
           named == m[2]
           found == RequestFor(netdb, ident)
           q == CHOOSE x \in found : TRUE
           next == IF found = {} THEN netdb
                   ELSE IF named = {} THEN RequestComplete(netdb, ident)
                   ELSE TryNext(netdb, q, GetClosestFloodfill(netdb, ident, q.excluded),
                                throughTunnels)
           unknown == {r \in named : FindRouter(netdb, r) = {} \/ r \in outdated}
           e == RequestDestinations(next, unknown)
<1>1. netdb \in State /\ InfosOK(netdb) /\ RequestsOK(netdb) BY DEF IInv
<1>2. unknown \in SUBSET NDIdents
  <2>1. netdb.case \in NDCases BY <1>1 DEF State
  <2> QED BY <2>1, NetDbAssumption DEF NDIdents
<1>3. next \in State /\ SameInfos(netdb, next) /\ RequestsOK(next)
  <2>1. CASE found = {} BY <2>1, <1>1 DEF SameInfos
  <2>2. CASE found # {} /\ named = {} BY <2>2, <1>1, CompleteSound
  <2>3. CASE found # {} /\ named # {}
    <3>1. q \in netdb.requests /\ q.dest = ident BY <2>3 DEF RequestFor
    <3>2. next = TryNext(netdb, q, GetClosestFloodfill(netdb, q.dest, q.excluded), throughTunnels)
      BY <2>3, <3>1
    <3> HIDE DEF next, q
    <3> QED BY <3>1, <3>2, <1>1, TryNextSound
  <2> QED BY <2>1, <2>2, <2>3
<1>4. Becomes(e) BY DEF HandleDatabaseSearchReplyMsg
<1> HIDE DEF next, unknown
<1>5. e \in State /\ SameInfos(next, e) /\ RequestsOK(e) BY <1>2, <1>3, DestinationsSound
<1>6. InfosOK(e) BY <1>1, <1>3, <1>5, InfosKept
<1> QED BY <1>4, <1>5, <1>6, BecomesSound

LEMMA LookupSound ==
  ASSUME IInv, NEW m \in netdb.case.lookups, HandleDatabaseLookupMsg(m[1], m[2], m[3])
  PROVE  IInv'
<1> DEFINE named == IF m[3] THEN GetClosestNonFloodfills(netdb, m[1], 3, m[2])
                    ELSE GetClosestFloodfills(netdb, m[1], 3, m[2])
           reply == [named |-> named, excluded |-> m[2], exploratory |-> m[3]]
<1>1. netdb \in State /\ InfosOK(netdb) /\ RequestsOK(netdb) BY DEF IInv
<1>2. m[2] \subseteq NDRouters /\ m[3] \in BOOLEAN
  <2>1. netdb.case \in NDCases BY <1>1 DEF State
  <2> QED BY <2>1, NetDbAssumption
<1>3. named \subseteq NDRouters
  BY <1>1 DEF State, Info, GetClosestNonFloodfills, GetClosestFloodfills, ClosestOf,
     Candidates, TableOf
<1>4. ~m[3] => \A f \in named : f \notin m[2] /\ FindRouter(netdb, f) # {}
  <2> SUFFICES ASSUME ~m[3], NEW f \in named PROVE f \notin m[2] /\ FindRouter(netdb, f) # {}
    OBVIOUS
  <2>1. PICK o \in netdb.infos : o.ident = f /\ o.listed /\ ~o.unreachable /\ f \notin m[2]
    BY DEF GetClosestFloodfills, ClosestOf, Candidates
  <2>2. o.inTable BY <2>1, <1>1 DEF InfosOK
  <2> QED BY <2>1, <2>2 DEF FindRouter, TableOf
<1>5. netdb' = [netdb EXCEPT !.reply = reply] BY DEF HandleDatabaseLookupMsg
<1> HIDE DEF named
<1>6. reply \in Reply BY <1>2, <1>3 DEF Reply
<1>7. /\ netdb' \in State /\ netdb'.infos = netdb.infos /\ netdb'.files = netdb.files
      /\ netdb'.restarts = netdb.restarts /\ netdb'.case = netdb.case
      /\ netdb'.requests = netdb.requests /\ netdb'.calls = netdb.calls
      /\ netdb'.issued = netdb.issued /\ netdb'.caller = netdb.caller
      /\ netdb'.reply = reply
  <2> HIDE DEF reply
  <2> QED BY <1>1, <1>5, <1>6 DEF State
<1>8. InfosOK(netdb)' BY <1>1, <1>7 DEF InfosOK, TableOf
<1>9. RequestsOK(netdb)' BY <1>1, <1>7 DEF RequestsOK, Good
<1>10. Named(netdb)' BY <1>4, <1>7 DEF Named, FindRouter, TableOf
<1> QED BY <1>7, <1>8, <1>9, <1>10 DEF IInv

LEMMA BeginSound ==
  ASSUME IInv, NEW c \in NDRequesters, BeginRequest(c)
  PROVE  IInv'
<1> DEFINE ident == netdb.case.wanted[c]
           q == NewRequest(ident, FALSE, c, TRUE)
           b == CreateRequest(netdb, ident, FALSE, c, TRUE)
           begun == [NoCaller EXCEPT !.at = "begun", !.who = c]
           issued == netdb.issued \cup {c}
           caller == IF RequestFor(netdb, ident) = {} THEN begun ELSE netdb.caller
           e == [b EXCEPT !.issued = issued, !.caller = caller]
<1>1. netdb \in State /\ InfosOK(netdb) /\ RequestsOK(netdb) BY DEF IInv
<1>2. /\ c \in DOMAIN netdb.case.wanted /\ c \notin netdb.issued
      /\ netdb.caller.at = "idle"
      /\ Becomes(e)
  <2>1. b.issued = netdb.issued /\ b.caller = netdb.caller
    BY <1>1 DEF CreateRequest, CallBack, State
  <2>2. [b EXCEPT !.issued = @ \cup {c},
                  !.caller = IF RequestFor(netdb, ident) = {} THEN begun ELSE @] = e
    <3> HIDE DEF b, begun
    <3> QED BY <2>1
  <2> QED BY <2>2 DEF BeginRequest
<1>3. ident \in NDIdents
  <2>1. netdb.case \in NDCases BY <1>1 DEF State
  <2> QED BY <2>1, <1>2, NetDbAssumption
<1>4. c # Unasked BY NetDbAssumption
<1> HIDE DEF ident
<1>5. q.held BY DEF NewRequest
<1>6. NewOK(q, ident, c)
  <2>1. FALSE \in BOOLEAN /\ TRUE \in BOOLEAN /\ c \in NDRequesters \cup {Unasked} OBVIOUS
  <2> QED BY <2>1, <1>3, NewSound, Zenon
<1> HIDE DEF q
<1>7. begun \in Caller /\ begun.at = "begun" /\ begun.who = c BY DEF NoCaller, Caller
<1> HIDE DEF begun
<1>8. Work(netdb.requests, netdb.caller) /\ Failing(netdb.caller) = Unasked
  BY <1>1, <1>2 DEF RequestsOK, Good, Failing
<1>9. ASSUME NEW x \in NDRequesters
      PROVE  /\ CallerOK(netdb.calls, netdb.requests, netdb.issued, Unasked, x)
             /\ x # Unasked /\ netdb.calls[x] \in Nat
  BY <1>1, <1>8, NetDbAssumption DEF RequestsOK, Good, CallersOK, State
<1>10. netdb.calls[c] = 0 /\ ~Holding(netdb.requests, c) BY <1>2, <1>9 DEF CallerOK, Told
<1>11. CASE RequestFor(netdb, ident) # {}
  <2>1. b = CallBack(netdb, {q}) BY <1>11 DEF CreateRequest, q
  <2>2. \A x \in NDRequesters : Holding({q}, x) <=> x = c BY <1>6 DEF Holding, NewOK
  <2> HIDE DEF b
  <2>3. /\ b \in State /\ SameInfos(netdb, b)
        /\ b.requests = netdb.requests /\ b.issued = netdb.issued
        /\ \A x \in NDRequesters : b.calls[x] = netdb.calls[x] + IF x = c THEN 1 ELSE 0
    BY <1>1, <2>1, <2>2, CallBackSound
  <2>4. /\ e \in State /\ SameInfos(netdb, e) /\ e.requests = netdb.requests
        /\ e.issued = issued /\ e.calls = b.calls /\ e.caller = netdb.caller
    BY <1>1, <1>11, <2>3 DEF State, SameInfos
  <2> HIDE DEF e
  <2>5. ASSUME NEW x \in NDRequesters
        PROVE  CallerOK(e.calls, e.requests, e.issued, Unasked, x)
    BY <1>9, <1>10, <2>3, <2>4 DEF CallerOK, Told
  <2>6. RequestsOK(e) BY <1>1, <1>8, <2>4, <2>5 DEF RequestsOK, Good, CallersOK
  <2> QED BY <1>1, <1>2, <2>4, <2>6, InfosKept, BecomesSound
<1>12. CASE RequestFor(netdb, ident) = {}
  <2> DEFINE R == netdb.requests \cup {q}
  <2>1. b = [netdb EXCEPT !.requests = R] BY <1>12 DEF CreateRequest, q
  <2>2. R \in SUBSET Request BY <1>1, <1>6 DEF State, NewOK
  <2> HIDE DEF R
  <2>3. /\ e \in State /\ SameInfos(netdb, [e EXCEPT !.caller = netdb.caller])
        /\ e.requests = R /\ e.issued = issued /\ e.calls = netdb.calls /\ e.caller = begun
    <3> HIDE DEF b
    <3> QED BY <1>1, <1>7, <1>12, <2>1, <2>2 DEF State, SameInfos
  <2> HIDE DEF e, b
  <2>4. \A r \in netdb.requests : /\ r.inTable => r.dest # ident
                                  /\ ~r.held /\ ~r.found
    BY <1>2, <1>8, <1>12 DEF RequestFor, Work
  <2>5. Fit(R) BY <2>4, <1>1, <1>6 DEF RequestsOK, Good, Fit, R, NewOK
  <2>6. Work(R, begun) BY <2>4, <1>6, <1>7 DEF Work, R, NewOK
  <2>7. Failing(begun) = Unasked BY <1>7 DEF Failing
  <2>8. ASSUME NEW x \in NDRequesters PROVE CallerOK(netdb.calls, R, issued, Unasked, x)
    <3>1. Holding(R, x) <=> Holding(netdb.requests, x) \/ x = c BY <1>6 DEF Holding, R, NewOK
    <3>2. \A r, s \in R : r.callback = x /\ s.callback = x => r = s
      BY <1>6, <1>9, <1>10 DEF R, CallerOK, NewOK, Holding
    <3> QED BY <3>1, <3>2, <1>9, <1>10 DEF CallerOK, Told
  <2>9. \A r \in R : r.inTable \/ r.held BY <1>1, <1>5 DEF R, RequestsOK
  <2>10. RequestsOK(e)
    BY <2>3, <2>5, <2>6, <2>7, <2>8, <2>9 DEF RequestsOK, Good, CallersOK
  <2> QED BY <1>1, <1>2, <2>3, <2>10, CallerMoves
<1> QED BY <1>11, <1>12

LEMMA ChooseSound == ASSUME IInv, ChooseFloodfill PROVE IInv'
<1>1. netdb \in State /\ InfosOK(netdb) /\ RequestsOK(netdb) BY DEF IInv
<1>2. netdb.caller.at = "begun" BY DEF ChooseFloodfill
<1>3. PICK q \in netdb.requests :
        Becomes([netdb EXCEPT !.caller.at = "chosen",
                   !.caller.floodfills = GetClosestFloodfill(netdb, q.dest, q.excluded)])
  BY DEF ChooseFloodfill
<1> DEFINE floodfills == GetClosestFloodfill(netdb, q.dest, q.excluded)
           caller == [netdb.caller EXCEPT !.at = "chosen", !.floodfills = floodfills]
           e == [netdb EXCEPT !.caller = caller]
<1>4. floodfills \subseteq NDRouters BY <1>1, ClosestIsRouter
<1>5. Becomes(e)
  <2> HIDE DEF floodfills
  <2>1. [netdb EXCEPT !.caller.at = "chosen", !.caller.floodfills = floodfills] = e
    BY <1>1 DEF State, Caller
  <2> QED BY <1>3, <2>1 DEF floodfills
<1> HIDE DEF floodfills
<1>6. /\ caller \in Caller /\ caller.at = "chosen" /\ caller.who = netdb.caller.who
  BY <1>1, <1>4 DEF State, Caller
<1> HIDE DEF caller
<1>7. /\ e \in State /\ SameInfos(netdb, [e EXCEPT !.caller = netdb.caller])
      /\ e.requests = netdb.requests /\ e.issued = netdb.issued /\ e.calls = netdb.calls
      /\ e.caller = caller
  BY <1>1, <1>6 DEF State, SameInfos
<1> HIDE DEF e
<1>8. Work(e.requests, e.caller) BY <1>1, <1>2, <1>6, <1>7 DEF RequestsOK, Good, Work
<1>9. Failing(e.caller) = Failing(netdb.caller) BY <1>2, <1>6, <1>7 DEF Failing
<1>10. RequestsOK(e) BY <1>1, <1>7, <1>8, <1>9 DEF RequestsOK, Good
<1> QED BY <1>1, <1>5, <1>7, <1>10, CallerMoves

LEMMA SendSound == ASSUME IInv, SendRequest PROVE IInv'
<1>1. netdb \in State /\ InfosOK(netdb) /\ RequestsOK(netdb) BY DEF IInv
<1>2. netdb.caller.at = "chosen" /\ netdb.caller.floodfills # {} BY DEF SendRequest
<1> DEFINE f == AnyOf(netdb.caller.floodfills)
<1>3. PICK q \in netdb.requests :
        /\ q.held
        /\ Becomes(LetGo([netdb EXCEPT !.requests =
               (@ \ {q}) \cup {CreateRequestMessage(q, f)}]))
  BY DEF SendRequest
<1> DEFINE a == CreateRequestMessage(q, f)
           Q == (netdb.requests \ {q}) \cup {a}
           d == [netdb EXCEPT !.requests = Q]
           e == LetGo(d)
           g == [x \in netdb.requests |-> Release(IF x = q THEN a ELSE x)]
           R == {g[x] : x \in netdb.requests}
<1>4. q \in Request /\ AskedOK(q) BY <1>1 DEF State, RequestsOK, Good, Fit
<1>5. f \in NDRouters BY <1>1, <1>2 DEF AnyOf, State, Caller
<1> HIDE DEF f
<1>6. /\ a \in Request /\ a.dest = q.dest /\ a.callback = q.callback /\ a.found = q.found
      /\ a.inTable = q.inTable /\ a.asked = q.asked /\ a.excluded = q.excluded \cup {f}
  BY <1>4, <1>5 DEF CreateRequestMessage, Request
<1> HIDE DEF a
<1>7. /\ Release(a) \in Request /\ Release(a).dest = a.dest /\ Release(a).callback = a.callback
      /\ Release(a).found = a.found /\ Release(a).inTable = a.inTable /\ ~Release(a).held
      /\ Release(a).asked = a.asked /\ Release(a).excluded = a.excluded
  BY <1>6 DEF Request, Release
<1>8. AskedOK(Release(a))
  <2>1. /\ IsFiniteSet(q.excluded \cup {f})
        /\ \/ Cardinality(q.excluded \cup {f}) = Cardinality(q.excluded)
           \/ Cardinality(q.excluded \cup {f}) = Cardinality(q.excluded) + 1
    BY <1>4, FS_AddElement DEF AskedOK
  <2> QED BY <2>1, <1>3, <1>4, <1>6, <1>7 DEF AskedOK
<1>9. ASSUME NEW x \in netdb.requests
      PROVE  Fits(g[x], x) /\ ~g[x].held /\ g[x].inTable = x.inTable
  <2>1. CASE x = q
    <3>1. g[x] = Release(a) BY <2>1
    <3> HIDE DEF g
    <3> QED BY <2>1, <3>1, <1>3, <1>6, <1>7, <1>8 DEF Fits
  <2>2. CASE x # q
    <3>1. g[x] = Release(x) BY <2>2
    <3>2. x \in Request /\ AskedOK(x) BY <1>1 DEF State, RequestsOK, Good, Fit
    <3> HIDE DEF g
    <3> QED BY <3>1, <3>2, ReleaseFits
  <2> QED BY <2>1, <2>2
<1>10. R = {Release(x) : x \in Q}
  <2>1. \A x \in Q : \E y \in netdb.requests : Release(x) = g[y] OBVIOUS
  <2>2. \A y \in netdb.requests : \E x \in Q : Release(x) = g[y] OBVIOUS
  <2> HIDE DEF g, Q
  <2> QED BY <2>1, <2>2
<1>11. g \in [netdb.requests -> Request]
  <2>1. g = [x \in netdb.requests |-> g[x]] OBVIOUS
  <2> HIDE DEF g
  <2> QED BY <2>1, <1>9 DEF Fits
<1> HIDE DEF g
<1>12. R \in SUBSET Request /\ Good(netdb, R)
  <2>1. Good(netdb, netdb.requests) BY <1>1 DEF RequestsOK
  <2> QED BY <2>1, <1>1, <1>9, <1>11, MapFits
<1>13. ~\E x \in netdb.requests : x.found BY <1>1, <1>2 DEF RequestsOK, Good, Work
<1>14. \A x \in R : ~x.held /\ ~(x.found /\ x.inTable) BY <1>9, <1>13 DEF Fits
<1>15. ASSUME NEW c \in NDRequesters, c \in netdb.issued PROVE Told(netdb.calls, R, c) = 1
  <2>1. CallerOK(netdb.calls, R, netdb.issued, Unasked, c)
    BY <1>2, <1>12 DEF Good, CallersOK, Failing
  <2> QED BY <2>1, <1>15, NetDbAssumption DEF CallerOK
<1> HIDE DEF R
<1>16. /\ d \in State /\ SameInfos(netdb, d) /\ d.requests = Q /\ d.calls = netdb.calls
       /\ d.issued = netdb.issued /\ d.caller = netdb.caller
  <2>1. Q \in SUBSET Request BY <1>1, <1>6 DEF State
  <2> HIDE DEF Q
  <2> QED BY <1>1, <2>1 DEF State, SameInfos
<1>17. Becomes(e) BY <1>3 DEF a
<1> HIDE DEF d, Q
<1>18. Good(d, R) BY <1>12, <1>16 DEF Good
<1>19. e \in State /\ SameInfos(d, [e EXCEPT !.caller = d.caller]) /\ RequestsOK(e)
  BY <1>10, <1>12, <1>14, <1>15, <1>16, <1>18, LetGoSound
<1> HIDE DEF e
<1>20. SameInfos(netdb, [e EXCEPT !.caller = netdb.caller]) BY <1>16, <1>19 DEF SameInfos
<1> QED BY <1>1, <1>17, <1>19, <1>20, CallerMoves

\* The callback is called; the request it was in still has it.
LEMMA FailSound == ASSUME IInv, FailRequest PROVE IInv'
<1>1. netdb \in State /\ InfosOK(netdb) /\ RequestsOK(netdb) BY DEF IInv
<1>2. netdb.caller.at = "chosen" BY DEF FailRequest
<1>3. PICK q \in netdb.requests :
        /\ q.held
        /\ LET found == RequestFor(netdb, q.dest)
               called == [CallBack(netdb, found) EXCEPT
                            !.requests = (@ \ found) \cup {[x EXCEPT !.found = TRUE] : x \in found},
                            !.caller.at = "called"]
           IN Becomes(IF found = {} THEN LetGo(netdb) ELSE called)
  BY DEF FailRequest
<1> DEFINE found == RequestFor(netdb, q.dest)
<1>4. Work(netdb.requests, netdb.caller) /\ Failing(netdb.caller) = Unasked
  BY <1>1, <1>2 DEF RequestsOK, Good, Failing
<1>5. ~\E x \in netdb.requests : x.found BY <1>2, <1>4 DEF Work
<1>6. ASSUME NEW c \in NDRequesters
      PROVE  /\ CallerOK(netdb.calls, netdb.requests, netdb.issued, Unasked, c)
             /\ c # Unasked /\ netdb.calls[c] \in Nat
  BY <1>1, <1>4, NetDbAssumption DEF RequestsOK, Good, CallersOK, State
<1>7. CASE found = {}
  <2> DEFINE e == LetGo(netdb)
  <2>1. Becomes(e) BY <1>3, <1>7
  <2>2. \A c \in NDRequesters :
          c \in netdb.issued => Told(netdb.calls, netdb.requests, c) = 1
    BY <1>6 DEF CallerOK
  <2>3. Good(netdb, netdb.requests) BY <1>1 DEF RequestsOK
  <2>4. e \in State /\ SameInfos(netdb, [e EXCEPT !.caller = netdb.caller]) /\ RequestsOK(e)
    BY <1>1, <1>5, <2>2, <2>3, ReleaseSound
  <2> QED BY <1>1, <2>1, <2>4, CallerMoves
<1>8. CASE found # {}
  <2>1. PICK x \in netdb.requests : found = {x} /\ x.inTable /\ x.dest = q.dest
    BY <1>1, <1>8 DEF RequestFor, RequestsOK, Good, Fit
  <2> DEFINE b == CallBack(netdb, {x})
             n == [x EXCEPT !.found = TRUE]
             R == (netdb.requests \ {x}) \cup {n}
             caller == [netdb.caller EXCEPT !.at = "called"]
             e == [b EXCEPT !.requests = R, !.caller = caller]
  <2>2. /\ b \in State /\ SameInfos(netdb, b) /\ b.issued = netdb.issued
        /\ b.requests = netdb.requests /\ b.caller = netdb.caller
        /\ \A c \in NDRequesters :
             b.calls[c] = netdb.calls[c] + IF x.callback = c THEN 1 ELSE 0
    <3>1. \A c \in NDRequesters : Holding({x}, c) <=> x.callback = c BY DEF Holding
    <3> QED BY <3>1, <1>1, CallBackSound DEF SameInfos
  <2>3. Becomes(e)
    <3>1. {[y EXCEPT !.found = TRUE] : y \in {x}} = {n} OBVIOUS
    <3> HIDE DEF n
    <3>2. Becomes([b EXCEPT !.requests = (@ \ {x}) \cup {n}, !.caller.at = "called"])
      BY <1>3, <1>8, <2>1, <3>1
    <3>3. [b EXCEPT !.requests = (@ \ {x}) \cup {n}, !.caller.at = "called"] = e
      <4> HIDE DEF b
      <4> QED BY <2>2 DEF State, Caller
    <3> QED BY <3>2, <3>3
  <2>4. x \in Request /\ AskedOK(x) BY <1>1 DEF State, RequestsOK, Good, Fit
  <2>5. /\ n \in Request /\ n.dest = x.dest /\ n.callback = x.callback /\ n.inTable = x.inTable
        /\ n.held = x.held /\ n.asked = x.asked /\ n.excluded = x.excluded /\ n.found
    BY <2>4 DEF Request
  <2>6. caller \in Caller /\ caller.at = "called" /\ caller.who = netdb.caller.who
    BY <1>1 DEF State, Caller
  <2> HIDE DEF n, caller, b
  <2>7. R \in SUBSET Request BY <1>1, <2>5 DEF State
  <2> HIDE DEF R
  <2>8. /\ e \in State /\ SameInfos(netdb, [e EXCEPT !.caller = netdb.caller])
        /\ e.requests = R /\ e.issued = netdb.issued /\ e.calls = b.calls /\ e.caller = caller
    BY <2>2, <2>6, <2>7 DEF State, SameInfos
  <2> HIDE DEF e
  <2>9. Fit(R)
    <3>1. AskedOK(n) BY <2>4, <2>5 DEF AskedOK
    <3> QED BY <3>1, <1>1, <2>5 DEF RequestsOK, Good, Fit, R
  <2>10. Work(R, caller) BY <1>2, <1>4, <2>1, <2>5, <2>6 DEF Work, R
  <2>11. x.callback = netdb.caller.who \/ x.callback = Unasked BY <1>3, <1>4, <2>1 DEF Work
  <2>12. Failing(caller) = netdb.caller.who BY <2>6 DEF Failing
  <2>13. ASSUME NEW c \in NDRequesters
         PROVE  CallerOK(b.calls, R, netdb.issued, netdb.caller.who, c)
    <3>1. CallerOK(netdb.calls, netdb.requests, netdb.issued, Unasked, c) /\ c # Unasked
          /\ netdb.calls[c] \in Nat
      BY <1>6
    <3>2. Holding(R, c) <=> Holding(netdb.requests, c) BY <2>1, <2>5 DEF Holding, R
    <3>3. \A y, z \in R : y.callback = c /\ z.callback = c => y = z
      BY <3>1, <2>1, <2>5 DEF R, CallerOK
    <3>4. \A y \in R : y.found => y = n BY <1>5 DEF R
    <3>5. CASE x.callback = c
      <4>1. Holding(netdb.requests, c) BY <2>1, <3>5 DEF Holding
      <4>2. c \in netdb.issued /\ netdb.calls[c] = 0 BY <3>1, <4>1 DEF CallerOK, Told
      <4>3. b.calls[c] = 1 BY <2>2, <3>5, <4>2
      <4>4. c = netdb.caller.who BY <3>1, <3>5, <2>11
      <4> QED BY <3>2, <3>3, <3>4, <3>5, <4>1, <4>2, <4>3, <4>4, <2>5 DEF CallerOK, Told
    <3>6. CASE x.callback # c
      <4>1. b.calls[c] = netdb.calls[c] BY <2>2, <3>1, <3>6
      <4>2. Told(b.calls, R, c) = Told(netdb.calls, netdb.requests, c) BY <3>2, <4>1 DEF Told
      <4>3. c = netdb.caller.who => n.callback = Unasked BY <2>5, <2>11, <3>6
      <4> QED BY <3>1, <3>3, <3>4, <4>2, <4>3 DEF CallerOK
    <3> QED BY <3>5, <3>6
  <2>14. \A y \in R : y.inTable \/ y.held BY <1>1, <2>1, <2>5 DEF R, RequestsOK
  <2>15. RequestsOK(e)
    BY <2>8, <2>9, <2>10, <2>12, <2>13, <2>14 DEF RequestsOK, Good, CallersOK
  <2> QED BY <1>1, <2>3, <2>8, <2>15, CallerMoves
<1> QED BY <1>7, <1>8

\* An entry that is still in the table was called back by nobody else.
LEMMA EraseSound == ASSUME IInv, EraseRequest PROVE IInv'
<1>1. netdb \in State /\ InfosOK(netdb) /\ RequestsOK(netdb) BY DEF IInv
<1> DEFINE found == {q \in netdb.requests : q.found /\ q.inTable}
           rest == netdb.requests \ found
           cleared == {Clear(q) : q \in found}
           Q == rest \cup cleared
           d == [netdb EXCEPT !.requests = Q]
           e == LetGo(d)
           w == netdb.caller.who
<1>2. netdb.caller.at = "called" /\ found # {} BY DEF EraseRequest
<1>3. Becomes(e)
  <2>1. cleared = {[q EXCEPT !.callback = Unasked, !.inTable = FALSE] : q \in found} BY DEF Clear
  <2> HIDE DEF cleared
  <2> QED BY <2>1 DEF EraseRequest
<1>4. found \in SUBSET netdb.requests /\ \A q \in rest : ~(q.found /\ q.inTable) OBVIOUS
<1>5. \A q \in found : q \in netdb.requests /\ q.found /\ q.inTable OBVIOUS
<1> HIDE DEF found
<1>6. /\ Q \in SUBSET Request /\ Fit(Q) /\ Work(Q, netdb.caller)
      /\ \A q \in cleared : q.callback = Unasked /\ ~q.inTable
      /\ \A c \in NDRequesters : Holding(Q, c) <=> Holding(rest, c)
  BY <1>1, <1>4, ClearFits
<1>7. \A q \in Q : ~(q.found /\ q.inTable) BY <1>4, <1>6
<1> HIDE DEF cleared
<1>8. Failing(netdb.caller) = w /\ w \in NDRequesters
  BY <1>1, <1>2 DEF Failing, RequestsOK, Good, Work
<1>9. ASSUME NEW c \in NDRequesters
      PROVE  /\ \A q, r \in Q : q.callback = c /\ r.callback = c => q = r
             /\ c \notin netdb.issued => Told(netdb.calls, Q, c) = 0
             /\ c \in netdb.issued => Told(netdb.calls, Q, c) = 1
  <2>1. CallerOK(netdb.calls, netdb.requests, netdb.issued, w, c) /\ netdb.calls[c] \in Nat
        /\ c # Unasked
    BY <1>1, <1>8, NetDbAssumption DEF RequestsOK, Good, CallersOK, State
  <2>2. CallerOK(netdb.calls, netdb.requests, netdb.issued, w, w)
    BY <1>1, <1>8 DEF RequestsOK, Good, CallersOK
  <2>3. \A q \in found : q.callback = w \/ q.callback = Unasked BY <1>5, <2>2 DEF CallerOK
  <2>4. \A q, r \in Q : q.callback = c /\ r.callback = c => q = r
    BY <2>1, <1>6 DEF CallerOK
  <2>5. Holding(Q, c) <=> Holding(rest, c) BY <1>6
  <2>6. Holding(netdb.requests, c) <=> Holding(found, c) \/ Holding(rest, c)
    BY <1>4 DEF Holding
  <2>7. CASE ~Holding(found, c)
    <3>1. Told(netdb.calls, Q, c) = Told(netdb.calls, netdb.requests, c)
      BY <2>5, <2>6, <2>7 DEF Told
    <3>2. c = w => \E q \in found : q.callback = Unasked
      BY <1>2, <2>3, <2>7 DEF Holding
    <3>3. c = w => (c \in netdb.issued => Told(netdb.calls, netdb.requests, c) = 1)
      BY <3>2, <1>5, <2>1 DEF CallerOK
    <3> QED BY <2>1, <2>4, <3>1, <3>3 DEF CallerOK
  <2>8. CASE Holding(found, c)
    <3>1. PICK q \in found : q.callback = c BY <2>8 DEF Holding
    <3>2. c = w BY <3>1, <2>1, <2>3
    <3>3. netdb.calls[c] = 1 BY <3>1, <3>2, <1>5, <2>1 DEF CallerOK
    <3>4. ~Holding(rest, c) BY <3>1, <1>4, <2>1 DEF Holding, CallerOK
    <3>5. Told(netdb.calls, Q, c) = 1 BY <2>5, <3>3, <3>4 DEF Told
    <3>6. c \in netdb.issued BY <2>1, <2>6, <2>8, <3>3 DEF CallerOK, Told
    <3> QED BY <2>4, <3>5, <3>6
  <2> QED BY <2>7, <2>8
<1>10. CallersOK(netdb.calls, Q, netdb.issued, w) BY <1>7, <1>9 DEF CallersOK, CallerOK
<1> HIDE DEF Q, w
<1>11. /\ d \in State /\ SameInfos(netdb, d) /\ d.requests = Q /\ d.calls = netdb.calls
       /\ d.issued = netdb.issued /\ d.caller = netdb.caller
  BY <1>1, <1>6 DEF State, SameInfos
<1> HIDE DEF d
<1>12. Good(d, d.requests) BY <1>6, <1>8, <1>10, <1>11 DEF Good
<1>13. e \in State /\ SameInfos(d, [e EXCEPT !.caller = d.caller]) /\ RequestsOK(e)
  BY <1>7, <1>9, <1>11, <1>12, ReleaseSound
<1> HIDE DEF e
<1>14. SameInfos(netdb, [e EXCEPT !.caller = netdb.caller]) BY <1>11, <1>13 DEF SameInfos
<1> QED BY <1>1, <1>3, <1>13, <1>14, CallerMoves

LEMMA ReportSound ==
  ASSUME IInv, NEW r, ReportUnreachable(r)
  PROVE  IInv'
<1>1. netdb \in State /\ InfosOK(netdb) /\ RequestsOK(netdb) BY DEF IInv
<1>2. PICK o \in FindRouter(netdb, r) :
        Becomes([netdb EXCEPT !.infos = (@ \ {o}) \cup {[o EXCEPT !.unreachable = TRUE]}])
  BY DEF ReportUnreachable
<1> DEFINE n == [o EXCEPT !.unreachable = TRUE]
           infos == (netdb.infos \ {o}) \cup {n}
           e == [netdb EXCEPT !.infos = infos]
<1>3. o \in Info /\ o \in netdb.infos /\ o.inTable
  BY <1>1, <1>2 DEF FindRouter, TableOf, State
<1>4. /\ n \in Info /\ n.ident = o.ident /\ n.version = o.version /\ n.updated = o.updated
      /\ n.inTable
  BY <1>3 DEF Info
<1> HIDE DEF n
<1>5. infos \subseteq Info BY <1>1, <1>4 DEF State
<1>6. ASSUME NEW x \in infos
      PROVE  /\ x.version \in 1..Len(NDPublished[x.ident])
             /\ x.inTable \/ (x.listed /\ x.unreachable)
             /\ x.inTable => x.updated \/ netdb.files[x.ident] = x.version
  BY <1>1, <1>3, <1>4 DEF InfosOK
<1>7. \A x, y \in {z \in infos : z.inTable} : x.ident = y.ident => x = y
  BY <1>1, <1>3, <1>4 DEF InfosOK, TableOf
<1> HIDE DEF infos
<1>8. /\ e \in State /\ e.infos = infos /\ e.files = netdb.files
      /\ e.restarts = netdb.restarts /\ e.case = netdb.case
      /\ e.requests = netdb.requests /\ e.calls = netdb.calls /\ e.issued = netdb.issued
      /\ e.caller = netdb.caller
  BY <1>1, <1>5 DEF State
<1>9. Becomes(e) BY <1>2 DEF infos, n
<1> HIDE DEF e
<1>10. InfosOK(e) BY <1>1, <1>6, <1>7, <1>8 DEF InfosOK, TableOf
<1>11. RequestsOK(e) BY <1>1, <1>8 DEF RequestsOK, Good
<1> QED BY <1>8, <1>9, <1>10, <1>11, BecomesSound

LEMMA AgesSound ==
  ASSUME IInv, NEW i, RequestAges(i)
  PROVE  IInv'
<1>1. netdb \in State /\ InfosOK(netdb) /\ RequestsOK(netdb) BY DEF IInv
<1>2. PICK q \in netdb.requests :
        Becomes([netdb EXCEPT !.requests = (@ \ {q}) \cup
                   {[q EXCEPT !.age = IF @ = "fresh" THEN "waiting" ELSE "stale"]}])
  BY DEF RequestAges
<1> DEFINE a == [q EXCEPT !.age = IF @ = "fresh" THEN "waiting" ELSE "stale"]
           R == (netdb.requests \ {q}) \cup {a}
           e == [netdb EXCEPT !.requests = R]
<1>3. q \in Request /\ AskedOK(q) /\ (q.inTable \/ q.held)
  BY <1>1 DEF State, RequestsOK, Good, Fit
<1>4. /\ a \in Request /\ a.dest = q.dest /\ a.callback = q.callback
      /\ a.inTable = q.inTable /\ a.held = q.held /\ a.found = q.found
      /\ a.asked = q.asked /\ a.excluded = q.excluded
  BY <1>3 DEF Request
<1> HIDE DEF a
<1>5. Fits(a, q) BY <1>3, <1>4 DEF AskedOK, Fits
<1>6. R \in SUBSET Request /\ Good(netdb, R) BY <1>1, <1>5, ReplaceSound
<1>7. \A r \in R : r.inTable \/ r.held BY <1>1, <1>3, <1>4 DEF RequestsOK
<1> HIDE DEF R
<1>8. /\ e \in State /\ SameInfos(netdb, e) /\ e.requests = R
      /\ e.calls = netdb.calls /\ e.issued = netdb.issued /\ e.caller = netdb.caller
  BY <1>1, <1>6 DEF State, SameInfos
<1>9. Becomes(e) BY <1>2 DEF R, a
<1> HIDE DEF e
<1>10. RequestsOK(e) BY <1>6, <1>7, <1>8 DEF RequestsOK, Good
<1>11. InfosOK(e) BY <1>1, <1>8, InfosKept
<1> QED BY <1>8, <1>9, <1>10, <1>11, BecomesSound

LEMMA ManageTimerSound == ASSUME IInv, ManageRequestsTimer PROVE IInv'
<1>1. netdb \in State /\ InfosOK(netdb) /\ RequestsOK(netdb) BY DEF IInv
<1>2. PICK throughTunnels \in BOOLEAN : Becomes(ManageRequests(netdb, throughTunnels))
  BY DEF ManageRequestsTimer
<1>3. LET e == ManageRequests(netdb, throughTunnels)
      IN e \in State /\ SameInfos(netdb, e) /\ RequestsOK(e)
  BY <1>1, ManageSound
<1> QED BY <1>1, <1>2, <1>3, InfosKept, BecomesSound

LEMMA ExploreStepSound ==
  ASSUME IInv, NEW idents \in netdb.case.explored, Explore(idents)
  PROVE  IInv'
<1> DEFINE nd == ManageRequests(netdb, TRUE)
           closest == [k \in DOMAIN idents |-> GetClosestFloodfill(nd, idents[k], {})]
           asked == {k \in DOMAIN idents :
                       /\ \A j \in 1..k : RequestFor(nd, idents[j]) = {}
                       /\ closest[k] # {}
                       /\ \A j \in 1..(k - 1) : closest[j] # closest[k]}
           e == [nd EXCEPT !.requests = @ \cup
                   {Ask(NewRequest(idents[k], TRUE, Unasked, FALSE), closest[k]) : k \in asked}]
<1>1. netdb \in State /\ InfosOK(netdb) /\ RequestsOK(netdb) BY DEF IInv
<1>2. idents \in Seq(NDRandom)
  <2>1. netdb.case \in NDCases BY <1>1 DEF State
  <2> QED BY <2>1, NetDbAssumption
<1>3. nd \in State /\ SameInfos(netdb, nd) /\ RequestsOK(nd) BY <1>1, ManageSound
<1>4. Becomes(e) BY DEF Explore
<1> HIDE DEF nd
<1>5. e \in State /\ SameInfos(nd, e) /\ RequestsOK(e) BY <1>2, <1>3, ExploreSound
<1> HIDE DEF e
<1>6. InfosOK(e) BY <1>1, <1>3, <1>5, InfosKept
<1> QED BY <1>4, <1>5, <1>6, BecomesSound

LEMMA SaveSound == ASSUME IInv, SaveTimer PROVE IInv'
<1>1. netdb \in State /\ InfosOK(netdb) /\ RequestsOK(netdb) BY DEF IInv
<1>2. PICK expired : Becomes(SaveUpdated(netdb, expired)) BY DEF SaveTimer
<1>3. LET e == SaveUpdated(netdb, expired) IN e \in State /\ InfosOK(e) /\ RequestsOK(e)
  BY <1>1, SaveUpdatedSound
<1> QED BY <1>2, <1>3, BecomesSound

LEMMA StopSound == ASSUME IInv, StopNetDb PROVE IInv'
<1> DEFINE f == [q \in netdb.requests |-> [q EXCEPT !.inTable = FALSE]]
           R == {f[q] : q \in netdb.requests}
           d == Settle(netdb, R)
           e == [d EXCEPT !.infos = {}, !.running = FALSE]
<1>1. netdb \in State /\ InfosOK(netdb) /\ RequestsOK(netdb) BY DEF IInv
<1>2. Becomes(e)
  <2>1. R = {[q EXCEPT !.inTable = FALSE] : q \in netdb.requests} OBVIOUS
  <2> QED BY <2>1 DEF StopNetDb
<1>3. ASSUME NEW q \in netdb.requests PROVE Fits(f[q], q)
  <2>1. q \in Request /\ AskedOK(q) BY <1>1 DEF State, RequestsOK, Good, Fit
  <2>2. f[q] = [q EXCEPT !.inTable = FALSE] OBVIOUS
  <2> HIDE DEF f
  <2>3. /\ f[q] \in Request /\ f[q].dest = q.dest /\ f[q].callback = q.callback
        /\ f[q].found = q.found /\ ~f[q].inTable /\ f[q].held = q.held
        /\ f[q].asked = q.asked /\ f[q].excluded = q.excluded
    BY <2>1, <2>2 DEF Request
  <2> QED BY <2>1, <2>3 DEF AskedOK, Fits
<1>4. f \in [netdb.requests -> Request]
  <2>1. f = [q \in netdb.requests |-> f[q]] OBVIOUS
  <2> HIDE DEF f
  <2>2. \A q \in netdb.requests : f[q] \in Request BY <1>3 DEF Fits
  <2> QED BY <2>1, <2>2
<1> HIDE DEF f
<1>5. Good(netdb, netdb.requests) BY <1>1 DEF RequestsOK
<1>6. R \in SUBSET Request /\ Good(netdb, R) BY <1>1, <1>3, <1>4, <1>5, MapFits
<1> HIDE DEF R
<1>7. d \in State /\ SameInfos(netdb, d) /\ RequestsOK(d) BY <1>1, <1>6, SettleSound
<1> HIDE DEF d
<1>8. /\ e \in State /\ e.infos = {} /\ e.files = netdb.files /\ e.restarts = netdb.restarts
      /\ e.case = netdb.case /\ e.requests = d.requests /\ e.calls = d.calls
      /\ e.issued = d.issued /\ e.caller = d.caller
  BY <1>7 DEF State, SameInfos
<1> HIDE DEF e
<1>9. InfosOK(e) BY <1>1, <1>8 DEF InfosOK, TableOf
<1>10. RequestsOK(e) BY <1>7, <1>8 DEF RequestsOK, Good
<1> QED BY <1>2, <1>8, <1>9, <1>10, BecomesSound

\* A start, and what a crash leaves for it, load what the files hold.
LEMMA LoadSound ==
  ASSUME IInv, NEW old \in SUBSET NDRouters
  PROVE  LET e == Loaded(netdb, old)
         IN /\ e \in State /\ RequestsOK(e) /\ e.restarts = netdb.restarts + 1
            /\ e.case = netdb.case
            /\ (netdb.restarts + 1 <= netdb.case.restarts => InfosOK(e))
            /\ \A r \in NDRouters : e.files[r] \in 0..Len(NDPublished[r])
<1>1. /\ netdb.case \in NDCases /\ netdb.files \in [NDRouters -> Nat] /\ netdb.restarts \in Nat
      /\ \A r \in NDRouters : netdb.files[r] \in 0..Len(NDPublished[r])
  BY DEF IInv, State, InfosOK
<1> QED BY <1>1, LoadedSound

LEMMA EndSound == ASSUME IInv, EndProcess PROVE IInv'
<1> DEFINE l == Loaded(netdb, {})
           e == [l EXCEPT !.infos = {}, !.running = FALSE, !.restarts = netdb.restarts]
<1>1. netdb \in State /\ InfosOK(netdb) BY DEF IInv
<1>2. Becomes(e) BY DEF EndProcess
<1>3. {} \in SUBSET NDRouters OBVIOUS
<1>4. /\ l \in State /\ RequestsOK(l) /\ l.case = netdb.case
      /\ \A r \in NDRouters : l.files[r] \in 0..Len(NDPublished[r])
  BY <1>3, LoadSound
<1> HIDE DEF l
<1>5. /\ e \in State /\ e.infos = {} /\ e.files = l.files /\ e.restarts = netdb.restarts
      /\ e.case = netdb.case /\ e.requests = l.requests /\ e.calls = l.calls
      /\ e.issued = l.issued /\ e.caller = l.caller
  BY <1>1, <1>4 DEF State
<1> HIDE DEF e
<1>6. InfosOK(e) BY <1>1, <1>4, <1>5 DEF InfosOK, TableOf
<1>7. RequestsOK(e) BY <1>4, <1>5 DEF RequestsOK, Good
<1> QED BY <1>2, <1>5, <1>6, <1>7, BecomesSound

LEMMA StartSound == ASSUME IInv, Start PROVE IInv'
<1>1. PICK old \in SUBSET NDIntroduced : Becomes(Loaded(netdb, old)) BY DEF Start
<1>2. old \in SUBSET NDRouters BY NetDbAssumption
<1>3. netdb.restarts + 1 <= netdb.case.restarts
  <2>1. netdb.restarts \in 0..netdb.case.restarts /\ netdb.restarts < netdb.case.restarts
        /\ netdb.case \in NDCases
    BY DEF Start, IInv, InfosOK, State
  <2>2. netdb.case.restarts \in Nat BY <2>1, NetDbAssumption
  <2> QED BY <2>1, <2>2
<1>4. LET e == Loaded(netdb, old) IN e \in State /\ RequestsOK(e) /\ InfosOK(e)
  BY <1>2, <1>3, LoadSound
<1> QED BY <1>1, <1>4, BecomesSound
-----------------------------------------------------------------------------
(***************************************************************************)
(* The theorems.                                                           *)
(***************************************************************************)
NetDbSpec == NetDbInit /\ [][NetDbNext]_netDbVars

LEMMA NextSound == IInv /\ [NetDbNext]_netDbVars => IInv'
<1> SUFFICES ASSUME IInv, [NetDbNext]_netDbVars PROVE IInv'
  OBVIOUS
<1>1. CASE UNCHANGED netDbVars
  BY <1>1 DEF netDbVars, IInv, InfosOK, RequestsOK, Good, Named, TableOf, FindRouter
<1>2. ASSUME NEW m \in netdb.case.stores, HandleDatabaseStoreMsg(m[1], m[2]) PROVE IInv'
  BY <1>2, StoreSound
<1>3. ASSUME NEW m \in netdb.case.lookups, HandleDatabaseLookupMsg(m[1], m[2], m[3])
      PROVE  IInv'
  BY <1>3, LookupSound
<1>4. ASSUME NEW m \in netdb.case.replies, NEW throughTunnels \in BOOLEAN,
             NEW outdated \in {{}, m[2]},
             HandleDatabaseSearchReplyMsg(m[1], m[2], outdated, throughTunnels)
      PROVE  IInv'
  BY <1>4, ReplySound
<1>5. ASSUME NEW c \in NDRequesters, BeginRequest(c) PROVE IInv' BY <1>5, BeginSound
<1>6. CASE SendRequest BY <1>6, SendSound
<1>7. ASSUME NEW r, ReportUnreachable(r) PROVE IInv' BY <1>7, ReportSound
<1>8. ASSUME NEW i, RequestAges(i) PROVE IInv' BY <1>8, AgesSound
<1>9. CASE ManageRequestsTimer BY <1>9, ManageTimerSound
<1>10. ASSUME NEW idents \in netdb.case.explored, Explore(idents) PROVE IInv'
  BY <1>10, ExploreStepSound
<1>11. CASE SaveTimer BY <1>11, SaveSound
<1>12. CASE StopNetDb BY <1>12, StopSound
<1>13. CASE Crash \/ EraseTwice BY <1>13, EndSound DEF Crash, EraseTwice
<1>14. CASE Start BY <1>14, StartSound
<1>15. CASE ChooseFloodfill BY <1>15, ChooseSound
<1>16. CASE FailRequest BY <1>16, FailSound
<1>17. CASE EraseRequest BY <1>17, EraseSound
<1> QED BY <1>1, <1>2, <1>3, <1>4, <1>5, <1>6, <1>7, <1>8, <1>9, <1>10, <1>11, <1>12, <1>13, <1>14,
       <1>15, <1>16, <1>17
        DEF NetDbNext

\* Objects and files fit, the network thread asks a floodfill once for a request,
\* and the callback of each caller is in one place, in two while the transports'
\* thread calls it (NetDb, NetDbRequests).
THEOREM Invariance == NetDbSpec => []IInv
BY InitSound, NextSound, PTL DEF NetDbSpec

LEMMA FitAsked ==
  ASSUME IInv, NEW i
  PROVE  Cardinality(RequestFor(netdb, i)) <= 1
<1>1. \A q, r \in RequestFor(netdb, i) : q = r BY DEF IInv, RequestsOK, Good, Fit, RequestFor
<1>2. CASE RequestFor(netdb, i) = {} BY <1>2, FS_EmptySet
<1>3. CASE RequestFor(netdb, i) # {}
  <2>1. PICK q : q \in RequestFor(netdb, i) BY <1>3
  <2>2. RequestFor(netdb, i) = {q} BY <1>1, <2>1
  <2>3. Cardinality({q}) = 1 BY FS_Singleton
  <2> QED BY <2>2, <2>3
<1> QED BY <1>2, <1>3

LEMMA InvIsSafe == IInv => NetDbSafe
<1> SUFFICES ASSUME IInv PROVE NetDbSafe
  OBVIOUS
<1>1. netdb \in State /\ InfosOK(netdb) /\ RequestsOK(netdb) /\ Named(netdb) BY DEF IInv
<1>2. NetDbTypeOK
  <2>1. ASSUME NEW o \in netdb.infos
        PROVE  /\ o.ident \in NDRouters
               /\ o.version \in 1..Len(NDPublished[o.ident])
               /\ {o.updated, o.unreachable, o.inTable, o.listed} \subseteq BOOLEAN
               /\ o.inTable \/ o.listed
    BY <1>1 DEF State, Info, InfosOK
  <2>2. ASSUME NEW q \in netdb.requests
        PROVE  /\ q.dest \in NDIdents
               /\ q.excluded \subseteq NDRouters
               /\ q.age \in {"unsent", "fresh", "waiting", "stale"}
               /\ q.callback \in NDRequesters \cup {Unasked}
               /\ q.inTable \/ q.held
    BY <1>1 DEF State, Request, RequestsOK
  <2> QED BY <2>1, <2>2, <1>1 DEF NetDbTypeOK, InfosOK, State
<1>3. AskedOnce
  <2>1. ASSUME NEW q \in netdb.requests
        PROVE  /\ Len(q.asked) <= NDMaxAsked
               /\ \A i, j \in DOMAIN q.asked : q.asked[i] = q.asked[j] => i = j
               /\ Cardinality(q.excluded) <= Len(q.asked) + 1
    <3>1. AskedOK(q) /\ q \in Request BY <1>1 DEF RequestsOK, Good, Fit, State
    <3>2. Len(q.asked) \in Nat BY <3>1 DEF Request
    <3> QED BY <3>1, <3>2 DEF AskedOK
  <2>2. \A i \in NDIdents : Cardinality(RequestFor(netdb, i)) <= 1 BY FitAsked
  <2> QED BY <2>1, <2>2 DEF AskedOnce
<1>4. NamedIsKnown BY <1>1 DEF Named, NamedIsKnown
<1>5. FilesFollowTable BY <1>1 DEF FilesFollowTable, InfosOK, TableOf
<1> QED BY <1>2, <1>3, <1>4, <1>5 DEF NetDbSafe

\* The network thread asks no floodfill twice for a request, a destination has one
\* request, replies name routers of the table, and the files are what the table was
\* when it was saved, wherever the transports' thread comes between and whatever
\* stops, crashes and starts there are (NetDb::SaveUpdated, Load).
THEOREM NetDbIsSafe == NetDbSpec => []NetDbSafe
BY Invariance, InvIsSafe, PTL

LEMMA InvIsCalledOnce == IInv => CalledBackOnce
<1> SUFFICES ASSUME IInv PROVE CalledBackOnce
  OBVIOUS
<1>1. ASSUME NEW c \in NDRequesters
      PROVE  LET told == netdb.calls[c] + Cardinality({q \in netdb.requests : q.callback = c})
                 failing == netdb.caller.at = "called" /\ netdb.caller.who = c
             IN IF c \in netdb.issued THEN told \in 1..(IF failing THEN 2 ELSE 1) ELSE told = 0
  <2> DEFINE told == netdb.calls[c] + Cardinality({q \in netdb.requests : q.callback = c})
             failing == netdb.caller.at = "called" /\ netdb.caller.who = c
  <2>1. CallerOK(netdb.calls, netdb.requests, netdb.issued, Failing(netdb.caller), c)
    BY DEF IInv, RequestsOK, Good, CallersOK
  <2>2. told = Told(netdb.calls, netdb.requests, c) BY <2>1, CountOne DEF CallerOK, Told
  <2>3. c = Failing(netdb.caller) => failing BY NetDbAssumption DEF Failing
  <2> HIDE DEF told, failing
  <2>4. IF c \in netdb.issued THEN told = 1 \/ (failing /\ told = 2) ELSE told = 0
    BY <2>1, <2>2, <2>3 DEF CallerOK
  <2>5. IF c \in netdb.issued THEN told \in 1..(IF failing THEN 2 ELSE 1) ELSE told = 0
    BY <2>4
  <2> QED BY <2>5 DEF told, failing
<1> QED BY <1>1 DEF CalledBackOnce

\* Whoever passes a callback to RequestDestination is called back or still
\* waiting, and called once; twice only while two threads complete its request
\* at the same time (NetDbRequests::RequestComplete).
THEOREM CallersAreCalledOnce == NetDbSpec => []CalledBackOnce
BY Invariance, InvIsCalledOnce, PTL
=============================================================================
