------------------------------ MODULE MCRouter ------------------------------
(***************************************************************************)
(* Small instances of the router's own tables for TLC: its tunnels and     *)
(* pools, the network database and the router context.  A behaviour picks  *)
(* one of them, the focus; the others rest in an initial state.            *)
(***************************************************************************)
EXTENDS Tunnels, NetDb, RouterContext, TLC

VARIABLE focus

\* NetDb: the versions each router publishes (TRUE: a floodfill), and what
\* arrives of them.
Published == 1 :> <<TRUE, FALSE>> @@ 2 :> <<TRUE>> @@ 3 :> <<FALSE, TRUE>>
Metric ==
  [p \in (NDRouters \cup NDRandom) \X NDRouters |-> IF p[1] = p[2] THEN 0 ELSE p[2]]
Network(seeded, stores, lookups, replies, reported, explored, wanted, restarts) ==
  [seeded |-> seeded, stores |-> stores, lookups |-> lookups, replies |-> replies,
   reported |-> reported, explored |-> explored, wanted |-> wanted, restarts |-> restarts]
NoRequester == [c \in {} |-> 0]
Networks ==
  {Network({1, 2}, {<<3, 1>>}, {}, {<<3, {}>>, <<3, {1}>>}, {}, {}, "s" :> 3 @@ "t" :> 3, 1),
   Network({1, 2}, {<<3, 1>>}, {}, {<<1, {3}>>}, {2}, {}, "s" :> 3, 0),
   Network({1, 3}, {<<1, 1>>, <<1, 2>>, <<3, 2>>}, {<<2, {3}, FALSE>>, <<2, {}, TRUE>>}, {},
           {1, 3}, {}, NoRequester, 1),
   Network({2}, {<<2, 1>>, <<3, 1>>}, {}, {<<9, {3}>>}, {2}, {}, "s" :> 3, 0),
   Network({1, 2}, {<<3, 1>>}, {}, {<<9, {3}>>}, {1}, {<<9>>, <<9, 8>>}, NoRequester, 0)}

\* RouterContext: a floodfill with high bandwidth, and a plain router with IPv6.
Configs == {[floodfill |-> f, high |-> f, v6 |-> ~f] : f \in BOOLEAN}

RouterInit ==
  /\ focus \in {"Tunnels", "NetDb", "RouterContext"}
  /\ Init
  /\ \E k \in NDCases : NetDbInitWith(k) /\ (focus = "NetDb" \/ k = CHOOSE x \in NDCases : TRUE)
  /\ RouterContextInit

RouterNext ==
  /\ UNCHANGED focus
  /\ \/ focus = "Tunnels" /\ Next /\ UNCHANGED <<netDbVars, contextVars>>
     \/ focus = "NetDb" /\ NetDbNext /\ UNCHANGED <<vars, contextVars>>
     \/ focus = "RouterContext" /\ RouterContextNext /\ UNCHANGED <<vars, netDbVars>>

routerVars == <<focus, vars, netDbVars, contextVars>>
RouterSpec == RouterInit /\ [][RouterNext]_routerVars
=============================================================================
