---------------------------- MODULE ScreenBasics ----------------------------
(***************************************************************************)
(* The vocabulary of the web client's screens.  A component is told by who *)
(* sees it, the queries it keeps mounted, the components it holds, the     *)
(* panels it can open over itself and the calls it offers.                 *)
(***************************************************************************)
EXTENDS ServerRoutes, Naturals, Sequences

\* A query of the cache: its key, who is answered, what of the answer is shown, whether it is asked again by a timer.
Query(key, shows) == [key |-> key, roles |-> Roles, shows |-> shows, polled |-> FALSE]
For(roles, query) == [query EXCEPT !.roles = roles]
Polled(query) == [query EXCEPT !.polled = TRUE]

\* A call of a screen: the roles it is offered to, by which gate, and the keys it makes the cache ask again.
OfferTo(roles, gate, route, keys) ==
    [route |-> route, offered |-> roles \cup {"admin"}, gate |-> gate, refreshes |-> keys]
ByRoles(roles, route, keys) == OfferTo(roles, "roles", route, keys)
ByRights(roles, route, keys) == OfferTo(roles, "rights", route, keys)
ToAll(route, keys) == OfferTo(Roles, "none", route, keys)

Component == [for |-> Roles, reads |-> {}, holds |-> {}, tabs |-> {}, opens |-> {}, offers |-> {}]
Tabbed(names) == [Component EXCEPT !.tabs = names]

\* A key is refreshed by every prefix of it.
Refreshed(key, keys) == \E k \in keys : Len(k) <= Len(key) /\ SubSeq(key, 1, Len(k)) = k
(***************************************************************************)
(* Queries that several areas share, with what each shows of its answer.   *)
(***************************************************************************)
useArticles == Query(<<"articles">>, {"article", "article.new", "article.cost", "price", "bom"})
useBom == Query(<<"bom">>, {"bom"})
useCosting == Query(<<"routing-costing">>, {"norm", "bom", "price", "article.cost"})
useUsage == Query(<<"routing-usage">>, {"order.status"})
useMaterialMovements == Query(<<"material-movements">>, {"stock"})
useOrders == Query(<<"orders", "list">>, {"order.status", "order.paid", "line.shipped"})
OrderSites == Query(<<"order-sites">>, {"line.site", "order.status", "line.shipped"})
PurchasesDigest == For(Reads.Purchases, Query(<<"purchases-dashboard">>, {"receipt"}))
AllContractorWork == For(Reads.ContractorWorkAll, Query(<<"contractor-work-all">>, {"work"}))
=============================================================================
