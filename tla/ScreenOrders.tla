---------------------------- MODULE ScreenOrders ----------------------------
(***************************************************************************)
(* Orders: the registry, the inbox, the dashboard and the card of an order *)
(* with its stages, contractors, money, acts and costing.                  *)
(***************************************************************************)
EXTENDS ScreenBasics

\* Queries and calls of hooks/useOrders.ts and hooks/useSavedViews.ts.
OrderKeys == {<<"orders">>, <<"order">>}
useOrder == Query(<<"order">>, {"order.status", "order.accepted", "order.paid", "line.site", "line.shipped", "stage"})
useTransitionOrderStatus(roles) == ByRoles(roles, "TransitionStatus", OrderKeys)
useSavedViews == Query(<<"saved-views">>, {"view"})
useCreateSavedView == ToAll("SaveView", {<<"saved-views">>})
useDeleteSavedView == ToAll("DeleteView", {<<"saved-views">>})

(***************************************************************************)
(* The registry: presets of columns by what the role may read, counters of *)
(* the slices, saved views; the card of the chosen order opens beside it.  *)
(***************************************************************************)
PRESETS == [core |-> {}, commercial |-> Readers("order", "commercial"),
            production |-> Readers("order", "production"), logistics |-> Readers("order", "logistics")]
PresetsFor(role) == {p \in DOMAIN PRESETS : PRESETS[p] = {} \/ role \in PRESETS[p]}
useSliceCounts == Query(<<"orders", "slices">>, {"order.status"})
RegistryToolbar == [Component EXCEPT
    !.reads = {useSavedViews}, !.offers = {useCreateSavedView, useDeleteSavedView}]
RegistryTable == [Component EXCEPT !.opens = {"OrderDetail", "CustomerPanel"}]
OrdersRegistry == [Component EXCEPT
    !.reads = {useOrders, useSliceCounts}, !.holds = {"RegistryToolbar", "RegistryTable"}]

OrdersInbox == [Component EXCEPT
    !.reads = {Polled(For(Reads.Inbox, Query(<<"orders", "inbox">>, {"order.status", "order.accepted", "bom"})))},
    !.offers = {OfferTo(Reads.Inbox, "shown", "AcceptOrder", {<<"orders">>})},
    !.holds = {"InboxRow"}]
InboxRow == [Component EXCEPT !.opens = {"OrderDetail"}]

OrdersDashboard == [Component EXCEPT
    !.reads = {Polled(For(Reads.OrdersDashboard, Query(<<"orders-dashboard">>, {"order.status", "order.paid", "costing"})))},
    !.opens = {"OrderDetail"}]
OrdersList == Tabbed({"OrdersRegistry", "OrdersDashboard"})

(***************************************************************************)
(* The card of an order.                                                   *)
(***************************************************************************)
\* Whoever writes the core of an order or reads its production is offered the field.
SiteCell == [Component EXCEPT
    !.offers = {ByRights(Writers("order", "core") \cup Readers("order", "production"), "SetLineSite", {<<"order">>})}]
OrderHeader == [Component EXCEPT !.reads = {useOrder}]
OrderLines == [Component EXCEPT !.holds = {"SiteCell"}]

\* Of several stages written for one line the finished one counts.
StageStatus(stages) == IF "DONE" \in stages THEN "DONE" ELSE CHOOSE s \in stages : TRUE
StagesSection == [Component EXCEPT !.for = Readers("order", "production")]

ContractorSection == [Component EXCEPT
    !.for = Readers("order", "production"),
    !.reads = {Query(<<"contractor-work">>, {"work"}),
               For(Reads.Requests, Query(<<"contractor-requests", "open">>, {"request", "work"}))},
    !.offers = {ToAll("Allocate", {<<"contractor-work">>, <<"contractor-requests">>})}]

MoneyKeys == {<<"customer-payments">>, <<"order">>, <<"orders">>}
OrderMoney == [Component EXCEPT
    !.for = Readers("order", "commercial"),
    !.holds = {"BalanceExplain", "CustomerPaymentsBlock", "AcceptanceActsBlock"}]
BalanceExplain == [Component EXCEPT !.for = Readers("order", "commercial")]
CustomerPaymentsBlock == [Component EXCEPT
    !.reads = {Query(<<"customer-payments">>, {"payment"})},
    !.offers = {ByRoles({"accountant", "sales_manager"}, "CreatePayment", MoneyKeys),
                ByRoles({"accountant"}, "RemovePayment", MoneyKeys)}]

\* An act refreshes the acts and the card, not the lists of orders.
ActKeys_ActsOnly == {<<"acceptance-acts">>}
ActKeys == {<<"acceptance-acts">>, <<"order">>}
AcceptanceActsBlock == [Component EXCEPT
    !.reads = {Query(<<"acceptance-acts">>, {"act"})},
    !.offers = {ByRoles({"accountant", "sales_manager", "warehouse_fg"}, "CreateAct", ActKeys)}]

CostingKeys == {<<"costings">>, <<"costing">>}
OrderCostingPanel == [Component EXCEPT
    !.for = Readers("order", "cost"),
    !.reads = {Query(<<"costings">>, {"costing"}), Query(<<"costing">>, {"costing"}),
               Query(<<"contractor-work">>, {"work"})},
    !.offers = {ToAll("BuildCosting", CostingKeys)}]

\* The buttons: every manual transition is drawn, the allowed ones can be pressed.
OrderActions == [Component EXCEPT
    !.offers = {useTransitionOrderStatus({r \in Roles : getAllowedTransitions(s, {r}) \ DERIVED_STATUSES # {}})
                : s \in DOMAIN STATE_TRANSITIONS},
    !.opens = {"RequestNomenclatureModal"}]
OrderDetail == [Component EXCEPT
    !.holds = {"OrderHeader", "OrderLines", "StagesSection", "ContractorSection", "OrderMoney",
               "OrderCostingPanel", "OrderActions"}]
=============================================================================
