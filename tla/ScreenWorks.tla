----------------------------- MODULE ScreenWorks -----------------------------
(***************************************************************************)
(* Production and sales: the shop floor with the sheet of one line, the    *)
(* plan by weeks, contractors, the sites of customers, the pipeline of     *)
(* deals and the first page of each role.                                  *)
(***************************************************************************)
EXTENDS ScreenBasics

(***************************************************************************)
(* The shop floor: orders with their lines and stages, asked again every   *)
(* minute; the sheet gives a stage to the shop or to a contractor.         *)
(***************************************************************************)
ShopFloorKey == <<"shop-floor">>
ShopFloor == [Component EXCEPT
    !.reads = {Polled(Query(ShopFloorKey, {"stage", "work", "order.status", "request", "bom", "norm"}))},
    !.offers = {ByRoles({"shop_foreman", "planner"}, "UpdateStage", {ShopFloorKey})},
    !.holds = {"OrderRowView"},
    !.opens = {"OrderDetail", "CustomerPanel"}]
OrderRowView == [Component EXCEPT !.holds = {"ProductRowView"}]
ProductRowView == [Component EXCEPT !.opens = {"ArticlePanel", "SitePanel", "DetailsSheet"}]

\* A product without a composition or norms cannot be marked; an order is in several groups at once.
isBlocked(product) == product.missingBom \/ product.missingNorms
isFullyDone(products) == products # {} /\ \A p \in products : p.done
hasWork(products) == \E p \in products : ~p.done /\ ~isBlocked(p)
GroupsOf(products, overdue) ==
    IF isFullyDone(products) THEN {"done"}
    ELSE {g \in {"todo", "overdue", "blocked"} :
              CASE g = "todo" -> hasWork(products)
                [] g = "overdue" -> overdue
                [] OTHER -> \E p \in products : isBlocked(p)}

\* The sheet shares the work: by a request of contractors, or directly and then the stage is passed on.
DetailsSheet == [Component EXCEPT
    !.for = {"shop_foreman", "planner", "admin"},
    !.reads = {Query(<<"contractors">>, {"contractor"})},
    !.offers = {ByRoles({"shop_foreman", "planner"}, c, {ShopFloorKey}) : c \in {"Allocate", "AssignContractor", "UpdateStage"}},
    !.holds = {"MaterialAvailability", "OffcutHint"}]
MaterialAvailability == [Component EXCEPT
    !.reads = {Query(<<"order-availability">>, {"stock"})},
    !.offers = {ToAll("PurchaseFromOrder", {<<"purchase-requests">>})}]
OffcutHint == [Component EXCEPT
    !.reads = {Query(<<"offcuts-for-order">>, {"offcut"})},
    !.offers = {ToAll("UseOffcuts", {<<"offcuts-for-order">>, <<"offcuts">>})}]

(***************************************************************************)
(* The plan: what to make by weeks.                                        *)
(***************************************************************************)
PlanMatrix == [Component EXCEPT
    !.reads = {Query(<<"plan-matrix">>, {"plan", "fg", "article"}), useArticles},
    !.offers = {ByRoles({"planner"}, "SetPlanCell", {<<"plan-matrix">>})}]
WeeklyPlan == [Component EXCEPT
    !.reads = {Query(<<"production-weekly">>, {"order.status", "act"})}]
ProductionPlan == Tabbed({"PlanMatrix", "WeeklyPlan"})

(***************************************************************************)
(* Contractors: their requests and the work they were given.               *)
(***************************************************************************)
RequestKeys == {<<"contractor-requests">>, <<"contractor-request">>, <<"contractor-work-all">>}
Requests == For(Reads.Requests, Query(<<"contractor-requests">>, {"request", "work"}))
OneRequest == For(Reads.Requests, Query(<<"contractor-request">>, {"work"}))
Contractors == Query(<<"contractors">>, {"contractor"})
useDescriptions == For(Reads.Requests, Query(<<"contractor-request-descriptions">>, {"request.description"}))

RequestsTab == [Component EXCEPT
    !.reads = {Polled(Requests)},
    !.offers = {ByRoles(RequestWriters \ {"admin"}, "SendToBitrix", {<<"contractor-requests">>}),
                ByRoles({"planner", "procurement"}, "CancelRequest", {<<"contractor-requests">>})},
    !.opens = {"RequestFormModal", "AllocateModal", "AcceptModal", "AllocationsPanel"}]
RequestFormModal == [Component EXCEPT
    !.for = RequestWriters, !.reads = {Contractors, useDescriptions},
    !.offers = {ByRoles(RequestWriters \ {"admin"}, c, RequestKeys \cup {useDescriptions.key}) : c \in {"CreateRequest", "UpdateRequest"}},
    !.holds = {"ContractorModal"}]
ContractorModal == [Component EXCEPT
    !.for = RequestWriters, !.offers = {ToAll("CreateContractor", {<<"contractors">>})}]
AllocateModal == [Component EXCEPT
    !.for = Foremen, !.offers = {ByRoles({"shop_foreman", "planner"}, "Allocate", RequestKeys)}]
AcceptModal == [Component EXCEPT
    !.for = {"procurement", "accountant", "planner", "admin"}, !.reads = {OneRequest},
    !.offers = {ByRoles({"procurement", "accountant", "planner"}, "AcceptRequest", RequestKeys)}]
AllocationsPanel == [Component EXCEPT
    !.reads = {OneRequest},
    !.offers = {ByRoles({"shop_foreman", "planner"}, "RemoveAllocation", RequestKeys)},
    !.opens = {"OrderDetail"}]
AllocatedTab == [Component EXCEPT
    !.reads = {Polled(AllContractorWork)},
    !.offers = {ByRoles({"shop_foreman", "planner"}, "AcceptWork",
                        {<<"contractor-work-all">>, <<"contractor-work">>, <<"contractor-requests">>})},
    !.opens = {"OrderDetail", "ContractorPanel"}]
ContractorWork == Tabbed({"RequestsTab", "AllocatedTab"})

(***************************************************************************)
(* Sites of customers, the pipeline and the first page.                    *)
(***************************************************************************)
Sites == [Component EXCEPT !.reads = {Polled(OrderSites)}, !.holds = {"SiteCard"}]
SiteCard == [Component EXCEPT !.opens = {"SitePanel"}]

PipelineKey == <<"deals", "pipeline">>
Pipeline == [Component EXCEPT
    !.reads = {For(Reads.Deals, Query(PipelineKey, {"deal"}))},
    !.offers = {ToAll(c, {PipelineKey}) : c \in {"CreateDeal", "UpdateDeal", "RemoveDeal"}}]

UnallocatedContractorAlert == [Component EXCEPT
    !.reads = {Polled(For(Reads.Requests, Query(<<"contractor-requests", "unallocated">>, {"request", "work"})))}]
TaskHub == [Component EXCEPT !.holds = {"UnallocatedContractorAlert"}]

\* The first page: the first branch that fits; a shared account has so many roles that it gets the list of tasks.
MyWorkOf(who) ==
    IF hasRole(who, {"director"}) THEN {"DirectorDashboard"}
    ELSE IF \E x, y, z \in who : x # y /\ y # z /\ x # z THEN {"TaskHub"}
    ELSE IF hasRole(who, {"shop_foreman"}) THEN {"ShopFloor"}
    ELSE IF hasRole(who, {"planner", "sales_manager", "admin"}) THEN {"OrdersInbox", "ContractorWork"}
    ELSE {"RoleWidgets"}
=============================================================================
