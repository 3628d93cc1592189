------------------------------ MODULE WebClient ------------------------------
(***************************************************************************)
(* The web client with one query of its cache under watch.  A person with  *)
(* some roles is on a page, opens tabs, drawers and modals over it and     *)
(* presses the buttons that touch what the query shows; others change the  *)
(* same facts elsewhere.  The cache asks the server when a screen with the *)
(* query is mounted, when a call refreshes its key, when an event of the   *)
(* stream does, and by a timer.                                            *)
(***************************************************************************)
EXTENDS ScreenOrders, ScreenWarehouse, ScreenCatalog, ScreenWorks, ScreenMoney

CONSTANTS Accounts,     \* the sets of roles people sign in with
          Gaps,         \* pairs of a call and a key it is known not to refresh
          Starts,       \* where each account starts: a page, and a key that something on it shows
          MaxCalls,     \* bound on the buttons pressed
          MaxElsewhere  \* bound on the changes made elsewhere

VARIABLES account,   \* the roles of the person
          page,      \* the page of the router
          tab,       \* the tab chosen on it
          drawer,    \* what the address keeps open: an order, a thing, a receipt; and one modal
          mounted,   \* the components on the screen
          watched,   \* the key of the query under watch
          data,      \* what the cache holds: "none", "current" or "behind" the server, or "demo" figures
          stale,     \* whether it must be asked again at the next mount
          fetch,     \* the request under way: "idle", "asked", or the answer "current", "behind", "demo", "failed"
          call,      \* the call under way
          debt,      \* the changes this client was told of that the mounted query does not show yet
          untold,    \* a cost shown here was recalculated elsewhere and this client was not told yet
          calls, elsewhere

place == <<account, page, tab, drawer, mounted, watched>>
cache == <<data, stale, fetch>>
vars == <<place, cache, call, debt, untold, calls, elsewhere>>

\* The components by name.
Screens == [
    OrdersList |-> OrdersList, OrdersRegistry |-> OrdersRegistry, RegistryToolbar |-> RegistryToolbar,
    RegistryTable |-> RegistryTable, OrdersInbox |-> OrdersInbox, InboxRow |-> InboxRow,
    OrdersDashboard |-> OrdersDashboard, OrderDetail |-> OrderDetail, OrderHeader |-> OrderHeader,
    OrderLines |-> OrderLines, SiteCell |-> SiteCell, StagesSection |-> StagesSection,
    ContractorSection |-> ContractorSection, OrderMoney |-> OrderMoney, BalanceExplain |-> BalanceExplain,
    CustomerPaymentsBlock |-> CustomerPaymentsBlock, AcceptanceActsBlock |-> AcceptanceActsBlock,
    OrderCostingPanel |-> OrderCostingPanel, OrderActions |-> OrderActions, Warehouse |-> Warehouse,
    WarehouseDigest |-> WarehouseDigest, MaterialsStock |-> MaterialsStock, MovementHistory |-> MovementHistory,
    IssueModal |-> IssueModal, ReceiptDetail |-> ReceiptDetail, FinishedGoodsStock |-> FinishedGoodsStock,
    MovementModal |-> MovementModal, BatchesReserves |-> BatchesReserves, MinStock |-> MinStock,
    Offcuts |-> Offcuts, Purchases |-> Purchases, PurchasesDashboard |-> PurchasesDashboard,
    PurchaseQueue |-> PurchaseQueue, PurchasesRegistry |-> PurchasesRegistry, Specifications |-> Specifications,
    BomPanel |-> BomPanel, BomRow |-> BomRow, StageTable |-> StageTable, StageRow |-> StageRow,
    ImpactPreviewModal |-> ImpactPreviewModal, CostingPanel |-> CostingPanel, UsagePanel |-> UsagePanel,
    HistoryModal |-> HistoryModal, RequestsButton |-> RequestsButton,
    RequestNomenclatureModal |-> RequestNomenclatureModal,
    NomenclatureRequestsModal |-> NomenclatureRequestsModal, Prices |-> Prices, PriceDigest |-> PriceDigest,
    PriceList |-> PriceList, PriceReviewsPanel |-> PriceReviewsPanel, ReviewRow |-> ReviewRow, Nkt |-> Nkt,
    NktRegistry |-> NktRegistry, NktPassportCard |-> NktPassportCard, DictField |-> DictField,
    NktCategories |-> NktCategories, ShopFloor |-> ShopFloor, OrderRowView |-> OrderRowView,
    ProductRowView |-> ProductRowView, DetailsSheet |-> DetailsSheet,
    MaterialAvailability |-> MaterialAvailability, OffcutHint |-> OffcutHint, ProductionPlan |-> ProductionPlan,
    PlanMatrix |-> PlanMatrix, WeeklyPlan |-> WeeklyPlan, ContractorWork |-> ContractorWork,
    RequestsTab |-> RequestsTab, RequestFormModal |-> RequestFormModal, ContractorModal |-> ContractorModal,
    AllocateModal |-> AllocateModal, AcceptModal |-> AcceptModal, AllocationsPanel |-> AllocationsPanel,
    AllocatedTab |-> AllocatedTab, Sites |-> Sites, SiteCard |-> SiteCard, Pipeline |-> Pipeline,
    UnallocatedContractorAlert |-> UnallocatedContractorAlert, TaskHub |-> TaskHub, Finance |-> Finance,
    OrderDebts |-> OrderDebts, Receivables |-> Receivables, Reconciliation |-> Reconciliation,
    PaymentDocuments |-> PaymentDocuments, CreditLines |-> CreditLines, DamuImport |-> DamuImport,
    DirectorDashboard |-> DirectorDashboard, RoleWidgets |-> RoleWidgets, Settings |-> Settings,
    Integration |-> Integration, CostingSettings |-> CostingSettings, UsersAdmin |-> UsersAdmin,
    GlobalSearch |-> GlobalSearch, ArticlePanel |-> ArticlePanel, MaterialPanel |-> MaterialPanel,
    CustomerPanel |-> CustomerPanel, SitePanel |-> SitePanel, SupplierPanel |-> SupplierPanel,
    ContractorPanel |-> ContractorPanel]

\* The router, and the module of the rail each page belongs to; the first page is chosen by the roles.
PagesOf(module) ==
    CASE module = "orders" -> {"OrdersList", "Sites"}
      [] module = "specs" -> {"Specifications"}
      [] module = "materials" -> {"Warehouse"}
      [] module = "purchases" -> {"Purchases"}
      [] module = "money" -> {"Finance", "Prices"}
      [] module = "settings" -> {"Settings"}
      [] module = "nkt" -> {"Nkt"}
      [] module = "production" -> {"ShopFloor", "ContractorWork"}
      [] OTHER -> {"MyWork"}
Linked(roles) == IF MyWorkOf(roles) \in {{"OrdersInbox", "ContractorWork"}, {"TaskHub"}}
                 THEN {"ProductionPlan", "Pipeline", "OrdersInbox"} ELSE {}
PagesFor(roles) ==
    Linked(roles) \cup UNION {PagesOf(m) : m \in {n \in DOMAIN MODULE_PERMISSIONS : canAccessModule(n, roles)}}
RootsOf(p, roles) == IF p = "MyWork" THEN MyWorkOf(roles) ELSE {p}

(***************************************************************************)
(* What is mounted.                                                        *)
(***************************************************************************)
Sees(c, roles) == roles \cap Screens[c].for # {}
TabsOf(roots) == UNION {Screens[c].tabs : c \in roots}
HeldIn(S) == UNION {Screens[c].holds : c \in S}
SeenOf(S, roles) == {c \in S : Sees(c, roles)}

\* Components with what they hold for the account, down to the innermost.
RECURSIVE Together(_, _)
Together(S, roles) ==
    LET own == SeenOf(S, roles)
    IN  IF own = {} THEN {} ELSE own \cup Together(HeldIn(own), roles)

None == "none"
Drawers == {"order", "ent", "receipt"}
Slots == Drawers \cup {"row", "modal"}
SlotOf(c) ==
    CASE c = "OrderDetail" -> "order"
      [] c = "ReceiptDetail" -> "receipt"
      [] c = "AllocationsPanel" -> "row"
      [] c \in {"ArticlePanel", "MaterialPanel", "CustomerPanel", "SitePanel", "SupplierPanel", "ContractorPanel"} -> "ent"
      [] OTHER -> "modal"
MountedIn(t, drawers) ==
    Together(RootsOf(page, account) \cup (({t} \cup {drawers[s] : s \in Slots}) \ {None}), account)

\* The queries of the watched key, the components that ask it, what they show, the calls that touch it.
Queries == {q \in UNION {Screens[c].reads : c \in DOMAIN Screens} : q.key = watched}
Asks(c, k) == \E q \in Screens[c].reads : q.key = k
Shows == UNION {q.shows : q \in Queries}
Touches(o) == Routes[o.route].alters \cap Shows # {} \/ Refreshed(watched, o.refreshes)

Observed(shown) == \E c \in shown : Asks(c, watched)
Answered == \E q \in Queries : account \cap q.roles # {}
PolledNow == \E c \in mounted : \E q \in Screens[c].reads : q.key = watched /\ q.polled

\* The layers of the window: the page with its tab, row and modal, and the drawers.  A modal covers what is
\* under it, a drawer covers the page, except the card of an order the registry shows beside its table.
PageParts == RootsOf(page, account) \cup ({tab, drawer.row, drawer.modal} \ {None})
Layers == {PageParts} \cup {{drawer[s]} : s \in {d \in Drawers : drawer[d] # None}}
Inline == "OrdersRegistry" \in PageParts
Covered(layer) == layer = PageParts /\ \E s \in Drawers : drawer[s] # None /\ ~(s = "order" /\ Inline)
InReach(layer) ==
    IF drawer.modal # None THEN Together(layer \cap {drawer.modal}, account)
    ELSE IF Covered(layer) THEN {} ELSE Together(layer, account)
Reach == UNION {InReach(layer) : layer \in Layers}
OffersOf(S) == UNION {Screens[c].offers : c \in S}
Offered(o) == hasRole(account, o.offered)
\* A drawer is opened in the model when it shows the query or offers a call that touches it.
Matters(c) == \E d \in Together({c}, account) : Asks(d, watched) \/ \E o \in Screens[d].offers : Touches(o)

(***************************************************************************)
(* The cache.  A query mounted for the first time, or stale, is asked; one *)
(* that fails is asked once more, and then its screen shows the failure.   *)
(***************************************************************************)
Mount(shown) ==
    fetch' = IF Observed(shown \ mounted) /\ fetch = "idle" /\ (data = "none" \/ stale) THEN "asked" ELSE fetch

\* The key is refreshed: what is shown is asked again; a first load under way is not started over.
Invalidate ==
    /\ stale' = (stale \/ data # "none")
    /\ fetch' = IF Observed(mounted) /\ (fetch = "idle" \/ data # "none") THEN "asked" ELSE fetch

\* The routing and the costing of an article answer every failure with figures of the client's own.
Substituted == {<<"routing">>, <<"routing-costing">>}
Failed == IF watched \in Substituted THEN "demo" ELSE "failed"

\* What the server reads after a change shows the change: the debts so far are paid by this answer.
ServerReads ==
    /\ fetch = "asked"
    /\ fetch' = IF Answered THEN "current" ELSE Failed
    /\ debt' = {}
    /\ UNCHANGED <<place, data, stale, call, untold, calls, elsewhere>>

Lost ==
    /\ fetch \in {"asked", "current", "behind"}
    /\ fetch' = Failed
    /\ UNCHANGED <<place, data, stale, call, debt, untold, calls, elsewhere>>

Answer ==
    /\ fetch \in {"current", "behind", "demo"}
    /\ data' = fetch /\ stale' = FALSE /\ fetch' = "idle"
    /\ UNCHANGED <<place, call, debt, untold, calls, elsewhere>>

\* A failure leaves what was shown; the query is asked again at the next mount, refresh or tick.
Fail ==
    /\ fetch = "failed"
    /\ fetch' = "idle" /\ stale' = TRUE
    /\ debt' = {}
    /\ UNCHANGED <<place, data, call, untold, calls, elsewhere>>

\* Thirty seconds make an answer stale; a query with a timer is asked at every tick while it is mounted.
Tick_StopsAfterError ==
    /\ PolledNow /\ fetch = "idle" /\ ~stale
    /\ fetch' = "asked"
    /\ UNCHANGED <<place, data, stale, call, debt, untold, calls, elsewhere>>
Tick ==
    /\ PolledNow /\ fetch = "idle"
    /\ fetch' = "asked"
    /\ UNCHANGED <<place, data, stale, call, debt, untold, calls, elsewhere>>
GrowStale ==
    /\ data # "none" /\ ~stale
    /\ stale' = TRUE
    /\ UNCHANGED <<place, data, fetch, call, debt, untold, calls, elsewhere>>

(***************************************************************************)
(* The person moves.                                                       *)
(***************************************************************************)
Show(t, drawers) ==
    /\ tab' = t /\ drawer' = drawers /\ mounted' = MountedIn(t, drawers)
    /\ Mount(mounted')
    /\ debt' = IF Observed(mounted') THEN debt ELSE {}
    /\ UNCHANGED <<account, page, watched, data, stale, call, untold, calls, elsewhere>>

\* Changing the tab unmounts its modals; the drawers are in the address and stay.
ChooseTab == \E t \in TabsOf(RootsOf(page, account)) \ {tab} : Show(t, [drawer EXCEPT !.modal = None, !.row = None])
Open == \E c \in {d \in UNION {Screens[b].opens : b \in Reach} \cup {"GlobalSearch"} : Matters(d) /\ Sees(d, account)} :
    /\ drawer[SlotOf(c)] # c
    /\ Show(tab, [drawer EXCEPT ![SlotOf(c)] = c])
Close == \E s \in Slots :
    /\ drawer[s] # None
    /\ Show(tab, [drawer EXCEPT ![s] = None])

(***************************************************************************)
(* Calls.  One button at a time; the answer is lost after two seconds and  *)
(* nothing is repeated by itself.                                          *)
(***************************************************************************)
NoCall == [route |-> None, refreshes |-> {}, seen |-> FALSE, step |-> None]
Behind(a) == IF a \in {"none", "asked", "failed", "demo", "idle"} THEN a ELSE "behind"
CostShown == Cost \cap Shows # {} /\ Observed(mounted) /\ data # "none"
Changed == data' = Behind(data) /\ fetch' = Behind(fetch)

\* The promise is to whoever sees the query in the layer of the button.
Press == \E layer \in Layers : \E o \in {p \in OffersOf(InReach(layer)) : Touches(p)} :
    /\ calls < MaxCalls /\ call = NoCall
    /\ Offered(o)
    /\ call' = [route |-> o.route, refreshes |-> o.refreshes, seen |-> Observed(Together(layer, account)), step |-> "sent"]
    /\ calls' = calls + 1
    /\ UNCHANGED <<place, cache, debt, untold, elsewhere>>

\* The server lets the roles of the route in, and changes the facts or refuses for a reason of its own.
Serve ==
    /\ call.step = "sent"
    /\ account \cap Routes[call.route].roles # {}
    /\ call' = [call EXCEPT !.step = "done"]
    /\ IF Routes[call.route].alters \cap Shows # {} THEN Changed ELSE UNCHANGED <<data, fetch>>
    /\ untold' = (untold \/ ("article.cost" \in Routes[call.route].alters /\ CostShown))
    /\ UNCHANGED <<place, stale, debt, calls, elsewhere>>
Refuse ==
    /\ call.step = "sent"
    /\ call' = NoCall
    /\ UNCHANGED <<place, cache, debt, untold, calls, elsewhere>>

\* The acknowledgment refreshes the keys of the call, wherever the person is by then.
Acknowledge ==
    /\ call.step = "done"
    /\ IF Refreshed(watched, call.refreshes) THEN Invalidate ELSE UNCHANGED <<stale, fetch>>
    /\ debt' = IF call.seen /\ Observed(mounted) /\ data # "none" /\ Routes[call.route].alters \cap Shows # {}
               THEN debt \cup {call.route} ELSE debt
    /\ call' = NoCall
    /\ UNCHANGED <<place, data, untold, calls, elsewhere>>
NoAnswer ==
    /\ call.step = "done"
    /\ call' = NoCall
    /\ UNCHANGED <<place, cache, debt, untold, calls, elsewhere>>

(***************************************************************************)
(* Elsewhere: another window or 1C changes what the query shows; a new     *)
(* cost is told to every client that listens.                              *)
(***************************************************************************)
CostEvent == {<<"routing">>, <<"routing-costing">>, <<"routing-costing-history">>, <<"routing-usage">>,
              <<"articles">>, <<"price-reviews">>}
Listening == page = "Specifications"
ChangeElsewhere ==
    /\ elsewhere < MaxElsewhere
    /\ elsewhere' = elsewhere + 1
    /\ Changed
    /\ untold' = (untold \/ CostShown)
    /\ UNCHANGED <<place, stale, call, debt, calls>>
HearEvent ==
    /\ untold /\ Listening
    /\ untold' = FALSE
    /\ IF Refreshed(watched, CostEvent) THEN Invalidate ELSE UNCHANGED <<stale, fetch>>
    /\ debt' = IF Observed(mounted) /\ data = "behind" THEN debt \cup {"cost_updated"} ELSE debt
    /\ UNCHANGED <<place, data, call, calls, elsewhere>>
\* The stream connects again by itself after a break; what was sent meanwhile is gone.
MissEvent ==
    /\ untold /\ Listening
    /\ untold' = FALSE
    /\ UNCHANGED <<place, cache, call, debt, calls, elsewhere>>

(***************************************************************************)
(* A page is watched for a key that something on it shows.                 *)
(***************************************************************************)
Near(p, roles, hosts) ==
    LET roots == RootsOf(p, roles)
        on == Together(roots \cup TabsOf(roots), roles)
        opened == {c \in UNION {Screens[d].opens : d \in on} : SlotOf(c) \notin Drawers \/ p \in hosts}
    IN  on \cup Together(opened, roles)
StartsOf(roles, keys, hosts) ==
    {<<p, k>> \in PagesFor(roles) \X keys : \E c \in Near(p, roles, hosts) : Asks(c, k)}
Init ==
    /\ account \in Accounts
    /\ \E start \in Starts[account] : page = start[1] /\ watched = start[2]
    /\ tab \in IF TabsOf(RootsOf(page, account)) = {} THEN {None} ELSE TabsOf(RootsOf(page, account))
    /\ drawer = [s \in Slots |-> None] /\ mounted = MountedIn(tab, drawer)
    /\ data = "none" /\ stale = FALSE
    /\ fetch = IF ~Observed(mounted) THEN "idle" ELSE "asked"
    /\ call = NoCall /\ debt = {} /\ untold = FALSE /\ calls = 0 /\ elsewhere = 0

Moves == ChooseTab \/ Open \/ Close \/ Press
Server == Serve \/ Refuse \/ Acknowledge \/ NoAnswer \/ ChangeElsewhere
Next == Moves \/ Server \/ ServerReads \/ Lost \/ Answer \/ Fail \/ Tick \/ GrowStale \/ HearEvent \/ MissEvent

\* The timers of the browser fire and not every answer is lost; nobody has to press anything.
Fairness == WF_vars(Tick) /\ WF_vars(Fail) /\ SF_vars(ServerReads) /\ SF_vars(Answer) /\ WF_vars(HearEvent)
Spec == Init /\ [][Next]_vars /\ Fairness

(***************************************************************************)
(* Properties.                                                             *)
(***************************************************************************)
\* The cache holds an answer, none or an old one, and at most one request and one call are under way; a
\* screen with the query has an answer, waits for one or shows that it failed.
TypeOK ==
    /\ Observed(mounted) /\ data = "none" /\ fetch = "idle" => stale
    /\ data \in {"none", "current", "behind", "demo"} /\ stale \in BOOLEAN
    /\ fetch \in {"idle", "asked", "current", "behind", "demo", "failed"}
    /\ data = "demo" \/ fetch = "demo" => watched \in Substituted
    /\ call.step \in {None, "sent", "done"}
    /\ drawer \in [Slots -> DOMAIN Screens \cup {None}]
    /\ untold \in BOOLEAN /\ calls \in 0..MaxCalls /\ elsewhere \in 0..MaxElsewhere

\* What this client was told of, its own acknowledged call or the event of a cost, does not stay unseen on
\* a screen that shows it: the query is being asked again, or the pair is one of the known gaps.
ToldIsShown ==
    /\ TypeOK
    /\ data = "behind" /\ fetch = "idle" /\ Observed(mounted)
        => \A d \in debt : <<d, watched>> \in Gaps

\* A query with a timer shows what the server has once the changes end, whatever was lost on the way.
PolledCatchesUp == <>[](PolledNow /\ Answered) => <>[](data = "current")

\* useLiveEvents.ts: a cost recalculated in one window is at once refreshed on the specifications and the prices of another.
CostReachesScreen == (untold /\ page \in {"Specifications", "Prices"}) ~> (~untold \/ ~Observed(mounted) \/ data # "behind")
=============================================================================
