----------------------------- MODULE ScreenMoney -----------------------------
(***************************************************************************)
(* Money and the office: debts, reconciliation, documents and credit lines, *)
(* the director's screen, the exchange with 1C, users and settings, and    *)
(* the panels and the search that open over any page.                      *)
(***************************************************************************)
EXTENDS ScreenBasics

(***************************************************************************)
(* Finance.                                                                *)
(***************************************************************************)
\* A debt is what 1C says is unpaid; an order 1C is silent about, with no sum paid, is shown apart.
DebtOf(order) == {IF p > order.total THEN 0 ELSE order.total - p : p \in order.paid}
InDebt(order) == order.status # "CANCELLED" /\ order.total > 0 /\ DebtOf(order) # {0}
sliceOf(status) ==
    CASE status \in {"SHIPPED", "CLOSED"} -> "shipped" [] status = "READY_TO_SHIP" -> "ready" [] OTHER -> "production"
OrderDebts == [Component EXCEPT !.reads = {useOrders}, !.opens = {"OrderDetail"}]
CustomerDebts == For(Reads.CustomerMoney, Query(<<"customer-debts">>, {"order.paid", "line.shipped"}))
Receivables == [Component EXCEPT !.reads = {CustomerDebts}, !.opens = {"CustomerPanel"}]
Reconciliation == [Component EXCEPT
    !.reads = {For(Reads.CustomerMoney, Query(<<"finance-reconciliation">>, {"order.paid", "order.status"}))},
    !.opens = {"OrderDetail"}]
PaymentDocuments == [Component EXCEPT !.reads = {Query(<<"payment-documents">>, {"receipt"})}]
CreditKey == <<"credit-lines">>
CreditLines == [Component EXCEPT
    !.reads = {For(Reads.CreditLines, Query(CreditKey, {"credit"}))}, !.holds = {"DamuImport"}]
\* The file is checked first; only what was checked is applied.
DamuImport == [Component EXCEPT !.offers = {ToAll("ImportCredit", {CreditKey})}]
Finance == Tabbed({"OrderDebts", "Receivables", "Reconciliation", "PaymentDocuments", "CreditLines"})

(***************************************************************************)
(* The director and the widgets of the other roles.                        *)
(***************************************************************************)
MonthlySeries == Query(<<"dashboard", "monthly-series">>, {"order.status"})
DirectorDashboard == [Component EXCEPT
    !.for = Heads,
    !.reads = {Polled(For(Reads.Director, Query(<<"dashboard", "director">>,
                   {"order.status", "order.paid", "override", "batch", "reservation", "costing", "nomenclature", "price.review"}))),
               Polled(For(Reads.CashForecast, Query(<<"dashboard", "cash-forecast">>, {"order.paid"}))),
               MonthlySeries},
    !.opens = {"OrderDetail"}]
RoleWidgets == [Component EXCEPT
    !.reads = {Query(<<"role-widgets">>, {"order.status", "purchase", "norm", "price"})}, !.opens = {"OrderDetail"}]

(***************************************************************************)
(* Settings: the exchange with 1C, the costing, the users.                 *)
(***************************************************************************)
ExchangeKeys == {<<"integration-status">>, <<"integration-messages">>}
Integration == [Component EXCEPT
    !.reads = {Polled(For(Reads.Integration, Query(k, {"message"}))) : k \in ExchangeKeys},
    !.offers = {ToAll(c, ExchangeKeys) : c \in {"FlushOutbox", "ProcessInbox", "RetryMessage"}}]
CostingSettings == [Component EXCEPT
    !.reads = {Query(<<"costing-config">>, {"config"})},
    !.offers = {ByRoles({"director"}, "UpdateCostingConfig", {<<"costing-config">>})}]
UsersAdmin == [Component EXCEPT
    !.reads = {For(Reads.Users, Query(<<"users">>, {"user"})), For(Reads.Users, Query(<<"users-roles">>, {}))},
    !.offers = {ToAll(c, {<<"users">>}) : c \in {"CreateUser", "UpdateUser", "ResetPassword"}}]
Settings == Tabbed({"Integration", "CostingSettings", "UsersAdmin"})

(***************************************************************************)
(* Over any page: the search and the panel of what a reference names.      *)
(***************************************************************************)
GlobalSearch == [Component EXCEPT !.reads = {Query(<<"search">>, {"order.status"})}, !.opens = {"OrderDetail"}]
ArticlePanel == [Component EXCEPT
    !.reads = {Query(<<"articles", "one">>, {"article", "price", "article.cost", "bom"}), useBom, useCosting, useUsage},
    !.opens = {"MaterialPanel", "OrderDetail"}]
MaterialPanel == [Component EXCEPT
    !.reads = {Query(<<"materials", "one">>, {"stock"}), useMaterialMovements}]
CustomerPanel == [Component EXCEPT
    !.reads = {CustomerDebts, useOrders}, !.opens = {"OrderDetail"}]
SitePanel == [Component EXCEPT
    !.reads = {OrderSites, useOrders}, !.opens = {"OrderDetail"}]
SupplierPanel == [Component EXCEPT !.reads = {PurchasesDigest}]
ContractorPanel == [Component EXCEPT
    !.reads = {AllContractorWork}, !.opens = {"OrderDetail"}]
=============================================================================
