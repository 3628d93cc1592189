--------------------------- MODULE ScreenWarehouse ---------------------------
(***************************************************************************)
(* The warehouse: the digest and the registers of raw material, finished   *)
(* goods, batches and reserves, minimum stocks and offcuts, the card of a  *)
(* receipt; and the purchases that fill it.                                *)
(***************************************************************************)
EXTENDS ScreenBasics

\* Queries several screens of the warehouse share.
useMaterials == Query(<<"materials">>, {"stock"})
useReceipts == Query(<<"receipts">>, {"receipt"})
MinStockLevels == Query(<<"min-stock">>, {"min", "fg"})
BatchOverrides == Query(<<"batch-overrides">>, {"override"})
BatchAnomalies == Query(<<"batch-anomalies">>, {"batch"})
ReservationsExpiring == Query(<<"reservations-expiring">>, {"reservation"})
OffcutsList == Query(<<"offcuts">>, {"offcut"})

\* The digest asks what the five registers ask, once; the registers of reserves ask again by a timer.
WarehouseDigest == [Component EXCEPT
    !.reads = {MinStockLevels, BatchAnomalies, ReservationsExpiring, BatchOverrides, OffcutsList},
    !.opens = {"OrderDetail", "ArticlePanel", "MaterialPanel"}]

(***************************************************************************)
(* Raw material: the register, the history of one material and its issue.  *)
(***************************************************************************)
MaterialsStock == [Component EXCEPT
    !.reads = {useMaterials}, !.opens = {"MaterialPanel", "MovementHistory", "IssueModal"}]
MovementHistory == [Component EXCEPT !.reads = {useMaterialMovements}]
\* The order is looked up by its number first; no order, no call.
IssueModal == [Component EXCEPT
    !.for = {"warehouse_material", "admin"},
    !.reads = {Query(<<"warehouses">>, {})},
    !.offers = {ByRoles({"warehouse_material"}, "PostMaterialMovement", {<<"materials">>, <<"material-movements">>})}]

ReceiptDetail == [Component EXCEPT !.reads = {Query(<<"payment-doc">>, {"receipt"})}, !.opens = {"OrderDetail"}]

\* Finished goods: the balance, the movements and the modal that adds one.
FinishedGoodsStock == [Component EXCEPT
    !.reads = {Query(<<"fg-balance">>, {"fg"}), Query(<<"fg-stock">>, {"fg"})}, !.opens = {"MovementModal"}]
MovementModal == [Component EXCEPT
    !.for = {"warehouse_fg", "shop_foreman", "admin"},
    !.reads = {useArticles},
    !.offers = {ByRoles({"warehouse_fg", "shop_foreman"}, "PostFGMovement", {<<"fg-stock">>, <<"fg-balance">>})}]

(***************************************************************************)
(* Batches and reserves: a seizure the director decides, a suspicious      *)
(* price supply confirms, reserves about to expire.                        *)
(***************************************************************************)
DirectorKey == <<"dashboard", "director">>
BatchesReserves == [Component EXCEPT
    !.reads = {Polled(BatchOverrides), Polled(BatchAnomalies), Polled(ReservationsExpiring)},
    !.offers = {ByRoles({"director"}, "DecideOverride", {<<"batch-overrides">>, DirectorKey}),
                ByRoles({"procurement"}, "ClearAnomaly", {<<"batch-anomalies">>, DirectorKey})},
    !.opens = {"OrderDetail", "MaterialPanel"}]

MinStock == [Component EXCEPT
    !.reads = {MinStockLevels, useArticles},
    !.offers = {ByRoles({"planner"}, "MinStockUpdate", {<<"min-stock">>}),
                ByRoles({"planner"}, "MinStockDelete", {<<"min-stock">>})},
    !.opens = {"ArticlePanel"}]

OffcutCalls == {ByRoles({"warehouse_material", "shop_foreman"}, c, {<<"offcuts">>})
                : c \in {"CreateOffcut", "UpdateOffcut", "DeleteOffcut"}}
Offcuts == [Component EXCEPT
    !.reads = {OffcutsList, useMaterials}, !.offers = OffcutCalls, !.opens = {"MaterialPanel"}]

\* The storeroom is the register of materials over other categories.
Warehouse == Tabbed({"WarehouseDigest", "MaterialsStock", "FinishedGoodsStock", "BatchesReserves", "MinStock", "Offcuts"})

(***************************************************************************)
(* Purchases: the dashboard, the queue that goes to Bitrix24, documents.   *)
(***************************************************************************)
PurchasesDashboard == [Component EXCEPT
    !.reads = {Polled(PurchasesDigest)},
    !.opens = {"ReceiptDetail", "SupplierPanel"}]
PurchaseQueue == [Component EXCEPT
    !.reads = {Polled(Query(<<"purchase-requests">>, {"purchase"}))},
    !.offers = {ToAll("SendPurchases", {<<"purchase-requests">>})},
    !.opens = {"OrderDetail"}]
PurchasesRegistry == [Component EXCEPT
    !.reads = {For(Reads.Purchases, Query(<<"purchases-docs">>, {"receipt"}))}, !.opens = {"ReceiptDetail", "SupplierPanel"}]
Purchases == Tabbed({"PurchasesDashboard", "PurchaseQueue", "PurchasesRegistry"})
=============================================================================
