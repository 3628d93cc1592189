---------------------------- MODULE ScreenCatalog ----------------------------
(***************************************************************************)
(* Specifications, prices and the national catalogue: the composition and  *)
(* the route of an article with the cost they give, the price list, the    *)
(* reviews of prices, the passports of cards.                              *)
(***************************************************************************)
EXTENDS ScreenBasics

(***************************************************************************)
(* hooks/useRouting.ts and hooks/useCatalog.ts.                            *)
(***************************************************************************)
CostKeys == {<<"routing-costing">>, <<"routing-costing-history">>}
useRouting == Query(<<"routing">>, {"norm", "actual"})
useNormHistory == Query(<<"routing-norm-history">>, {"norm"})
useCostingHistory == Query(<<"routing-costing-history">>, {"cost.snapshot"})
useInvalidateRouting == {<<"routing">>, <<"routing-norm-history">>} \cup CostKeys
useSaveNorm(roles) == ByRights(roles, "PutNorm", useInvalidateRouting)
useSaveActual(roles) == ByRights(roles, "PostActual", useInvalidateRouting)
usePromote(roles) == ByRights(roles, "PromoteActual", useInvalidateRouting)

usePriceReviews == For(Reads.PriceReviews, Query(<<"price-reviews">>, {"price.review"}))
useRequestPriceReview(roles, gate) == OfferTo(roles, gate, "RequestPriceReview", {<<"price-reviews">>})
useDecidePriceReview(roles) ==
    ByRights(roles, "DecidePriceReview", {<<"price-reviews">>, <<"routing-costing">>, <<"articles">>})

useArticle == Query(<<"article">>, {"article", "bom"})
useInvalidateBom == {<<"bom">>} \cup CostKeys
BomCalls(roles) == {ByRights(roles, c, useInvalidateBom) : c \in {"AddBomItem", "UpdateBomItem", "RemoveBomItem"}}

useNomenclatureRequests == For(Reads.NomenclatureRequests, Query(<<"nomenclature-requests">>, {"nomenclature"}))
useCreateNomenclatureRequest == ToAll("CreateNomenclature", {<<"nomenclature-requests">>})
useDecideNomenclature(roles) ==
    ByRights(roles, "DecideNomenclature", {<<"nomenclature-requests">>, <<"articles">>})

(***************************************************************************)
(* The page of specifications: an article, its composition, its stages and *)
(* what they cost.  It alone listens to the stream of events.              *)
(***************************************************************************)
Specifications == [Component EXCEPT
    !.reads = {useArticles, Query(<<"article-gaps">>, {"article.new", "bom", "norm"}), useArticle, useRouting, useCosting},
    !.offers = {ToAll("Recalculate", {<<"routing">>})},
    !.holds = {"RequestsButton"},
    !.tabs = {"StageTable", "BomPanel", "CostingPanel", "UsagePanel"},
    !.opens = {"HistoryModal", "RequestNomenclatureModal"}]

BomPanel == [Component EXCEPT !.reads = {useBom}, !.holds = {"BomRow"}]
BomRow == [Component EXCEPT
    !.offers = BomCalls(Writers("bom", "core")), !.opens = {"MaterialPanel"}]

\* A norm is previewed before it is saved; a fact is entered in the shop and may be made the norm.
StageTable == [Component EXCEPT !.holds = {"StageRow"}]
StageRow == [Component EXCEPT
    !.offers = {useSaveActual(Writers("routing", "actual")), usePromote(Writers("routing", "norm"))},
    !.opens = {"ImpactPreviewModal"}]
ImpactPreviewModal == [Component EXCEPT
    !.for = Writers("routing", "norm"), !.offers = {useSaveNorm(Writers("routing", "norm"))}]

CostingPanel == [Component EXCEPT
    !.for = Readers("routing", "cost"), !.reads = {useCosting},
    !.offers = {useRequestPriceReview(Writers("article", "core"), "rights")}]
UsagePanel == [Component EXCEPT !.reads = {useUsage}]
HistoryModal == [Component EXCEPT !.reads = {useNormHistory, useCostingHistory}]

RequestsButton == [Component EXCEPT !.reads = {useNomenclatureRequests}, !.opens = {"NomenclatureRequestsModal"}]
RequestNomenclatureModal == [Component EXCEPT !.offers = {useCreateNomenclatureRequest}]
NomenclatureRequestsModal == [Component EXCEPT
    !.reads = {useNomenclatureRequests}, !.offers = {useDecideNomenclature(Writers("article", "core"))}]

(***************************************************************************)
(* Prices.                                                                 *)
(***************************************************************************)
Prices == [Component EXCEPT
    !.reads = {Query(<<"price-digest">>, {"price", "article.cost"}), usePriceReviews},
    !.offers = {useRequestPriceReview({"engineer", "accountant", "sales_manager"}, "roles")},
    !.tabs = {"PriceDigest", "PriceReviewsPanel", "PriceList"}]
PriceDigest == [Component EXCEPT !.opens = {"ArticlePanel"}]
PriceList == [Component EXCEPT
    !.reads = {useArticles}, !.opens = {"ArticlePanel"}]
PriceReviewsPanel == [Component EXCEPT !.reads = {usePriceReviews}, !.holds = {"ReviewRow"}]
ReviewRow == [Component EXCEPT !.offers = {useDecidePriceReview(Approvers("article", "price"))}]

(***************************************************************************)
(* National catalogue: hooks/useNkt.ts and the screens.                    *)
(***************************************************************************)
NktQuery(name, shows) == For(Reads.Nkt, Query(<<"nkt", name>>, shows))
useInvalidateNkt == {<<"nkt", "cards">>, <<"nkt", "summary">>, <<"nkt", "card">>, <<"nkt", "log">>}
useSaveNktPassport == ToAll("SavePassport", useInvalidateNkt)
useNktAction == {ToAll(c, useInvalidateNkt) : c \in {"Submit", "Resubmit", "DuplicateDecision", "CancelCard"}}
useSaveNktCategory == ToAll("SaveCategory", {<<"nkt", "categories">>, <<"nkt", "cards">>})
useSyncNktSchema == ToAll("SyncSchema", {<<"nkt">>})

Nkt == Tabbed({"NktRegistry", "NktCategories"})
NktRegistry == [Component EXCEPT
    !.reads = {NktQuery("summary", {"passport"}), NktQuery("cards", {"passport", "nkt.category"})},
    !.opens = {"NktPassportCard"}]
\* A passport is saved and validated, sent, sent again, withdrawn; a duplicate is decided.
NktPassportCard == [Component EXCEPT
    !.reads = {NktQuery("card", {"passport", "nkt.category", "nkt.schema"}), NktQuery("log", {"passport"})},
    !.offers = {useSaveNktPassport} \cup useNktAction,
    !.holds = {"DictField"}]
DictField == [Component EXCEPT !.reads = {NktQuery("dict", {"nkt.schema"})}]
NktCategories == [Component EXCEPT
    !.reads = {NktQuery("categories", {"nkt.category"}), NktQuery("status", {"nkt.schema"})},
    !.offers = {useSaveNktCategory, useSyncNktSchema}]
=============================================================================
