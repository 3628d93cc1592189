---------------------------- MODULE ServerRoutes ----------------------------
(***************************************************************************)
(* What the server promises the web client: for each call the roles its    *)
(* route lets in and the facts its handler changes, for each question the  *)
(* roles that get an answer.  A fact stands for the columns one screen or  *)
(* another shows together.                                                 *)
(***************************************************************************)
EXTENDS AccessRights

Route(roles, facts) == [roles |-> roles, alters |-> facts]

\* Every recalculation of a cost also tells the stream of events.
Cost == {"article.cost", "cost.snapshot", "price.review"}

Foremen == {"shop_foreman", "planner", "admin"}
RequestWriters == {"shop_foreman", "planner", "sales_manager", "procurement", "admin"}

StockKeepers == {"warehouse_material", "shop_foreman", "admin"}

Engineers == {"engineer", "admin"}

NktManagers == {"engineer", "sales_manager", "admin"}

Heads == {"admin", "director"}

Routes == [
    \* Orders.
    AcceptOrder |-> Route({"planner", "sales_manager", "director", "admin"}, {"order.status", "order.accepted"}),
    TransitionStatus |-> Route({"sales_manager", "planner", "warehouse_fg", "accountant", "director", "admin"},
        {"order.status"}),
    SetLineSite |-> Route({"sales_manager", "planner", "admin"}, {"line.site"}),
    UpdateStage |-> Route({"shop_foreman", "planner", "admin"}, {"stage", "order.status", "fg"}),
    BuildCosting |-> Route({"planner", "sales_manager", "procurement", "admin"}, {"costing"}),
    CreatePayment |-> Route({"accountant", "sales_manager", "admin"}, {"payment", "order.paid"}),
    RemovePayment |-> Route({"accountant", "admin"}, {"payment", "order.paid"}),
    CreateAct |-> Route({"accountant", "sales_manager", "warehouse_fg", "admin"}, {"act", "line.shipped"}),
    SetPlanCell |-> Route({"planner", "admin"}, {"plan"}),
    \* Contractors.
    CreateContractor |-> Route({"procurement", "planner", "sales_manager", "admin"}, {"contractor"}),
    AssignContractor |-> Route(Foremen \cup {"sales_manager"}, {"work"}),
    AcceptWork |-> Route(Foremen, {"work"}),
    CreateRequest |-> Route(RequestWriters, {"request", "request.description"}),
    UpdateRequest |-> Route(RequestWriters, {"request", "request.description", "work"}),
    SendToBitrix |-> Route(RequestWriters, {"request"}),
    Allocate |-> Route(Foremen, {"request", "work"}),
    RemoveAllocation |-> Route(Foremen, {"request", "work"}),
    AcceptRequest |-> Route({"procurement", "accountant", "planner", "admin"}, {"request", "work"}),
    CancelRequest |-> Route({"planner", "procurement", "admin"}, {"request"}),
    \* Warehouse and purchases.
    DecideOverride |-> Route({"director", "admin"}, {"override", "reservation", "costing"}),
    ClearAnomaly |-> Route({"procurement", "planner", "admin"}, {"batch"}),
    CreateOffcut |-> Route(StockKeepers, {"offcut"}),
    UpdateOffcut |-> Route(StockKeepers, {"offcut"}),
    DeleteOffcut |-> Route(StockKeepers, {"offcut"}),
    UseOffcuts |-> Route(StockKeepers \cup {"planner"}, {"offcut"}),
    PostMaterialMovement |-> Route({"warehouse_material", "admin"}, {"stock", "batch"}),
    PostFGMovement |-> Route({"warehouse_fg", "shop_foreman", "admin"}, {"fg"}),
    MinStockUpdate |-> Route({"planner", "admin"}, {"min"}),
    MinStockDelete |-> Route({"planner", "admin"}, {"min"}),
    PurchaseFromOrder |-> Route({"warehouse_material", "planner", "shop_foreman", "procurement", "admin"}, {"purchase"}),
    SendPurchases |-> Route({"procurement", "admin"}, {"purchase"}),
    \* Catalogue, routing and prices; no route answers the change or the removal of a line of a composition.
    AddBomItem |-> Route(Engineers, {"bom"} \cup Cost),
    UpdateBomItem |-> Route({}, {"bom"} \cup Cost),
    RemoveBomItem |-> Route({}, {"bom"} \cup Cost),
    PutNorm |-> Route(Engineers, {"norm"} \cup Cost),
    PostActual |-> Route({"shop_foreman", "admin"}, {"actual"}),
    PromoteActual |-> Route(Engineers, {"norm"} \cup Cost),
    Recalculate |-> Route(Engineers, Cost),
    RequestPriceReview |-> Route({"engineer", "accountant", "sales_manager", "admin"}, {"price.review"}),
    DecidePriceReview |-> Route({"director", "admin"}, {"price.review", "price"}),
    CreateNomenclature |-> Route({"engineer", "sales_manager", "planner", "admin"}, {"nomenclature"}),
    DecideNomenclature |-> Route(Engineers, {"nomenclature", "article.new"}),
    \* National catalogue.
    SavePassport |-> Route(Engineers, {"passport"}), SaveCategory |-> Route(Engineers, {"nkt.category"}),
    SyncSchema |-> Route(Engineers, {"nkt.schema"}),
    Submit |-> Route(NktManagers, {"passport"}), Resubmit |-> Route(NktManagers, {"passport"}),
    DuplicateDecision |-> Route(NktManagers, {"passport"}), CancelCard |-> Route(NktManagers, {"passport"}),
    \* Office, exchange with 1C, deals and saved views.
    CreateUser |-> Route(Heads, {"user"}), UpdateUser |-> Route(Heads, {"user"}), ResetPassword |-> Route(Heads, {}),
    UpdateCostingConfig |-> Route(Heads, {"config"}),
    ImportCredit |-> Route({"accountant", "director", "admin"}, {"credit"}),
    FlushOutbox |-> Route({"admin"}, {"message"}), ProcessInbox |-> Route({"admin"}, {"message"}),
    RetryMessage |-> Route({"admin"}, {"message"}),
    CreateDeal |-> Route({"sales_manager", "planner", "accountant", "admin"}, {"deal"}),
    UpdateDeal |-> Route({"sales_manager", "planner", "accountant", "admin"}, {"deal"}),
    RemoveDeal |-> Route({"sales_manager", "admin"}, {"deal"}),
    SaveView |-> Route(Roles, {"view"}), DeleteView |-> Route(Roles, {"view"})]

\* Questions that are answered to some roles only; the others are for all.
Reads == [
    Inbox |-> {"planner", "sales_manager", "director", "admin"},
    OrdersDashboard |-> {"sales_manager", "accountant", "director", "admin"},
    ContractorWorkAll |-> {"planner", "sales_manager", "director", "accountant", "admin"},
    Requests |-> RequestWriters \cup {"director", "accountant"},
    PriceReviews |-> {"director", "admin", "engineer", "accountant"},
    NomenclatureRequests |-> {"engineer", "sales_manager", "planner", "director", "admin"},
    CustomerMoney |-> {"accountant", "director", "sales_manager", "admin"},
    CreditLines |-> {"accountant", "director", "admin"},
    Purchases |-> {"procurement", "accountant", "director", "admin"},
    Director |-> Heads, Users |-> Heads, Integration |-> Heads,
    CashForecast |-> {"director", "accountant", "sales_manager", "admin"},
    Deals |-> {"sales_manager", "planner", "accountant", "director", "admin"},
    Nkt |-> NktManagers \cup {"planner", "procurement", "director"}]
=============================================================================
