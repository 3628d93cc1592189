---------------------------- MODULE AccessRights ----------------------------
(***************************************************************************)
(* Who may see and do what: the matrix of roles over groups of fields, the *)
(* rights a set of roles amounts to, the modules of the rail and the       *)
(* statuses a role may give an order.  A right is a resource, a group of  *)
(* its fields and what it allows to do with them.                          *)
(***************************************************************************)

Roles == {"sales_manager", "accountant", "director", "engineer", "planner", "shop_foreman",
          "procurement", "warehouse_material", "warehouse_fg", "viewer", "admin"}

\* Groups of fields by resource; what is calculated can only be read.
FIELD_GROUPS == [
    order |-> {"core", "commercial", "production", "logistics", "cost"},
    article |-> {"core", "price", "cost"}, material |-> {"core", "price"}, bom |-> {"core", "cost"},
    routing |-> {"norm", "actual", "cost"}, payment |-> {"core", "amounts"},
    stockFg |-> {"core"}, stockMaterial |-> {"core"}, costingConfig |-> {"core"}]
isCalculated(group) == group = "cost"

permissionCode(resource, group, action) == <<resource, group, action>>
Audit == permissionCode("audit", "", "read")

allPermissionCodes ==
    {Audit} \cup UNION {UNION {
        {permissionCode(r, g, a) : a \in IF isCalculated(g) THEN {"read"} ELSE {"read", "write", "approve"}}
        : g \in FIELD_GROUPS[r]} : r \in DOMAIN FIELD_GROUPS}

\* The grants of a role: what it writes, what it approves and what it only reads.
In(resource, groups) == {<<resource, g>> : g \in groups}
Grants(writes, approves, reads) == [write |-> writes, approve |-> approves, read |-> reads]

ROLE_MATRIX == [
    sales_manager |-> Grants(In("order", {"core", "commercial"}), {},
        In("order", {"production", "logistics"}) \cup In("article", {"core", "price"})
            \cup In("payment", {"core", "amounts"}) \cup In("stockFg", {"core"})),
    accountant |-> Grants(In("order", {"commercial"}) \cup In("payment", {"core", "amounts"}), {},
        In("order", {"core", "logistics", "cost"}) \cup In("article", {"core", "price", "cost"})
            \cup In("material", {"price"}) \cup In("stockFg", {"core"})),
    director |-> Grants({}, In("article", {"price"}) \cup In("costingConfig", {"core"}),
        UNION {In(r, FIELD_GROUPS[r]) : r \in {"order", "bom", "routing", "material", "payment", "stockFg", "stockMaterial"}}
            \cup In("article", {"core", "cost"}) \cup {<<"audit", "">>}),
    engineer |-> Grants(In("article", {"core"}) \cup In("bom", {"core"}) \cup In("routing", {"norm"}), {},
        In("order", {"core", "production", "cost"}) \cup In("article", {"cost"}) \cup In("bom", {"cost"})
            \cup In("routing", {"actual", "cost"}) \cup In("material", {"core", "price"})
            \cup In("stockMaterial", {"core"}) \cup In("costingConfig", {"core"})),
    planner |-> Grants(In("order", {"production"}), {},
        In("order", {"core", "logistics"}) \cup In("article", {"core", "price"}) \cup In("bom", {"core"})
            \cup In("routing", {"norm", "actual"}) \cup In("material", {"core"}) \cup In("stockFg", {"core"})
            \cup In("stockMaterial", {"core"})),
    shop_foreman |-> Grants(In("routing", {"actual"}), {},
        In("order", {"core", "production", "logistics"}) \cup In("article", {"core"}) \cup In("bom", {"core"})
            \cup In("routing", {"norm"}) \cup In("stockFg", {"core"})),
    procurement |-> Grants(In("material", {"core", "price"}) \cup In("payment", {"core", "amounts"}), {},
        In("order", {"core", "commercial", "production"}) \cup In("article", {"core", "price"})
            \cup In("bom", {"core"}) \cup In("stockMaterial", {"core"})),
    warehouse_material |-> Grants(In("material", {"core"}) \cup In("stockMaterial", {"core"}), {},
        In("order", {"core"}) \cup In("article", {"core"}) \cup In("material", {"price"})),
    warehouse_fg |-> Grants(In("order", {"production", "logistics"}) \cup In("stockFg", {"core"}), {},
        In("order", {"core"}) \cup In("article", {"core"})),
    viewer |-> Grants({}, {}, In("order", {"core", "logistics"}) \cup In("article", {"core"})),
    admin |-> Grants({}, {}, {})]

expandGrant(g) ==
    {permissionCode(x[1], x[2], "read") : x \in g.read \cup g.write \cup g.approve}
        \cup {permissionCode(x[1], x[2], "write") : x \in g.write}
        \cup {permissionCode(x[1], x[2], "approve") : x \in g.approve}

permissionsForRoles(rs) ==
    IF "admin" \in rs THEN allPermissionCodes ELSE UNION {expandGrant(ROLE_MATRIX[r]) : r \in rs}

can(rs, action, resource, group) == permissionCode(resource, group, action) \in permissionsForRoles(rs)
hasRole(rs, allowed) == "admin" \in rs \/ rs \cap allowed # {}

\* What an answer keeps for a reader: the groups of the resource he may read.
projectByPermissions(rs, resource) == {g \in FIELD_GROUPS[resource] : can(rs, "read", resource, g)}

\* A body with a field of a group the writer may not write is refused as a whole.
assertFieldWriteAllowed(rs, resource, groups) ==
    \A g \in groups \cap FIELD_GROUPS[resource] : isCalculated(g) \/ can(rs, "write", resource, g)

\* Roles that see a group of fields; admin sees all.
Readers(resource, group) == {r \in Roles : can({r}, "read", resource, group)}
Writers(resource, group) == {r \in Roles : can({r}, "write", resource, group)}
Approvers(resource, group) == {r \in Roles : can({r}, "approve", resource, group)}

(***************************************************************************)
(* The rail: a module is there for whoever may read one of its resources.  *)
(***************************************************************************)
AnyOf(S) == UNION {Readers(x[1], x[2]) : x \in S}
MODULE_PERMISSIONS == [
    work |-> Roles,
    orders |-> Readers("order", "core"),
    specs |-> AnyOf({<<"routing", "norm">>, <<"bom", "core">>}),
    materials |-> AnyOf({<<"stockMaterial", "core">>, <<"material", "core">>, <<"stockFg", "core">>}),
    purchases |-> Readers("payment", "core"),
    money |-> Readers("payment", "core"),
    settings |-> {r \in Roles : Audit \in permissionsForRoles({r})},
    nkt |-> AnyOf({<<"article", "core">>, <<"bom", "core">>, <<"order", "core">>}),
    production |-> AnyOf({<<"order", "production">>, <<"routing", "norm">>})]
canAccessModule(module, rs) == rs \cap MODULE_PERMISSIONS[module] # {}

(***************************************************************************)
(* Statuses of an order: what the card offers and what the server accepts. *)
(***************************************************************************)
STATE_TRANSITIONS == [
    NEW |-> {"CONFIRMED", "DRAFT", "CANCELLED"}, DRAFT |-> {"CONFIRMED", "CANCELLED"},
    CONFIRMED |-> {"IN_PRODUCTION", "SHIPPED", "CANCELLED"},
    IN_PRODUCTION |-> {"READY_TO_SHIP", "SHIPPED", "CANCELLED"},
    READY_TO_SHIP |-> {"SHIPPED", "CANCELLED"}, SHIPPED |-> {"CLOSED", "CANCELLED"},
    CLOSED |-> {}, CANCELLED |-> {}]
DERIVED_STATUSES == {"IN_PRODUCTION", "READY_TO_SHIP"}
STATUS_TRANSITION_ROLES == [
    CONFIRMED |-> {"sales_manager", "planner", "director", "admin"},
    DRAFT |-> {"sales_manager", "planner", "director", "admin"},
    IN_PRODUCTION |-> {"planner", "admin"}, READY_TO_SHIP |-> {"warehouse_fg", "admin"},
    SHIPPED |-> {"warehouse_fg", "admin"}, CLOSED |-> {"accountant", "admin"},
    CANCELLED |-> {"sales_manager", "director", "admin"}]
\* The server keeps its own copy and asks the route for one of six roles first.
statusTransitionRoles == [
    CONFIRMED |-> {"sales_manager", "planner", "director", "admin"},
    DRAFT |-> {"sales_manager", "planner", "director", "admin"},
    IN_PRODUCTION |-> {"planner", "admin"}, READY_TO_SHIP |-> {"warehouse_fg", "admin"},
    SHIPPED |-> {"warehouse_fg", "admin"}, CLOSED |-> {"accountant", "admin"},
    CANCELLED |-> {"sales_manager", "director", "admin"}]

getAllowedTransitions(status, rs) ==
    {s \in STATE_TRANSITIONS[status] : hasRole(rs, STATUS_TRANSITION_ROLES[s])}
Manual(status) == STATE_TRANSITIONS[status] \ DERIVED_STATUSES
=============================================================================
