----------------------------- MODULE MCWebClient -----------------------------
EXTENDS WebClient

\* The engineer, the director, and an account shared by the office, the plan and the warehouse.
SomeAccounts == {{"engineer"}, {"director"}, {"planner", "accountant", "warehouse_material"}}

\* Drawers open over every page alike; the warehouse, which opens most of them, stands for the others.
SomeHosts == {"Warehouse"}

\* The keys that some button touches or some timer asks.
AllOffers == UNION {Screens[c].offers : c \in DOMAIN Screens}
AllQueries == UNION {Screens[c].reads : c \in DOMAIN Screens}
PriceKeys == {<<"articles">>}
LiveKeys == {q.key : q \in {r \in AllQueries :
    r.polled \/ \E o \in AllOffers : Routes[o.route].alters \cap r.shows # {} \/ Refreshed(r.key, o.refreshes)}}

\* Where the button's own screen keeps what it showed: the calls and the keys nobody refreshes after them.
KnownGaps ==
    ({"AddBomItem", "PutNorm", "PromoteActual"} \X {<<"articles">>, <<"article-gaps">>})
    \cup {<<"AddBomItem", <<"article">>>>, <<"Recalculate", <<"articles">>>>, <<"Recalculate", <<"routing-costing">>>>,
          <<"DecideNomenclature", <<"article-gaps">>>>, <<"DecidePriceReview", <<"price-digest">>>>,
          <<"DecideOverride", <<"reservations-expiring">>>>}

Live == [roles \in SomeAccounts |-> StartsOf(roles, LiveKeys, SomeHosts)]
Priced == [roles \in SomeAccounts |-> StartsOf(roles, PriceKeys, SomeHosts)]

(***************************************************************************)
(* The tables of roles against each other, and the small functions of the  *)
(* screens against what they promise.                                      *)
(***************************************************************************)
\* A button drawn by a list of roles is not drawn for a role the server always refuses.
ASSUME ButtonsAgree == \A o \in AllOffers : o.gate = "roles" => o.offered \subseteq Routes[o.route].roles

\* The client and the server keep one table of who sets which status, and it names every status one can go to.
ASSUME StatusesAgree ==
    /\ STATUS_TRANSITION_ROLES = statusTransitionRoles
    /\ \A s \in DOMAIN STATE_TRANSITIONS : \A r \in Roles : getAllowedTransitions(s, {r}) \subseteq STATE_TRANSITIONS[s]
    /\ UNION {statusTransitionRoles[s] : s \in UNION {Manual(t) : t \in DOMAIN STATE_TRANSITIONS}}
           \subseteq Routes["TransitionStatus"].roles

\* Who writes or approves a group reads it; nobody but the calculation writes a cost; the answer keeps what is read.
ASSUME RightsAreOrdered == \A role \in Roles : \A resource \in DOMAIN FIELD_GROUPS : \A g \in FIELD_GROUPS[resource] :
    /\ can({role}, "write", resource, g) \/ can({role}, "approve", resource, g)
           => g \in projectByPermissions({role}, resource)
    /\ isCalculated(g) => ~can({role}, "write", resource, g)
    /\ assertFieldWriteAllowed({role}, resource, {g}) <=> isCalculated(g) \/ can({role}, "write", resource, g)
    /\ "core" \in PresetsFor(role)

\* Every order with something left to make is in a group of the shop floor, and a finished one in its own only.
Products == [done : BOOLEAN, missingBom : BOOLEAN, missingNorms : BOOLEAN]
ASSUME GroupsCover == \A products \in SUBSET Products : \A overdue \in BOOLEAN :
    /\ products # {} => GroupsOf(products, overdue) # {}
    /\ "done" \in GroupsOf(products, overdue) => GroupsOf(products, overdue) = {"done"}

\* A debt is never negative; an order 1C is silent about is listed and belongs to one slice.
ASSUME DebtsAreShown == \A total \in 0..3 : \A paid \in (0..4) : \A status \in DOMAIN STATE_TRANSITIONS :
    LET order == [total |-> total, paid |-> {paid}, status |-> status]
    IN  /\ DebtOf(order) \subseteq 0..total
        /\ InDebt(order) <=> status # "CANCELLED" /\ paid < total
        /\ total > 0 /\ status # "CANCELLED" => InDebt([order EXCEPT !.paid = {}])
        /\ sliceOf(status) = "shipped" => status \in {"SHIPPED", "CLOSED"}
ASSUME FinishedStageCounts == \A stages \in SUBSET {"WAITING", "IN_PROGRESS", "DONE"} \ {{}} :
    StageStatus(stages) \in stages /\ (StageStatus(stages) = "DONE" <=> "DONE" \in stages)
=============================================================================
