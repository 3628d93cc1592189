--------------------------- MODULE MCOrderImport ---------------------------
(* Two orders of one customer under one number, a year apart; the second     *)
(* spells the customer differently.  Their acts name no order and, like      *)
(* their releases, are told by that one number.  A row of the first has no   *)
(* quantity.                                                                 *)
EXTENDS OrderImport

CONSTANTS d1, d2, na, nb, org

MCNumber == [d \in Docs |-> "n"]
MCYear   == [d \in Docs |-> IF d = d1 THEN 1 ELSE 2]
MCDay    == [d \in Docs |-> IF d = d1 THEN 1 ELSE 5]
MCRow    == [d \in Docs |-> IF d = d1 THEN 1 ELSE 2]
MCPayDay == [d \in Docs |-> IF d = d1 THEN 4 ELSE 6]
MCAmount == [d \in Docs |-> IF d = d1 THEN 3 ELSE 7]
MCCopies == [d \in Docs |-> 1]
MCPrinted == [d \in Docs |-> IF d = d1 THEN 2 ELSE 1]
MCClient == [d \in Docs |-> IF d = d1 THEN na ELSE nb]
MCOrg    == [n \in {na, nb} |-> org]
MCAct    == [d \in Docs |-> "n"]
============================================================================
