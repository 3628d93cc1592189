-------------------------- MODULE MCCatalogImport --------------------------
(* Two articles, one material and two operations; a sheet of the bank and its  *)
(* next, with one more contract and one more payment.                         *)
EXTENDS CatalogImport

CONSTANTS door, gate, steel, welding, painting

MCBomFile ==
    <<[article |-> door, place |-> <<door, steel, welding>>, qty |-> 2],
      [article |-> door, place |-> <<door, steel, welding>>, qty |-> 3],
      [article |-> gate, place |-> <<gate, steel, welding>>, qty |-> 1]>>
MCNormFile == <<[article |-> door, hours |-> 2], [article |-> gate, hours |-> -1], [article |-> door, hours |-> 0]>>
MCPriceFile == <<[article |-> door, price |-> 5], [article |-> door, price |-> 0],
                 [article |-> gate, price |-> 4]>>
MCNameFile == [a \in Articles |-> IF a = door THEN 3 ELSE 0]
MCSheet == [a \in Articles |-> IF a = gate THEN {"material"} ELSE {}]
MCCreditFiles == {[sheets |-> <<"c1">>, log |-> [d \in {1} |-> 10]],
                  [sheets |-> <<"c1", "c2">>, log |-> [d \in {1, 2} |-> 10]]}
=============================================================================
