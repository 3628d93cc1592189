--------------------------- MODULE MCSupplyImport ---------------------------
(* Two exports, each of one order to a supplier: three receipts of one      *)
(* material, the second at a hundred times the price; two rows of it in     *)
(* stock, and one of another material that only the first export has.       *)
EXTENDS SupplyImport

CONSTANTS doc, later, steel, paint

MCRefPrice == [m \in Materials |-> IF m = steel THEN 33 ELSE 20]
RowOf(i, q, p) == [item |-> i, day |-> 0, qty |-> q, price |-> p]
LineOf(d, i, q, p) == [doc |-> d, item |-> i, qty |-> q, price |-> p]
Only(d, n) == [x \in {d} |-> n]

MCRecognised == {{steel}, Materials}

MCExports ==
    {[total |-> Only(doc, 5), paid |-> Only(doc, 2), date |-> Only(doc, 1),
      lines |-> <<LineOf(doc, steel, 1, 33), LineOf(doc, steel, 1, 3300),
                  LineOf(doc, steel, 1, 33)>>,
      stock |-> <<RowOf(steel, 600, 33), RowOf(steel, 400, 34), RowOf(paint, 500, 200)>>],
     [total |-> Only(later, 700), paid |-> Only(later, 700), date |-> Only(later, 2),
      lines |-> <<LineOf(later, steel, 1, 33), LineOf(later, paint, 0, 20)>>,
      stock |-> <<RowOf(steel, 1500, 33)>>]}
=============================================================================
