------------------------------ MODULE Stocktake ------------------------------
(* A member walks a shelf with the sheet LocationStocktake returned and confirms
   the counts later, while the rest of the household keeps using the stock.  The
   sheet is the client's: ConfirmStocktake is sent its batch ids and the counted
   quantities, and never the quantities the sheet listed. *)
EXTENDS Stock

VARIABLE sheet      \* the shelf and what it held when it was read

Sheet == [at : Location \cup {None}, qty : [Batch -> Qty]]

OnSheet == {b \in Batch : sheet.qty[b] > 0}

NoSheet == [at |-> None, qty |-> [b \in Batch |-> 0]]

WalkInit == Init /\ sheet = NoSheet

LocationStocktake(s) ==
    /\ \E l \in Live(location, s) :
        sheet' = [at |-> l, qty |-> [b \in Batch |-> IF b \in BatchesAt(l) THEN batch[b].qty ELSE 0]]
    /\ UNCHANGED vars

\* The confirm of the walked sheet, which ends the walk.
Confirm(s) == ConfirmStocktake(s, sheet.at, OnSheet) /\ sheet' = NoSheet

\* The other members, and the same one on another page.
Meanwhile(s) ==
    /\ \/ CreateProduct(s) \/ CreateLocation(s) \/ DeleteLocation(s)
       \/ DeleteProduct(s) \/ MergeProducts(s) \/ ConfirmIngestion(s)
       \/ CreateBatch(s) \/ ConfirmConsumption(s) \/ SplitBatch(s)
       \/ DestroyContainer(s) \/ UpdateBatch(s)
    /\ UNCHANGED sheet

WalkNext == \E s \in Storage : LocationStocktake(s) \/ Confirm(s) \/ Meanwhile(s)

WalkSpec == WalkInit /\ [][WalkNext]_<<vars, sheet>>

(* A confirmed stocktake overwrites no change its member could not have seen: at
   the confirm, every batch of the shelf still holds what the sheet listed
   (docs/specs/13-stocktake-and-audit.md: a shelf changed since the sheet was
   fetched is refused). *)
ShelfAsOnTheSheet ==
    [][\A s \in Storage : Confirm(s) =>
            \A b \in BatchesAt(sheet.at) : batch[b].qty = sheet.qty[b]]_<<vars, sheet>>

=============================================================================
