-------------------------------- MODULE Stock --------------------------------
(* The stock of the storages: inventory_batches, containers and the
   inventory_logs ledger, as internal/store/batches.go, containers.go,
   stocktake.go, ingestion.go, consumption.go, products.go and locations.go
   write them.

   One action is one transaction: each locks the batch rows it reads and keeps
   them locked until it commits.  Ids are minted by the application, so an
   element of Product, Batch, Location or Container is a row that does not exist
   yet, exists, or existed.  Names, dates and scores are left out.

   The ledger is kept as sums of change_qty: ledger[p][b] over the rows with
   product_id p written for batch b, moves[p][b] over those of reason 'move'.
   Rows whose batch_id the delete of b set to NULL still count under b. *)
EXTENDS Integers, FiniteSets, FiniteSetsExt

CONSTANTS
    Storage, Product, Batch, Location, Container,
    StorageOf,      \* storage_id of every product, location and container
    None,           \* a NULL column
    MaxQty,         \* bound: maxBatchQuantity
    MaxRows         \* bound: new batches of one confirm (maxIngestRows)

ASSUME StockAssumption ==
    /\ MaxQty \in Nat \ {0}
    /\ MaxRows \in Nat
    /\ IsFiniteSet(Batch)
    /\ None \notin Product \cup Location \cup Container
    /\ StorageOf \in [Product \cup Location \cup Container -> Storage]

VARIABLES
    product, location, container,   \* the life of each row
    batch,                          \* inventory_batches
    ledger, moves                   \* inventory_logs

vars == <<product, location, container, batch, ledger, moves>>

Qty == 0..MaxQty

BatchRow == [state : {"fresh", "held", "gone"},
             product : Product \cup {None},
             location : Location \cup {None},
             qty : Qty,
             container : Container \cup {None}]

\* The columns a caller of createBatch supplies.
NewBatch == [product : Product, location : Location, qty : 1..MaxQty,
             container : Container \cup {None}]

Live(rows, s) == {x \in DOMAIN rows : rows[x] = "live" /\ StorageOf[x] = s}
Unused(rows, s) == {x \in DOMAIN rows : rows[x] = "fresh" /\ StorageOf[x] = s}
FreshBatches == {b \in Batch : batch[b].state = "fresh"}

\* Joining products is how a batch id is resolved against the URL's storage.
BatchesOf(s) ==
    {b \in Batch : batch[b].state = "held" /\ StorageOf[batch[b].product] = s}
BatchesAt(l) == {b \in Batch : batch[b].state = "held" /\ batch[b].location = l}

Init ==
    /\ product = [p \in Product |-> "fresh"]
    /\ location = [l \in Location |-> "fresh"]
    /\ container = [c \in Container |-> "fresh"]
    /\ batch = [b \in Batch |-> [state |-> "fresh", product |-> None, location |-> None,
                                 qty |-> 0, container |-> None]]
    /\ ledger = [p \in Product |-> [b \in Batch |-> 0]]
    /\ moves = [p \in Product |-> [b \in Batch |-> 0]]

-----------------------------------------------------------------------------
(* Statements the transactions share *)

Row(p, l, q, c) ==
    [state |-> "held", product |-> p, location |-> l, qty |-> q, container |-> c]

Deleted == [state |-> "gone", product |-> None, location |-> None,
            qty |-> 0, container |-> None]

\* adjustBatch: a batch that reaches zero is deleted in the same transaction.
Adjusted(r, q) ==
    IF q = 0 THEN Deleted ELSE Row(r.product, r.location, q, r.container)

\* writeLog, for a set of rows at once: for[b] is charged with change[b].
WriteLog(book, for, change) ==
    [p \in Product |-> [b \in Batch |->
        book[p][b] + IF for[b] = p THEN change[b] ELSE 0]]

\* The product each batch of B belongs to.
OwnersOf(B) == [b \in Batch |-> IF b \in B THEN batch[b].product ELSE None]

\* Seeded fault: the shelf is looked up without its storage.
BugForeignShelf(new, s, products, locations) ==
    /\ DOMAIN new \subseteq FreshBatches
    /\ \A b \in DOMAIN new :
        /\ new[b].product \in products
        /\ location[new[b].location] = "live"
        /\ new[b].container \in Unused(container, s) \cup {None}
    /\ \A b, d \in DOMAIN new : new[b].container = new[d].container
                                    => b = d \/ new[b].container = None

\* createBatch's checks: the product and the shelf are this storage's, and a
\* labelled batch gets a container of its own.
CanCreate(new, s, products, locations) ==
    /\ DOMAIN new \subseteq FreshBatches
    /\ \A b \in DOMAIN new :
        /\ new[b].product \in products
        /\ new[b].location \in locations
        /\ new[b].container \in Unused(container, s) \cup {None}
    /\ \A b, d \in DOMAIN new : new[b].container = new[d].container
                                    => b = d \/ new[b].container = None

Inserted(tbl, new) ==
    [b \in Batch |-> IF b \in DOMAIN new
        THEN Row(new[b].product, new[b].location, new[b].qty, new[b].container)
        ELSE tbl[b]]

Minted(new) ==
    [c \in Container |-> IF \E b \in DOMAIN new : new[b].container = c
                           THEN "live" ELSE container[c]]

NewOwners(new) == [b \in Batch |-> IF b \in DOMAIN new THEN new[b].product ELSE None]
NewQuantities(new) == [b \in Batch |-> IF b \in DOMAIN new THEN new[b].qty ELSE 0]

Appear(rows, used) == [x \in DOMAIN rows |-> IF x \in used THEN "live" ELSE rows[x]]

-----------------------------------------------------------------------------
(* Products and locations *)

CreateProduct(s) ==
    /\ \E p \in Unused(product, s) : product' = Appear(product, {p})
    /\ UNCHANGED <<location, container, batch, ledger, moves>>

CreateLocation(s) ==
    /\ \E l \in Unused(location, s) : location' = Appear(location, {l})
    /\ UNCHANGED <<product, container, batch, ledger, moves>>

\* Seeded fault: a shelf goes whatever it holds.
BugDeleteHeldLocation(s) ==
    /\ \E D \in SUBSET Live(location, s) :
        /\ D # {}
        /\ location' = [l \in Location |-> IF l \in D THEN "gone" ELSE location[l]]
    /\ UNCHANGED <<product, container, batch, ledger, moves>>

\* A node and its descendants go; refused while any of them holds a batch.
DeleteLocation(s) ==
    /\ \E D \in SUBSET Live(location, s) :
        /\ D # {}
        /\ \A l \in D : BatchesAt(l) = {}
        /\ location' = [l \in Location |-> IF l \in D THEN "gone" ELSE location[l]]
    /\ UNCHANGED <<product, container, batch, ledger, moves>>

\* ON DELETE CASCADE takes the product's batches and its log rows.
DeleteProduct(s) ==
    /\ \E p \in Live(product, s) :
        /\ product' = [product EXCEPT ![p] = "gone"]
        /\ batch' = [b \in Batch |-> IF batch[b].product = p THEN Deleted ELSE batch[b]]
        /\ ledger' = [x \in Product |-> IF x = p THEN [b \in Batch |-> 0] ELSE ledger[x]]
        /\ moves' = [x \in Product |-> IF x = p THEN [b \in Batch |-> 0] ELSE moves[x]]
    /\ UNCHANGED <<location, container>>

\* UPDATE inventory_logs SET product_id = survivor WHERE product_id = source.
Repointed(book, survivor, source) ==
    [p \in Product |-> [b \in Batch |->
        CASE p = survivor -> book[survivor][b] + book[source][b]
          [] p = source -> 0
          [] OTHER -> book[p][b]]]

\* Seeded fault: the batches are re-pointed, the history is left to the cascade.
BugMergeDropsHistory(s) ==
    /\ \E survivor, source \in Live(product, s) :
        /\ survivor # source
        /\ product' = [product EXCEPT ![source] = "gone"]
        /\ batch' = [b \in Batch |-> IF batch[b].product = source
                        THEN Row(survivor, batch[b].location, batch[b].qty, batch[b].container)
                        ELSE batch[b]]
        /\ ledger' = [ledger EXCEPT ![source] = [b \in Batch |-> 0]]
        /\ moves' = [moves EXCEPT ![source] = [b \in Batch |-> 0]]
    /\ UNCHANGED <<location, container>>

MergeProducts(s) ==
    /\ \E survivor, source \in Live(product, s) :
        /\ survivor # source
        /\ product' = [product EXCEPT ![source] = "gone"]
        /\ batch' = [b \in Batch |-> IF batch[b].product = source
                        THEN Row(survivor, batch[b].location, batch[b].qty, batch[b].container)
                        ELSE batch[b]]
        /\ ledger' = Repointed(ledger, survivor, source)
        /\ moves' = Repointed(moves, survivor, source)
    /\ UNCHANGED <<location, container>>

-----------------------------------------------------------------------------
(* New stock *)

\* A confirmed proposal: one batch per accepted row, with the products and the
\* shelves the reviewer added, in one transaction.  Each exists because a row
\* uses it; two rows may share one.
ConfirmIngestion(s) ==
    /\ \E B \in SUBSET FreshBatches : \E new \in [B -> NewBatch] :
        /\ B # {} /\ Cardinality(B) <= MaxRows
        /\ CanCreate(new, s, Live(product, s) \cup Unused(product, s),
                             Live(location, s) \cup Unused(location, s))
        /\ product' = Appear(product, {new[b].product : b \in B})
        /\ location' = Appear(location, {new[b].location : b \in B})
        /\ container' = Minted(new)
        /\ batch' = Inserted(batch, new)
        /\ ledger' = WriteLog(ledger, NewOwners(new), NewQuantities(new))
    /\ UNCHANGED <<moves>>

\* Manual batch creation: the product and the shelf must exist.
CreateBatch(s) ==
    /\ \E b \in FreshBatches : \E new \in [{b} -> NewBatch] :
        /\ CanCreate(new, s, Live(product, s), Live(location, s))
        /\ container' = Minted(new)
        /\ batch' = Inserted(batch, new)
        /\ ledger' = WriteLog(ledger, NewOwners(new), NewQuantities(new))
    /\ UNCHANGED <<product, location, moves>>

-----------------------------------------------------------------------------
(* Stock that leaves, moves or is corrected *)

\* Seeded fault: the decrement is not held against what the batch holds.
BugCovers(r, n) == TRUE

\* A decrement below zero is refused, not clamped.
Covers(r, n) == n <= r.qty

\* A confirmed consumption: take[b] is what its decrements remove from b in all.
ConfirmConsumption(s) ==
    /\ \E B \in SUBSET BatchesOf(s) : \E take \in [B -> 1..MaxQty] :
        /\ B # {}
        /\ \A b \in B : Covers(batch[b], take[b])
        /\ batch' = [b \in Batch |-> IF b \in B THEN Adjusted(batch[b], batch[b].qty - take[b])
                                                ELSE batch[b]]
        /\ ledger' = WriteLog(ledger, OwnersOf(B),
                              [b \in Batch |-> IF b \in B THEN 0 - take[b] ELSE 0])
    /\ UNCHANGED <<product, location, container, moves>>

\* What a split does with the container, given the container c of the source.
KeptBySource(d) == d \in {"source", "both"}
GivenToTarget(d) == d \in {"target", "both"}
Dispositions == {"source", "target", "both", "neither", "destroy"}

\* Seeded fault: the container is cleared off a batch that is alone in it.
BugClearedIfAlone(tbl, c) ==
    LET in == {b \in Batch : tbl[b].state = "held" /\ tbl[b].container = c}
    IN  [b \in Batch |-> IF in = {b}
            THEN Row(tbl[b].product, tbl[b].location, tbl[b].qty, None)
            ELSE tbl[b]]

\* destroyContainer clears the container off every batch that refers to it.
Cleared(tbl, c) ==
    [b \in Batch |-> IF tbl[b].state = "held" /\ tbl[b].container = c
        THEN Row(tbl[b].product, tbl[b].location, tbl[b].qty, None)
        ELSE tbl[b]]

Destroyed(c) == [container EXCEPT ![c] = "destroyed"]

\* Seeded fault: the row of the split-off half is not written.
BugMoveRows(b, t, n) == [x \in Batch |-> IF x = b THEN 0 - n ELSE 0]

\* The two 'move' rows of a split.
MoveRows(b, t, n) == [x \in Batch |-> CASE x = b -> 0 - n [] x = t -> n [] OTHER -> 0]

\* The source is debited and its side of the disposition runs first, then the
\* target row is inserted with what the disposition leaves it.
SplitBatch(s) ==
    /\ \E b \in BatchesOf(s), t \in FreshBatches, l \in Live(location, s), d \in Dispositions :
       \E n \in 1..(batch[b].qty - 1) :
        LET r == batch[b]
            c == r.container
            debited == [batch EXCEPT ![b] =
                Row(r.product, r.location, r.qty - n, IF KeptBySource(d) THEN c ELSE None)]
            swept == IF d = "destroy" /\ c # None THEN Cleared(debited, c) ELSE debited
        IN /\ d = "destroy" /\ c # None => c \in Live(container, s)
           /\ batch' = [swept EXCEPT ![t] =
                Row(r.product, l, n, IF GivenToTarget(d) THEN c ELSE None)]
           /\ container' = IF d = "destroy" /\ c # None THEN Destroyed(c) ELSE container
           /\ moves' = WriteLog(moves, [x \in Batch |-> r.product], MoveRows(b, t, n))
    /\ UNCHANGED <<product, location, ledger>>

\* DestroyContainer is not idempotent: a destroyed container is not found.
DestroyContainer(s) ==
    /\ \E c \in Live(container, s) :
        /\ container' = Destroyed(c)
        /\ batch' = Cleared(batch, c)
    /\ UNCHANGED <<product, location, ledger, moves>>

\* What a patch may say; None is "leave this alone", for the label too.
Patch(s) == [qty : Qty \cup {None},
             location : Live(location, s) \cup {None},
             label : {"set", "clear", None},
             type : BOOLEAN]

Labelled(r, patch, fresh) ==
    CASE patch.label = "clear" -> None
      [] patch.label = "set" /\ r.container = None -> fresh
      [] OTHER -> r.container

\* UpdateBatch: quantity, container label, container type, move, in one
\* transaction; a batch set to zero is deleted and takes no other change.  The
\* two 'move' rows of a whole-batch move cancel within the batch.
UpdateBatch(s) ==
    /\ \E b \in BatchesOf(s), patch \in Patch(s), fresh \in Unused(container, s) \cup {None} :
        LET r == batch[b]
            c == Labelled(r, patch, fresh)
            q == IF patch.qty = None THEN r.qty ELSE patch.qty
            l == IF patch.location = None THEN r.location ELSE patch.location
        IN /\ patch # [qty |-> None, location |-> None, label |-> None, type |-> FALSE]
           /\ q = 0 => patch.location = None /\ patch.label = None /\ ~patch.type
           /\ (fresh = None) <=> ~(patch.label = "set" /\ r.container = None)
           /\ patch.type => c # None
           /\ batch' = [batch EXCEPT ![b] = Adjusted(Row(r.product, l, r.qty, c), q)]
           /\ container' = [x \in Container |-> IF x = fresh THEN "live" ELSE container[x]]
           /\ ledger' = WriteLog(ledger, OwnersOf({b}), [x \in Batch |-> q - r.qty])
    /\ UNCHANGED <<product, location, moves>>

-----------------------------------------------------------------------------
(* The stocktake *)

\* matchBatchIDs: the counts name exactly the batches the shelf holds now.
MatchBatchIDs(l, counted) == counted = BatchesAt(l)

\* A count for every batch of the shelf, and new batches for what was found.
ConfirmStocktake(s, l, counted) ==
    /\ l \in Live(location, s)
    /\ MatchBatchIDs(l, counted)
    /\ \E count \in [counted -> Qty], B \in SUBSET FreshBatches : \E found \in [B -> NewBatch] :
        /\ Cardinality(B) <= MaxRows
        /\ CanCreate(found, s, Live(product, s), {l})
        /\ \A b \in B : found[b].container = None
        /\ batch' = Inserted([b \in Batch |-> IF b \in counted THEN Adjusted(batch[b], count[b])
                                                               ELSE batch[b]], found)
        /\ ledger' = WriteLog(WriteLog(ledger, OwnersOf(counted),
                        [b \in Batch |-> IF b \in counted THEN count[b] - batch[b].qty ELSE 0]),
                        NewOwners(found), NewQuantities(found))
    /\ UNCHANGED <<product, location, container, moves>>

Next ==
    \E s \in Storage :
        \/ CreateProduct(s)
        \/ CreateLocation(s)
        \/ DeleteLocation(s)
        \/ DeleteProduct(s)
        \/ MergeProducts(s)
        \/ ConfirmIngestion(s)
        \/ CreateBatch(s)
        \/ ConfirmConsumption(s)
        \/ SplitBatch(s)
        \/ DestroyContainer(s)
        \/ UpdateBatch(s)
        \/ \E l \in Location, counted \in SUBSET Batch : ConfirmStocktake(s, l, counted)

Spec == Init /\ [][Next]_vars

-----------------------------------------------------------------------------
(* Properties *)

TypeOK ==
    /\ product \in [Product -> {"fresh", "live", "gone"}]
    /\ location \in [Location -> {"fresh", "live", "gone"}]
    /\ container \in [Container -> {"fresh", "live", "destroyed"}]
    /\ batch \in [Batch -> BatchRow]
    /\ ledger \in [Product -> [Batch -> Int]]
    /\ moves \in [Product -> [Batch -> Int]]

(* The ledger explains the shelf: the log rows of every batch add up to its
   quantity under the product it belongs to, and to nothing under any other
   product or once the batch is gone, whatever splits, merges, counts and
   confirms it went through (docs/specs/02-data-model.md, writeLog). *)
LedgerExplainsStock ==
    \A p \in Product, b \in Batch :
        ledger[p][b] + moves[p][b] = IF batch[b].product = p THEN batch[b].qty ELSE 0

(* Moving stock neither makes nor loses any: the 'move' rows of a product sum to
   zero over all its batches, emptied ones included (SplitBatch, moveBatch). *)
MovesBalance ==
    \A p \in Product : MapThenSumSet(LAMBDA b : moves[p][b], Batch) = 0

(* Every batch on a shelf is a positive quantity of an existing product on an
   existing shelf (delete-on-zero, the refusal of DeleteLocation, cascades). *)
StockIsSomewhere ==
    \A b \in Batch :
        IF batch[b].state = "held"
          THEN /\ batch[b].qty > 0
               /\ batch[b].product \in Product /\ product[batch[b].product] = "live"
               /\ batch[b].location \in Location /\ location[batch[b].location] = "live"
          ELSE batch[b].product = None /\ batch[b].qty = 0

(* No stock crosses a storage: a batch's product, shelf and container belong to
   one storage, which the foreign keys cannot express (requireSameStorage). *)
OneStorage ==
    \A b \in Batch : batch[b].state = "held" =>
        \A x \in {batch[b].location, batch[b].container} \ {None} :
            StorageOf[x] = StorageOf[batch[b].product]

(* No batch is held in a container that was destroyed or never made: destroying
   clears it off every batch, also after a split left two in it. *)
ContainersExist ==
    \A b \in Batch : batch[b].container # None =>
        container[batch[b].container] = "live"

=============================================================================
