-------------------------------- MODULE Scans --------------------------------
(* Barcodes of one storage (internal/store/barcodes.go, internal/httpapi/barcodes.go):
   the codes that name its products, the catalogue's hints, and the scans that add
   and remove stock.

   A scan resolves its code, plans which lots to take from and adjusts them one by
   one in a transaction; each adjustment locks its lot and reads it again.
   Malformed codes, names, the scan counters and the photo decoder are left out. *)
EXTENDS Integers, Sequences, FiniteSets, FiniteSetsExt

CONSTANTS
    Code, Item,
    Lot,            \* ids of batches: naturals, in the order default decrements take them
    Card,           \* rows of catalog_products
    Scanner,        \* requests being served
    Reader,         \* users who are prompted
    FirstItems,     \* products there are to begin with, and the catalogue row of each
    FirstLots,      \* lots there are to begin with: owner and units
    Quantity,       \* quantities that are scanned
    MaxScans, MaxEdits,
    Nobody          \* no row; NULL

ASSUME ScansAssumption ==
    /\ IsFiniteSet(Lot) /\ Lot \subseteq Nat /\ Quantity \subseteq Nat
    /\ Nobody \notin Nat /\ Nobody \notin Item
    /\ DOMAIN FirstItems \subseteq Item
    /\ \A p \in DOMAIN FirstItems : FirstItems[p] \in Card \cup {Nobody}
    /\ DOMAIN FirstLots \subseteq Lot
    /\ \A l \in DOMAIN FirstLots : FirstLots[l] \in [owner : DOMAIN FirstItems, units : Nat]

VARIABLES
    card,           \* catalog_id of every product there is
    names,          \* product_barcodes
    hint,           \* catalog_barcodes
    lot,            \* inventory_batches
    scan,
    prompt,         \* barcode_prompt_enabled, barcode_prompt_seen_at; how often it was a first time
    added, taken, discarded,    \* history: units by committed scans, and lost with a product
    scans, edits    \* history: requests begun

scanVars == <<card, names, hint, lot, scan, prompt, added, taken, discarded, scans, edits>>

NoLot == [owner |-> Nobody, units |-> 0]
NoScan == [phase |-> "idle", code |-> Nobody, card |-> Nobody, item |-> Nobody, quantity |-> 0,
           plan |-> <<>>, left |-> [l \in Lot |-> Nobody]]

ScansInit ==
    /\ card = FirstItems
    /\ names = [c \in Code |-> Nobody]
    /\ hint = [c \in Code |-> Nobody]
    /\ lot = [l \in Lot |-> IF l \in DOMAIN FirstLots THEN FirstLots[l] ELSE NoLot]
    /\ scan = [s \in Scanner |-> NoScan]
    /\ prompt = [u \in Reader |-> [enabled |-> TRUE, seen |-> FALSE, first |-> 0]]
    /\ added = 0 /\ taken = 0 /\ discarded = 0
    /\ scans = 0 /\ edits = 0

Items == DOMAIN card
LotsOf(p) == {l \in Lot : lot[l].owner = p}
Units(ls) == MapThenSumSet(LAMBDA l : lot[l].units, ls)
Held(l) == {s \in Scanner : scan[s].left[l] # Nobody}

\* Seeded fault: a product's codes outlive it.
BugForget(f, p) == f

Forget(f, p) == [c \in DOMAIN f |-> IF f[c] = p THEN Nobody ELSE f[c]]

\* An id is never given out again, so not while a request still names it.
Unnamed(p) == \A s \in Scanner : scan[s].item # p
Unplanned(l) == Held(l) = {} /\ \A s \in Scanner : \A i \in DOMAIN scan[s].plan : scan[s].plan[i].lot # l

books == <<added, taken, discarded>>

-----------------------------------------------------------------------------
(* Codes *)

\* The storage's own code must be free; the catalogue's belongs to whoever came
\* first, and only a product that has a catalogue row contributes one.
AssociateBarcode(p, c) ==
    /\ p \in Items /\ names[c] = Nobody /\ edits < MaxEdits
    /\ names' = [names EXCEPT ![c] = p]
    /\ hint' = [hint EXCEPT ![c] = IF @ = Nobody THEN card[p] ELSE @]
    /\ edits' = edits + 1
    /\ UNCHANGED <<card, lot, scan, prompt, books, scans>>

DeleteProductBarcode(p, c) ==
    /\ names[c] = p /\ p \in Items
    /\ names' = [names EXCEPT ![c] = Nobody]
    /\ UNCHANGED <<card, hint, lot, scan, prompt, books, scans, edits>>

DeleteCatalogBarcode(c) ==
    /\ hint[c] # Nobody
    /\ hint' = [hint EXCEPT ![c] = Nobody]
    /\ UNCHANGED <<card, names, lot, scan, prompt, books, scans, edits>>

\* mergeProducts as far as codes and lots go: it waits for lots being adjusted.  A
\* code of both cannot be, so every code of the source moves.
MergeItems(survivor, source) ==
    /\ {survivor, source} \subseteq Items /\ survivor # source /\ edits < MaxEdits
    /\ \A l \in LotsOf(source) : Held(l) = {}
    /\ card' = [p \in Items \ {source} |-> card[p]]
    /\ names' = [c \in Code |-> IF names[c] = source THEN survivor ELSE names[c]]
    /\ lot' = [l \in Lot |-> IF l \in LotsOf(source) THEN [lot[l] EXCEPT !.owner = survivor] ELSE lot[l]]
    /\ edits' = edits + 1
    /\ UNCHANGED <<hint, scan, prompt, books, scans>>

\* A product's codes and lots go with it.
DeleteItem(p) ==
    /\ p \in Items /\ edits < MaxEdits
    /\ \A l \in LotsOf(p) : Held(l) = {}
    /\ card' = [q \in Items \ {p} |-> card[q]]
    /\ names' = Forget(names, p)
    /\ lot' = [l \in Lot |-> IF l \in LotsOf(p) THEN NoLot ELSE lot[l]]
    /\ discarded' = discarded + Units(LotsOf(p))
    /\ edits' = edits + 1
    /\ UNCHANGED <<hint, scan, prompt, added, taken, scans>>

-----------------------------------------------------------------------------
(* Requests of more than one statement *)

FreshScanner(s) == scan[s].phase = "idle" /\ s = CHOOSE t \in Scanner : scan[t].phase = "idle"

BeginScan(s, c, r) ==
    /\ FreshScanner(s) /\ scans < MaxScans
    /\ scan' = [scan EXCEPT ![s] = r]
    /\ scans' = scans + 1
    /\ UNCHANGED <<card, names, hint, lot, prompt, books, edits>>

\* CreateProductFromBarcodeHint, up to its writes: the code is free here and the
\* catalogue knows it.
AcceptCatalog(s, c) ==
    /\ names[c] = Nobody /\ hint[c] # Nobody
    /\ BeginScan(s, c, [NoScan EXCEPT !.phase = "accept", !.code = c, !.card = hint[c]])

\* The product and its code, unless the code was taken meanwhile: the insert fails
\* and takes the product with it (RefuseScan).
CreateProductFromBarcodeHint(s, p) ==
    LET c == scan[s].code
    IN  /\ scan[s].phase = "accept" /\ p \notin Items /\ Unnamed(p)
        /\ names[c] = Nobody
        /\ card' = [q \in Items \cup {p} |-> IF q = p THEN scan[s].card ELSE card[q]]
        /\ names' = [names EXCEPT ![c] = p]
        /\ scan' = [scan EXCEPT ![s] = NoScan]
        /\ UNCHANGED <<hint, lot, prompt, books, scans, edits>>

\* LogBarcode resolves a code among the storage's own only.
LogBarcode(s, c, direction, q) ==
    /\ names[c] # Nobody
    /\ BeginScan(s, c, [NoScan EXCEPT !.phase = direction, !.code = c, !.item = names[c], !.quantity = q])

\* "in": createBatch, while the product is still there.
StockUp(s, l) ==
    /\ scan[s].phase = "in" /\ scan[s].item \in Items
    /\ lot[l] = NoLot /\ Unplanned(l)
    /\ lot' = [lot EXCEPT ![l] = [owner |-> scan[s].item, units |-> scan[s].quantity]]
    /\ added' = added + scan[s].quantity
    /\ scan' = [scan EXCEPT ![s] = NoScan]
    /\ UNCHANGED <<card, names, hint, prompt, taken, discarded, scans, edits>>

\* Oldest first, an emptied lot spilling over into the next: the one way to put the
\* lots that are touched into their order.
DefaultDecrements(p, q) ==
    LET Before(l) == Units({k \in LotsOf(p) : k < l})
        Take(l) == Min({lot[l].units, q - Before(l)})
        Touched == {l \in LotsOf(p) : Take(l) > 0}
        N == 1..Cardinality(Touched)
    IN  {[i \in N |-> [lot |-> o[i], units |-> Take(o[i])]] :
            o \in {f \in [N -> Touched] : \A i, j \in N : i < j => f[i] < f[j]}}

\* Lots a client may name: what its page showed, which need not be so any more.
ChosenDecrements(q) ==
    {<<[lot |-> l, units |-> q]>> : l \in Lot}
        \cup UNION {{<<[lot |-> l, units |-> q - 1], [lot |-> k, units |-> 1]>> : k \in Lot} : l \in Lot}

PlanTotal(plan) == MapThenSumSet(LAMBDA i : plan[i].units, DOMAIN plan)

PlanDecrements(s, plan) ==
    /\ scan[s].phase = "out"
    /\ plan \in DefaultDecrements(scan[s].item, scan[s].quantity) \cup ChosenDecrements(scan[s].quantity)
    /\ PlanTotal(plan) = scan[s].quantity
    /\ \A i \in DOMAIN plan : plan[i].units >= 1
    /\ scan' = [scan EXCEPT ![s].phase = "take", ![s].plan = plan]
    /\ UNCHANGED <<card, names, hint, lot, prompt, books, scans, edits>>

\* Seeded fault: the lot is read without its lock.
BugNoRowLock(s, l) == TRUE

LockLot(s, l) == Held(l) \subseteq {s}

\* The next decrement: the lot is still there, still the product's, and has enough.
AdjustBatch(s) ==
    LET d == Head(scan[s].plan)
        units == IF scan[s].left[d.lot] # Nobody THEN scan[s].left[d.lot] ELSE lot[d.lot].units
    IN  /\ scan[s].phase = "take" /\ scan[s].plan # <<>>
        /\ lot[d.lot].owner = scan[s].item
        /\ LockLot(s, d.lot)
        /\ units >= d.units
        /\ scan' = [scan EXCEPT ![s].plan = Tail(@), ![s].left[d.lot] = units - d.units]
        /\ UNCHANGED <<card, names, hint, lot, prompt, books, scans, edits>>

\* An emptied lot is deleted.
CommitScan(s) ==
    /\ scan[s].phase = "take" /\ scan[s].plan = <<>>
    /\ lot' = [l \in Lot |-> IF scan[s].left[l] = Nobody THEN lot[l]
                             ELSE IF scan[s].left[l] = 0 THEN NoLot
                             ELSE [lot[l] EXCEPT !.units = scan[s].left[l]]]
    /\ taken' = taken + scan[s].quantity
    /\ scan' = [scan EXCEPT ![s] = NoScan]
    /\ UNCHANGED <<card, names, hint, prompt, added, discarded, scans, edits>>

\* Any refusal or error rolls the whole request back.
RefuseScan(s) ==
    /\ scan[s].phase # "idle"
    /\ scan' = [scan EXCEPT ![s] = NoScan]
    /\ UNCHANGED <<card, names, hint, lot, prompt, books, scans, edits>>

-----------------------------------------------------------------------------
(* The explanation a user is shown the first time *)

MarkBarcodePromptShown(u) ==
    /\ prompt' = [prompt EXCEPT ![u] = IF @.enabled /\ ~@.seen
                    THEN [enabled |-> TRUE, seen |-> TRUE, first |-> @.first + 1] ELSE @]
    /\ UNCHANGED <<card, names, hint, lot, scan, books, scans, edits>>

SetBarcodePromptEnabled(u, on) ==
    /\ prompt' = [prompt EXCEPT ![u].enabled = on]
    /\ UNCHANGED <<card, names, hint, lot, scan, books, scans, edits>>

PromptNext ==
    \/ \E u \in Reader : MarkBarcodePromptShown(u)
    \/ \E u \in Reader, on \in BOOLEAN : SetBarcodePromptEnabled(u, on)

ScansNext ==
    \/ \E p \in Item, c \in Code : AssociateBarcode(p, c) \/ DeleteProductBarcode(p, c)
    \/ \E c \in Code : DeleteCatalogBarcode(c)
    \/ \E p, q \in Item : MergeItems(p, q)
    \/ \E p \in Item : DeleteItem(p)
    \/ \E s \in Scanner, c \in Code : AcceptCatalog(s, c)
    \/ \E s \in Scanner, p \in Item : CreateProductFromBarcodeHint(s, p)
    \/ \E s \in Scanner, c \in Code, d \in {"in", "out"}, q \in Quantity : LogBarcode(s, c, d, q)
    \/ \E s \in Scanner, l \in Lot : StockUp(s, l)
    \/ \E s \in Scanner : \E plan \in DefaultDecrements(scan[s].item, scan[s].quantity)
                                        \cup ChosenDecrements(scan[s].quantity) : PlanDecrements(s, plan)
    \/ \E s \in Scanner : AdjustBatch(s) \/ CommitScan(s) \/ RefuseScan(s)

ScansSpec == ScansInit /\ [][ScansNext \/ PromptNext]_scanVars

-----------------------------------------------------------------------------
ScansTypeOK ==
    /\ Items \subseteq Item /\ \A p \in Items : card[p] \in Card \cup {Nobody}
    /\ names \in [Code -> Item \cup {Nobody}]
    /\ hint \in [Code -> Card \cup {Nobody}]
    /\ lot \in [Lot -> [owner : Item \cup {Nobody}, units : Nat]]
    /\ \A l \in Lot : lot[l].owner = Nobody \/ lot[l].owner \in Items
    /\ \A c \in Code : names[c] = Nobody \/ names[c] \in Items

(* What is on the shelf is what was there, plus what was scanned in, less exactly
   the quantities of the scans that were answered with success, less what went with
   a deleted product, however scans of one lot, merges and deletions interleave
   (LogBarcode, defaultDecrements, adjustBatch); and nobody is told twice that a
   prompt is the first (MarkBarcodePromptShown). *)
ScansCountOnce ==
    /\ Units(Lot) = MapThenSumSet(LAMBDA l : FirstLots[l].units, DOMAIN FirstLots)
                      + added - taken - discarded
    /\ \A u \in Reader : prompt[u].first <= 1

=============================================================================
