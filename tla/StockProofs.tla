----------------------------- MODULE StockProofs -----------------------------
(* What Stock.tla guarantees for any number of storages, products, batches,
   shelves and containers, and for any quantities. *)
EXTENDS Stock, Induction, TLAPS

\* What StockIsSomewhere, OneStorage and ContainersExist say of one row, and
\* that a row which is not on a shelf refers to nothing.
GoodRow(b) ==
    IF batch[b].state = "held"
      THEN /\ batch[b].qty > 0
           /\ batch[b].product \in Product
           /\ product[batch[b].product] = "live"
           /\ batch[b].location \in Location
           /\ location[batch[b].location] = "live"
           /\ StorageOf[batch[b].location] = StorageOf[batch[b].product]
           /\ batch[b].container # None =>
                /\ container[batch[b].container] = "live"
                /\ StorageOf[batch[b].container] = StorageOf[batch[b].product]
      ELSE /\ batch[b].product = None
           /\ batch[b].qty = 0
           /\ batch[b].container = None

TableOK == \A b \in Batch : GoodRow(b)

IInv == TypeOK /\ TableOK /\ LedgerExplainsStock

\* The quantity of b the shelf shows under product p.
Holding(p, b) == IF batch[b].product = p THEN batch[b].qty ELSE 0

Books == [Product -> [Batch -> Int]]

USE DEF Qty

LEMMA InitIInv == Init => IInv
BY StockAssumption DEF Init, IInv, TypeOK, TableOK, GoodRow, LedgerExplainsStock, BatchRow

-----------------------------------------------------------------------------
(* Rows and log rows *)

LEMMA RowFields ==
  ASSUME NEW p \in Product, NEW l \in Location, NEW q \in Qty, NEW c \in Container \cup {None}
  PROVE  /\ Row(p, l, q, c) \in BatchRow
         /\ Row(p, l, q, c).state = "held"
         /\ Row(p, l, q, c).product = p
         /\ Row(p, l, q, c).location = l
         /\ Row(p, l, q, c).qty = q
         /\ Row(p, l, q, c).container = c
BY DEF Row, BatchRow

LEMMA DeletedFields ==
  /\ Deleted \in BatchRow
  /\ Deleted.state = "gone"
  /\ Deleted.product = None
  /\ Deleted.qty = 0
  /\ Deleted.container = None
BY StockAssumption DEF Deleted, BatchRow

LEMMA WriteLogSums ==
  ASSUME NEW book \in Books, NEW for, NEW change \in [Batch -> Int]
  PROVE  /\ WriteLog(book, for, change) \in Books
         /\ \A p \in Product, b \in Batch :
              WriteLog(book, for, change)[p][b]
                = book[p][b] + (IF for[b] = p THEN change[b] ELSE 0)
<1>1. \A p \in Product : book[p] \in [Batch -> Int]
  BY DEF Books
<1>2. \A p \in Product, b \in Batch : book[p][b] + (IF for[b] = p THEN change[b] ELSE 0) \in Int
  BY <1>1
<1> QED
  BY <1>1, <1>2 DEF WriteLog, Books

(* What the log rows charge is what the shelf gains. *)
LEMMA Explained ==
  ASSUME IInv, NEW for, NEW change \in [Batch -> Int],
         \/ ledger' = WriteLog(ledger, for, change) /\ moves' = moves
         \/ moves' = WriteLog(moves, for, change) /\ ledger' = ledger,
         \A p \in Product, b \in Batch :
            Holding(p, b)' = Holding(p, b) + (IF for[b] = p THEN change[b] ELSE 0)
  PROVE  /\ LedgerExplainsStock'
         /\ ledger' \in Books
         /\ moves' \in Books
<1>0. ledger \in Books /\ moves \in Books
  BY DEF IInv, TypeOK, Books
<1>1. ledger' \in Books /\ moves' \in Books
  BY <1>0, WriteLogSums
<1>2. SUFFICES ASSUME NEW p \in Product, NEW b \in Batch
               PROVE  ledger'[p][b] + moves'[p][b] = Holding(p, b)'
  BY <1>1 DEF LedgerExplainsStock, Holding
<1>3. ledger[p][b] + moves[p][b] = Holding(p, b)
  BY DEF IInv, LedgerExplainsStock, Holding
<1>4. ledger[p][b] \in Int /\ moves[p][b] \in Int
  BY <1>0 DEF Books
<1>5. (IF for[b] = p THEN change[b] ELSE 0) \in Int
  OBVIOUS
<1>6. CASE ledger' = WriteLog(ledger, for, change) /\ moves' = moves
  <2>1. ledger'[p][b] = ledger[p][b] + (IF for[b] = p THEN change[b] ELSE 0)
    BY <1>0, <1>6, WriteLogSums
  <2> QED
    BY <2>1, <1>3, <1>4, <1>5, <1>6
<1>7. CASE moves' = WriteLog(moves, for, change) /\ ledger' = ledger
  <2>1. moves'[p][b] = moves[p][b] + (IF for[b] = p THEN change[b] ELSE 0)
    BY <1>0, <1>7, WriteLogSums
  <2> QED
    BY <2>1, <1>3, <1>4, <1>5, <1>7
<1> QED
  BY <1>6, <1>7

-----------------------------------------------------------------------------
(* Products and locations *)

LEMMA CreateProductKeeps ==
  ASSUME IInv, NEW s \in Storage, CreateProduct(s)
  PROVE  IInv'
<1>1. PICK p \in Unused(product, s) : product' = Appear(product, {p})
  BY DEF CreateProduct
<1>2. /\ product' \in [Product -> {"fresh", "live", "gone"}]
      /\ \A x \in Product : product[x] = "live" => product'[x] = "live"
  BY <1>1 DEF IInv, TypeOK, Appear
<1>3. TypeOK' /\ LedgerExplainsStock'
  BY <1>2 DEF CreateProduct, IInv, TypeOK, LedgerExplainsStock
<1>4. TableOK'
  BY <1>2 DEF CreateProduct, IInv, TableOK, GoodRow
<1> QED
  BY <1>3, <1>4 DEF IInv

LEMMA CreateLocationKeeps ==
  ASSUME IInv, NEW s \in Storage, CreateLocation(s)
  PROVE  IInv'
<1>1. PICK l \in Unused(location, s) : location' = Appear(location, {l})
  BY DEF CreateLocation
<1>2. /\ location' \in [Location -> {"fresh", "live", "gone"}]
      /\ \A x \in Location : location[x] = "live" => location'[x] = "live"
  BY <1>1 DEF IInv, TypeOK, Appear
<1>3. TypeOK' /\ LedgerExplainsStock'
  BY <1>2 DEF CreateLocation, IInv, TypeOK, LedgerExplainsStock
<1>4. TableOK'
  BY <1>2 DEF CreateLocation, IInv, TableOK, GoodRow
<1> QED
  BY <1>3, <1>4 DEF IInv

LEMMA DeleteLocationKeeps ==
  ASSUME IInv, NEW s \in Storage, DeleteLocation(s)
  PROVE  IInv'
<1>1. PICK D \in SUBSET Live(location, s) :
        /\ \A l \in D : BatchesAt(l) = {}
        /\ location' = [l \in Location |-> IF l \in D THEN "gone" ELSE location[l]]
  BY DEF DeleteLocation
<1>2. location' \in [Location -> {"fresh", "live", "gone"}]
  BY <1>1 DEF IInv, TypeOK
<1>3. TypeOK' /\ LedgerExplainsStock'
  BY <1>2 DEF DeleteLocation, IInv, TypeOK, LedgerExplainsStock
<1>4. ASSUME NEW b \in Batch, batch[b].state = "held"
      PROVE  location'[batch[b].location] = location[batch[b].location]
  <2>1. batch[b].location \in Location /\ b \in BatchesAt(batch[b].location)
    BY <1>4 DEF IInv, TableOK, GoodRow, BatchesAt
  <2>2. batch[b].location \notin D
    BY <1>1, <2>1
  <2> QED
    BY <1>1, <2>1, <2>2
<1>5. TableOK'
  BY <1>4 DEF DeleteLocation, IInv, TableOK, GoodRow
<1> QED
  BY <1>3, <1>5 DEF IInv

LEMMA DeleteProductKeeps ==
  ASSUME IInv, NEW s \in Storage, DeleteProduct(s)
  PROVE  IInv'
<1>1. PICK p \in Live(product, s) :
        /\ product' = [product EXCEPT ![p] = "gone"]
        /\ batch' = [b \in Batch |-> IF batch[b].product = p THEN Deleted ELSE batch[b]]
        /\ ledger' = [x \in Product |-> IF x = p THEN [b \in Batch |-> 0] ELSE ledger[x]]
        /\ moves' = [x \in Product |-> IF x = p THEN [b \in Batch |-> 0] ELSE moves[x]]
  BY DEF DeleteProduct
<1>2. p \in Product
  BY DEF Live, IInv, TypeOK
<1>3. UNCHANGED <<location, container>>
  BY DEF DeleteProduct
<1>4. TypeOK'
  <2>1. batch' \in [Batch -> BatchRow]
    BY <1>1, DeletedFields DEF IInv, TypeOK
  <2>2. [b \in Batch |-> 0] \in [Batch -> Int]
    OBVIOUS
  <2>3. ledger' \in [Product -> [Batch -> Int]] /\ moves' \in [Product -> [Batch -> Int]]
    BY <1>1, <2>2 DEF IInv, TypeOK
  <2> QED
    BY <1>1, <1>3, <2>1, <2>3 DEF IInv, TypeOK
<1>5. TableOK'
  <2> SUFFICES ASSUME NEW b \in Batch PROVE GoodRow(b)'
    BY DEF TableOK
  <2>1. CASE batch[b].product = p
    BY <1>1, <2>1, DeletedFields DEF GoodRow
  <2>2. CASE batch[b].product # p
    BY <1>1, <1>2, <1>3, <2>2 DEF IInv, TypeOK, TableOK, GoodRow
  <2> QED
    BY <2>1, <2>2
<1>6. LedgerExplainsStock'
  <2> SUFFICES ASSUME NEW x \in Product, NEW b \in Batch
               PROVE  ledger'[x][b] + moves'[x][b]
                        = IF batch'[b].product = x THEN batch'[b].qty ELSE 0
    BY DEF LedgerExplainsStock
  <2>1. ledger[x][b] + moves[x][b] = IF batch[b].product = x THEN batch[b].qty ELSE 0
    BY DEF IInv, LedgerExplainsStock
  <2>2. CASE x = p
    <3>1. batch'[b].product # p
      BY <1>1, <1>2, DeletedFields, StockAssumption
    <3> QED
      BY <1>1, <2>2, <3>1
  <2>3. CASE x # p
    <3>1. ledger'[x][b] = ledger[x][b] /\ moves'[x][b] = moves[x][b]
      BY <1>1, <2>3
    <3>2. CASE batch[b].product = p
      BY <1>1, <2>1, <2>3, <3>1, <3>2, DeletedFields, StockAssumption
    <3>3. CASE batch[b].product # p
      BY <1>1, <2>1, <3>1, <3>3
    <3> QED
      BY <3>2, <3>3
  <2> QED
    BY <2>2, <2>3
<1> QED
  BY <1>4, <1>5, <1>6 DEF IInv

LEMMA RepointedSums ==
  ASSUME NEW book \in Books, NEW survivor \in Product, NEW source \in Product, survivor # source
  PROVE  /\ Repointed(book, survivor, source) \in Books
         /\ \A b \in Batch : Repointed(book, survivor, source)[survivor][b]
                                = book[survivor][b] + book[source][b]
         /\ \A b \in Batch : Repointed(book, survivor, source)[source][b] = 0
<1>1. \A p \in Product, b \in Batch : book[p][b] \in Int
  BY DEF Books
<1> QED
  BY <1>1 DEF Repointed, Books

LEMMA MergeProductsKeeps ==
  ASSUME IInv, NEW s \in Storage, MergeProducts(s)
  PROVE  IInv'
<1>1. PICK survivor \in Live(product, s), source \in Live(product, s) :
        /\ survivor # source
        /\ product' = [product EXCEPT ![source] = "gone"]
        /\ batch' = [b \in Batch |-> IF batch[b].product = source
                        THEN Row(survivor, batch[b].location, batch[b].qty, batch[b].container)
                        ELSE batch[b]]
        /\ ledger' = Repointed(ledger, survivor, source)
        /\ moves' = Repointed(moves, survivor, source)
  BY DEF MergeProducts
<1>2. /\ survivor \in Product /\ product[survivor] = "live" /\ StorageOf[survivor] = s
      /\ source \in Product /\ StorageOf[source] = s
  BY DEF Live, IInv, TypeOK
<1>3. UNCHANGED <<location, container>>
  BY DEF MergeProducts
<1>4. ledger \in Books /\ moves \in Books
  BY DEF IInv, TypeOK, Books
<1>5. ledger' \in Books /\ moves' \in Books
  BY <1>1, <1>2, <1>4, RepointedSums
<1>6. ASSUME NEW b \in Batch, batch[b].product = source
      PROVE  /\ batch'[b] \in BatchRow
             /\ batch'[b].state = "held"
             /\ batch'[b].product = survivor
             /\ batch'[b].location = batch[b].location
             /\ batch'[b].qty = batch[b].qty
             /\ batch'[b].container = batch[b].container
  <2>1. batch[b].state = "held"
    BY <1>2, <1>6, StockAssumption DEF IInv, TableOK, GoodRow
  <2>2. /\ batch[b].location \in Location /\ batch[b].qty \in Qty
        /\ batch[b].container \in Container \cup {None}
    BY <2>1 DEF IInv, TypeOK, TableOK, GoodRow, BatchRow
  <2> QED
    BY <1>1, <1>2, <1>6, <2>2, RowFields
<1>7. \A b \in Batch : batch[b].product # source => batch'[b] = batch[b]
  BY <1>1
<1>8. TypeOK'
  <2>1. \A b \in Batch : batch'[b] \in BatchRow
    BY <1>6, <1>7 DEF IInv, TypeOK
  <2>2. batch' \in [Batch -> BatchRow]
    BY <1>1, <2>1
  <2> QED
    BY <1>1, <1>3, <1>5, <2>2 DEF IInv, TypeOK, Books
<1>9. TableOK'
  <2> SUFFICES ASSUME NEW b \in Batch PROVE GoodRow(b)'
    BY DEF TableOK
  <2>0. GoodRow(b)
    BY DEF IInv, TableOK
  <2>1. CASE batch[b].product = source
    <3>1. batch[b].state = "held"
      BY <1>2, <2>0, <2>1, StockAssumption DEF GoodRow
    <3>2. product'[survivor] = "live"
      BY <1>1, <1>2 DEF IInv, TypeOK
    <3> QED
      BY <1>2, <1>3, <1>6, <2>0, <2>1, <3>1, <3>2 DEF GoodRow
  <2>2. CASE batch[b].product # source
    BY <1>1, <1>3, <1>7, <2>0, <2>2 DEF IInv, TypeOK, GoodRow
  <2> QED
    BY <2>1, <2>2
<1>10. LedgerExplainsStock'
  <2> SUFFICES ASSUME NEW p \in Product, NEW b \in Batch
               PROVE  ledger'[p][b] + moves'[p][b] = Holding(p, b)'
    BY DEF LedgerExplainsStock, Holding
  <2>1. \A x \in Product : /\ ledger[x][b] + moves[x][b] = Holding(x, b)
                           /\ ledger[x][b] \in Int /\ moves[x][b] \in Int
    BY <1>4 DEF IInv, LedgerExplainsStock, Holding, Books
  <2>2. batch[b].qty \in Int
    BY DEF IInv, TypeOK, BatchRow
  <2>3. CASE p = survivor
    <3>1. /\ ledger'[p][b] = ledger[survivor][b] + ledger[source][b]
          /\ moves'[p][b] = moves[survivor][b] + moves[source][b]
      BY <1>1, <1>2, <1>4, <2>3, RepointedSums
    <3>2. ledger'[p][b] + moves'[p][b] = Holding(survivor, b) + Holding(source, b)
      <4>1. /\ ledger[survivor][b] + moves[survivor][b] = Holding(survivor, b)
            /\ ledger[source][b] + moves[source][b] = Holding(source, b)
        BY <1>2, <2>1
      <4>2. /\ ledger[survivor][b] \in Int /\ moves[survivor][b] \in Int
            /\ ledger[source][b] \in Int /\ moves[source][b] \in Int
        BY <1>2, <2>1
      <4> QED
        BY <3>1, <4>1, <4>2
    <3>3. Holding(survivor, b)' = Holding(survivor, b) + Holding(source, b)
      BY <1>1, <1>6, <1>7, <2>2 DEF Holding
    <3> QED
      BY <2>3, <3>2, <3>3
  <2>4. CASE p = source
    <3>1. ledger'[p][b] = 0 /\ moves'[p][b] = 0
      BY <1>1, <1>2, <1>4, <2>4, RepointedSums
    <3>2. Holding(p, b)' = 0
      BY <1>1, <1>6, <1>7, <2>4 DEF Holding
    <3> QED
      BY <3>1, <3>2
  <2>5. CASE p \notin {survivor, source}
    <3>1. ledger'[p][b] = ledger[p][b] /\ moves'[p][b] = moves[p][b]
      BY <1>1, <2>5 DEF Repointed
    <3>2. Holding(p, b)' = Holding(p, b)
      BY <1>6, <1>7, <2>5 DEF Holding
    <3> QED
      BY <2>1, <3>1, <3>2
  <2> QED
    BY <2>3, <2>4, <2>5
<1> QED
  BY <1>8, <1>9, <1>10 DEF IInv


-----------------------------------------------------------------------------
(* New stock *)

\* What the callers of createBatch know: the rows' products and shelves are this
\* storage's and exist when the transaction ends.
Filed(new, s) ==
    \A b \in DOMAIN new :
        /\ StorageOf[new[b].product] = s /\ product'[new[b].product] = "live"
        /\ StorageOf[new[b].location] = s /\ location'[new[b].location] = "live"
        /\ new[b].container \in Unused(container, s) \cup {None}

\* No product, shelf or container goes away.
Growing ==
    /\ product' \in [Product -> {"fresh", "live", "gone"}]
    /\ location' \in [Location -> {"fresh", "live", "gone"}]
    /\ \A x \in Product : product[x] = "live" => product'[x] = "live"
    /\ \A x \in Location : location[x] = "live" => location'[x] = "live"

LEMMA NewRowFields ==
  ASSUME NEW n \in NewBatch
  PROVE  /\ Row(n.product, n.location, n.qty, n.container) \in BatchRow
         /\ Row(n.product, n.location, n.qty, n.container).state = "held"
         /\ Row(n.product, n.location, n.qty, n.container).product = n.product
         /\ Row(n.product, n.location, n.qty, n.container).location = n.location
         /\ Row(n.product, n.location, n.qty, n.container).qty = n.qty
         /\ Row(n.product, n.location, n.qty, n.container).container = n.container
BY StockAssumption DEF Row, BatchRow, NewBatch

LEMMA CreationKeeps ==
  ASSUME IInv, NEW s \in Storage, NEW B \in SUBSET FreshBatches, NEW new \in [B -> NewBatch],
         Growing, Filed(new, s),
         container' = Minted(new),
         batch' = Inserted(batch, new),
         ledger' = WriteLog(ledger, NewOwners(new), NewQuantities(new)),
         moves' = moves
  PROVE  IInv'
<1>1. B \in SUBSET Batch /\ DOMAIN new = B
  BY DEF FreshBatches
<1>a. \A b \in B : /\ batch'[b] \in BatchRow
                   /\ batch'[b].state = "held"
                   /\ batch'[b].product = new[b].product
                   /\ batch'[b].location = new[b].location
                   /\ batch'[b].qty = new[b].qty
                   /\ batch'[b].container = new[b].container
  <2> SUFFICES ASSUME NEW b \in B
               PROVE  /\ batch'[b] \in BatchRow
                      /\ batch'[b].state = "held"
                      /\ batch'[b].product = new[b].product
                      /\ batch'[b].location = new[b].location
                      /\ batch'[b].qty = new[b].qty
                      /\ batch'[b].container = new[b].container
    OBVIOUS
  <2>1. batch'[b] = Row(new[b].product, new[b].location, new[b].qty, new[b].container)
    BY <1>1 DEF Inserted
  <2>2. new[b] \in NewBatch
    OBVIOUS
  <2> QED
    BY <2>1, <2>2, NewRowFields
<1>b. \A b \in Batch \ B : batch'[b] = batch[b]
  BY <1>1 DEF Inserted
<1>2. \A b \in B : /\ new[b].product \in Product /\ new[b].location \in Location
                   /\ new[b].qty \in Qty /\ new[b].qty > 0
                   /\ new[b].container \in Container \cup {None}
  BY StockAssumption DEF NewBatch
<1>3. /\ container' \in [Container -> {"fresh", "live", "destroyed"}]
      /\ \A c \in Container : container[c] = "live" => container'[c] = "live"
      /\ \A b \in B : new[b].container # None => container'[new[b].container] = "live"
  BY <1>1, <1>2 DEF Minted, IInv, TypeOK
<1>4. \A b \in B : batch[b].product = None /\ batch[b].qty = 0
  BY <1>1 DEF FreshBatches, IInv, TableOK, GoodRow
<1>5. NewQuantities(new) \in [Batch -> Int]
  BY <1>1, <1>2 DEF NewQuantities
<1>6. \A p \in Product, b \in Batch :
        Holding(p, b)' = Holding(p, b)
            + (IF NewOwners(new)[b] = p THEN NewQuantities(new)[b] ELSE 0)
  <2> SUFFICES ASSUME NEW p \in Product, NEW b \in Batch
               PROVE  Holding(p, b)' = Holding(p, b)
                        + (IF NewOwners(new)[b] = p THEN NewQuantities(new)[b] ELSE 0)
    OBVIOUS
  <2>1. CASE b \in B
    <3>1. batch'[b].product = new[b].product /\ batch'[b].qty = new[b].qty
      BY <1>a, <2>1
    <3>2. NewOwners(new)[b] = new[b].product /\ NewQuantities(new)[b] = new[b].qty
      BY <1>1, <2>1 DEF NewOwners, NewQuantities
    <3>3. Holding(p, b) = 0
      BY <1>4, <2>1, StockAssumption DEF Holding
    <3>4. new[b].qty \in Int
      BY <1>2, <2>1
    <3> QED
      BY <3>1, <3>2, <3>3, <3>4 DEF Holding
  <2>2. CASE b \notin B
    <3>1. batch'[b] = batch[b]
      BY <1>b, <2>2
    <3>2. NewOwners(new)[b] = None
      BY <1>1, <2>2 DEF NewOwners
    <3>3. Holding(p, b) \in Int
      BY DEF Holding, IInv, TypeOK, BatchRow
    <3> QED
      BY <3>1, <3>2, <3>3, StockAssumption DEF Holding
  <2> QED
    BY <2>1, <2>2
<1>7. LedgerExplainsStock' /\ ledger' \in Books /\ moves' \in Books
  BY <1>5, <1>6, Explained
<1>8. batch' \in [Batch -> BatchRow]
  <2>1. \A b \in Batch : batch'[b] \in BatchRow
    BY <1>a, <1>b DEF IInv, TypeOK
  <2> QED
    BY <2>1 DEF Inserted
<1>9. TypeOK'
  BY <1>3, <1>7, <1>8 DEF TypeOK, Growing, Books
<1>10. TableOK'
  <2> SUFFICES ASSUME NEW b \in Batch PROVE GoodRow(b)'
    BY DEF TableOK
  <2>1. CASE b \in B
    <3>1. /\ batch'[b].state = "held"
          /\ batch'[b].product = new[b].product
          /\ batch'[b].location = new[b].location
          /\ batch'[b].qty = new[b].qty
          /\ batch'[b].container = new[b].container
      BY <1>a, <2>1
    <3>2. new[b].container # None => StorageOf[new[b].container] = s
      BY <1>1, <2>1 DEF Filed, Unused
    <3> QED
      BY <1>1, <1>2, <1>3, <2>1, <3>1, <3>2 DEF Filed, GoodRow
  <2>2. CASE b \notin B
    <3>1. batch'[b] = batch[b]
      BY <1>b, <2>2
    <3>2. GoodRow(b) /\ batch[b].container \in Container \cup {None}
      BY DEF IInv, TypeOK, TableOK, BatchRow
    <3> QED
      BY <1>3, <3>1, <3>2 DEF Growing, GoodRow
  <2> QED
    BY <2>1, <2>2
<1> QED
  BY <1>7, <1>9, <1>10 DEF IInv

LEMMA CreateBatchKeeps ==
  ASSUME IInv, NEW s \in Storage, CreateBatch(s)
  PROVE  IInv'
<1>0. PICK b \in FreshBatches : \E new \in [{b} -> NewBatch] :
        /\ CanCreate(new, s, Live(product, s), Live(location, s))
        /\ container' = Minted(new)
        /\ batch' = Inserted(batch, new)
        /\ ledger' = WriteLog(ledger, NewOwners(new), NewQuantities(new))
  BY DEF CreateBatch
<1>1. PICK new \in [{b} -> NewBatch] :
        /\ CanCreate(new, s, Live(product, s), Live(location, s))
        /\ container' = Minted(new)
        /\ batch' = Inserted(batch, new)
        /\ ledger' = WriteLog(ledger, NewOwners(new), NewQuantities(new))
  BY <1>0
<1>2. UNCHANGED <<product, location, moves>>
  BY DEF CreateBatch
<1>3. Growing
  BY <1>2 DEF Growing, IInv, TypeOK
<1>4. Filed(new, s)
  BY <1>1, <1>2 DEF CanCreate, Filed, Live
<1> QED
  BY <1>1, <1>2, <1>3, <1>4, CreationKeeps

LEMMA ConfirmIngestionKeeps ==
  ASSUME IInv, NEW s \in Storage, ConfirmIngestion(s)
  PROVE  IInv'
<1>0. PICK B \in SUBSET FreshBatches : \E new \in [B -> NewBatch] :
        /\ CanCreate(new, s, Live(product, s) \cup Unused(product, s),
                             Live(location, s) \cup Unused(location, s))
        /\ product' = Appear(product, {new[b].product : b \in B})
        /\ location' = Appear(location, {new[b].location : b \in B})
        /\ container' = Minted(new)
        /\ batch' = Inserted(batch, new)
        /\ ledger' = WriteLog(ledger, NewOwners(new), NewQuantities(new))
  BY DEF ConfirmIngestion
<1>1. PICK new \in [B -> NewBatch] :
        /\ CanCreate(new, s, Live(product, s) \cup Unused(product, s),
                             Live(location, s) \cup Unused(location, s))
        /\ product' = Appear(product, {new[b].product : b \in B})
        /\ location' = Appear(location, {new[b].location : b \in B})
        /\ container' = Minted(new)
        /\ batch' = Inserted(batch, new)
        /\ ledger' = WriteLog(ledger, NewOwners(new), NewQuantities(new))
  BY <1>0
<1>2. moves' = moves
  BY DEF ConfirmIngestion
<1>3. Growing
  BY <1>1 DEF Growing, Appear, IInv, TypeOK
<1>4. Filed(new, s)
  <2> SUFFICES ASSUME NEW b \in B
               PROVE  /\ StorageOf[new[b].product] = s /\ product'[new[b].product] = "live"
                      /\ StorageOf[new[b].location] = s /\ location'[new[b].location] = "live"
                      /\ new[b].container \in Unused(container, s) \cup {None}
    BY DEF Filed
  <2>1. new[b].product \in Product /\ new[b].location \in Location
    BY DEF NewBatch
  <2>2. product'[new[b].product] = "live" /\ location'[new[b].location] = "live"
    BY <1>1, <2>1 DEF Appear, IInv, TypeOK
  <2> QED
    BY <1>1, <2>2 DEF CanCreate, Live, Unused
<1> QED
  BY <1>1, <1>2, <1>3, <1>4, CreationKeeps


-----------------------------------------------------------------------------
(* Stock that leaves, moves or is corrected *)

LEMMA AdjustedFields ==
  ASSUME NEW r \in BatchRow, r.product \in Product, r.location \in Location, NEW q \in Qty
  PROVE  /\ Adjusted(r, q) \in BatchRow
         /\ q = 0 => Adjusted(r, q) = Deleted
         /\ q # 0 => /\ Adjusted(r, q).state = "held"
                     /\ Adjusted(r, q).product = r.product
                     /\ Adjusted(r, q).location = r.location
                     /\ Adjusted(r, q).qty = q
                     /\ Adjusted(r, q).container = r.container
<1>1. r.container \in Container \cup {None}
  BY DEF BatchRow
<1> QED
  BY <1>1, RowFields, DeletedFields DEF Adjusted

(* A batch on a shelf that is set to q stays a good row, and the shelf gains the
   difference under its product and nothing under another. *)
LEMMA AdjustedRow ==
  ASSUME IInv, NEW b \in Batch, batch[b].state = "held", NEW q \in Qty,
         batch'[b] = Adjusted(batch[b], q),
         UNCHANGED <<product, location, container>>
  PROVE  /\ batch'[b] \in BatchRow
         /\ GoodRow(b)'
         /\ \A p \in Product : Holding(p, b)' = Holding(p, b)
                + (IF batch[b].product = p THEN q - batch[b].qty ELSE 0)
<1>1. GoodRow(b) /\ batch[b] \in BatchRow
  BY DEF IInv, TypeOK, TableOK
<1>2. batch[b].product \in Product /\ batch[b].location \in Location /\ batch[b].qty \in Int
  BY <1>1 DEF GoodRow, BatchRow
<1>3. CASE q = 0
  <2>1. batch'[b] = Deleted
    BY <1>1, <1>2, <1>3, AdjustedFields
  <2>2. \A p \in Product : Holding(p, b)' = 0
    BY <2>1, DeletedFields, StockAssumption DEF Holding
  <2>3. \A p \in Product : Holding(p, b) + (IF batch[b].product = p THEN q - batch[b].qty ELSE 0) = 0
    BY <1>2, <1>3 DEF Holding
  <2> QED
    BY <2>1, <2>2, <2>3, DeletedFields DEF GoodRow
<1>4. CASE q # 0
  <2>1. /\ batch'[b] \in BatchRow
        /\ batch'[b].state = "held"
        /\ batch'[b].product = batch[b].product
        /\ batch'[b].location = batch[b].location
        /\ batch'[b].qty = q
        /\ batch'[b].container = batch[b].container
    BY <1>1, <1>2, <1>4, AdjustedFields
  <2>2. q > 0 /\ q \in Int
    BY <1>4, StockAssumption
  <2>3. GoodRow(b)'
    BY <1>1, <2>1, <2>2 DEF GoodRow
  <2>4. \A p \in Product : Holding(p, b)' = Holding(p, b)
                + (IF batch[b].product = p THEN q - batch[b].qty ELSE 0)
    BY <1>2, <2>1, <2>2 DEF Holding
  <2> QED
    BY <2>1, <2>3, <2>4
<1> QED
  BY <1>3, <1>4

LEMMA KeptRow ==
  ASSUME IInv, NEW b \in Batch, batch'[b] = batch[b], UNCHANGED <<product, location, container>>
  PROVE  /\ batch'[b] \in BatchRow
         /\ GoodRow(b)'
         /\ \A p \in Product : Holding(p, b)' = Holding(p, b) /\ Holding(p, b) \in Int
BY DEF IInv, TypeOK, TableOK, GoodRow, Holding, BatchRow

LEMMA ConfirmConsumptionKeeps ==
  ASSUME IInv, NEW s \in Storage, ConfirmConsumption(s)
  PROVE  IInv'
<1> DEFINE change(B, take) == [b \in Batch |-> IF b \in B THEN 0 - take[b] ELSE 0]
<1>0. PICK B \in SUBSET BatchesOf(s) : \E take \in [B -> 1..MaxQty] :
        /\ \A b \in B : Covers(batch[b], take[b])
        /\ batch' = [b \in Batch |-> IF b \in B THEN Adjusted(batch[b], batch[b].qty - take[b])
                                                ELSE batch[b]]
        /\ ledger' = WriteLog(ledger, OwnersOf(B), change(B, take))
  BY DEF ConfirmConsumption
<1>1. PICK take \in [B -> 1..MaxQty] :
        /\ \A b \in B : Covers(batch[b], take[b])
        /\ batch' = [b \in Batch |-> IF b \in B THEN Adjusted(batch[b], batch[b].qty - take[b])
                                                ELSE batch[b]]
        /\ ledger' = WriteLog(ledger, OwnersOf(B), change(B, take))
  BY <1>0
<1>2. UNCHANGED <<product, location, container>> /\ moves' = moves
  BY DEF ConfirmConsumption
<1>3. ASSUME NEW b \in Batch
      PROVE  /\ batch'[b] \in BatchRow
             /\ GoodRow(b)'
             /\ \A p \in Product : Holding(p, b)' = Holding(p, b)
                    + (IF OwnersOf(B)[b] = p THEN change(B, take)[b] ELSE 0)
  <2>1. CASE b \in B
    <3>1. batch[b].state = "held" /\ batch[b].qty \in Qty /\ batch[b].qty \in Int
      BY <2>1 DEF BatchesOf, IInv, TypeOK, BatchRow
    <3>2. take[b] \in Int /\ take[b] >= 1 /\ take[b] <= batch[b].qty
      BY <1>1, <2>1, StockAssumption DEF Covers
    <3>3. batch[b].qty - take[b] \in Qty
      BY <3>1, <3>2, StockAssumption
    <3>4. batch'[b] = Adjusted(batch[b], batch[b].qty - take[b])
      BY <1>1, <2>1
    <3>5. OwnersOf(B)[b] = batch[b].product
      BY <2>1 DEF OwnersOf
    <3>6. change(B, take)[b] = (batch[b].qty - take[b]) - batch[b].qty
      BY <2>1, <3>1, <3>2
    <3> QED
      BY <1>2, <3>1, <3>3, <3>4, <3>5, <3>6, AdjustedRow
  <2>2. CASE b \notin B
    <3>1. batch'[b] = batch[b]
      BY <1>1, <2>2
    <3>2. OwnersOf(B)[b] = None
      BY <2>2 DEF OwnersOf
    <3>3. \A p \in Product : OwnersOf(B)[b] # p
      BY <3>2, StockAssumption
    <3> QED
      BY <1>2, <3>1, <3>3, KeptRow
  <2> QED
    BY <2>1, <2>2
<1>4. change(B, take) \in [Batch -> Int]
  BY StockAssumption
<1> HIDE DEF change
<1>5. LedgerExplainsStock' /\ ledger' \in Books /\ moves' \in Books
  BY <1>1, <1>2, <1>3, <1>4, Explained
<1>6. TypeOK'
  BY <1>1, <1>2, <1>3, <1>5 DEF IInv, TypeOK, Books
<1>7. TableOK'
  BY <1>3 DEF TableOK
<1> QED
  BY <1>5, <1>6, <1>7 DEF IInv

LEMMA DestroyContainerKeeps ==
  ASSUME IInv, NEW s \in Storage, DestroyContainer(s)
  PROVE  IInv'
<1>1. PICK c \in Live(container, s) : container' = Destroyed(c) /\ batch' = Cleared(batch, c)
  BY DEF DestroyContainer
<1>2. UNCHANGED <<product, location, ledger, moves>>
  BY DEF DestroyContainer
<1>3. c \in Container /\ c # None
  BY StockAssumption DEF Live, IInv, TypeOK
<1>4. ASSUME NEW b \in Batch
      PROVE  /\ batch'[b] \in BatchRow
             /\ GoodRow(b)'
             /\ batch'[b].product = batch[b].product
             /\ batch'[b].qty = batch[b].qty
  <2>0. GoodRow(b) /\ batch[b] \in BatchRow
    BY DEF IInv, TypeOK, TableOK
  <2>1. CASE batch[b].state = "held" /\ batch[b].container = c
    <3>1. batch[b].product \in Product /\ batch[b].location \in Location /\ batch[b].qty \in Qty
      BY <2>0, <2>1 DEF GoodRow, BatchRow
    <3>2. batch'[b] = Row(batch[b].product, batch[b].location, batch[b].qty, None)
      BY <1>1, <2>1 DEF Cleared
    <3>3. /\ batch'[b] \in BatchRow
          /\ batch'[b].state = "held"
          /\ batch'[b].product = batch[b].product
          /\ batch'[b].location = batch[b].location
          /\ batch'[b].qty = batch[b].qty
          /\ batch'[b].container = None
      BY <3>1, <3>2, RowFields
    <3> QED
      BY <1>2, <2>0, <2>1, <3>3 DEF GoodRow
  <2>2. CASE ~(batch[b].state = "held" /\ batch[b].container = c)
    <3>1. batch'[b] = batch[b]
      BY <1>1, <2>2 DEF Cleared
    <3>2. batch[b].container # c
      BY <1>3, <2>0, <2>2 DEF GoodRow
    <3>3. batch[b].container # None => container'[batch[b].container] = container[batch[b].container]
      BY <1>1, <2>0, <3>2 DEF Destroyed, IInv, TypeOK, BatchRow
    <3> QED
      BY <1>2, <2>0, <3>1, <3>3 DEF GoodRow
  <2> QED
    BY <2>1, <2>2
<1>5. batch' \in [Batch -> BatchRow]
  BY <1>1, <1>4 DEF Cleared
<1>6. TypeOK'
  BY <1>1, <1>2, <1>3, <1>5 DEF Destroyed, IInv, TypeOK
<1>7. TableOK' /\ LedgerExplainsStock'
  BY <1>2, <1>4 DEF TableOK, IInv, LedgerExplainsStock
<1> QED
  BY <1>6, <1>7 DEF IInv


LEMMA UpdateBatchKeeps ==
  ASSUME IInv, NEW s \in Storage, UpdateBatch(s)
  PROVE  IInv'
<1>1. PICK b \in BatchesOf(s), patch \in Patch(s), fresh \in Unused(container, s) \cup {None} :
        LET r == batch[b]
            c == Labelled(r, patch, fresh)
            q == IF patch.qty = None THEN r.qty ELSE patch.qty
            l == IF patch.location = None THEN r.location ELSE patch.location
        IN /\ (fresh = None) <=> ~(patch.label = "set" /\ r.container = None)
           /\ batch' = [batch EXCEPT ![b] = Adjusted(Row(r.product, l, r.qty, c), q)]
           /\ container' = [x \in Container |-> IF x = fresh THEN "live" ELSE container[x]]
           /\ ledger' = WriteLog(ledger, OwnersOf({b}), [x \in Batch |-> q - r.qty])
  BY ZenonT(60) DEF UpdateBatch
<1> DEFINE r == batch[b]
           c == Labelled(r, patch, fresh)
           q == IF patch.qty = None THEN r.qty ELSE patch.qty
           l == IF patch.location = None THEN r.location ELSE patch.location
           change == [x \in Batch |-> q - r.qty]
<1>2. UNCHANGED <<product, location, moves>>
  BY DEF UpdateBatch
<1>3. b \in Batch /\ r.state = "held" /\ StorageOf[r.product] = s /\ GoodRow(b) /\ r \in BatchRow
  BY DEF BatchesOf, IInv, TypeOK, TableOK
<1>4. /\ r.product \in Product /\ r.location \in Location /\ r.qty \in Qty /\ r.qty \in Int
      /\ r.qty > 0 /\ r.container \in Container \cup {None} /\ StorageOf[r.location] = s
  BY <1>3 DEF GoodRow, BatchRow
<1>5. q \in Qty /\ q \in Int
  BY <1>4, StockAssumption DEF Patch
<1>6. l \in Location /\ location[l] = "live" /\ StorageOf[l] = s
  BY <1>3, <1>4 DEF Patch, Live, GoodRow, IInv, TypeOK
<1>7. /\ container' \in [Container -> {"fresh", "live", "destroyed"}]
      /\ \A x \in Container : container[x] = "live" => container'[x] = "live"
  BY <1>1 DEF IInv, TypeOK
<1>8. /\ c \in Container \cup {None}
      /\ c # None => container'[c] = "live" /\ StorageOf[c] = s
  <2>1. fresh \in Container \cup {None} /\ (fresh # None => StorageOf[fresh] = s)
    BY DEF Unused, IInv, TypeOK
  <2>2. fresh # None => container'[fresh] = "live"
    BY <1>1, <2>1
  <2>3. r.container # None => container'[r.container] = "live" /\ StorageOf[r.container] = s
    BY <1>3, <1>4, <1>7 DEF GoodRow
  <2>4. c \in {None, fresh, r.container}
    BY DEF Labelled
  <2> QED
    BY <1>4, <2>1, <2>2, <2>3, <2>4
<1>9. batch' = [batch EXCEPT ![b] = Adjusted(Row(r.product, l, r.qty, c), q)]
  BY <1>1
<1>10. ledger' = WriteLog(ledger, OwnersOf({b}), change)
  BY <1>1
<1> HIDE DEF q, l, c
<1>11. /\ batch'[b] \in BatchRow
       /\ q = 0 => batch'[b] = Deleted
       /\ q # 0 => /\ batch'[b].state = "held"
                   /\ batch'[b].product = r.product
                   /\ batch'[b].location = l
                   /\ batch'[b].qty = q
                   /\ batch'[b].container = c
  <2>1. batch'[b] = Adjusted(Row(r.product, l, r.qty, c), q)
    BY <1>3, <1>9 DEF IInv, TypeOK
  <2>2. /\ Row(r.product, l, r.qty, c) \in BatchRow
        /\ Row(r.product, l, r.qty, c).product = r.product
        /\ Row(r.product, l, r.qty, c).location = l
        /\ Row(r.product, l, r.qty, c).container = c
    BY <1>4, <1>6, <1>8, RowFields
  <2> QED
    BY <1>4, <1>5, <1>6, <2>1, <2>2, AdjustedFields
<1>12. \A x \in Batch \ {b} : batch'[x] = batch[x]
  BY <1>9 DEF IInv, TypeOK
<1>13. GoodRow(b)'
  <2>1. CASE q = 0
    BY <1>11, <2>1, DeletedFields DEF GoodRow
  <2>2. CASE q # 0
    <3>1. q > 0
      BY <1>5, <2>2, StockAssumption
    <3> QED
      BY <1>2, <1>3, <1>4, <1>6, <1>8, <1>11, <2>2, <3>1 DEF GoodRow
  <2> QED
    BY <2>1, <2>2
<1>14. \A x \in Batch \ {b} : GoodRow(x)'
  <2> SUFFICES ASSUME NEW x \in Batch \ {b} PROVE GoodRow(x)'
    OBVIOUS
  <2>1. GoodRow(x) /\ batch'[x] = batch[x] /\ batch[x].container \in Container \cup {None}
    BY <1>12 DEF IInv, TypeOK, TableOK, BatchRow
  <2> QED
    BY <1>2, <1>7, <2>1 DEF GoodRow
<1>15. TableOK'
  BY <1>13, <1>14 DEF TableOK
<1>16. change \in [Batch -> Int]
  BY <1>4, <1>5
<1>17. ASSUME NEW p \in Product, NEW x \in Batch
       PROVE  Holding(p, x)' = Holding(p, x) + (IF OwnersOf({b})[x] = p THEN change[x] ELSE 0)
  <2>1. CASE x # b
    <3>1. OwnersOf({b})[x] # p
      BY <2>1, StockAssumption DEF OwnersOf
    <3>2. batch'[x] = batch[x] /\ Holding(p, x) \in Int
      BY <1>12, <2>1 DEF Holding, IInv, TypeOK, BatchRow
    <3> QED
      BY <3>1, <3>2 DEF Holding
  <2>2. CASE x = b
    <3>1. OwnersOf({b})[x] = r.product /\ change[x] = q - r.qty
      BY <1>3, <2>2 DEF OwnersOf
    <3>2. CASE p = r.product
      <4>1. Holding(p, x) = r.qty
        BY <2>2, <3>2 DEF Holding
      <4>2. Holding(p, x)' = q
        BY <1>4, <1>11, <2>2, <3>2, DeletedFields, StockAssumption DEF Holding
      <4> QED
        BY <1>4, <1>5, <3>1, <3>2, <4>1, <4>2
    <3>3. CASE p # r.product
      BY <1>11, <2>2, <3>1, <3>3, DeletedFields, StockAssumption DEF Holding
    <3> QED
      BY <3>2, <3>3
  <2> QED
    BY <2>1, <2>2
<1>18. LedgerExplainsStock' /\ ledger' \in Books /\ moves' \in Books
  <2> HIDE DEF change
  <2> QED
    BY <1>2, <1>10, <1>16, <1>17, Explained
<1>19. TypeOK'
  BY <1>2, <1>7, <1>9, <1>11, <1>18 DEF IInv, TypeOK, Books
<1> QED
  BY <1>15, <1>18, <1>19 DEF IInv


LEMMA SplitBatchKeeps ==
  ASSUME IInv, NEW s \in Storage, SplitBatch(s)
  PROVE  IInv'
<1>0. PICK b \in BatchesOf(s), t \in FreshBatches, l \in Live(location, s), d \in Dispositions :
       \E n \in 1..(batch[b].qty - 1) :
        LET r == batch[b]
            c == r.container
            debited == [batch EXCEPT ![b] =
                Row(r.product, r.location, r.qty - n, IF KeptBySource(d) THEN c ELSE None)]
            swept == IF d = "destroy" /\ c # None THEN Cleared(debited, c) ELSE debited
        IN /\ d = "destroy" /\ c # None => c \in Live(container, s)
           /\ batch' = [swept EXCEPT ![t] =
                Row(r.product, l, n, IF GivenToTarget(d) THEN c ELSE None)]
           /\ container' = IF d = "destroy" /\ c # None THEN Destroyed(c) ELSE container
           /\ moves' = WriteLog(moves, [x \in Batch |-> r.product], MoveRows(b, t, n))
  BY DEF SplitBatch
<1> DEFINE r == batch[b]
           c == r.container
           gone == d = "destroy" /\ c # None
           kept == IF KeptBySource(d) THEN c ELSE None
           given == IF GivenToTarget(d) THEN c ELSE None
           debited(n) == [batch EXCEPT ![b] = Row(r.product, r.location, r.qty - n, kept)]
           swept(n) == IF gone THEN Cleared(debited(n), c) ELSE debited(n)
<1>1. PICK n \in 1..(batch[b].qty - 1) :
        /\ batch' = [swept(n) EXCEPT ![t] = Row(r.product, l, n, given)]
        /\ container' = IF gone THEN Destroyed(c) ELSE container
        /\ moves' = WriteLog(moves, [x \in Batch |-> r.product], MoveRows(b, t, n))
  BY <1>0
<1>2. UNCHANGED <<product, location, ledger>>
  BY DEF SplitBatch
<1>3. /\ b \in Batch /\ r.state = "held" /\ StorageOf[r.product] = s /\ GoodRow(b) /\ r \in BatchRow
      /\ t \in Batch /\ batch[t].state = "fresh" /\ t # b
  BY DEF BatchesOf, FreshBatches, IInv, TypeOK, TableOK
<1>4. /\ r.product \in Product /\ product[r.product] = "live"
      /\ r.location \in Location /\ location[r.location] = "live" /\ StorageOf[r.location] = s
      /\ r.qty \in Qty /\ r.qty \in Int
      /\ c \in Container \cup {None}
      /\ c # None => container[c] = "live" /\ StorageOf[c] = s
  BY <1>3 DEF GoodRow, BatchRow
<1>5. n \in Qty /\ n \in Int /\ n > 0 /\ r.qty - n \in Qty /\ r.qty - n > 0 /\ r.qty - n \in Int
  BY <1>4, StockAssumption
<1>6. l \in Location /\ location[l] = "live" /\ StorageOf[l] = s
  BY DEF Live, IInv, TypeOK
<1>7. kept \in {None, c} /\ given \in {None, c} /\ (gone => kept = None /\ given = None)
  BY DEF KeptBySource, GivenToTarget
<1> DEFINE source == Row(r.product, r.location, r.qty - n, kept)
           target == Row(r.product, l, n, given)
<1>8. /\ source \in BatchRow /\ source.state = "held" /\ source.product = r.product
      /\ source.location = r.location /\ source.qty = r.qty - n /\ source.container = kept
  BY <1>4, <1>5, <1>7, RowFields
<1>9. /\ target \in BatchRow /\ target.state = "held" /\ target.product = r.product
      /\ target.location = l /\ target.qty = n /\ target.container = given
  BY <1>4, <1>5, <1>6, <1>7, RowFields
<1>10. debited(n) \in [Batch -> BatchRow] /\ debited(n)[b] = source
       /\ \A x \in Batch \ {b} : debited(n)[x] = batch[x]
  BY <1>3, <1>8 DEF IInv, TypeOK
<1> HIDE DEF source, target, kept, given, debited
<1>11. /\ swept(n) \in [Batch -> BatchRow]
       /\ swept(n)[b] = source
       /\ \A x \in Batch \ {b} : swept(n)[x] =
            IF gone /\ batch[x].state = "held" /\ batch[x].container = c
              THEN Row(batch[x].product, batch[x].location, batch[x].qty, None) ELSE batch[x]
  <2>1. CASE ~gone
    BY <1>10, <2>1
  <2>2. CASE gone
    <3>1. source.container # c
      BY <1>7, <1>8, <2>2
    <3>2. \A x \in Batch \ {b} : batch[x].state = "held" =>
            Row(batch[x].product, batch[x].location, batch[x].qty, None) \in BatchRow
      <4> SUFFICES ASSUME NEW x \in Batch, batch[x].state = "held"
                   PROVE  Row(batch[x].product, batch[x].location, batch[x].qty, None) \in BatchRow
        OBVIOUS
      <4>1. batch[x].product \in Product /\ batch[x].location \in Location /\ batch[x].qty \in Qty
        BY DEF IInv, TypeOK, TableOK, GoodRow, BatchRow
      <4> QED
        BY <4>1, RowFields
    <3>3. swept(n) = Cleared(debited(n), c)
      BY <2>2
    <3>4. /\ swept(n)[b] = source
          /\ \A x \in Batch \ {b} : swept(n)[x] =
               IF batch[x].state = "held" /\ batch[x].container = c
                 THEN Row(batch[x].product, batch[x].location, batch[x].qty, None) ELSE batch[x]
      BY <1>3, <1>10, <3>1, <3>3 DEF Cleared
    <3>5. \A x \in Batch : swept(n)[x] \in BatchRow
      BY <1>8, <3>2, <3>4 DEF IInv, TypeOK
    <3> QED
      BY <2>2, <3>3, <3>4, <3>5 DEF Cleared
  <2> QED
    BY <2>1, <2>2
<1> HIDE DEF swept
<1>12. /\ batch' \in [Batch -> BatchRow]
       /\ batch'[b] = source
       /\ batch'[t] = target
       /\ \A x \in Batch \ {b, t} : batch'[x] = swept(n)[x]
  BY <1>1, <1>3, <1>9, <1>11 DEF target
<1>13. /\ container' \in [Container -> {"fresh", "live", "destroyed"}]
       /\ \A x \in Container : ~(gone /\ x = c) => container'[x] = container[x]
  BY <1>1, <1>4 DEF Destroyed, IInv, TypeOK
<1>14. GoodRow(b)'
  <2>1. kept # None => kept = c /\ ~gone
    BY <1>7
  <2> QED
    BY <1>2, <1>3, <1>4, <1>5, <1>8, <1>12, <1>13, <2>1 DEF GoodRow
<1>15. GoodRow(t)'
  <2>1. given # None => given = c /\ ~gone
    BY <1>7
  <2> QED
    BY <1>2, <1>3, <1>4, <1>5, <1>6, <1>9, <1>12, <1>13, <2>1 DEF GoodRow
<1>16. ASSUME NEW x \in Batch \ {b, t}
       PROVE  /\ GoodRow(x)'
              /\ batch'[x].product = batch[x].product
              /\ batch'[x].qty = batch[x].qty
  <2>0. GoodRow(x) /\ batch[x] \in BatchRow
    BY DEF IInv, TypeOK, TableOK
  <2>1. CASE gone /\ batch[x].state = "held" /\ batch[x].container = c
    <3>1. batch[x].product \in Product /\ batch[x].location \in Location /\ batch[x].qty \in Qty
      BY <2>0, <2>1 DEF GoodRow, BatchRow
    <3>2. batch'[x] = Row(batch[x].product, batch[x].location, batch[x].qty, None)
      BY <1>11, <1>12, <2>1
    <3>3. /\ batch'[x].state = "held"
          /\ batch'[x].product = batch[x].product
          /\ batch'[x].location = batch[x].location
          /\ batch'[x].qty = batch[x].qty
          /\ batch'[x].container = None
      BY <3>1, <3>2, RowFields
    <3> QED
      BY <1>2, <2>0, <2>1, <3>3 DEF GoodRow
  <2>2. CASE ~(gone /\ batch[x].state = "held" /\ batch[x].container = c)
    <3>1. batch'[x] = batch[x]
      BY <1>11, <1>12, <2>2
    <3>2. batch[x].container # None /\ batch[x].state = "held" =>
            container'[batch[x].container] = container[batch[x].container]
      BY <1>13, <2>0, <2>2 DEF BatchRow
    <3> QED
      BY <1>2, <2>0, <3>1, <3>2 DEF GoodRow
  <2> QED
    BY <2>1, <2>2
<1>17. TableOK'
  BY <1>14, <1>15, <1>16 DEF TableOK
<1> DEFINE rows == MoveRows(b, t, n)
<1>18. rows \in [Batch -> Int] /\ rows[b] = 0 - n /\ rows[t] = n
       /\ \A x \in Batch \ {b, t} : rows[x] = 0
  BY <1>3, <1>5 DEF MoveRows
<1>19. ASSUME NEW p \in Product, NEW x \in Batch
       PROVE  Holding(p, x)' = Holding(p, x)
                + (IF [y \in Batch |-> r.product][x] = p THEN rows[x] ELSE 0)
  <2> HIDE DEF rows
  <2>0. Holding(p, x) \in Int
    BY DEF Holding, IInv, TypeOK, BatchRow
  <2>1. CASE x = b
    BY <1>3, <1>4, <1>5, <1>8, <1>12, <1>18, <2>1 DEF Holding
  <2>2. CASE x = t
    <3>1. batch[t].product = None
      BY <1>3 DEF IInv, TableOK, GoodRow
    <3>2. Holding(p, x) = 0
      BY <2>2, <3>1, StockAssumption DEF Holding
    <3> QED
      BY <1>3, <1>5, <1>9, <1>12, <1>18, <2>2, <3>2 DEF Holding
  <2>3. CASE x \notin {b, t}
    BY <1>16, <1>18, <2>0, <2>3 DEF Holding
  <2> QED
    BY <2>1, <2>2, <2>3
<1>20. LedgerExplainsStock' /\ ledger' \in Books /\ moves' \in Books
  <2>1. moves' = WriteLog(moves, [y \in Batch |-> r.product], rows)
    BY <1>1
  <2> HIDE DEF rows, r
  <2> QED
    BY <1>2, <1>18, <1>19, <2>1, Explained
<1>21. TypeOK'
  BY <1>2, <1>12, <1>13, <1>20 DEF IInv, TypeOK, Books
<1> QED
  BY <1>17, <1>20, <1>21 DEF IInv


-----------------------------------------------------------------------------
(* The stocktake *)

LEMMA ConfirmStocktakeKeeps ==
  ASSUME IInv, NEW s \in Storage, NEW l \in Location, NEW counted \in SUBSET Batch,
         ConfirmStocktake(s, l, counted)
  PROVE  IInv'
<1> DEFINE tally(count) == [b \in Batch |-> IF b \in counted THEN Adjusted(batch[b], count[b])
                                                            ELSE batch[b]]
           change(count) == [b \in Batch |-> IF b \in counted THEN count[b] - batch[b].qty ELSE 0]
           book(count) == WriteLog(ledger, OwnersOf(counted), change(count))
<1>0. PICK count \in [counted -> Qty], B \in SUBSET FreshBatches : \E found \in [B -> NewBatch] :
        /\ CanCreate(found, s, Live(product, s), {l})
        /\ \A b \in B : found[b].container = None
        /\ batch' = Inserted(tally(count), found)
        /\ ledger' = WriteLog(book(count), NewOwners(found), NewQuantities(found))
  BY DEF ConfirmStocktake
<1>1. PICK found \in [B -> NewBatch] :
        /\ CanCreate(found, s, Live(product, s), {l})
        /\ \A b \in B : found[b].container = None
        /\ batch' = Inserted(tally(count), found)
        /\ ledger' = WriteLog(book(count), NewOwners(found), NewQuantities(found))
  BY <1>0
<1>2. UNCHANGED <<product, location, container>> /\ moves' = moves
  BY DEF ConfirmStocktake
<1>3. location[l] = "live" /\ StorageOf[l] = s /\ counted = BatchesAt(l)
  BY DEF ConfirmStocktake, MatchBatchIDs, Live
<1>4. B \in SUBSET Batch /\ DOMAIN found = B /\ \A b \in counted : b \notin B
  BY <1>3 DEF FreshBatches, BatchesAt
<1>5. book(count) \in Books /\ \A p \in Product, b \in Batch :
        book(count)[p][b] = ledger[p][b] + (IF OwnersOf(counted)[b] = p THEN change(count)[b] ELSE 0)
  <2>1. change(count) \in [Batch -> Int]
    BY DEF IInv, TypeOK, BatchRow
  <2> HIDE DEF change
  <2>2. ledger \in Books
    BY DEF IInv, TypeOK, Books
  <2> QED
    BY <2>1, <2>2, WriteLogSums
<1> DEFINE gain(p, b) == (IF OwnersOf(counted)[b] = p THEN change(count)[b] ELSE 0)
                          + (IF NewOwners(found)[b] = p THEN NewQuantities(found)[b] ELSE 0)
<1>6. ASSUME NEW b \in Batch
      PROVE  /\ batch'[b] \in BatchRow
             /\ GoodRow(b)'
             /\ \A p \in Product : Holding(p, b)' = Holding(p, b) + gain(p, b)
  <2>1. CASE b \in counted
    <3>1. batch'[b] = Adjusted(batch[b], count[b]) /\ batch[b].state = "held"
      BY <1>1, <1>3, <1>4, <2>1 DEF Inserted, BatchesAt
    <3>2. count[b] \in Qty /\ count[b] \in Int /\ batch[b].qty \in Int
      BY <2>1 DEF IInv, TypeOK, BatchRow
    <3>3. /\ batch'[b] \in BatchRow
          /\ GoodRow(b)'
          /\ \A p \in Product : Holding(p, b)' = Holding(p, b)
                + (IF batch[b].product = p THEN count[b] - batch[b].qty ELSE 0)
      BY <1>2, <3>1, <3>2, AdjustedRow
    <3>4. OwnersOf(counted)[b] = batch[b].product /\ change(count)[b] = count[b] - batch[b].qty
      BY <2>1 DEF OwnersOf
    <3>5. \A p \in Product : NewOwners(found)[b] # p
      BY <1>4, <2>1, StockAssumption DEF NewOwners
    <3>6. \A p \in Product : gain(p, b)
                = IF batch[b].product = p THEN count[b] - batch[b].qty ELSE 0
      BY <3>2, <3>4, <3>5
    <3> QED
      BY <3>3, <3>6
  <2>2. CASE b \in B
    <3>1. batch'[b] = Row(found[b].product, found[b].location, found[b].qty, found[b].container)
      BY <1>1, <1>4, <2>2 DEF Inserted
    <3>2. found[b] \in NewBatch
      BY <2>2
    <3>3. /\ batch'[b] \in BatchRow
          /\ batch'[b].state = "held"
          /\ batch'[b].product = found[b].product
          /\ batch'[b].location = found[b].location
          /\ batch'[b].qty = found[b].qty
          /\ batch'[b].container = found[b].container
      BY <3>1, <3>2, NewRowFields
    <3>4. /\ found[b].product \in Product /\ product[found[b].product] = "live"
          /\ StorageOf[found[b].product] = s /\ found[b].location = l
          /\ found[b].container = None /\ found[b].qty > 0 /\ found[b].qty \in Int
      BY <1>1, <1>4, <2>2, <3>2, StockAssumption DEF CanCreate, Live, NewBatch
    <3>5. GoodRow(b)'
      BY <1>2, <1>3, <3>3, <3>4 DEF GoodRow
    <3>6. batch[b].product = None
      BY <1>4, <2>2 DEF FreshBatches, IInv, TableOK, GoodRow
    <3>7. \A p \in Product : OwnersOf(counted)[b] # p /\ Holding(p, b) = 0
      BY <1>4, <2>2, <3>6, StockAssumption DEF OwnersOf, Holding
    <3>8. NewOwners(found)[b] = found[b].product /\ NewQuantities(found)[b] = found[b].qty
      BY <1>4, <2>2 DEF NewOwners, NewQuantities
    <3>9. \A p \in Product : gain(p, b) = IF found[b].product = p THEN found[b].qty ELSE 0
      BY <3>4, <3>7, <3>8
    <3>10. \A p \in Product : Holding(p, b)' = IF found[b].product = p THEN found[b].qty ELSE 0
      BY <3>3 DEF Holding
    <3> QED
      BY <3>3, <3>4, <3>5, <3>7, <3>9, <3>10
  <2>3. CASE b \notin counted \cup B
    <3>1. batch'[b] = batch[b]
      BY <1>1, <1>4, <2>3 DEF Inserted
    <3>2. \A p \in Product : OwnersOf(counted)[b] # p /\ NewOwners(found)[b] # p
      BY <1>4, <2>3, StockAssumption DEF OwnersOf, NewOwners
    <3>3. \A p \in Product : gain(p, b) = 0
      BY <3>2
    <3> QED
      BY <1>2, <3>1, <3>3, KeptRow
  <2> QED
    BY <2>1, <2>2, <2>3
<1> HIDE DEF gain
<1>7. ledger' \in Books /\ \A p \in Product, b \in Batch :
        ledger'[p][b] = ledger[p][b] + gain(p, b) /\ gain(p, b) \in Int
  <2>1. NewQuantities(found) \in [Batch -> Int]
    BY <1>4, StockAssumption DEF NewQuantities, NewBatch
  <2>2. change(count) \in [Batch -> Int]
    BY DEF IInv, TypeOK, BatchRow
  <2> HIDE DEF change, book
  <2>3. /\ ledger' \in Books
        /\ \A p \in Product, b \in Batch : ledger'[p][b] = book(count)[p][b]
              + (IF NewOwners(found)[b] = p THEN NewQuantities(found)[b] ELSE 0)
    BY <1>1, <1>5, <2>1, WriteLogSums
  <2> SUFFICES ASSUME NEW p \in Product, NEW b \in Batch
               PROVE  ledger'[p][b] = ledger[p][b] + gain(p, b) /\ gain(p, b) \in Int
    BY <2>3
  <2>4. ledger[p][b] \in Int
    BY DEF IInv, TypeOK
  <2>5. /\ (IF OwnersOf(counted)[b] = p THEN change(count)[b] ELSE 0) \in Int
        /\ (IF NewOwners(found)[b] = p THEN NewQuantities(found)[b] ELSE 0) \in Int
    BY <2>1, <2>2
  <2> QED
    BY <1>5, <2>3, <2>4, <2>5 DEF gain
<1>8. LedgerExplainsStock'
  <2> SUFFICES ASSUME NEW p \in Product, NEW b \in Batch
               PROVE  ledger'[p][b] + moves'[p][b] = Holding(p, b)'
    BY DEF LedgerExplainsStock, Holding
  <2>1. ledger[p][b] + moves[p][b] = Holding(p, b) /\ ledger[p][b] \in Int /\ moves[p][b] \in Int
    BY DEF IInv, TypeOK, LedgerExplainsStock, Holding
  <2> QED
    BY <1>2, <1>6, <1>7, <2>1
<1>9. batch' \in [Batch -> BatchRow]
  BY <1>1, <1>6 DEF Inserted
<1>10. TypeOK'
  BY <1>2, <1>7, <1>9 DEF IInv, TypeOK, Books
<1>11. TableOK'
  BY <1>6 DEF TableOK
<1> QED
  BY <1>8, <1>10, <1>11 DEF IInv

-----------------------------------------------------------------------------
LEMMA NextIInv == IInv /\ [Next]_vars => IInv'
<1> SUFFICES ASSUME IInv, [Next]_vars PROVE IInv'
  OBVIOUS
<1>1. CASE UNCHANGED vars
  BY <1>1 DEF vars, IInv, TypeOK, TableOK, GoodRow, LedgerExplainsStock
<1>2. CASE Next
  <2>1. PICK s \in Storage :
        \/ CreateProduct(s) \/ CreateLocation(s) \/ DeleteLocation(s) \/ DeleteProduct(s)
        \/ MergeProducts(s) \/ ConfirmIngestion(s) \/ CreateBatch(s) \/ ConfirmConsumption(s)
        \/ SplitBatch(s) \/ DestroyContainer(s) \/ UpdateBatch(s)
        \/ \E l \in Location, counted \in SUBSET Batch : ConfirmStocktake(s, l, counted)
    BY <1>2 DEF Next
  <2>2. CASE CreateProduct(s)      BY <2>2, CreateProductKeeps
  <2>3. CASE CreateLocation(s)     BY <2>3, CreateLocationKeeps
  <2>4. CASE DeleteLocation(s)     BY <2>4, DeleteLocationKeeps
  <2>5. CASE DeleteProduct(s)      BY <2>5, DeleteProductKeeps
  <2>6. CASE MergeProducts(s)      BY <2>6, MergeProductsKeeps
  <2>7. CASE ConfirmIngestion(s)   BY <2>7, ConfirmIngestionKeeps
  <2>8. CASE CreateBatch(s)        BY <2>8, CreateBatchKeeps
  <2>9. CASE ConfirmConsumption(s) BY <2>9, ConfirmConsumptionKeeps
  <2>10. CASE SplitBatch(s)        BY <2>10, SplitBatchKeeps
  <2>11. CASE DestroyContainer(s)  BY <2>11, DestroyContainerKeeps
  <2>12. CASE UpdateBatch(s)       BY <2>12, UpdateBatchKeeps
  <2>13. CASE \E l \in Location, counted \in SUBSET Batch : ConfirmStocktake(s, l, counted)
    BY <2>13, ConfirmStocktakeKeeps
  <2> QED
    BY <2>1, <2>2, <2>3, <2>4, <2>5, <2>6, <2>7, <2>8, <2>9, <2>10, <2>11, <2>12, <2>13
<1> QED
  BY <1>1, <1>2

LEMMA Invariance == Spec => []IInv
BY InitIInv, NextIInv, PTL DEF Spec

(* Every transaction leaves rows and sums of their types behind: in particular no
   decrement takes a quantity below zero. *)
THEOREM TypeCorrect == Spec => []TypeOK
<1>1. IInv => TypeOK
  BY DEF IInv
<1> QED
  BY Invariance, <1>1, PTL

(* The log rows of a batch add up to what is on the shelf, after any sequence of
   creations, splits, moves, counts, confirms, merges and deletions. *)
THEOREM LedgerIsExact == Spec => []LedgerExplainsStock
<1>1. IInv => LedgerExplainsStock
  BY DEF IInv
<1> QED
  BY Invariance, <1>1, PTL

(* No transaction leaves an empty batch, or one whose product or shelf is gone. *)
THEOREM NoStrayStock == Spec => []StockIsSomewhere
<1>1. IInv => StockIsSomewhere
  BY DEF IInv, TableOK, GoodRow, StockIsSomewhere
<1> QED
  BY Invariance, <1>1, PTL

(* No sequence of requests files stock across storages. *)
THEOREM TenantsStayApart == Spec => []OneStorage
<1>1. IInv => OneStorage
  BY DEF IInv, TableOK, GoodRow, OneStorage
<1> QED
  BY Invariance, <1>1, PTL

(* No batch is in a destroyed container, as long as transactions do not overlap. *)
THEOREM DestroyedMeansEmpty == Spec => []ContainersExist
<1>1. IInv => ContainersExist
  <2> SUFFICES ASSUME IInv, NEW b \in Batch, batch[b].container # None
               PROVE  container[batch[b].container] = "live"
    BY DEF ContainersExist
  <2>1. GoodRow(b)
    BY DEF IInv, TableOK
  <2> QED
    BY <2>1 DEF GoodRow
<1> QED
  BY Invariance, <1>1, PTL

-----------------------------------------------------------------------------
(* Moves *)

(* The balance of one product, as a sum. *)
LEMMA BalanceIsSum ==
  ASSUME NEW book, NEW p
  PROVE  MapThenSumSet(LAMBDA b : book[p][b], Batch) = SumOf(book[p], Batch)
BY DEF SumOf

(* What a split takes from one batch it gives to the other. *)
LEMMA MoveRowsCancel ==
  ASSUME NEW b \in Batch, NEW t \in Batch, b # t, NEW n \in Int
  PROVE  SumOf(MoveRows(b, t, n), Batch) = 0
<1> DEFINE none == [x \in Batch |-> 0]
           half == [x \in Batch |-> IF x = b THEN 0 - n ELSE 0]
           both == MoveRows(b, t, n)
<1>1. /\ \A x \in Batch : none[x] = 0 /\ half[x] \in Int /\ both[x] \in Int
      /\ \A x \in Batch : x # b => half[x] = none[x]
      /\ \A x \in Batch : x # t => both[x] = half[x]
      /\ half[b] = 0 - n /\ half[t] = 0 /\ both[t] = n
  BY DEF MoveRows
<1> HIDE DEF none, half, both
<1>2. SumOf(none, Batch) = 0
  BY <1>1, SumZero, StockAssumption
<1>3. /\ \A x \in Batch : none[x] \in Int /\ half[x] \in Int
      /\ \A x \in Batch : x # b => half[x] = none[x]
  BY <1>1
<1>4. /\ \A x \in Batch : half[x] \in Int /\ both[x] \in Int
      /\ \A x \in Batch : x # t => both[x] = half[x]
  BY <1>1
<1>5. IsFiniteSet(Batch)
  BY StockAssumption
<1>6. SumOf(half, Batch) = SumOf(none, Batch) + (half[b] - none[b])
  BY <1>3, <1>5, SumChange
<1>7. SumOf(both, Batch) = SumOf(half, Batch) + (both[t] - half[t])
  BY <1>4, <1>5, SumChange
<1>8. SumOf(both, Batch) = 0
  BY <1>1, <1>2, <1>6, <1>7
<1> QED
  BY <1>8 DEF both

(* A step keeps every product's moves balanced: a split writes two rows that
   cancel, a merge adds two balances, a deletion takes whole products. *)
LEMMA BalanceKept ==
  ASSUME IInv, MovesBalance, [Next]_vars
  PROVE  MovesBalance'
<1>1. moves \in Books /\ \A p \in Product, b \in Batch : moves[p][b] \in Int
  BY DEF IInv, TypeOK, Books
<1>2. \A p \in Product : SumOf(moves[p], Batch) = 0
  BY BalanceIsSum DEF MovesBalance
<1>3. SUFFICES ASSUME NEW p \in Product
               PROVE  SumOf(moves'[p], Batch) = 0
  BY DEF MovesBalance, SumOf, MapThenSumSet, MapThenFoldSet
<1>4. CASE moves' = moves
  BY <1>2, <1>4
<1>5. ASSUME NEW s \in Storage, DeleteProduct(s)
      PROVE  SumOf(moves'[p], Batch) = 0
  <2>1. PICK x \in Live(product, s) :
          moves' = [y \in Product |-> IF y = x THEN [b \in Batch |-> 0] ELSE moves[y]]
    BY <1>5 DEF DeleteProduct
  <2>2. CASE p = x
    <3>1. \A b \in Batch : moves'[p][b] = 0
      BY <2>1, <2>2
    <3> QED
      BY <3>1, SumZero, StockAssumption
  <2>3. CASE p # x
    BY <1>2, <2>1, <2>3
  <2> QED
    BY <2>2, <2>3
<1>6. ASSUME NEW s \in Storage, MergeProducts(s)
      PROVE  SumOf(moves'[p], Batch) = 0
  <2>1. PICK survivor \in Live(product, s), source \in Live(product, s) :
          survivor # source /\ moves' = Repointed(moves, survivor, source)
    BY <1>6 DEF MergeProducts
  <2>2. survivor \in Product /\ source \in Product
    BY DEF Live, IInv, TypeOK
  <2>3. CASE p = survivor
    <3>1. \A b \in Batch : moves'[p][b] = moves[survivor][b] + moves[source][b]
      BY <1>1, <2>1, <2>2, <2>3, RepointedSums
    <3>2. SumOf(moves'[p], Batch) = SumOf(moves[survivor], Batch) + SumOf(moves[source], Batch)
      BY <1>1, <2>2, <3>1, SumPlus, StockAssumption
    <3> QED
      BY <1>2, <2>2, <3>2
  <2>4. CASE p = source
    <3>1. \A b \in Batch : moves'[p][b] = 0
      BY <1>1, <2>1, <2>2, <2>4, RepointedSums
    <3> QED
      BY <3>1, SumZero, StockAssumption
  <2>5. CASE p # survivor /\ p # source
    <3>1. \A b \in Batch : moves'[p][b] = moves[p][b]
      BY <2>1, <2>5 DEF Repointed
    <3>2. SumOf(moves'[p], Batch) = SumOf(moves[p], Batch)
      BY <1>1, <3>1, SumSame, StockAssumption
    <3> QED
      BY <1>2, <3>2
  <2> QED
    BY <2>3, <2>4, <2>5
<1>7. ASSUME NEW s \in Storage, SplitBatch(s)
      PROVE  SumOf(moves'[p], Batch) = 0
  <2>1. PICK b \in BatchesOf(s), t \in FreshBatches : \E n \in 1..(batch[b].qty - 1) :
          moves' = WriteLog(moves, [x \in Batch |-> batch[b].product], MoveRows(b, t, n))
    BY ZenonT(60), <1>7 DEF SplitBatch
  <2>2. PICK n \in 1..(batch[b].qty - 1) :
          moves' = WriteLog(moves, [x \in Batch |-> batch[b].product], MoveRows(b, t, n))
    BY <2>1
  <2>3. b \in Batch /\ t \in Batch /\ b # t /\ n \in Int
    BY DEF BatchesOf, FreshBatches, IInv, TypeOK, BatchRow
  <2> DEFINE rows == MoveRows(b, t, n)
             for == [x \in Batch |-> batch[b].product]
  <2>4. rows \in [Batch -> Int]
    BY <2>3 DEF MoveRows
  <2>5. SumOf(rows, Batch) = 0
    BY <2>3, MoveRowsCancel
  <2>6. \A x \in Batch : for[x] = batch[b].product
    OBVIOUS
  <2> HIDE DEF rows, for
  <2>7. \A x \in Batch : moves'[p][x] = moves[p][x] + (IF for[x] = p THEN rows[x] ELSE 0)
    BY <1>1, <2>2, <2>4, WriteLogSums DEF rows, for
  <2>8. CASE batch[b].product = p
    <3>1. SumOf(moves'[p], Batch) = SumOf(moves[p], Batch) + SumOf(rows, Batch)
      <4>1. \A x \in Batch : /\ moves[p][x] \in Int /\ rows[x] \in Int
                             /\ moves'[p][x] = moves[p][x] + rows[x]
        BY <1>1, <2>4, <2>6, <2>7, <2>8
      <4> QED
        BY <4>1, SumPlus, StockAssumption
    <3> QED
      BY <1>2, <2>5, <3>1
  <2>9. CASE batch[b].product # p
    <3>1. \A x \in Batch : moves[p][x] \in Int /\ moves'[p][x] = moves[p][x]
      BY <1>1, <2>6, <2>7, <2>9
    <3>2. SumOf(moves'[p], Batch) = SumOf(moves[p], Batch)
      BY <3>1, SumSame, StockAssumption
    <3> QED
      BY <1>2, <3>2
  <2> QED
    BY <2>8, <2>9
<1> QED
  BY <1>4, <1>5, <1>6, <1>7 DEF Next, vars, CreateProduct, CreateLocation, DeleteLocation,
     ConfirmIngestion, CreateBatch, ConfirmConsumption, DestroyContainer, UpdateBatch,
     ConfirmStocktake

(* Whatever sequence of splits, merges and deletions happens, the 'move' rows of a
   product sum to zero over all the batches it ever had: moving stock makes none
   and loses none. *)
THEOREM MovesCancel == Spec => []MovesBalance
<1>1. Init => MovesBalance
  <2> SUFFICES ASSUME Init, NEW p \in Product
               PROVE  SumOf(moves[p], Batch) = 0
    BY BalanceIsSum DEF MovesBalance
  <2>1. \A b \in Batch : moves[p][b] = 0
    BY DEF Init
  <2> QED
    BY <2>1, SumZero, StockAssumption
<1>2. IInv /\ MovesBalance /\ [Next]_vars => MovesBalance'
  BY BalanceKept
<1> QED
  BY Invariance, <1>1, <1>2, PTL DEF Spec

=============================================================================
