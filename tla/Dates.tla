------------------------------- MODULE Dates --------------------------------
(* Expiration dates that follow shelf-life rules (internal/expiry, internal/store/
   expiry.go and the rule changes of products.go, categories.go and catalog.go).

   A rule change and its cascade read the rules, lock the derived batches of one
   product after the other and write their dates when they commit; a category's
   rule is the exception, it commits first and each product on its own.  Nothing
   locks the rules a resolution has read, so a batch can be dated by rules that
   another transaction replaces: those batches are recorded in `loose'. *)
EXTENDS Integers, FiniteSets

CONSTANTS
    Product, Category, Batch, Changer,
    Entry,              \* the catalog entry the products were picked from
    Shelf,              \* shelf lives a rule may state, in days
    StatedDate,         \* dates a person may state, Nothing for no expiry
    MaxDay, MaxChanges, MaxLots,    \* bounds
    Nothing,            \* NULL
    ByRules             \* of a batch nobody has dated

Rule == Product \cup Category \cup {Entry}

ASSUME DatesAssumption ==
    /\ Shelf \subseteq Nat /\ StatedDate \subseteq Nat \cup {Nothing}
    /\ {MaxDay, MaxChanges, MaxLots} \subseteq Nat
    /\ {Nothing, ByRules} \cap (Rule \cup Nat) = {} /\ Nothing # ByRules
    /\ IsFiniteSet(Rule) /\ IsFiniteSet(Batch)
    /\ Product \cap Category = {} /\ Entry \notin Product \cup Category /\ Category # {}

VARIABLES
    rules,      \* committed: days by rule, category filed in, parent, link, item type
    batch,      \* inventory_batches; one lot are halves nobody has dated since the split
    today,
    change,     \* rule changes being served
    changes,    \* how many have begun
    said,       \* history: the date a person gave each batch, if a person did
    loose       \* history: batches whose date no undisturbed cascade vouches for

dateVars == <<rules, batch, today, change, changes, said, loose>>

ItemType == {"perishable", "long_shelf_life", "non_perishable"}

ItemTypeFallbackDays ==
    [t \in ItemType |-> CASE t = "perishable" -> 7
                          [] t = "long_shelf_life" -> 365
                          [] t = "non_perishable" -> Nothing]

Gone == [live |-> FALSE, product |-> Nothing, made |-> 0, date |-> Nothing,
         source |-> "derived", lot |-> Nothing]

NoWrite == [field |-> Nothing, key |-> Nothing, value |-> Nothing]

NoChange == [phase |-> "idle", write |-> NoWrite, reach |-> {}, todo |-> {},
             product |-> Nothing, days |-> Nothing, plan |-> <<>>, crossed |-> FALSE]

DatesInit ==
    /\ rules = [days |-> [r \in Rule |-> Nothing],
                filed |-> [p \in Product |-> CHOOSE k \in Category : TRUE],
                above |-> [k \in Category |-> Nothing],
                linked |-> [p \in Product |-> TRUE],
                kind |-> [p \in Product |-> "perishable"]]
    /\ batch = [b \in Batch |-> Gone]
    /\ today = 0
    /\ change = [c \in Changer |-> NoChange]
    /\ changes = 0
    /\ said = [b \in Batch |-> ByRules]
    /\ loose = {}

-----------------------------------------------------------------------------
(* Resolution *)

\* The categories from k up, nearest first.
Ancestry(r, k) ==
    LET up[n \in 0..Cardinality(Category)] ==
          IF n = 0 THEN k
          ELSE IF up[n - 1] = Nothing THEN Nothing ELSE r.above[up[n - 1]]
    IN  up

Resolve(r, p) ==
    LET chain == Ancestry(r, r.filed[p])
        set   == {n \in DOMAIN chain : chain[n] # Nothing /\ r.days[chain[n]] # Nothing}
    IN  IF r.days[p] # Nothing THEN r.days[p]
        ELSE IF r.linked[p] /\ r.days[Entry] # Nothing THEN r.days[Entry]
        ELSE IF set # {} THEN r.days[chain[CHOOSE n \in set : \A m \in set : n <= m]]
        ELSE ItemTypeFallbackDays[r.kind[p]]

\* Seeded fault: the days are taken off.
BugDateBefore(made, days) == IF days = Nothing THEN Nothing ELSE made - days

DateFor(made, days) == IF days = Nothing THEN Nothing ELSE made + days

-----------------------------------------------------------------------------
(* Rule changes *)

InFlight == {c \in Changer : change[c].phase # "idle"}

\* Requests are interchangeable: the next one served is the first that is free.
FreshRequest(c) == c \notin InFlight /\ c = CHOOSE d \in Changer : d \notin InFlight

Overlay(r, w) == IF w = NoWrite THEN r ELSE [r EXCEPT ![w.field][w.key] = w.value]

\* What a transaction of c reads: what is committed, and its own write.
View(c) == Overlay(rules, change[c].write)

\* Seeded fault: only the products filed in the category itself.
BugFiledIn(r, k) == {p \in Product : r.filed[p] = k}

ProductsUnderCategory(r, k) ==
    {p \in Product : LET chain == Ancestry(r, r.filed[p]) IN \E n \in DOMAIN chain : chain[n] = k}

Linked(r) == {p \in Product : r.linked[p] /\ r.days[p] = Nothing}

\* A row two transactions write is written by one after the other.
RowFree(key) == \A d \in Changer : change[d].write.key # key

Crossing(c) == [d \in Changer |-> [change[d] EXCEPT !.crossed = @ \/ d \in InFlight]]

\* The change's own write, and whom its cascade will look for.
BeginChange(c, write, reach) ==
    /\ FreshRequest(c)
    /\ changes < MaxChanges
    /\ RowFree(write.key)
    /\ changes' = changes + 1
    /\ change' = [Crossing(c) EXCEPT ![c] =
         [NoChange EXCEPT !.phase = IF reach \subseteq Product THEN "found" ELSE "wrote",
                          !.write = write, !.todo = reach \cap Product,
                          !.reach = reach \ Product, !.crossed = InFlight # {}]]
    /\ UNCHANGED <<rules, batch, today, said, loose>>

Write(field, key, value) == [field |-> field, key |-> key, value |-> value]

\* PATCH of a product: its own shelf life.
UpdateProduct(c, p, d) == BeginChange(c, Write("days", p, d), {p})

SetProductCategory(c, p, k) == BeginChange(c, Write("filed", p, k), {p})

CorrectCatalogShelfLife(c, d) == BeginChange(c, Write("days", Entry, d), {Entry})

\* Moves are serialised by the tree lock and refused when they close a ring.
MoveCategory(c, k, up) ==
    /\ \A d \in Changer : change[d].write.field # "above"
    /\ \A n \in 0..Cardinality(Category) : Ancestry(rules, up)[n] # k
    /\ BeginChange(c, Write("above", k, up), {k})

SetCategoryShelfLife(k, d) == Overlay(rules, Write("days", k, d))

\* The rule commits first.
PatchCategoryShelfLife(c, k, d) ==
    /\ FreshRequest(c)
    /\ changes < MaxChanges
    /\ RowFree(k)
    /\ rules' = SetCategoryShelfLife(k, d)
    /\ changes' = changes + 1
    /\ change' = [Crossing(c) EXCEPT ![c] =
         [NoChange EXCEPT !.phase = "wrote", !.reach = {k}, !.crossed = InFlight # {}]]
    /\ UNCHANGED <<batch, today, said, loose>>

\* The products the cascade visits.
Find(c) ==
    /\ change[c].phase = "wrote"
    /\ change' = [change EXCEPT ![c].phase = "found",
         ![c].reach = {},
         ![c].todo = UNION {IF r = Entry THEN Linked(View(c)) ELSE ProductsUnderCategory(View(c), r) :
                            r \in change[c].reach}]
    /\ UNCHANGED <<rules, batch, today, changes, said, loose>>

ExpiryRulesFor(c, p) ==
    /\ change[c].phase = "found"
    /\ p \in change[c].todo
    /\ change' = [change EXCEPT ![c].phase = "resolved", ![c].todo = @ \ {p},
                                ![c].product = p, ![c].days = Resolve(View(c), p)]
    /\ UNCHANGED <<rules, batch, today, changes, said, loose>>

BatchesOf(p) == {b \in Batch : batch[b].live /\ batch[b].product = p}

\* Seeded fault: the cascade takes every batch of the product.
BugAllBatches(p) == BatchesOf(p)

DerivedBatches(p) ==
    {b \in BatchesOf(p) : batch[b].source = "derived"}

BatchFree(b) == \A c \in Changer : b \notin DOMAIN change[c].plan

\* A transaction goes on with its next product; a category's cascade commits first.
After(c) == IF change[c].write # NoWrite /\ change[c].todo # {} THEN "found" ELSE "loaded"

\* SELECT ... FOR UPDATE of the derived batches, and the dates they will get.
LoadDerivedBatches(c) ==
    LET taken == DerivedBatches(change[c].product)
        plan  == change[c].plan
    IN  /\ change[c].phase = "resolved"
        /\ \A b \in taken : BatchFree(b)
        /\ change' = [change EXCEPT ![c].phase = After(c),
             ![c].plan = [b \in DOMAIN plan \cup taken |->
                            IF b \in taken THEN DateFor(batch[b].made, change[c].days) ELSE plan[b]]]
        /\ UNCHANGED <<rules, batch, today, changes, said, loose>>

\* The commit of the change with its cascade, or of one product of a category's.
ApplyDerivedExpiry(c) ==
    LET plan == change[c].plan
        more == change[c].write = NoWrite /\ change[c].todo # {}
    IN  /\ \/ change[c].phase = "loaded" /\ (change[c].todo = {} \/ change[c].write = NoWrite)
           \/ change[c].phase = "found" /\ change[c].todo = {}
        /\ rules' = View(c)
        /\ batch' = [b \in Batch |->
             IF b \in DOMAIN plan THEN [batch[b] EXCEPT !.date = plan[b], !.source = "derived"]
             ELSE batch[b]]
        /\ loose' = IF change[c].crossed THEN loose \cup DOMAIN plan ELSE loose \ DOMAIN plan
        /\ change' = [change EXCEPT ![c] =
             IF more THEN [@ EXCEPT !.phase = "found", !.plan = <<>>] ELSE NoChange]
        /\ UNCHANGED <<today, changes, said>>

\* A cancelled request, an error, a deadlock: the transaction rolls back; of a
\* category's cascade what is left to do stays undone.
Fail(c) ==
    /\ c \in InFlight
    /\ LET open == IF change[c].write # NoWrite THEN {}
                   ELSE change[c].todo \cup {change[c].product}
                        \cup (IF change[c].phase = "wrote" THEN Product ELSE {})
       IN  loose' = loose \cup {b \in Batch : batch[b].live /\ batch[b].product \in open}
    /\ change' = [change EXCEPT ![c] = NoChange]
    /\ UNCHANGED <<rules, batch, today, changes, said>>

\* Rule changes without a cascade: an item type ("only two fields do", says
\* touchesExpiryRules), and the links of a catalog entry that is deleted.
Uncascaded(field, ps, value) ==
    /\ changes < MaxChanges
    /\ \A p \in ps : RowFree(p)
    /\ rules' = [rules EXCEPT ![field] = [p \in Product |-> IF p \in ps THEN value ELSE @[p]]]
    /\ changes' = changes + 1
    /\ change' = [d \in Changer |-> [change[d] EXCEPT !.crossed = @ \/ d \in InFlight]]
    /\ loose' = loose \cup {b \in Batch : batch[b].live /\ batch[b].product \in ps}
    /\ UNCHANGED <<batch, today, said>>

PatchItemType(p, t) == Uncascaded("kind", {p}, t)

DeleteCatalogProduct ==
    /\ \E p \in Product : rules.linked[p]
    /\ RowFree(Entry)
    /\ Uncascaded("linked", Product, FALSE)

-----------------------------------------------------------------------------
(* Batches *)

\* newID
FreshID(b) == ~batch[b].live /\ b = CHOOSE d \in Batch : ~batch[d].live

Dated(b, row, claim) ==
    /\ batch' = [batch EXCEPT ![b] = row]
    /\ said' = [said EXCEPT ![b] = claim]
    /\ UNCHANGED <<rules, today, change, changes>>

Lots == {batch[b].lot : b \in {d \in Batch : batch[d].live}}

\* A date is stated, "none" included, or derived from the rules of this moment.
CreateBatch(b, p, stated, date) ==
    /\ FreshID(b)
    /\ Cardinality(Lots) < MaxLots
    /\ Dated(b, [live |-> TRUE, product |-> p, made |-> today, lot |-> b,
                 source |-> IF stated THEN "user" ELSE "derived",
                 date |-> IF stated THEN date ELSE DateFor(today, Resolve(rules, p))],
             IF stated THEN date ELSE ByRules)
    /\ loose' = IF InFlight # {} THEN loose \cup {b} ELSE loose \ {b}

SetBatchExpiration(b, date) ==
    /\ batch[b].live /\ BatchFree(b)
    /\ Dated(b, [batch[b] EXCEPT !.date = date, !.source = "user", !.lot = b], date)
    /\ UNCHANGED loose

ResetBatchExpirationToDerived(b) ==
    /\ batch[b].live /\ BatchFree(b)
    /\ Dated(b, [batch[b] EXCEPT !.date = DateFor(batch[b].made, Resolve(rules, batch[b].product)),
                                 !.source = "derived", !.lot = b], ByRules)
    /\ loose' = IF InFlight # {} THEN loose \cup {b} ELSE loose \ {b}

\* The target has the source's date and a created_at of its own.
SplitBatch(b, t) ==
    /\ batch[b].live /\ BatchFree(b) /\ FreshID(t)
    /\ Dated(t, [batch[b] EXCEPT !.made = today], said[b])
    /\ loose' = loose \cup {t}

\* The moved batches follow the survivor's rules.
MergeProducts(survivor, source) ==
    /\ survivor # source /\ RowFree(survivor) /\ RowFree(source)
    /\ \A b \in BatchesOf(source) : BatchFree(b)
    /\ LET moved == DerivedBatches(source)
       IN  /\ batch' = [b \in Batch |->
                IF b \notin BatchesOf(source) THEN batch[b]
                ELSE [batch[b] EXCEPT !.product = survivor,
                        !.date = IF b \in moved THEN DateFor(batch[b].made, Resolve(rules, survivor))
                                 ELSE @]]
           /\ loose' = IF InFlight # {} THEN loose \cup moved ELSE loose \ moved
    /\ UNCHANGED <<rules, today, change, changes, said>>

Tomorrow ==
    /\ today < MaxDay
    /\ today' = today + 1
    /\ UNCHANGED <<rules, batch, change, changes, said, loose>>

-----------------------------------------------------------------------------
(* Requests.  The inputs are changes that change something: saving a value again
   runs the same code. *)

\* A number of days that is no nonsense, or null.
ParseShelfLifeDays(old) == (Shelf \cup {Nothing}) \ {old}

\* The patch of a product: its shelf life, its category, its item type.
PatchProduct(c, p) ==
    \/ \E d \in ParseShelfLifeDays(rules.days[p]) : UpdateProduct(c, p, d)
    \/ \E t \in ItemType \ {rules.kind[p]} : FreshRequest(c) /\ PatchItemType(p, t)

PutProductCategory(c, p) ==
    \E k \in (Category \cup {Nothing}) \ {rules.filed[p]} : SetProductCategory(c, p, k)

PatchCatalog(c) == \E d \in ParseShelfLifeDays(rules.days[Entry]) : CorrectCatalogShelfLife(c, d)

\* A stated date, "no expiry" included, or back to the automatic one.
PatchBatchExpiry(b) ==
    \/ \E d \in StatedDate : SetBatchExpiration(b, d)
    \/ ResetBatchExpirationToDerived(b)

DatesNext ==
    \/ \E c \in Changer :
         \/ Find(c) \/ LoadDerivedBatches(c) \/ ApplyDerivedExpiry(c) \/ Fail(c)
         \/ \E p \in Product : ExpiryRulesFor(c, p) \/ PatchProduct(c, p) \/ PutProductCategory(c, p)
         \/ PatchCatalog(c)
         \/ \E k \in Category : \E d \in ParseShelfLifeDays(rules.days[k]) : PatchCategoryShelfLife(c, k, d)
         \/ \E n \in Category : \E k \in (Category \cup {Nothing}) \ {rules.above[n]} :
              MoveCategory(c, n, k)
    \/ DeleteCatalogProduct
    \/ \E p, q \in Product : MergeProducts(p, q)
    \/ \E b \in Batch :
         \/ \E p \in Product, d \in StatedDate, stated \in BOOLEAN : CreateBatch(b, p, stated, d)
         \/ \E t \in Batch : SplitBatch(b, t)
         \/ PatchBatchExpiry(b)
    \/ Tomorrow

DatesSpec == DatesInit /\ [][DatesNext]_dateVars

-----------------------------------------------------------------------------
DatesTypeOK ==
    /\ rules \in [days : [Rule -> Shelf \cup {Nothing}], filed : [Product -> Category \cup {Nothing}],
                  above : [Category -> Category \cup {Nothing}], linked : [Product -> BOOLEAN],
                  kind : [Product -> ItemType]]
    /\ batch \in [Batch ->
         [live : BOOLEAN, product : Product \cup {Nothing}, made : 0..MaxDay, date : Nat \cup {Nothing},
          source : {"derived", "user"}, lot : Batch \cup {Nothing}]]
    /\ today \in 0..MaxDay /\ changes \in 0..MaxChanges
    /\ loose \subseteq Batch
    /\ \A c \in Changer :
         /\ change[c].phase \in {"idle", "wrote", "found", "resolved", "loaded"}
         /\ change[c].todo \subseteq Product
         /\ DOMAIN change[c].plan \subseteq {b \in Batch : batch[b].live}

(* "A date a person typed, including the deliberate no expiry at all, outranks every
   rule, forever": whatever cascades, merges and splits run, in whatever order, a
   batch a person dated has that date until a person changes or resets it. *)
UserDatesStick ==
    \A b \in Batch : batch[b].live /\ said[b] # ByRules =>
        batch[b].source = "user" /\ batch[b].date = said[b]

(* "`derived' means follows the current rules": once no rule change is being served,
   a derived date is the one the rules give, for every order of rule changes,
   re-filings, moves of categories, merges and failures.  Not vouched for (loose)
   are the batches last dated while another rule change was being served, the halves
   of a split until a cascade dates them, what a category's cascade that failed left
   undone, and an item type or a catalog link that changes without a cascade. *)
DatesFollowRules ==
    InFlight = {} =>
        \A b \in Batch \ loose : batch[b].live /\ batch[b].source = "derived" =>
            batch[b].date = DateFor(batch[b].made, Resolve(rules, batch[b].product))

(* "Both halves keep the original expiration_date ...: they are the same jars, so
   their expiry does not reset": halves whose dates both follow the rules have the
   same date. *)
HalvesAgeTogether ==
    InFlight = {} =>
        \A b, d \in Batch \ loose :
            /\ batch[b].live /\ batch[d].live /\ batch[b].lot = batch[d].lot
            /\ batch[b].source = "derived" /\ batch[d].source = "derived"
            => batch[b].date = batch[d].date

=============================================================================
