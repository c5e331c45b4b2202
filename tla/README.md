# Inventory in TLA+

Inventory is a household stock server: a Go process over PostgreSQL, with a web
client. Members photograph shelves, a vision model proposes what is on them, and
a member's review turns the proposal into stock; the same happens when stock is
used up. This directory holds TLA+ models of the parts of the server that carry
its promises, TLC configurations that check them on small instances, and TLAPS
proofs for every instance. Paths below are relative to the repository.

## 1. The system

| Part | State | Operations | Talks to |
|---|---|---|---|
| Job runner `internal/jobs/runner.go` | goroutines, a semaphore, `closed`, its lease owner id | Submit, Resubmit, Recover, RunLeases, Shutdown | jobs table, the work of ingest and consume |
| Jobs table `internal/store/jobs.go` | status, payload, `lease_owner`, `lease_expires_at` | create, finish, sweep, renew, release, requeue, consume, discard | runner, HTTP handlers, confirms |
| Reviews `internal/ingest`, `internal/consume`, `store/ingestion.go`, `store/consumption.go` | the stored proposal; a review screen in a browser | Start, Reanalyze, Confirm* | jobs, stock |
| Batches and ledger `store/batches.go` | `inventory_batches`, `inventory_logs` | create, split, update, adjust | products, locations, containers |
| Containers `store/containers.go` | `containers` | label, retype, destroy, split dispositions | batches |
| Stocktake `store/stocktake.go` | a sheet in a browser | read the sheet, confirm it | batches |
| Products, locations, categories | rows and trees of one storage | create, move, merge, delete | batches, tombstones |
| Expiry cascade `internal/expiry`, `store/expiry.go` | rules per product, category and catalogue | resolve, recompute, override | batches |
| Client contract `httpapi/idempotency.go`, `store/delta.go`, `store/tombstones.go` | idempotency records, tombstones | keyed writes, deltas, sweeps | every write |
| Access `internal/auth`, `store/sessions.go`, `store/pairing.go`, `store/users.go`, `store/storages.go` | users, sessions, pairing codes, memberships, failure counters | log in, pair, change password, revoke, administer | every request |
| Barcodes `store/barcodes.go` | codes of a storage, hints of the catalogue, a prompt per user | associate, scan in, scan out, accept a hint | products, batches |
| Shopping `store/shoppinglists.go`, `store/reorder.go`, `httpapi/productpictures.go` | lists, lines, thresholds, picture files | create, rematch, resolve, track, picture | products, batches, photo jobs |
| Gamification `internal/gamification`, `store/gamification.go`, `store/quests.go`, `store/achievements.go` | contributions, cached points, quests, achievements | score, advance, pay, generate, rebuild | every scoring write, two scheduled jobs |
| Notifications `internal/notify`, `store/notifications.go` | settings of a storage, its last run | save, test, claim, post, record | batches, an outside receiver |
| Images, derivatives, matching, icons, vision | files and caches | | reviews, products |

What is hard about it:

* **Several processes.** A rolling update runs two servers on one database, and
  either may be killed. Whatever one holds in memory (goroutines, locks, claims)
  ends with it, its rows do not.
* **Late answers.** A vision call may answer after its row was swept, discarded,
  applied or started again.
* **Reads that wait for a person.** A review screen and a stocktake sheet stay
  open for minutes while the rest of the household writes.
* **Sequences.** Splits, moves, merges, counts and deletions in any order have to
  leave a ledger that still explains the shelf.
* **Gates and locks at different times.** A request is admitted by one statement and
  writes in another; rules, lots, lines and proposals are read before the row that
  is written is locked, and some rows are never locked at all.
* **Work outside the transaction.** Files are written before the row that names
  them, answers are recorded after the write they stand for, digests are posted
  after the day is claimed.
* **Two tenants.** Ids come from the request; the schema does not tie a batch's
  product, shelf and container to one storage.

`PROJECT.json` lists every hazard at its line, with the property that covers it
or the reason why none does yet.

## 2. The modules

| Module | What it is |
|---|---|
| `JobLifecycle` | what the jobs table promises to whoever polls it: the status machine, nothing else |
| `Jobs` | the runner, its leases and processes, and the members' reviews |
| `Stock` | batches, ledger, containers, products and shelves; one action per transaction |
| `Stocktake` | `Stock` with a member walking a shelf: the sheet is read, and confirmed later |
| `DeltaSync` | the rows of one cacheable entity kind, their tombstones, the transactions that write them, and a client cache |
| `Access` | accounts, sessions, pairing codes, storages, memberships, and the gates before them |
| `CredentialLimiter` | the failure windows of one process, and attempts verified at the same time |
| `KeyedWrites` | one idempotency key: duplicates, retries, two processes, the record of the answer |
| `Tree` | the location and category trees under concurrent structural edits |
| `Dates` | shelf-life rules of every level, their cascades, and dates people state |
| `Scans` | barcodes and what scanning them adds and takes |
| `Shopping` | shopping lists, the reorder list, and the pictures of the products they make |
| `Scoring` | points, quests, milestones, the weekly job and the nightly rebuild |
| `Digest` | the daily notification of what expires |
| `JobsProofs`, `StockProofs`, `DeltaProofs`, `ScoringProofs` | theorems and proofs about the module of that name |
| `GateProofs`, `CatalogueProofs`, `HouseholdProofs` | theorems and proofs about the modules `MCGate`, `MCCatalogue` and `MCHousehold` compose |
| `Induction` | induction over numbers and finite sets, and sums, in a form the provers can use |
| `MCJobs`, `MCStock`, `MCStocktake`, `MCDelta` | instances for TLC: symmetry and the storages of ids |
| `MCGate`, `MCCatalogue`, `MCHousehold` | instances of several modules that share no variable |

Operators named `Bug...` are seeded faults: the form a definition would have if
the code had a plausible mistake. Nothing uses them; `PROJECT.json` pairs each with
the definition it replaces and the property that has to notice.

### Jobs

`job[j]` is a row: status, lease owner, what the SQL can tell about the lease
(`none`, `current`, `lapsed`), which attempt the row is in, which run recorded its
outcome and how many rows the stored proposal has. `attempt` and `endedBy` are
history: the table has no such column, which is the reason an outcome can be
attributed to the wrong run. `proc[p]` is one life of `serve()`; a restart is another
element of `Proc`, as each life mints its own owner id. `queued` and `running` are
the goroutines before and after they get a slot. `seen` holds the proposals open in
review screens.

| Action | Code |
|---|---|
| `Submit`, `Resubmit` | `Runner.Submit` with `CreateJob`; `Runner.Resubmit` with `RequeueJob`. The mutex is held from the closed check to `wg.Add`, so the claim and the goroutine are one step |
| `TakeSlot`, `CancelQueued` | the two arms of the `select` in `run` |
| `Complete`, `Fail`, `LoseOutcome` | `finish`: a valid payload; an error, panic, timeout or invalid payload; an outcome write that fails and is logged |
| `RenewTick`, `SweepTick` | the two statements of a tick of `RunLeases`, which other processes may come between |
| `Start`, `Shutdown`, `Release`, `Exit`, `Kill` | `serve`: `Recover` before the listener, `Runner.Shutdown`, `releaseLeases`, the end of the process, and its end without any of that |
| `Lapse` | `lease_expires_at` passes |
| `Review`, `Confirm`, `DeleteJob`, `DiscardJobs` | the handlers and their transactions |

Faults are a constant, so that a property is checked under the faults it is
supposed to survive: `crash`, `deadline` (the shutdown grace ends first), `stall`
(lease statements of a live process fail), `lostwrite` (an outcome write fails).

### Stock

Ids are minted by the application, so an element of `Product`, `Batch`, `Location` or
`Container` is a row that does not exist yet, exists, or existed. The ledger is kept
as sums: `ledger[p][b]` adds the log rows with product `p` written for batch `b`,
`moves[p][b]` those of reason `move`. Rows of a deleted batch (whose `batch_id` becomes
NULL) still count under it. `CreateBatch`, `ConfirmIngestion`, `ConfirmConsumption`,
`SplitBatch`, `UpdateBatch`, `DestroyContainer`, `ConfirmStocktake`, `MergeProducts`,
`DeleteProduct`, `DeleteLocation`, `CreateProduct` and `CreateLocation` are the
transactions of the same names, with the checks their handlers make first.

One action is one transaction. That is exact for the quantities: every transaction
locks the batch rows it reads. It is not exact for containers, which are not locked,
nor for products against batches; see the plan.

### DeltaSync

A client keeps a copy of a list (`cache`) and a `cursor`, the `server_time` of its last
delta. `row[e]` is a row: how often it was written and its `updated_at`; `deletedAt[e]`
is its tombstone. PostgreSQL's `now()` is the start of a transaction, so a row becomes
visible with a stamp from the past: `tx[t]` is the start of each open transaction, and
the reason for the watermark.

| Action | Code |
|---|---|
| `Begin`, `Commit` | `inTx` around the writes of products, categories and locations, with `recordTombstones` in the same transaction. Writes are one step, at the commit: until then nobody sees them and row locks keep other writers off |
| `SweepTombstones` | the hourly sweep, by the server's clock |
| `Ask` | `deltaWatermark` and `DeltaIsResumable`; the refusal is the 409 that empties the client's cache |
| `ReadChanged`, `ReadDeleted` | the other two statements of `loadDelta`, each with its own snapshot; the answer is applied with the second |
| `Lose` | a request that fails, or whose answer does not arrive |
| `Anchor`, `FetchAll` | a client without a cache. Full lists carry no cursor, so it takes one from an empty delta and then fetches the list; the client is not in the repository |

`late` is history: the sweep measures retention from the clock, the refusal from the
watermark, and the tombstones are read some time after the refusal was decided. A delta
whose cursor leaves the window in between may miss a swept tombstone. With a retention
of 30 days and requests of seconds the window is narrow; the properties state it as
their exception instead of assuming it away.

### Access, CredentialLimiter, KeyedWrites

A request of `Access` is a small process: it passes `ResolveSession` and then
`RequireAdmin` or `RequireStorageMember`, and acts in a later step, so that everything a
gate saw may have changed. Logins and pairings are two steps as well (`Authenticate` then
`Login`, `RedeemPairingCode` then `Pair`), and so is the bootstrap of the first
administrator. `proof` is history: whether a session, a code or a login in progress
stands on the present password. A session admitted by a login that had verified the old
password before the change is `late`: the code does not exclude it, and
`SessionsAreCurrent` says exactly what it does exclude. Nothing in `DeleteUser` counts
administrators; what keeps two of them from deleting each other is the foreign key of
the audit row the second one writes (`AsAdmin`).

`CredentialLimiter` is `ratelimit.go`: looked up, verified, recorded, under two holds of the
mutex. `KeyedWrites` is the middleware of `idempotency.go`: lock of the process, lookup,
handler, answer, record. `excused` is history for what the design does not cover: a
crash or a failed insert between the commit and the record, a retry after the records
were swept, a second process that looked the key up meanwhile.

### Tree and Dates

An edit of `Tree` is asked for under the advisory lock of its storage, checked, and
written, while shelves and categories fill and empty without the lock (`Use`, `Vacate`:
the foreign keys). The walks stop at `MaxTreeDepth` as the queries do; `deep` records
that a tree has gone past it, after which nothing is claimed. `minted` is history: ids come
from the application and are used once.

A rule change of `Dates` writes its rule, finds the products it reaches, and for one
product after the other resolves the rules, locks the derived batches and plans their
dates, all written at the commit; a category's rule commits first and every product on
its own. `rules` is what is committed, `View` adds a transaction's own write. Nobody
locks the rules a resolution has read, so `loose` records the batches whose date no
undisturbed cascade vouches for: dated while another change was being served, split,
left behind by a failed cascade, or subject to a change that has no cascade (the item
type of a product, the deletion of a catalogue row).

### Scans, Shopping

A scan out (`LogBarcode`, `PlanDecrements`, `AdjustBatch` per lot, `CommitScan`) plans
without locks and locks each lot as it comes to it; `left` holds the quantities its
transaction has changed. `MergeItems` and `DeleteItem` wait for locked lots and come
between everything else. `added`, `taken` and `discarded` are history.

In `Shopping` a request that writes goes through `picture` (the file is on disk), `ready`,
`locked` (the row is locked and its former value read) and the commit, whose answer may
be lost. A list is one line, as no statement relates two lines. A photo proposal that
turned out to be a list is converted by `CreateFromJob` and `CreateShoppingListFromJob`,
while it may be confirmed, discarded or analysed again elsewhere. `blind` records
products whose commit was answered with an error, which removes their picture.

### Scoring, Digest

A write that scores holds what it locks until it ends: the row of points of its user
(`Bump`), the rows of the quests it may advance (`AdvanceOneQuest`), the rows of points of
everyone a completed quest pays (`PayContributor`). `RollBack` is any error, and the
database's choice of a victim when two of them wait for each other. `met` abstracts the
catalogue to which products satisfy a generator's condition. `Coalesce` is the reference
the cache is compared with: groups of one product and kind, cut into windows. `raced` and
`silent` are history. `raced` are the members whose cache is allowed to be behind: a rebuild
missed events that went on meanwhile, or a deletion took log rows away that had joined
corrections into one window (`Severed`). `silent` are the quests one of whose conditions came
true without credit, or by a write that looked for the quest when there was none (`Unseen`).

In `Digest` every process claims what is due in one statement, and then reads, builds,
posts and records one storage after the other. The clock may repeat an hour. Nothing is
retried: a digest whose process dies or whose post is lost is lost for that day.

## 3. The runs

| Run | Expect | Instance | States |
|---|---|---|---|
| `jobs_faults` | pass | 2 jobs, 2 processes, 1 slot, 2 attempts, all faults, symmetry | 251,633 |
| `jobs_rolling` | pass | 2 jobs, 2 processes, 1 slot, 2 attempts, crashes, fairness | 68,761 |
| `jobs_lost_outcome` | violation | 1 job, 1 process, `lostwrite`, fairness | |
| `jobs_stale_review` | violation | 1 job, 1 process, 2 attempts, no faults | |
| `stock` | pass | 2 storages, 2 products, 3 shelves, 3 batches, 1 container, quantities to 2 | 19,266 |
| `stocktake_stale_sheet` | violation | 1 storage, 1 product, 2 shelves, 2 batches | |
| `delta_sync` | pass | 1 row, 2 transactions, retention 1, clock to 3, 2 writes, fairness | 65,826 |
| `delta_locations` | violation | the same, for the locations endpoint | |
| `gate` | pass | 2 users, 2 sessions, 1 code, 1 storage, 2 requests; limit 2, 2 attempts; 2 calls, 2 processes | 1,539,576 |
| `catalogue` | pass | 3 places and a category; 2 products, 2 categories, 2 batches, 2 concurrent rule changes | 1,016,719 |
| `dates_split` | violation | the same | |
| `household` | pass | see the bounds; symmetry of members | 915,020 |

**jobs_faults.** A claim never outlives `pending`, and an owner always comes with an
expiry (`LeaseMeansPending`); a proposal is applied at most once (`AppliedOnce`); a
process never fails its own work however long its renewals fail
(`SweepSparesOwnWork`); an outcome that comes too late changes nothing
(`LateOutcomeIsDropped`); and the whole is an implementation of `JobLifecycle`.

**jobs_rolling.** Without stalls and lost writes, also: a pending row is worked on or
will be swept (`PendingIsWorkedOrOrphaned`), is ended by its current run or a sweep
(`OutcomeOfCurrentRun`), no sweep touches live work (`SweepSparesLiveWork`), and every
pending job ends (`PendingEnds`). `OutcomeOfCurrentRun` needs the absence of stalls and
of an expired grace period: with either, a row that was swept and analysed again can be
ended by the run that was swept, as `finishJob` does not compare the owner.

**jobs_lost_outcome.** With one failed outcome write, `PendingEnds` is false in a process
that never stops: the lease of the row goes on being renewed and nobody works on it.
`runner.go` says a pending job that never ends "is exactly what the jobs table exists to
prevent".

**jobs_stale_review.** A review screen stays open over "Analyze again": the new proposal
has the same positional row ids, so `matchRowIDs` accepts the old decisions if it has as
many rows. `ingest/proposal.go` says the payload "is written once and never rebuilt".

**stock.** The log rows of every batch add up to its quantity, under the product it
belongs to now (`LedgerExplainsStock`); `move` rows sum to zero per product
(`MovesBalance`); a batch is a positive quantity of an existing product on an existing
shelf (`StockIsSomewhere`) of one storage (`OneStorage`), in a container that exists
(`ContainersExist`). The run does not check deadlock: ids run out, and a household may
delete everything it has.

**stocktake_stale_sheet.** A member reads the sheet, another takes one unit, the first
confirms what the sheet said: the decrement is overwritten. `docs/specs/13` says a shelf
changed since the sheet was fetched is refused; `matchBatchIDs` compares batch ids only.

**delta_sync.** No change falls between two deltas, whatever transactions were open when
the cursor was handed out and whatever was swept since (`NothingMissed`); every instant a
client holds is past (`TypeOK`); and a client that keeps asking ends with what is stored
(`Converges`).

**delta_locations.** `LocationsChangedSince` selects one column fewer than `scanLocation`
scans, so the first changed location makes the request a server error, and every retry of
it (`DeltaIsServed`). The one store test
that asks for changed locations does so in a storage that has none.

**gate.** Once there are accounts there is an administrator (`AdminRemains`); no session
outlives a change of password (`SessionsAreCurrent`); the windows exceed their limit by
no more than the attempts that were being verified (`GuessesBounded`); a keyed write is
committed once, but for what is excused (`OneEffect`), and no answer is given to a request
it was not made for (`AnswersMatch`).

**catalogue.** Every node can be reached from a root of its own storage, and the nodes that
exist are those that were made and have no tombstone (`Rooted`); a date a person stated
stays until a person changes it (`UserDatesStick`); once no rule change is being served,
derived dates are the ones the rules give, for every batch that is not loose
(`DatesFollowRules`).

**dates_split.** `SplitBatch` inserts the carried half without `created_at`, so its shelf life
starts again on the day of the split, and the next cascade gives the two halves
different dates (`HalvesAgeTogether`); the comment above it says their expiry does not
reset.

**household.** What is on the shelf is what was there and what scans added, less what they
took and what went with a product (`ScansCountOnce`). A line's stock is added once; a
proposal becomes at most one list; a picture that is named is on disk; a product that
starts being tracked is credited once (`ShoppingSettlesOnce`). A quest pays everyone who
helped exactly once and a milestone each member once, and the write that meets a
quest's last target completes it (`QuestsPayOnce`). Cached points are never less than
what the events are worth, but for the members in `raced` (`NoXPLost`). A storage is
notified at most once a day, of exactly what was due when it was read
(`OneDigestPerDay`).

**Composition.** The modules of `MCGate`, of `MCCatalogue` and of `MCHousehold` share no
variable, so a property of one holds of their composition exactly if it holds while the
others stand still: `focus` picks one initially and it alone moves. Within `Shopping`,
`Scoring` and `Digest`, `focus` also picks a group of operations, each with everything that
writes the same rows: `resolve`, `photos` and `reorder` all include the pictures, locks,
refusals, crashes, merges and deletions; `quests` has writes, the weekly job and quiet
changes, `weeks` writes and the weekly job across a Monday, `milestones` two weekly jobs
over two weeks, `points` confirmations and corrections of a product over three hours, its
deletion and the rebuild. What the run leaves out is a behaviour that needs operations of two
groups, such as a rebuild during a milestone; section 4 covers these.

**Bounds.** Two processes are an old and a new one of a rolling update; two jobs compete
for one slot; two attempts are what it takes to have an outcome of an earlier one. Three
batches allow a split of a split and a batch found beside two counted ones; two shelves
of one storage and one of another allow a move and a foreign id; quantity 2 is the
smallest that splits, 1 the smallest that empties. In
`delta_sync` one row is enough, as no definition relates two rows; two transactions
overlap each other and a request; with retention 1 a clock up to 3 lets a tombstone be
swept and a cursor be refused. Violations need less.
In `gate` two administrators are two users, each with a session and a request; limit and
window 2 with two attempts at a time reach the limit, pass it and see it lapse. In
`catalogue` three places make a chain one deeper than `MaxTreeDepth` (64 in the code, 2
here) and two moves in opposite directions; two rule changes overlap, over two products of
one catalogue row and two nested categories; batches are made on day 0 or 1, so that a
date tells from which day it counts. In `household` two requests at a time compete for
two lots (of 2 and 1 units, so that a scan of 2 spills over), one line, one product or one
proposal; three scoring writes, two of them open at once, complete a quest of two targets
over two products; the milestone is one clean week; two processes run two digests over
two days of two hours. Ids that the program mints are taken in order, and a free request
is the first one: they are interchangeable. `CHECK_DEADLOCK FALSE` in `household`, because all
its counters are bounded and a household may stop. The windows of `Classify` are the
code's (3 and 14 days), with batches that expire before, within and after them.

**Fairness.** `FairSpec` assumes that the scheduler runs every goroutine, the ticker
fires, the work ends because its context has a timeout (`DefaultTimeout`), a process asked
to stop does so within its grace period and is followed by another (`restart:
unless-stopped` in the compose files), and a claim nobody renews lapses. Nothing is
assumed of members or of the vision provider. In `DeltaSync` the client asks again, a
request ends one way or the other and a transaction ends with its request's context
(timeouts on both), and an answer gets through now and then: that one is strong fairness,
as an answer can be lost any number of times.

## 4. The proofs

`tlapm` checks every step of `JobsProofs`, `StockProofs`, `DeltaProofs`, `GateProofs`,
`Induction`, `CatalogueProofs`, `HouseholdProofs` and `ScoringProofs`. No theorem rests on
anything but the named assumptions of the modules. Besides ranges of the bounds these say:

* sets of rows that are summed, counted or climbed are finite (`StockAssumption`,
  `DatesAssumption`, `TreeAssumption`, `ScansAssumption`, `ScoringAssumption`,
  `LimiterAssumption`);
* NULL is no value, and rows of different tables are different (`StockAssumption`,
  `DatesAssumption`, `TreeAssumption`, `AccessAssumption`, `KeyedAssumption`,
  `DeltaAssumption`, `ScansAssumption`, `ShoppingAssumption`, `ScoringAssumption`,
  `PointsAssumption`, `DigestAssumption`);
* ids a model takes in order are numbers, as in `Scans`, `Shopping` and `Scoring`;
* what the program starts with is well formed (`ScansAssumption`, `ShoppingAssumption`,
  `DigestAssumption`);
* the generators are the code's, and milestones are not among the other achievements of a
  storage (`ScoringAssumption`); no kind of contribution is called what confirmations and
  corrections are grouped under, as the comment at `coalesce.go:78` promises
  (`PointsAssumption`); the window of critical dates is within that of dates to come soon
  (`DigestAssumption`);
* what is in focus in `MCHousehold` is taken from the modules' own constants
  (`FocusAssumption`).

**Jobs.** The inductive invariant is `TypeOK`, `LeaseMeansPending`, `AppliedOnce`, and two
parts that hold under some faults only: a claim of a process that is not gone is
current, unless lease statements can stall (`LiveClaimsCurrent`), and
`PendingIsWorkedOrOrphaned`, unless outcome writes can fail (`WorkInv`). From it:
`TypeCorrect`, `LeaseDiscipline`, `ProposalAppliedOnce`, `NeverSilentlyLost` (assuming
`"lostwrite" \notin Faults`), `RollingUpdateSparesLiveWork` (assuming `"stall" \notin
Faults`). `OutcomesAreCurrent` (assuming neither stalls nor an expired grace period) adds
that every goroutine works on the attempt its row is in (`RunsAreCurrent`).
`NoTickFailsItsOwn` and `LateOutcomesAreDropped` are action properties under every fault.
`JobsImplementLifecycle` shows every step to be one of `JobLifecycle` or a stutter.

**Stock.** The inductive invariant is `TypeOK`, a statement about each row of the batch
table on its own (`TableOK`: a held row has a positive quantity, a live product, shelf
and container of one storage; any other row is blank), and `LedgerExplainsStock`. Rows
are the right grain: a transaction replaces some rows and changes the life of some ids,
so each action needs only that the rows it writes are good and that the ids it retires
are used by none. From it: `TypeCorrect`, `LedgerIsExact`, `NoStrayStock`,
`TenantsStayApart`, `DestroyedMeansEmpty`. `MovesCancel` is about a sum over all batches: each
transaction changes the summands of one or two rows by amounts that cancel, or moves a whole
column to another product (`Induction`: `SumChange`, `SumShift` and their kin).

**DeltaSync.** `NothingMissed` is not inductive: it says nothing of a request half served,
nor of transactions that have yet to commit. The invariant adds that no open transaction
can stamp a row before the cursor or the mark of the request in progress, and that the
cursor is not past that mark (`Behind`); that what the list has read for a row is still
right, or will be announced by the cursor about to be handed out (`Listing`); and that
tombstones belong to deleted rows (`Shape`). From it: `TypeCorrect`, `DeltaLosesNothing`,
for any number of rows and transactions, any retention and any endpoint.

**Access.** `AdminRemains` is not inductive: a deletion that would leave nobody is refused
because the account that asked has to exist, which helps only if that account is an
administrator's. `AdminRequests` says it is, or is gone, however long ago the gate was
passed. From it: `AnAdminRemains`, `NoSessionOutlivesPassword`.

**KeyedWrites.** A second call is kept out of the handler by the lock of its own process
(`CallRows`, `Locks`), or belongs to a process whose miss beside the first is excused
(`OneRuns`). From it: `KeyedWritesOnce`, `AnswersAreTheirOwn`.

**CredentialLimiter.** The failures of a window and the attempts past the lookup that have
not failed yet are bounded together (`PendingBounded`, `MintingBounded`), which needs the
cardinality of a set under the step of one attempt. From it: `GuessesAreBounded`.
`GateImplements` shows that the composition behaves as each of the three, and
`GateTypeCorrect` collects their types.

**Dates.** A cascade reads rules it does not lock and writes dates later. The invariant
follows it: what a rule change has reached, planned and skipped (`Steps`, `PlanRows`,
`OneMove`), that a date it has planned is the one the rules of its view give unless somebody
else's change has made the batch loose (`Followed`, `Reached`, `Undisturbed`). Climbing the
categories is a recursive function; `Climb` and the lemmas of `Induction` show that it is
the only function that satisfies its equation, and that a climb of as many steps as there
are categories reaches the top. From it: `TypedDatesStick`, `DerivedDatesFollowRules`.

**Tree.** A node is rooted if a rank decreases towards its root (`Ordered`), and a rank is
what a move can be shown to keep: the subtree that moves is not above its new parent, which
the walk of `CheckEdit` has established under the lock (`AllChecked`, `OneEditor`,
`EditRows`) as long as no tree is deeper than the walk is long (`Placed`, `deep`). Ancestors
and descendants are least sets, reached by a spread of one generation at a time. From it:
`TreesStayRooted`. `CatalogueImplements` and `CatalogueTypeCorrect` are about the
composition.

**Digest.** A storage a process has claimed is pending with it, claimed by nobody else, and
not posted yet (`OneInHand`, `OneClaim`, `PendingClaimed`, `PostedClaimed`). From it:
`NotifiedOncePerDay`; that a digest is complete is a matter of the windows of the query and
the bands of `Classify`.

**Shopping.** The row a request has locked is as the request read it (`LineLocks`,
`WareLocks`), a line names a product that exists (`NamedLines`), and the file of a request is
its own until it commits (`SavedPictures`, `NamedPictures`). From it: `SettledOnce`.

**Scans.** A lot is held by one scan (`OneHolder`); what a scan has taken is what its plan
says of the lots it has come to, and its own view of them is the committed quantity less
that (`Accounted`); sums over lots and plans balance (`Balanced`). From it: `ScansAddUp`.

**Scoring.** What is committed says too little of what is under way. Of every write: the
quests it holds are active and held by nobody else, and what it has paid and is going to pay
for a quest it ends is due to its contributors; every condition it satisfies is looked at,
now or later; a quest it holds and does not end is short of its target with this write
counted (`WriteOK`). Of every weekly job: what it found is still so, or there is a quest, or
it is on record that the condition was met unseen (`JobOK`). From it: `RewardsPaidOnce`.

`NoXPLost` rests on what events are worth. A new event can open a window, bridge the gap
between two, or raise the best event of one; it never adds more than its own points
(`CoalesceSubadditive`). Every window from before lies within one window with the new event
(`WindowsCoarsen`), so the best events of two windows with it, the new one aside, lie in
different windows from before: that is an injection, and a sum is no greater than one its
terms inject into (`Induction`: `SumInject`). Taking events away is not monotone in
general, only for whole groups (`CoalesceFewer`); a deletion takes whole groups of every
member not in `Severed` (`WholeGroups`). The second invariant, `PointsIInv`, says who may
be holding which points: a row of points is raised in one transaction at a time
(`PointLocks`), which has raised the row of its own user by at least what its event is
worth (`Scored`, `Awarded`), and for a member a rebuild has yet to come to, what is gone
since the snapshot are whole groups of products that are no more (`Fresh`): such a product
is not scored again, or the group would come back in part. From it: `NoPointsLost`,
`ScoringTypeCorrect`. TLC checked both invariants on the instance of `household` without
focus, as far as five million states, and `PointsIInv` in every focus completely.

**Household.** `HouseholdImplements` shows the composition to behave as each of the four,
whatever is in focus (`FocusIsOwn`); `HouseholdTypeCorrect` collects their types and
`HouseholdSafe` their promises. The theorems about the four are about all operations
together, so what the focus keeps apart in the run (a rebuild during a milestone) is
covered by them.

**Recursion and sums.** The library's induction theorems take a predicate as a parameter,
which the provers here cannot instantiate. `Induction` states them about a set instead
(`NumbersInduct`, and its kin for finite sets): the instances it is used with are sets defined
by the predicate. That is enough for the recursive function of `Dates`, the walks of `Tree`
and for sums over sets.

**Only model-checked.** `PendingEnds` and `Converges`: liveness under fairness is out of the
prover's reach. Every invariant and every action property that a passing run checks is
stated by a theorem.

## 5. What modelling showed besides

The runs that expect a violation are findings. These came up too and have no run; where
a property excludes them, the exclusion is a history variable named above.

* The nightly rebuild computes points from the ledger and the contributions only
  (`gamification.go:369`), so the points of completed quests and of milestones, which are
  in neither, are gone after the next 03:00. `docs/specs/51` says points are
  recomputable from scratch at any time and none are confiscated.
* The snapshot of the rebuild is read before its first write: what is scored between them
  is overwritten until the following night (`raced`).
* Deleting a product can raise what its history is worth. Confirmations and corrections of a
  product share their windows (`coalesce.go:70`); the deletion takes the log and leaves the
  corrections, and two of them that a confirmation between them had joined are then two
  windows. `docs/specs/51` says create-delete cycles earn nothing. An attempt to prove
  `NoXPLost` found it; the cache is below the events until the next rebuild (`raced`).
* A write that satisfies a quest's last target while the quest is being generated neither
  sees the quest nor is seen by it: the quest shows its target as reached and is never
  completed (`silent`).
* A write that completes a quest locks points, quest, points; two of them can wait for
  each other. The database ends one, and `inTx` does not try again.
* `setHolidayWeeksTx` reads the weeks it counts without a lock, so two requests can
  exceed the budget together (`gamification.go:694`; not modelled).
* `listWork` makes the list inside the job's run: when the outcome is lost and the job is run
  again, there are two (`ingest/shoppinglist.go:118`).
* An answer to a commit that is lost makes the handler remove the picture of a product
  that was committed (`httpapi/shoppinglists.go:635`, `httpapi/reorder.go:450`; `blind`).
* `createFromJob` reads the lines before it locks the job: after a re-analysis in between,
  the lines of the old analysis become the list (`httpapi/shoppinglists.go:315`).
* `SetProductImageAsUser` leaves the file of the picture it replaces; two reorder requests
  with the same new name both make a product.
* A change of item type and the deletion of a catalogue row date nothing anew (`loose`).
* A login that has verified the old password is admitted after the change (`late`).

## 6. Not modelled, and the plan

Left out for good: names, labels, messages and formatting; pixel work; the vision model's
judgement; trigram similarity; read-only reports; routing; the web client's rendering;
deployment scripts. Of the modelled components: scan counters and the photo decoder;
streaks, holidays, levels, the health score and personal achievements; targets and
tokens of notifications; the command-line administration.

Planned, in this order:

1. **StockTx**: the statements of `SplitBatch`, `DestroyContainer`, `MergeProducts` and the
   decrements with PostgreSQL's row locks, shown to implement `Stock` where they do; the
   container destroyed inside a split; lock order.
2. **Media**: photos, crops and cutouts beside their rows; sweeps.
3. **Reviews composed**: `Jobs` and `Stock` in one module, the confirm as their shared
   action.
