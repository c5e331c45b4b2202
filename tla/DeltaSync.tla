------------------------------ MODULE DeltaSync ------------------------------
(* Delta sync for one client cache (internal/store/delta.go, tombstones.go): the
   rows of one entity kind of one storage, the tombstones their deletions leave,
   the transactions that write them, and a client that keeps a copy.

   PostgreSQL's now() is the start of a transaction, so a row is stamped with an
   instant at which nobody could see it yet.  A transaction's writes are one step
   here, at its commit: before it nobody reads them and its row locks keep other
   writers away.  Requests only read, so one client stands for any number. *)
EXTENDS Integers, FiniteSets

CONSTANTS
    Entity,         \* ids; never reused
    Tx,             \* the pool's connections
    None,
    Retention,      \* TombstoneRetention
    MaxTime,        \* bound: the clock
    MaxVersion,     \* bound: writes to one row
    Kind            \* the list endpoint: "product", "category" or "location"

ASSUME DeltaAssumption ==
    /\ Retention \in Nat /\ MaxTime \in Nat /\ MaxVersion \in Nat
    /\ None \notin Nat
    /\ Kind \in {"product", "category", "location"}

VARIABLES
    clock,
    row,            \* version counts the writes, at is updated_at
    deletedAt,      \* deleted_at of an id's tombstone
    tx,             \* xact_start of each open transaction
    cursor,         \* the client's next updated_since
    cache,          \* the client's copy: the version it holds, 0 for no row
    req,            \* the request being served
    late            \* history: a delta read its tombstones when its cursor had
                    \* already left the retention window, by the sweep's clock

vars == <<clock, row, deletedAt, tx, cursor, cache, req, late>>

Time == 0..MaxTime

Init ==
    /\ clock = 0
    /\ row = [e \in Entity |-> [state |-> "fresh", version |-> 0, at |-> 0]]
    /\ deletedAt = [e \in Entity |-> None]
    /\ tx = [t \in Tx |-> None]
    /\ cursor = None
    /\ cache = [e \in Entity |-> 0]
    /\ req = [phase |-> "idle", mark |-> 0, items |-> [e \in Entity |-> 0]]
    /\ late = FALSE

Stored(e) == IF row[e].state = "live" THEN row[e].version ELSE 0

Tick ==
    /\ clock < MaxTime
    /\ clock' = clock + 1
    /\ UNCHANGED <<row, deletedAt, tx, cursor, cache, req, late>>

-----------------------------------------------------------------------------
(* Writers *)

Begin(t) ==
    /\ tx[t] = None
    /\ tx' = [tx EXCEPT ![t] = clock]
    /\ UNCHANGED <<clock, row, deletedAt, cursor, cache, req, late>>

\* updated_at = now() on every insert and update.
Written(r, at) == [state |-> "live", version |-> r.version + 1, at |-> at]

\* Inserts and updates of W, deletions of D with their tombstones: one row, a
\* confirmed proposal's new products, a subtree, a merge's survivor and source.
\* Nothing at all is a rollback, or a transaction on other tables.
Commit(t, W, D) ==
    /\ tx[t] # None
    /\ W \cap D = {}
    /\ \A e \in W : row[e].state # "gone" /\ row[e].version < MaxVersion
    /\ \A e \in D : row[e].state = "live"
    /\ row' = [e \in Entity |->
                CASE e \in W -> Written(row[e], tx[t])
                  [] e \in D -> [state |-> "gone", version |-> row[e].version, at |-> row[e].at]
                  [] OTHER -> row[e]]
    /\ deletedAt' = [e \in Entity |-> IF e \in D THEN tx[t] ELSE deletedAt[e]]
    /\ tx' = [tx EXCEPT ![t] = None]
    /\ UNCHANGED <<clock, cursor, cache, req, late>>

\* The hourly sweep.
SweepTombstones ==
    /\ deletedAt' = [e \in Entity |->
            IF deletedAt[e] # None /\ deletedAt[e] < clock - Retention THEN None ELSE deletedAt[e]]
    /\ deletedAt' # deletedAt
    /\ UNCHANGED <<clock, row, tx, cursor, cache, req, late>>

-----------------------------------------------------------------------------
(* The three statements of loadDelta *)

Open == {tx[t] : t \in {u \in Tx : tx[u] # None}}

\* Seeded fault: the clock is handed back.
BugWatermarkIsNow(m) == m = clock

\* Seeded fault: the instant is rounded up on its way to the client.
BugWatermarkRoundedUp(m) == m = clock + 1

\* deltaWatermark: the start of the oldest transaction in flight, or now().
Watermark(m) ==
    /\ m \in Open \cup {clock}
    /\ \A s \in Open \cup {clock} : m <= s

DeltaIsResumable(since, now) == since >= now - Retention

Marked(m) == [phase |-> "marked", mark |-> m, items |-> [e \in Entity |-> 0]]

Idle == [phase |-> "idle", mark |-> 0, items |-> [e \in Entity |-> 0]]

\* The first statement, and the answer 409 that makes the client start afresh.
Ask ==
    /\ req.phase = "idle" /\ cursor # None
    /\ \E m \in Time :
        /\ Watermark(m)
        /\ IF DeltaIsResumable(cursor, m)
             THEN req' = Marked(m) /\ UNCHANGED <<cursor, cache>>
             ELSE cursor' = None /\ cache' = [e \in Entity |-> 0] /\ UNCHANGED req
    /\ UNCHANGED <<clock, row, deletedAt, tx, late>>

\* Seeded fault: the boundary is left out.
BugChangedAfter(e) == row[e].state = "live" /\ row[e].at > cursor

\* updated_at >= $2
Changed(e) == row[e].state = "live" /\ row[e].at >= cursor

\* LocationsChangedSince selects seven columns and scanLocation scans eight, so
\* the first changed row is an error.
Scans == Kind = "location" => \A e \in Entity : ~Changed(e)

ReadChanged ==
    /\ req.phase = "marked"
    /\ req' = [phase |-> IF Scans THEN "listed" ELSE "error", mark |-> req.mark,
               items |-> [e \in Entity |-> IF Changed(e) THEN row[e].version ELSE 0]]
    /\ UNCHANGED <<clock, row, deletedAt, tx, cursor, cache, late>>

\* deleted_at >= $3
Dropped(e) == deletedAt[e] # None /\ deletedAt[e] >= cursor

\* deletedSince, and the response: deletions win over rows listed just before.
ReadDeleted ==
    /\ req.phase = "listed"
    /\ cache' = [e \in Entity |->
            IF Dropped(e) THEN 0 ELSE IF req.items[e] > 0 THEN req.items[e] ELSE cache[e]]
    /\ cursor' = req.mark
    /\ req' = Idle
    /\ late' = (late \/ ~DeltaIsResumable(cursor, clock))
    /\ UNCHANGED <<clock, row, deletedAt, tx>>

\* A request that fails or whose answer does not arrive: the client keeps its cursor.
Lose ==
    /\ req.phase # "idle"
    /\ req' = Idle
    /\ UNCHANGED <<clock, row, deletedAt, tx, cursor, cache, late>>

-----------------------------------------------------------------------------
(* A client with no cache.  A full list carries no cursor, so it takes one from
   an empty delta first. *)

Anchor ==
    /\ req.phase = "idle" /\ cursor = None
    /\ \E m \in Time : Watermark(m) /\ req' = [Marked(m) EXCEPT !.phase = "anchored"]
    /\ UNCHANGED <<clock, row, deletedAt, tx, cursor, cache, late>>

FetchAll ==
    /\ req.phase = "anchored"
    /\ cache' = [e \in Entity |-> Stored(e)]
    /\ cursor' = req.mark
    /\ req' = Idle
    /\ late' = FALSE
    /\ UNCHANGED <<clock, row, deletedAt, tx>>

Next ==
    \/ Tick
    \/ \E t \in Tx : Begin(t) \/ \E W, D \in SUBSET Entity : Commit(t, W, D)
    \/ SweepTombstones
    \/ Ask \/ ReadChanged \/ ReadDeleted \/ Lose
    \/ Anchor \/ FetchAll

Spec == Init /\ [][Next]_vars

(* The client asks again and again, a request ends one way or the other (server
   and client have timeouts), an answer gets through now and then, and no
   transaction stays open for ever (inTx ends it with its request's context). *)
Fairness ==
    /\ \A t \in Tx : WF_vars(\E W, D \in SUBSET Entity : Commit(t, W, D))
    /\ WF_vars(Ask) /\ WF_vars(Anchor) /\ WF_vars(Lose)
    /\ SF_vars(ReadChanged) /\ SF_vars(ReadDeleted) /\ SF_vars(FetchAll)

FairSpec == Spec /\ Fairness

-----------------------------------------------------------------------------
(* Types, and every instant a client was given is past. *)
TypeOK ==
    /\ clock \in Time
    /\ row \in [Entity -> [state : {"fresh", "live", "gone"}, version : 0..MaxVersion, at : Time]]
    /\ deletedAt \in [Entity -> Time \cup {None}]
    /\ tx \in [Tx -> Time \cup {None}]
    /\ cursor \in 0..clock \cup {None}
    /\ cache \in [Entity -> 0..MaxVersion]
    /\ req \in [phase : {"idle", "marked", "listed", "anchored", "error"}, mark : 0..clock,
                items : [Entity -> 0..MaxVersion]]
    /\ late \in BOOLEAN

\* What the next delta would tell the client about e, or the refusal of it.
Announced(e) ==
    CASE row[e].state = "live" -> row[e].at >= cursor
      [] row[e].state = "gone" /\ deletedAt[e] # None -> deletedAt[e] >= cursor
      [] OTHER -> ~DeltaIsResumable(cursor, clock)

(* No change falls between two deltas ("a row may arrive in two consecutive
   deltas, ... and never in none"): wherever the client's copy differs from what
   is stored, its cursor still has the change ahead of it, or is so old that it
   is refused, whatever transactions were open when it was handed out.  Only a
   delta that was served late can have missed a tombstone. *)
NothingMissed ==
    cursor # None /\ ~late => \A e \in Entity : cache[e] = Stored(e) \/ Announced(e)

(* A client that keeps asking ends up with what is stored, once the writes
   stop. *)
Converges == <>[](late \/ \A e \in Entity : cache[e] = Stored(e))

(* A delta request with a resumable cursor is answered, and not with a server
   error (docs/specs/12: list endpoints of cacheable entities return the rows
   changed since). *)
DeltaIsServed == req.phase # "error"

=============================================================================
