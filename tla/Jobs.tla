-------------------------------- MODULE Jobs --------------------------------
(* The job runner (internal/jobs/runner.go) over the jobs table
   (internal/store/jobs.go), for any number of server processes.

   A process life is one run of `serve`: it mints its own lease owner, so a
   restart is another element of Proc.  A row's lease expiry is kept as what
   the SQL can tell about it: NULL, still ahead of now(), or behind it.  A run
   of the work is <<job, attempt>>, attempt counting how often the row became
   pending; the row does not store it and no statement compares it. *)
EXTENDS Integers, FiniteSets

CONSTANTS
    Job, Proc,
    NoProc,         \* lease_owner IS NULL
    Slots,          \* DefaultConcurrency
    MaxAttempts,    \* bound: how often one row becomes pending
    RowCounts,      \* how many rows a proposal may have
    Faults          \* what goes wrong: a subset of FaultKinds

(* crash     a process is killed, or leaves serve() before Runner.Shutdown
   deadline  the shutdown grace ends while work is still running
   stall     the lease statements of a live process do not get through
   lostwrite the write of an outcome fails and is only logged *)
FaultKinds == {"crash", "deadline", "stall", "lostwrite"}

ASSUME JobsAssumption ==
    /\ NoProc \notin Proc
    /\ Slots \in Nat \ {0}
    /\ MaxAttempts \in Nat \ {0}
    /\ RowCounts \subseteq Nat
    /\ Faults \subseteq FaultKinds

VARIABLES
    job,        \* the jobs table, one record per row
    proc,       \* the life cycle of each process
    keeper,     \* the half of the tick RunLeases executes next
    queued,     \* runs waiting for a concurrency slot, per process
    running,    \* runs holding a slot, per process
    seen,       \* the proposals members have open in review screens
    applied     \* how often a confirm wrote the job's proposal (history)

vars == <<job, proc, keeper, queued, running, seen, applied>>

Attempts == 1..MaxAttempts
Runs == Job \X Attempts
Alive == {"up", "closing", "released"}

Row == [status : {"absent", "pending", "done", "failed", "consumed", "deleted"},
        owner : Proc \cup {NoProc},             \* lease_owner
        lease : {"none", "current", "lapsed"},  \* lease_expires_at against now()
        attempt : 0..MaxAttempts,
        endedBy : 0..MaxAttempts,               \* the run that recorded the outcome, 0 for the sweep
        rows : RowCounts \cup {0}]              \* rows of the stored proposal

Proposal == [of : Job, attempt : 0..MaxAttempts, rows : RowCounts \cup {0}]

Held(p) == queued[p] \cup running[p]

Init ==
    /\ job = [j \in Job |-> [status |-> "absent", owner |-> NoProc, lease |-> "none",
                             attempt |-> 0, endedBy |-> 0, rows |-> 0]]
    /\ proc = [p \in Proc |-> "idle"]
    /\ keeper = [p \in Proc |-> "renew"]
    /\ queued = [p \in Proc |-> {}]
    /\ running = [p \in Proc |-> {}]
    /\ seen = {}
    /\ applied = [j \in Job |-> 0]

-----------------------------------------------------------------------------
(* The statements of store/jobs.go *)

\* CreateJob's insert and RequeueJob's update: pending, claimed, nothing recorded.
Claim(r, p) ==
    [status |-> "pending", owner |-> p, lease |-> "current",
     attempt |-> r.attempt + 1, endedBy |-> 0, rows |-> 0]

\* Seeded fault: the outcome is recorded and the owner left in place.
BugEndedKeepsOwner(r, to, by, n) == [r EXCEPT !.status = to, !.endedBy = by, !.rows = n]

\* Leaving pending drops the lease in the same statement.
Ended(r, to, by, n) ==
    [status |-> to, owner |-> NoProc, lease |-> "none",
     attempt |-> r.attempt, endedBy |-> by, rows |-> n]

\* Seeded fault: the outcome is written without looking at the status.
BugFinishAnyStatus(t, to, n) ==
    job' = [job EXCEPT ![t[1]] = Ended(@, to, t[2], n)]

\* finishJob: WHERE id = $1 AND status = 'pending'.  Another status is
\* ErrNotFound, which finish() ignores.
FinishJob(t, to, n) ==
    job' = IF job[t[1]].status = "pending"
             THEN [job EXCEPT ![t[1]] = Ended(@, to, t[2], n)]
             ELSE job

\* Seeded fault: the recovery from before the lease, every pending row is an orphan.
BugOrphanIgnoresLease(r, p) == r.status = "pending" /\ r.owner # p

\* Seeded fault: a lapsed claim is an orphan for its own process too.
BugOrphanOwnRows(r, p) == r.status = "pending" /\ r.lease # "current"

Orphan(r, p) ==
    /\ r.status = "pending"
    /\ r.owner # p
    /\ r.lease # "current"

FailOrphanedJobs(p) ==
    job' = [j \in Job |-> IF Orphan(job[j], p) THEN Ended(job[j], "failed", 0, 0) ELSE job[j]]

\* The lease columns of a pending row change on their own.
Leased(r, p, l) ==
    [status |-> r.status, owner |-> p, lease |-> l,
     attempt |-> r.attempt, endedBy |-> r.endedBy, rows |-> r.rows]

HeldBy(r, p) == r.status = "pending" /\ r.owner = p

RenewJobLeases(p) ==
    job' = [j \in Job |-> IF HeldBy(job[j], p) THEN Leased(job[j], p, "current") ELSE job[j]]

ReleaseJobLeases(p) ==
    job' = [j \in Job |-> IF HeldBy(job[j], p) THEN Leased(job[j], NoProc, "none") ELSE job[j]]

\* A statement that fails leaves the table as it was and is logged.
OrStall(stmt) == stmt \/ ("stall" \in Faults /\ UNCHANGED job)

\* lease_expires_at passes: the owner is gone, or its renewals do not get through.
Lapse(j) ==
    /\ job[j].lease = "current"
    /\ "stall" \in Faults \/ proc[job[j].owner] = "gone"
    /\ job' = [job EXCEPT ![j] = Leased(@, @.owner, "lapsed")]
    /\ UNCHANGED <<proc, keeper, queued, running, seen, applied>>

-----------------------------------------------------------------------------
(* The processes *)

\* serve(): Recover runs before the listener; its failure is only warned about.
Start(p) ==
    /\ proc[p] = "idle"
    /\ proc' = [proc EXCEPT ![p] = "up"]
    /\ OrStall(FailOrphanedJobs(p))
    /\ UNCHANGED <<keeper, queued, running, seen, applied>>

\* Runner.Submit and Runner.Resubmit hold the mutex from the closed check to
\* wg.Add, so the claim and the goroutine appear together.
StartRun(p, j) ==
    /\ proc[p] = "up"
    /\ job[j].attempt < MaxAttempts
    /\ job' = [job EXCEPT ![j] = Claim(@, p)]
    /\ queued' = [queued EXCEPT ![p] = @ \cup {<<j, job[j].attempt + 1>>}]
    /\ UNCHANGED <<proc, keeper, running, seen, applied>>

Submit(p, j) == job[j].status = "absent" /\ StartRun(p, j)

Resubmit(p, j) == job[j].status \in {"done", "failed"} /\ StartRun(p, j)

\* Seeded fault: one slot too many.
BugTakeSlotPastBound(p, t) ==
    /\ proc[p] \in Alive
    /\ t \in queued[p]
    /\ Cardinality(running[p]) <= Slots
    /\ queued' = [queued EXCEPT ![p] = @ \ {t}]
    /\ running' = [running EXCEPT ![p] = @ \cup {t}]
    /\ UNCHANGED <<job, proc, keeper, seen, applied>>

\* run(): the send on slots.
TakeSlot(p, t) ==
    /\ proc[p] \in Alive
    /\ t \in queued[p]
    /\ Cardinality(running[p]) < Slots
    /\ queued' = [queued EXCEPT ![p] = @ \ {t}]
    /\ running' = [running EXCEPT ![p] = @ \cup {t}]
    /\ UNCHANGED <<job, proc, keeper, seen, applied>>

\* Seeded fault: a cancelled run returns without recording anything.
BugCancelSilently(p, t) ==
    /\ proc[p] \in {"closing", "released"}
    /\ t \in queued[p]
    /\ queued' = [queued EXCEPT ![p] = @ \ {t}]
    /\ UNCHANGED <<job, proc, keeper, running, seen, applied>>

\* run(): base.Done() wins the select, the job ends interrupted.
CancelQueued(p, t) ==
    /\ proc[p] \in {"closing", "released"}
    /\ t \in queued[p]
    /\ FinishJob(t, "failed", 0)
    /\ queued' = [queued EXCEPT ![p] = @ \ {t}]
    /\ UNCHANGED <<proc, keeper, running, seen, applied>>

EndRun(p, t) ==
    /\ proc[p] \in Alive
    /\ t \in running[p]
    /\ running' = [running EXCEPT ![p] = @ \ {t}]
    /\ UNCHANGED <<proc, keeper, queued, seen, applied>>

\* finish(): the work returned a valid payload of n rows.
Complete(p, t, n) == EndRun(p, t) /\ FinishJob(t, "done", n)

\* finish(): an error, a panic, an invalid payload, the timeout or shutdown.
Fail(p, t) == EndRun(p, t) /\ FinishJob(t, "failed", 0)

\* finish(): the outcome's own write fails; it is logged and the goroutine ends.
LoseOutcome(p, t) == "lostwrite" \in Faults /\ EndRun(p, t) /\ UNCHANGED job

\* RunLeases: one tick is two statements.  A tick in flight may still land
\* while the process is shutting down.
RenewTick(p) ==
    /\ proc[p] \in Alive /\ keeper[p] = "renew"
    /\ keeper' = [keeper EXCEPT ![p] = "sweep"]
    /\ OrStall(RenewJobLeases(p))
    /\ UNCHANGED <<proc, queued, running, seen, applied>>

\* Seeded fault: only start-up recovers; the tick renews and never sweeps.
BugTickOnlyRenews(p) ==
    /\ proc[p] \in Alive /\ keeper[p] = "sweep"
    /\ keeper' = [keeper EXCEPT ![p] = "renew"]
    /\ UNCHANGED <<job, proc, queued, running, seen, applied>>

SweepTick(p) ==
    /\ proc[p] \in Alive /\ keeper[p] = "sweep"
    /\ keeper' = [keeper EXCEPT ![p] = "renew"]
    /\ OrStall(FailOrphanedJobs(p))
    /\ UNCHANGED <<proc, queued, running, seen, applied>>

\* Only a server that is replaced stops: the last process life of a behaviour
\* stands for the one that keeps serving.
Replaced(p) == \E q \in Proc \ {p} : proc[q] \in {"idle", "up"}

\* Runner.Shutdown: closed is set and base cancelled.
Shutdown(p) ==
    /\ proc[p] = "up" /\ Replaced(p)
    /\ proc' = [proc EXCEPT ![p] = "closing"]
    /\ UNCHANGED <<job, keeper, queued, running, seen, applied>>

\* Seeded fault: the claims are released without waiting for the goroutines.
BugReleaseWithoutWait(p) ==
    /\ proc[p] = "closing"
    /\ proc' = [proc EXCEPT ![p] = "released"]
    /\ OrStall(ReleaseJobLeases(p))
    /\ UNCHANGED <<keeper, queued, running, seen, applied>>

\* Every goroutine recorded its outcome, or the grace period ended first.
Release(p) ==
    /\ proc[p] = "closing"
    /\ Held(p) = {} \/ "deadline" \in Faults
    /\ proc' = [proc EXCEPT ![p] = "released"]
    /\ OrStall(ReleaseJobLeases(p))
    /\ UNCHANGED <<keeper, queued, running, seen, applied>>

\* The goroutines end with their process; their rows and claims do not.
Die(p) ==
    /\ proc' = [proc EXCEPT ![p] = "gone"]
    /\ queued' = [queued EXCEPT ![p] = {}]
    /\ running' = [running EXCEPT ![p] = {}]
    /\ UNCHANGED <<job, keeper, seen, applied>>

Exit(p) == proc[p] = "released" /\ Die(p)

Kill(p) == "crash" \in Faults /\ proc[p] \in Alive /\ Replaced(p) /\ Die(p)

-----------------------------------------------------------------------------
(* The members *)

StoredProposal(j) == [of |-> j, attempt |-> job[j].endedBy, rows |-> job[j].rows]

Review(j) ==
    /\ job[j].status = "done"
    /\ seen' = seen \cup {StoredProposal(j)}
    /\ UNCHANGED <<job, proc, keeper, queued, running, applied>>

\* matchRowIDs: a row id is the row's position, so the decisions of one
\* proposal name exactly the rows of any other with as many.
MatchRowIDs(v) == v.rows = job[v.of].rows

\* ConsumeJob's update.
Consumed(r) ==
    [status |-> "consumed", owner |-> r.owner, lease |-> r.lease,
     attempt |-> r.attempt, endedBy |-> r.endedBy, rows |-> r.rows]

\* Seeded fault: the status is not checked again under the row's lock.
BugConfirmTwice(v) ==
    /\ v \in seen
    /\ job[v.of].status \in {"done", "consumed"}
    /\ job' = [job EXCEPT ![v.of] = Consumed(@)]
    /\ applied' = [applied EXCEPT ![v.of] = @ + 1]
    /\ UNCHANGED <<proc, keeper, queued, running, seen>>

\* ConfirmIngestion and ConfirmConsumption: the row is locked, the writes and
\* ConsumeJob commit together.
Confirm(v) ==
    /\ v \in seen
    /\ job[v.of].status = "done"
    /\ MatchRowIDs(v)
    /\ job' = [job EXCEPT ![v.of] = Consumed(@)]
    /\ applied' = [applied EXCEPT ![v.of] = @ + 1]
    /\ UNCHANGED <<proc, keeper, queued, running, seen>>

Discarded(r) == Ended(r, "deleted", 0, 0)

DeleteJob(j) ==
    /\ job[j].status \notin {"absent", "deleted"}
    /\ job' = [job EXCEPT ![j] = Discarded(@)]
    /\ UNCHANGED <<proc, keeper, queued, running, seen, applied>>

\* DiscardJobs: created_at <= upTo picks any set of the inbox's jobs.
DiscardJobs(S) ==
    /\ S # {}
    /\ \A j \in S : job[j].status \in {"pending", "done", "failed"}
    /\ job' = [j \in Job |-> IF j \in S THEN Discarded(job[j]) ELSE job[j]]
    /\ UNCHANGED <<proc, keeper, queued, running, seen, applied>>

-----------------------------------------------------------------------------
Next ==
    \/ \E p \in Proc :
        \/ Start(p) \/ RenewTick(p) \/ SweepTick(p)
        \/ Shutdown(p) \/ Release(p) \/ Exit(p) \/ Kill(p)
        \/ \E j \in Job : Submit(p, j) \/ Resubmit(p, j)
        \/ \E t \in queued[p] : TakeSlot(p, t) \/ CancelQueued(p, t)
        \/ \E t \in running[p] :
            \/ Fail(p, t) \/ LoseOutcome(p, t)
            \/ \E n \in RowCounts : Complete(p, t, n)
    \/ \E j \in Job : Lapse(j) \/ Review(j) \/ DeleteJob(j)
    \/ \E v \in seen : Confirm(v)
    \/ \E S \in SUBSET Job : DiscardJobs(S)

(* The scheduler runs every goroutine: the ticker fires, a free slot is taken,
   the work ends because its context has a timeout, a process that is asked to
   stop does, and a stopped server is started again (the restart policy of the
   compose file).  A claim nobody renews lapses.  Nothing is assumed about
   members. *)
Fairness ==
    /\ \A p \in Proc :
        /\ WF_vars(Start(p)) /\ WF_vars(RenewTick(p)) /\ WF_vars(SweepTick(p))
        /\ WF_vars(Release(p)) /\ WF_vars(Exit(p))
        /\ \A t \in Runs :
            /\ WF_vars(TakeSlot(p, t))
            /\ WF_vars(CancelQueued(p, t))
            /\ WF_vars(Fail(p, t) \/ LoseOutcome(p, t) \/ \E n \in RowCounts : Complete(p, t, n))
    /\ \A j \in Job : WF_vars(Lapse(j))

Spec == Init /\ [][Next]_vars

FairSpec == Spec /\ Fairness

-----------------------------------------------------------------------------
(* Types, and the concurrency bound: no process has more than Slots provider
   calls in flight, however many photos are uploaded at once. *)
TypeOK ==
    /\ job \in [Job -> Row]
    /\ proc \in [Proc -> Alive \cup {"idle", "gone"}]
    /\ keeper \in [Proc -> {"renew", "sweep"}]
    /\ queued \in [Proc -> SUBSET Runs]
    /\ running \in [Proc -> SUBSET Runs]
    /\ seen \subseteq Proposal
    /\ applied \in [Job -> Nat]
    /\ \A p \in Proc : IsFiniteSet(running[p]) /\ Cardinality(running[p]) <= Slots

(* finishJob: "a job that is no longer pending must not still name an owner".
   And a pending row has an expiry exactly when it has an owner, so that no
   claim can outlive what the sweep looks at. *)
LeaseMeansPending ==
    \A j \in Job :
        /\ job[j].status # "pending" => job[j].owner = NoProc
        /\ (job[j].owner = NoProc) <=> (job[j].lease = "none")

(* runner.go's package comment: a job is "never silently lost".  A pending row
   either has its goroutine, in the process that claims it and that keeps
   renewing the claim, or is one that a sweep will fail: unclaimed, or claimed
   by a process that is gone. *)
PendingIsWorkedOrOrphaned ==
    \A j \in Job :
        job[j].status = "pending" =>
            \/ job[j].owner = NoProc
            \/ proc[job[j].owner] = "gone"
            \/ <<j, job[j].attempt>> \in Held(job[j].owner)

(* ConsumeJob: a proposal "cannot be applied twice", whatever confirms,
   re-analyses and late outcomes are interleaved with the first one. *)
AppliedOnce ==
    \A j \in Job :
        /\ applied[j] <= 1
        /\ job[j].status \in {"absent", "pending", "done", "failed"} => applied[j] = 0
        /\ job[j].status = "consumed" => applied[j] = 1

(* An outcome belongs to the analysis that was asked for last: the row is ended
   by its current run, or by a sweep, never by a run of an earlier attempt. *)
OutcomeOfCurrentRun ==
    \A j \in Job : job[j].endedBy \in {0, job[j].attempt}

SweptNow(j) == job[j].status = "pending" /\ job'[j].status = "failed" /\ job'[j].endedBy = 0

(* Recover "leaves alone the pending work of an instance that is demonstrably
   still alive": during a rolling update no start-up and no tick of one process
   fails a job another live process is queueing or running. *)
SweepSparesLiveWork ==
    [][\A j \in Job : SweptNow(j) =>
        job[j].owner = NoProc \/ proc[job[j].owner] = "gone"]_vars

(* FailOrphanedJobs: a process never fails its own live work, even when its own
   renewals are not getting through. *)
SweepSparesOwnWork ==
    [][\A j \in Job, p \in Proc :
        keeper[p] = "sweep" /\ keeper'[p] = "renew" /\ job[j].owner = p => ~SweptNow(j)]_vars

(* CompleteJob: a result that arrives after the sweep failed the job, after a
   member discarded it or after it was applied changes nothing. *)
LateOutcomeIsDropped ==
    [][\A p \in Proc : \A t \in running[p] :
        t \notin running'[p] /\ job[t[1]].status # "pending" => job'[t[1]] = job[t[1]]]_vars

Lifecycle == INSTANCE JobLifecycle WITH status <- [j \in Job |-> job[j].status]

(* The detailed system implements the documented status machine. *)
ImplementsLifecycle == Lifecycle!Spec

(* Every pending job ends, through crashes and rolling updates: "a pending job
   that never ends is exactly what the jobs table exists to prevent"
   (runner.go). *)
PendingEnds == \A j \in Job : (job[j].status = "pending") ~> (job[j].status # "pending")

(* What a confirm applies was decided on the proposal that is stored: the
   reviewer saw the rows the decisions are matched with. *)
ConfirmedAsReviewed ==
    [][\A j \in Job : job[j].status = "done" /\ job'[j].status = "consumed" =>
        StoredProposal(j) \in seen]_vars

=============================================================================
