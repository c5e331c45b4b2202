----------------------------- MODULE JobsProofs -----------------------------
(* What Jobs.tla guarantees for every number of jobs, processes, slots and
   attempts, and for every combination of faults unless a theorem says so. *)
EXTENDS Jobs, FiniteSetTheorems, TLAPS

(* A claim lapses only when its owner is gone, as long as no lease statement of
   a live process is lost. *)
LiveClaimsCurrent ==
    "stall" \notin Faults =>
        \A j \in Job :
            job[j].owner # NoProc /\ proc[job[j].owner] # "gone" => job[j].lease = "current"

\* PendingIsWorkedOrOrphaned is inductive once outcomes are not lost.
WorkInv == "lostwrite" \notin Faults => PendingIsWorkedOrOrphaned

(* As long as lease statements get through and a shutdown waits for its runs, a run
   that is queued or running, in one place only, is the current one of its row, which
   is pending in the name of its process or deleted for good. *)
RunsAreCurrent ==
    {"stall", "deadline"} \cap Faults = {} =>
        /\ OutcomeOfCurrentRun
        /\ \A p \in Proc : queued[p] \cap running[p] = {}
        /\ \A p \in Proc : \A t \in Held(p) :
             /\ proc[p] \in Alive /\ t[2] = job[t[1]].attempt
             /\ \/ job[t[1]].status = "pending" /\ job[t[1]].owner = p
                \/ job[t[1]].status = "deleted"

IInv ==
    /\ TypeOK
    /\ LeaseMeansPending
    /\ AppliedOnce
    /\ LiveClaimsCurrent
    /\ WorkInv
    /\ RunsAreCurrent

USE DEF Alive, Attempts

LEMMA InitIInv == Init => IInv
<1> SUFFICES ASSUME Init PROVE IInv
  OBVIOUS
<1>1. \A p \in Proc : IsFiniteSet(running[p]) /\ Cardinality(running[p]) <= Slots
  BY FS_EmptySet, JobsAssumption DEF Init
<1>2. TypeOK
  BY <1>1, JobsAssumption DEF Init, TypeOK, Row, Runs
<1> QED
  BY <1>2, JobsAssumption DEF Init, IInv, LeaseMeansPending, AppliedOnce, LiveClaimsCurrent, WorkInv,
     PendingIsWorkedOrOrphaned, RunsAreCurrent, OutcomeOfCurrentRun, Held

-----------------------------------------------------------------------------
(* The statements on the table keep its type. *)

LEMMA ClaimType ==
  ASSUME NEW r \in Row, NEW p \in Proc, r.attempt < MaxAttempts
  PROVE  Claim(r, p) \in Row
BY JobsAssumption DEF Row, Claim

LEMMA EndedType ==
  ASSUME NEW r \in Row, NEW to \in {"done", "failed", "deleted"}, NEW by \in 0..MaxAttempts,
         NEW n \in RowCounts \cup {0}
  PROVE  Ended(r, to, by, n) \in Row
BY JobsAssumption DEF Row, Ended

LEMMA SweepType ==
  ASSUME TypeOK, NEW p \in Proc, OrStall(FailOrphanedJobs(p))
  PROVE  job' \in [Job -> Row]
<1>1. \A j \in Job : Ended(job[j], "failed", 0, 0) \in Row
  BY EndedType, JobsAssumption DEF TypeOK
<1> QED
  BY <1>1 DEF TypeOK, OrStall, FailOrphanedJobs

LEMMA FinishType ==
  ASSUME TypeOK, NEW t \in Runs, NEW to \in {"done", "failed"}, NEW n \in RowCounts \cup {0},
         FinishJob(t, to, n)
  PROVE  job' \in [Job -> Row]
<1>1. t[1] \in Job /\ t[2] \in 0..MaxAttempts
  BY JobsAssumption DEF Runs
<1>2. Ended(job[t[1]], to, t[2], n) \in Row
  BY <1>1, EndedType DEF TypeOK
<1> QED
  BY <1>1, <1>2 DEF TypeOK, FinishJob

(* The slot bound is the only part of the type that depends on cardinalities. *)
LEMMA SlotStep ==
  ASSUME TypeOK, NEW p \in Proc, NEW t \in Runs, TakeSlot(p, t)
  PROVE  \A q \in Proc : IsFiniteSet(running'[q]) /\ Cardinality(running'[q]) <= Slots
<1>1. running' = [running EXCEPT ![p] = @ \cup {t}] /\ Cardinality(running[p]) < Slots
  BY DEF TakeSlot
<1>2. IsFiniteSet(running[p]) /\ Cardinality(running[p]) \in Nat
  BY FS_CardinalityType DEF TypeOK
<1>3. IsFiniteSet(running[p] \cup {t})
  BY <1>2, FS_AddElement
<1>4. Cardinality(running[p] \cup {t}) =
        IF t \in running[p] THEN Cardinality(running[p]) ELSE Cardinality(running[p]) + 1
  BY <1>2, FS_AddElement
<1>5. Cardinality(running[p] \cup {t}) <= Slots
  BY <1>1, <1>2, <1>4, JobsAssumption
<1> QED
  BY <1>1, <1>3, <1>5 DEF TypeOK

LEMMA FreeSlotStep ==
  ASSUME TypeOK, NEW p \in Proc, NEW S, running' = [running EXCEPT ![p] = @ \ S]
  PROVE  /\ running' \in [Proc -> SUBSET Runs]
         /\ \A q \in Proc : IsFiniteSet(running'[q]) /\ Cardinality(running'[q]) <= Slots
<1>1. IsFiniteSet(running[p] \ S) /\ Cardinality(running[p] \ S) <= Cardinality(running[p])
  BY FS_Subset DEF TypeOK
<1>2. Cardinality(running[p] \ S) <= Slots
  BY <1>1, FS_CardinalityType, JobsAssumption DEF TypeOK
<1> QED
  BY <1>1, <1>2 DEF TypeOK

LEMMA TypeStep ==
  ASSUME TypeOK, [Next]_vars
  PROVE  TypeOK'
<1>1. ASSUME NEW p \in Proc, Start(p) PROVE TypeOK'
  BY <1>1, SweepType DEF Start, TypeOK
<1>2. ASSUME NEW p \in Proc, RenewTick(p) PROVE TypeOK'
  <2>1. job' \in [Job -> Row]
    BY <1>2 DEF RenewTick, OrStall, RenewJobLeases, Leased, TypeOK, Row
  <2> QED
    BY <1>2, <2>1 DEF RenewTick, TypeOK
<1>3. ASSUME NEW p \in Proc, SweepTick(p) PROVE TypeOK'
  BY <1>3, SweepType DEF SweepTick, TypeOK
<1>4. ASSUME NEW p \in Proc, Shutdown(p) PROVE TypeOK'
  BY <1>4 DEF Shutdown, TypeOK
<1>5. ASSUME NEW p \in Proc, Release(p) PROVE TypeOK'
  <2>1. job' \in [Job -> Row]
    BY <1>5 DEF Release, OrStall, ReleaseJobLeases, Leased, TypeOK, Row
  <2> QED
    BY <1>5, <2>1 DEF Release, TypeOK
<1>6. ASSUME NEW p \in Proc, Exit(p) \/ Kill(p) PROVE TypeOK'
  <2>1. Die(p)
    BY <1>6 DEF Exit, Kill
  <2>2. \A q \in Proc : IsFiniteSet(running'[q]) /\ Cardinality(running'[q]) <= Slots
    BY <2>1, FS_EmptySet, JobsAssumption DEF Die, TypeOK
  <2> QED
    BY <2>1, <2>2 DEF Die, TypeOK
<1>7. ASSUME NEW p \in Proc, NEW j \in Job, Submit(p, j) \/ Resubmit(p, j) PROVE TypeOK'
  <2>1. StartRun(p, j)
    BY <1>7 DEF Submit, Resubmit
  <2>2. Claim(job[j], p) \in Row
    BY <2>1, ClaimType DEF StartRun, TypeOK
  <2>3. <<j, job[j].attempt + 1>> \in Runs
    BY <2>1, JobsAssumption DEF StartRun, TypeOK, Row, Runs
  <2> QED
    BY <2>1, <2>2, <2>3 DEF StartRun, TypeOK
<1>8. ASSUME NEW p \in Proc, NEW t \in queued[p], TakeSlot(p, t) PROVE TypeOK'
  <2>1. t \in Runs
    BY DEF TypeOK
  <2> QED
    BY <1>8, <2>1, SlotStep DEF TakeSlot, TypeOK
<1>9. ASSUME NEW p \in Proc, NEW t \in queued[p], CancelQueued(p, t) PROVE TypeOK'
  <2>1. t \in Runs
    BY DEF TypeOK
  <2>2. job' \in [Job -> Row]
    BY <1>9, <2>1, FinishType DEF CancelQueued
  <2> QED
    BY <1>9, <2>2 DEF CancelQueued, TypeOK
<1>10. ASSUME NEW p \in Proc, NEW t \in running[p], Fail(p, t) \/ LoseOutcome(p, t) PROVE TypeOK'
  <2>1. t \in Runs /\ EndRun(p, t)
    BY <1>10 DEF TypeOK, Fail, LoseOutcome
  <2>2. job' \in [Job -> Row]
    BY <1>10, <2>1, FinishType DEF Fail, LoseOutcome, TypeOK
  <2> QED
    BY <2>1, <2>2, FreeSlotStep DEF EndRun, TypeOK
<1>11. ASSUME NEW p \in Proc, NEW t \in running[p], NEW n \in RowCounts, Complete(p, t, n) PROVE TypeOK'
  <2>1. t \in Runs /\ EndRun(p, t)
    BY <1>11 DEF TypeOK, Complete
  <2>2. job' \in [Job -> Row]
    BY <1>11, <2>1, FinishType DEF Complete
  <2> QED
    BY <2>1, <2>2, FreeSlotStep DEF EndRun, TypeOK
<1>12. ASSUME NEW j \in Job, Lapse(j) PROVE TypeOK'
  <2>1. job' \in [Job -> Row]
    BY <1>12 DEF Lapse, Leased, TypeOK, Row
  <2> QED
    BY <1>12, <2>1 DEF Lapse, TypeOK
<1>13. ASSUME NEW j \in Job, Review(j) PROVE TypeOK'
  <2>1. StoredProposal(j) \in Proposal
    BY DEF TypeOK, Row, StoredProposal, Proposal
  <2> QED
    BY <1>13, <2>1 DEF Review, TypeOK
<1>14. ASSUME NEW v \in seen, Confirm(v) PROVE TypeOK'
  <2>1. v.of \in Job
    BY DEF TypeOK, Proposal
  <2>2. job' \in [Job -> Row]
    BY <1>14, <2>1 DEF Confirm, Consumed, TypeOK, Row
  <2>3. applied' \in [Job -> Nat]
    BY <1>14, <2>1 DEF Confirm, TypeOK
  <2> QED
    BY <1>14, <2>2, <2>3 DEF Confirm, TypeOK
<1>15. ASSUME NEW j \in Job, DeleteJob(j) PROVE TypeOK'
  <2>1. Discarded(job[j]) \in Row
    BY EndedType, JobsAssumption DEF Discarded, TypeOK
  <2> QED
    BY <1>15, <2>1 DEF DeleteJob, TypeOK
<1>16. ASSUME NEW S \in SUBSET Job, DiscardJobs(S) PROVE TypeOK'
  <2>1. \A j \in Job : Discarded(job[j]) \in Row
    BY EndedType, JobsAssumption DEF Discarded, TypeOK
  <2> QED
    BY <1>16, <2>1 DEF DiscardJobs, TypeOK
<1>17. CASE UNCHANGED vars
  BY <1>17 DEF vars, TypeOK
<1> QED
  BY <1>1, <1>2, <1>3, <1>4, <1>5, <1>6, <1>7, <1>8, <1>9, <1>10, <1>11, <1>12, <1>13, <1>14,
     <1>15, <1>16, <1>17 DEF Next

(* Ending a row drops its claim, and nothing but a claim names an owner. *)
LEMMA LeaseStep ==
  ASSUME TypeOK, TypeOK', LeaseMeansPending, [Next]_vars
  PROVE  LeaseMeansPending'
<1> USE JobsAssumption DEF TypeOK, Row, Runs, LeaseMeansPending
<1>1. ASSUME NEW p \in Proc, Start(p) PROVE LeaseMeansPending'
  BY <1>1 DEF Start, OrStall, FailOrphanedJobs, Orphan, Ended
<1>2. ASSUME NEW p \in Proc, RenewTick(p) PROVE LeaseMeansPending'
  BY <1>2 DEF RenewTick, OrStall, RenewJobLeases, HeldBy, Leased
<1>3. ASSUME NEW p \in Proc, SweepTick(p) PROVE LeaseMeansPending'
  BY <1>3 DEF SweepTick, OrStall, FailOrphanedJobs, Orphan, Ended
<1>4. ASSUME NEW p \in Proc, Shutdown(p) PROVE LeaseMeansPending'
  BY <1>4 DEF Shutdown
<1>5. ASSUME NEW p \in Proc, Release(p) PROVE LeaseMeansPending'
  BY <1>5 DEF Release, OrStall, ReleaseJobLeases, HeldBy, Leased
<1>6. ASSUME NEW p \in Proc, Exit(p) \/ Kill(p) PROVE LeaseMeansPending'
  BY <1>6 DEF Exit, Kill, Die
<1>7. ASSUME NEW p \in Proc, NEW j \in Job, Submit(p, j) \/ Resubmit(p, j) PROVE LeaseMeansPending'
  BY SMTT(30), <1>7 DEF Submit, Resubmit, StartRun, Claim
<1>8. ASSUME NEW p \in Proc, NEW t \in queued[p], TakeSlot(p, t) PROVE LeaseMeansPending'
  BY <1>8 DEF TakeSlot
<1>9. ASSUME NEW p \in Proc, NEW t \in queued[p], CancelQueued(p, t) PROVE LeaseMeansPending'
  BY <1>9 DEF CancelQueued, FinishJob, Ended
<1>10. ASSUME NEW p \in Proc, NEW t \in running[p], Fail(p, t) \/ LoseOutcome(p, t) PROVE LeaseMeansPending'
  BY <1>10 DEF Fail, LoseOutcome, EndRun, FinishJob, Ended
<1>11. ASSUME NEW p \in Proc, NEW t \in running[p], NEW n \in RowCounts, Complete(p, t, n) PROVE LeaseMeansPending'
  BY <1>11 DEF Complete, EndRun, FinishJob, Ended
<1>12. ASSUME NEW j \in Job, Lapse(j) PROVE LeaseMeansPending'
  BY <1>12 DEF Lapse, Leased
<1>13. ASSUME NEW j \in Job, Review(j) PROVE LeaseMeansPending'
  BY <1>13 DEF Review
<1>14. ASSUME NEW v \in seen, Confirm(v) PROVE LeaseMeansPending'
  BY <1>14 DEF Confirm, Consumed, Proposal
<1>15. ASSUME NEW j \in Job, DeleteJob(j) PROVE LeaseMeansPending'
  BY <1>15 DEF DeleteJob, Discarded, Ended
<1>16. ASSUME NEW S \in SUBSET Job, DiscardJobs(S) PROVE LeaseMeansPending'
  BY <1>16 DEF DiscardJobs, Discarded, Ended
<1>17. CASE UNCHANGED vars
  BY <1>17 DEF vars
<1> QED
  BY <1>1, <1>2, <1>3, <1>4, <1>5, <1>6, <1>7, <1>8, <1>9, <1>10, <1>11, <1>12, <1>13, <1>14, <1>15, <1>16, <1>17 DEF Next

(* Only Confirm applies, and it leaves a status no other action applies from. *)
LEMMA AppliedStep ==
  ASSUME TypeOK, TypeOK', AppliedOnce, [Next]_vars
  PROVE  AppliedOnce'
<1> USE JobsAssumption DEF TypeOK, Row, Runs, AppliedOnce
<1>1. ASSUME NEW p \in Proc, Start(p) PROVE AppliedOnce'
  BY <1>1 DEF Start, OrStall, FailOrphanedJobs, Orphan, Ended
<1>2. ASSUME NEW p \in Proc, RenewTick(p) PROVE AppliedOnce'
  BY <1>2 DEF RenewTick, OrStall, RenewJobLeases, HeldBy, Leased
<1>3. ASSUME NEW p \in Proc, SweepTick(p) PROVE AppliedOnce'
  BY <1>3 DEF SweepTick, OrStall, FailOrphanedJobs, Orphan, Ended
<1>4. ASSUME NEW p \in Proc, Shutdown(p) PROVE AppliedOnce'
  BY <1>4 DEF Shutdown
<1>5. ASSUME NEW p \in Proc, Release(p) PROVE AppliedOnce'
  BY <1>5 DEF Release, OrStall, ReleaseJobLeases, HeldBy, Leased
<1>6. ASSUME NEW p \in Proc, Exit(p) \/ Kill(p) PROVE AppliedOnce'
  BY <1>6 DEF Exit, Kill, Die
<1>7. ASSUME NEW p \in Proc, NEW j \in Job, Submit(p, j) \/ Resubmit(p, j) PROVE AppliedOnce'
  BY <1>7 DEF Submit, Resubmit, StartRun, Claim
<1>8. ASSUME NEW p \in Proc, NEW t \in queued[p], TakeSlot(p, t) PROVE AppliedOnce'
  BY <1>8 DEF TakeSlot
<1>9. ASSUME NEW p \in Proc, NEW t \in queued[p], CancelQueued(p, t) PROVE AppliedOnce'
  BY <1>9 DEF CancelQueued, FinishJob, Ended
<1>10. ASSUME NEW p \in Proc, NEW t \in running[p], Fail(p, t) \/ LoseOutcome(p, t) PROVE AppliedOnce'
  BY <1>10 DEF Fail, LoseOutcome, EndRun, FinishJob, Ended
<1>11. ASSUME NEW p \in Proc, NEW t \in running[p], NEW n \in RowCounts, Complete(p, t, n) PROVE AppliedOnce'
  BY <1>11 DEF Complete, EndRun, FinishJob, Ended
<1>12. ASSUME NEW j \in Job, Lapse(j) PROVE AppliedOnce'
  BY <1>12 DEF Lapse, Leased
<1>13. ASSUME NEW j \in Job, Review(j) PROVE AppliedOnce'
  BY <1>13 DEF Review
<1>14. ASSUME NEW v \in seen, Confirm(v) PROVE AppliedOnce'
  BY <1>14 DEF Confirm, Consumed, Proposal
<1>15. ASSUME NEW j \in Job, DeleteJob(j) PROVE AppliedOnce'
  BY <1>15 DEF DeleteJob, Discarded, Ended
<1>16. ASSUME NEW S \in SUBSET Job, DiscardJobs(S) PROVE AppliedOnce'
  BY <1>16 DEF DiscardJobs, Discarded, Ended
<1>17. CASE UNCHANGED vars
  BY <1>17 DEF vars
<1> QED
  BY <1>1, <1>2, <1>3, <1>4, <1>5, <1>6, <1>7, <1>8, <1>9, <1>10, <1>11, <1>12, <1>13, <1>14, <1>15, <1>16, <1>17 DEF Next

(* Renewing, claiming and the death of the owner are the only ways a claim changes. *)
LEMMA ClaimsStep ==
  ASSUME TypeOK, TypeOK', LeaseMeansPending, LiveClaimsCurrent, [Next]_vars
  PROVE  LiveClaimsCurrent'
<1> USE JobsAssumption DEF TypeOK, Row, Runs, LeaseMeansPending, LiveClaimsCurrent
<1>1. ASSUME NEW p \in Proc, Start(p) PROVE LiveClaimsCurrent'
  BY <1>1 DEF Start, OrStall, FailOrphanedJobs, Orphan, Ended
<1>2. ASSUME NEW p \in Proc, RenewTick(p) PROVE LiveClaimsCurrent'
  BY <1>2 DEF RenewTick, OrStall, RenewJobLeases, HeldBy, Leased
<1>3. ASSUME NEW p \in Proc, SweepTick(p) PROVE LiveClaimsCurrent'
  BY <1>3 DEF SweepTick, OrStall, FailOrphanedJobs, Orphan, Ended
<1>4. ASSUME NEW p \in Proc, Shutdown(p) PROVE LiveClaimsCurrent'
  BY <1>4 DEF Shutdown
<1>5. ASSUME NEW p \in Proc, Release(p) PROVE LiveClaimsCurrent'
  BY <1>5 DEF Release, OrStall, ReleaseJobLeases, HeldBy, Leased
<1>6. ASSUME NEW p \in Proc, Exit(p) \/ Kill(p) PROVE LiveClaimsCurrent'
  BY <1>6 DEF Exit, Kill, Die
<1>7. ASSUME NEW p \in Proc, NEW j \in Job, Submit(p, j) \/ Resubmit(p, j) PROVE LiveClaimsCurrent'
  BY <1>7 DEF Submit, Resubmit, StartRun, Claim
<1>8. ASSUME NEW p \in Proc, NEW t \in queued[p], TakeSlot(p, t) PROVE LiveClaimsCurrent'
  BY <1>8 DEF TakeSlot
<1>9. ASSUME NEW p \in Proc, NEW t \in queued[p], CancelQueued(p, t) PROVE LiveClaimsCurrent'
  BY <1>9 DEF CancelQueued, FinishJob, Ended
<1>10. ASSUME NEW p \in Proc, NEW t \in running[p], Fail(p, t) \/ LoseOutcome(p, t) PROVE LiveClaimsCurrent'
  BY <1>10 DEF Fail, LoseOutcome, EndRun, FinishJob, Ended
<1>11. ASSUME NEW p \in Proc, NEW t \in running[p], NEW n \in RowCounts, Complete(p, t, n) PROVE LiveClaimsCurrent'
  BY <1>11 DEF Complete, EndRun, FinishJob, Ended
<1>12. ASSUME NEW j \in Job, Lapse(j) PROVE LiveClaimsCurrent'
  BY <1>12 DEF Lapse, Leased
<1>13. ASSUME NEW j \in Job, Review(j) PROVE LiveClaimsCurrent'
  BY <1>13 DEF Review
<1>14. ASSUME NEW v \in seen, Confirm(v) PROVE LiveClaimsCurrent'
  BY <1>14 DEF Confirm, Consumed, Proposal
<1>15. ASSUME NEW j \in Job, DeleteJob(j) PROVE LiveClaimsCurrent'
  BY <1>15 DEF DeleteJob, Discarded, Ended
<1>16. ASSUME NEW S \in SUBSET Job, DiscardJobs(S) PROVE LiveClaimsCurrent'
  BY <1>16 DEF DiscardJobs, Discarded, Ended
<1>17. CASE UNCHANGED vars
  BY <1>17 DEF vars
<1> QED
  BY <1>1, <1>2, <1>3, <1>4, <1>5, <1>6, <1>7, <1>8, <1>9, <1>10, <1>11, <1>12, <1>13, <1>14, <1>15, <1>16, <1>17 DEF Next

(* A run leaves its process only together with the end of its row, or with the process. *)
LEMMA WorkStep ==
  ASSUME TypeOK, TypeOK', WorkInv, [Next]_vars
  PROVE  WorkInv'
<1> USE JobsAssumption DEF TypeOK, Row, Runs, WorkInv, PendingIsWorkedOrOrphaned, Held
<1>1. ASSUME NEW p \in Proc, Start(p) PROVE WorkInv'
  <2>1. \A k \in Job : job'[k].status = "pending" => job'[k] = job[k]
    BY <1>1 DEF Start, OrStall, FailOrphanedJobs, Ended
  <2> QED
    BY <1>1, <2>1 DEF Start
<1>2. ASSUME NEW p \in Proc, RenewTick(p) PROVE WorkInv'
  BY <1>2 DEF RenewTick, OrStall, RenewJobLeases, HeldBy, Leased
<1>3. ASSUME NEW p \in Proc, SweepTick(p) PROVE WorkInv'
  BY SMTT(30), <1>3 DEF SweepTick, OrStall, FailOrphanedJobs, Orphan, Ended
<1>4. ASSUME NEW p \in Proc, Shutdown(p) PROVE WorkInv'
  BY <1>4 DEF Shutdown
<1>5. ASSUME NEW p \in Proc, Release(p) PROVE WorkInv'
  BY SMTT(30), <1>5 DEF Release, OrStall, ReleaseJobLeases, HeldBy, Leased
<1>6. ASSUME NEW p \in Proc, Exit(p) \/ Kill(p) PROVE WorkInv'
  BY <1>6 DEF Exit, Kill, Die
<1>7. ASSUME NEW p \in Proc, NEW j \in Job, Submit(p, j) \/ Resubmit(p, j) PROVE WorkInv'
  <2>1. StartRun(p, j)
    BY <1>7 DEF Submit, Resubmit
  <2>2. job'[j].owner = p /\ job'[j].attempt = job[j].attempt + 1
    BY <2>1 DEF StartRun, Claim
  <2>3. <<j, job'[j].attempt>> \in queued'[p]
    BY <2>1, <2>2 DEF StartRun
  <2>4. \A k \in Job \ {j} : job'[k] = job[k]
    BY <2>1 DEF StartRun
  <2>5. \A q \in Proc : queued[q] \subseteq queued'[q] /\ running'[q] = running[q] /\ proc' = proc
    BY <2>1 DEF StartRun
  <2> QED
    BY ZenonT(60), <2>2, <2>3, <2>4, <2>5
<1>8. ASSUME NEW p \in Proc, NEW t \in queued[p], TakeSlot(p, t) PROVE WorkInv'
  BY <1>8 DEF TakeSlot
<1>9. ASSUME NEW p \in Proc, NEW t \in queued[p], CancelQueued(p, t) PROVE WorkInv'
  BY <1>9 DEF CancelQueued, FinishJob, Ended
<1>10. ASSUME NEW p \in Proc, NEW t \in running[p], Fail(p, t) \/ LoseOutcome(p, t) PROVE WorkInv'
  BY <1>10 DEF Fail, LoseOutcome, EndRun, FinishJob, Ended
<1>11. ASSUME NEW p \in Proc, NEW t \in running[p], NEW n \in RowCounts, Complete(p, t, n) PROVE WorkInv'
  BY <1>11 DEF Complete, EndRun, FinishJob, Ended
<1>12. ASSUME NEW j \in Job, Lapse(j) PROVE WorkInv'
  BY <1>12 DEF Lapse, Leased
<1>13. ASSUME NEW j \in Job, Review(j) PROVE WorkInv'
  BY <1>13 DEF Review
<1>14. ASSUME NEW v \in seen, Confirm(v) PROVE WorkInv'
  BY <1>14 DEF Confirm, Consumed, Proposal
<1>15. ASSUME NEW j \in Job, DeleteJob(j) PROVE WorkInv'
  BY <1>15 DEF DeleteJob, Discarded, Ended
<1>16. ASSUME NEW S \in SUBSET Job, DiscardJobs(S) PROVE WorkInv'
  BY <1>16 DEF DiscardJobs, Discarded, Ended
<1>17. CASE UNCHANGED vars
  BY <1>17 DEF vars
<1> QED
  BY <1>1, <1>2, <1>3, <1>4, <1>5, <1>6, <1>7, <1>8, <1>9, <1>10, <1>11, <1>12, <1>13, <1>14, <1>15, <1>16, <1>17 DEF Next

(* A run's row is ended by the run itself, or by whoever deletes it: no sweep touches
   it while its process lives, and nobody asks for another analysis before. *)
LEMMA CurrentStep ==
  ASSUME TypeOK, TypeOK', LeaseMeansPending, LiveClaimsCurrent, RunsAreCurrent, [Next]_vars
  PROVE  RunsAreCurrent'
<1> SUFFICES ASSUME "stall" \notin Faults, "deadline" \notin Faults PROVE RunsAreCurrent'
  BY DEF RunsAreCurrent
<1>0. /\ OutcomeOfCurrentRun /\ \A p \in Proc : queued[p] \cap running[p] = {}
      /\ \A p \in Proc : \A t \in Held(p) :
           /\ proc[p] \in Alive /\ t[2] = job[t[1]].attempt /\ t[1] \in Job
           /\ \/ job[t[1]].status = "pending" /\ job[t[1]].owner = p /\ job[t[1]].lease = "current"
              \/ job[t[1]].status = "deleted"
  BY JobsAssumption DEF RunsAreCurrent, LiveClaimsCurrent, TypeOK, Held, Runs
<1>a. ASSUME \A p \in Proc : queued'[p] \subseteq queued[p] /\ running'[p] \subseteq running[p],
             \A p \in Proc : Held(p) # {} => Held(p)' = {} \/ proc'[p] \in Alive,
             \A j \in Job : job'[j].attempt = job[j].attempt /\ job'[j].endedBy \in {0, job[j].endedBy},
             \A j \in Job, p \in Proc :
               job[j].status = "deleted"
                 \/ (job[j].status = "pending" /\ job[j].owner = p /\ job[j].lease = "current" /\ Held(p)' # {})
               => \/ job'[j].status = "deleted"
                  \/ job'[j].status = job[j].status /\ job'[j].owner = job[j].owner
      PROVE  RunsAreCurrent'
  <2>1. OutcomeOfCurrentRun'
    BY <1>0, <1>a DEF OutcomeOfCurrentRun
  <2>2. \A p \in Proc : queued'[p] \cap running'[p] = {}
    BY <1>0, <1>a
  <2>3. ASSUME NEW p \in Proc, NEW t \in Held(p)'
        PROVE  /\ proc'[p] \in Alive /\ t[2] = job'[t[1]].attempt
               /\ \/ job'[t[1]].status = "pending" /\ job'[t[1]].owner = p
                  \/ job'[t[1]].status = "deleted"
    <3>1. t \in Held(p) /\ Held(p)' # {}
      BY <1>a, <2>3 DEF Held
    <3> QED
      BY <1>0, <1>a, <3>1
  <2> QED
    BY <2>1, <2>2, <2>3 DEF RunsAreCurrent, Held
<1> USE JobsAssumption DEF TypeOK, Row, Runs
<1>1. ASSUME NEW p \in Proc, Start(p) \/ SweepTick(p) PROVE RunsAreCurrent'
  <2>1. /\ \A q \in Proc : queued'[q] = queued[q] /\ running'[q] = running[q]
        /\ \A q \in Proc : proc'[q] = proc[q] \/ proc'[q] \in Alive
        /\ \A j \in Job : job'[j] = IF Orphan(job[j], p) THEN Ended(job[j], "failed", 0, 0) ELSE job[j]
    BY <1>1 DEF Start, SweepTick, OrStall, FailOrphanedJobs
  <2> QED
    BY <1>0, <1>a, <2>1 DEF Orphan, Ended, Held
<1>2. ASSUME NEW p \in Proc, RenewTick(p) PROVE RunsAreCurrent'
  BY <1>0, <1>a, <1>2 DEF RenewTick, OrStall, RenewJobLeases, HeldBy, Leased, Held
<1>3. ASSUME NEW p \in Proc, Release(p) PROVE RunsAreCurrent'
  <2>1. Held(p) = {}
    BY <1>3 DEF Release
  <2> QED
    BY <1>0, <1>a, <1>3, <2>1 DEF Release, OrStall, ReleaseJobLeases, HeldBy, Leased, Held
<1>4. ASSUME NEW p \in Proc, Shutdown(p) PROVE RunsAreCurrent'
  BY <1>0, <1>a, <1>4 DEF Shutdown, Held
<1>5. ASSUME NEW p \in Proc, Exit(p) \/ Kill(p) PROVE RunsAreCurrent'
  <2>1. /\ job' = job /\ proc' = [proc EXCEPT ![p] = "gone"]
        /\ queued' = [queued EXCEPT ![p] = {}] /\ running' = [running EXCEPT ![p] = {}]
    BY <1>5 DEF Exit, Kill, Die
  <2>2. \A q \in Proc : queued'[q] \subseteq queued[q] /\ running'[q] \subseteq running[q]
    BY <2>1
  <2>3. \A q \in Proc : Held(q) # {} => Held(q)' = {} \/ proc'[q] \in Alive
    BY <1>0, <2>1 DEF Held
  <2> QED
    BY <1>0, <1>a, <2>1, <2>2, <2>3
<1>6. ASSUME NEW p \in Proc, NEW j \in Job, Submit(p, j) \/ Resubmit(p, j) PROVE RunsAreCurrent'
  <2> DEFINE t == <<j, job[j].attempt + 1>>
  <2>1. /\ StartRun(p, j) /\ job[j].status \in {"absent", "done", "failed"} /\ proc[p] = "up"
    BY <1>6 DEF Submit, Resubmit, StartRun
  <2>2. /\ job'[j].owner = p /\ job'[j].attempt = job[j].attempt + 1 /\ job'[j].status = "pending"
        /\ job'[j].endedBy = 0 /\ \A k \in Job \ {j} : job'[k] = job[k]
    BY <2>1 DEF StartRun, Claim
  <2>3. /\ queued'[p] = queued[p] \cup {t} /\ \A q \in Proc \ {p} : queued'[q] = queued[q]
        /\ running' = running /\ proc' = proc
    BY <2>1 DEF StartRun
  <2>4. \A q \in Proc : \A u \in Held(q) : u[1] # j
    <3> HIDE JobsAssumption DEF TypeOK, Row, Runs
    <3> SUFFICES ASSUME NEW q \in Proc, NEW u \in Held(q), u[1] = j PROVE FALSE
      OBVIOUS
    <3>1. job[u[1]].status \in {"pending", "deleted"}
      BY <1>0
    <3> QED
      BY <2>1, <3>1
  <2>5. t[1] = j /\ t[2] = job[j].attempt + 1
    OBVIOUS
  <2> HIDE DEF t
  <2>6. \A q \in Proc : queued'[q] \cap running'[q] = {}
    BY SMTT(30), <1>0, <2>3, <2>4, <2>5 DEF Held
  <2>7. OutcomeOfCurrentRun'
    BY <1>0, <2>2 DEF OutcomeOfCurrentRun
  <2>8. ASSUME NEW q \in Proc, NEW u \in Held(q)'
        PROVE  /\ proc'[q] \in Alive /\ u[2] = job'[u[1]].attempt
               /\ \/ job'[u[1]].status = "pending" /\ job'[u[1]].owner = q
                  \/ job'[u[1]].status = "deleted"
    <3>1. CASE u \in Held(q)
      BY <1>0, <2>2, <2>3, <2>4, <3>1
    <3>2. CASE u \notin Held(q)
      <4>1. u = t /\ q = p
        BY <2>3, <2>8, <3>2 DEF Held
      <4> QED
        BY <2>1, <2>2, <2>3, <2>5, <4>1
    <3> QED
      BY <3>1, <3>2
  <2> QED
    BY <2>6, <2>7, <2>8 DEF RunsAreCurrent, Held
<1>7. ASSUME NEW p \in Proc, NEW t \in queued[p], TakeSlot(p, t) PROVE RunsAreCurrent'
  <2>1. /\ job' = job /\ proc' = proc /\ \A q \in Proc : Held(q)' = Held(q)
        /\ \A q \in Proc : queued'[q] \cap running'[q] = {}
    BY <1>0, <1>7 DEF TakeSlot, Held
  <2> QED
    BY <1>0, <2>1 DEF RunsAreCurrent, OutcomeOfCurrentRun
<1>b. ASSUME NEW p \in Proc, NEW t \in Held(p), NEW to \in {"done", "failed"}, NEW n, FinishJob(t, to, n),
             UNCHANGED proc, t \notin Held(p)',
             \A q \in Proc : queued'[q] \subseteq queued[q] /\ running'[q] \subseteq running[q]
      PROVE  RunsAreCurrent'
  <2>1. t[1] \in Job /\ t[2] = job[t[1]].attempt
    BY <1>0
  <2>2. CASE job[t[1]].status # "pending"
    <3>1. job' = job
      BY <1>b, <2>2 DEF FinishJob
    <3> QED
      BY <1>0, <1>a, <1>b, <3>1
  <2>3. CASE job[t[1]].status = "pending"
    <3>1. /\ job'[t[1]].attempt = job[t[1]].attempt /\ job'[t[1]].endedBy = t[2]
          /\ \A k \in Job \ {t[1]} : job'[k] = job[k]
      BY <1>b, <2>1, <2>3 DEF FinishJob, Ended
    <3>2. OutcomeOfCurrentRun'
      BY <1>0, <2>1, <3>1 DEF OutcomeOfCurrentRun
    <3>3. \A q \in Proc : queued'[q] \cap running'[q] = {}
      BY <1>0, <1>b
    <3>4. ASSUME NEW q \in Proc, NEW u \in Held(q)'
          PROVE  u \in Held(q) /\ u[1] # t[1]
      <4>1. u \in Held(q)
        BY <1>b, <3>4 DEF Held
      <4>2. ASSUME u[1] = t[1] PROVE FALSE
        <5>1. q = p /\ u[2] = t[2]
          BY <1>0, <2>3, <4>1, <4>2
        <5>2. u \in Job \X Attempts /\ t \in Job \X Attempts
          BY <1>b, <4>1 DEF Held
        <5>3. u = <<u[1], u[2]>> /\ t = <<t[1], t[2]>>
          BY <5>2
        <5>4. u = t
          BY <4>2, <5>1, <5>3
        <5> QED
          BY <1>b, <3>4, <5>1, <5>4
      <4> QED
        BY <4>1, <4>2
    <3>5. ASSUME NEW q \in Proc, NEW u \in Held(q)'
          PROVE  /\ proc'[q] \in Alive /\ u[2] = job'[u[1]].attempt
                 /\ \/ job'[u[1]].status = "pending" /\ job'[u[1]].owner = q
                    \/ job'[u[1]].status = "deleted"
      BY <1>0, <1>b, <3>1, <3>4
    <3> QED
      BY <3>2, <3>3, <3>5 DEF RunsAreCurrent, Held
  <2> QED
    BY <2>2, <2>3
<1>8. ASSUME NEW p \in Proc, NEW t \in queued[p], CancelQueued(p, t) PROVE RunsAreCurrent'
  <2>1. /\ t \in Held(p) /\ t \notin Held(p)'
        /\ \A q \in Proc : queued'[q] \subseteq queued[q] /\ running'[q] \subseteq running[q]
    BY <1>0, <1>8 DEF CancelQueued, Held
  <2> QED
    BY <1>8, <1>b, <2>1 DEF CancelQueued
<1>9. ASSUME NEW p \in Proc, NEW t \in running[p], EndRun(p, t)
      PROVE  /\ t \in Held(p) /\ t \notin Held(p)' /\ UNCHANGED proc
             /\ \A q \in Proc : queued'[q] \subseteq queued[q] /\ running'[q] \subseteq running[q]
  BY <1>0, <1>9 DEF EndRun, Held
<1>10. ASSUME NEW p \in Proc, NEW t \in running[p], Fail(p, t) PROVE RunsAreCurrent'
  BY <1>9, <1>10, <1>b DEF Fail
<1>11. ASSUME NEW p \in Proc, NEW t \in running[p], NEW n \in RowCounts, Complete(p, t, n) PROVE RunsAreCurrent'
  BY <1>9, <1>11, <1>b DEF Complete
<1>12. ASSUME NEW p \in Proc, NEW t \in running[p], LoseOutcome(p, t) PROVE RunsAreCurrent'
  BY <1>0, <1>9, <1>12, <1>a DEF LoseOutcome
<1>13. ASSUME NEW j \in Job, Lapse(j) PROVE RunsAreCurrent'
  BY <1>0, <1>a, <1>13 DEF Lapse, Leased, Held
<1>14. ASSUME NEW j \in Job, Review(j) PROVE RunsAreCurrent'
  BY <1>0, <1>a, <1>14 DEF Review, Held
<1>15. ASSUME NEW v \in seen, Confirm(v) PROVE RunsAreCurrent'
  BY <1>0, <1>a, <1>15 DEF Confirm, Consumed, Proposal, Held
<1>16. ASSUME NEW j \in Job, DeleteJob(j) PROVE RunsAreCurrent'
  BY <1>0, <1>a, <1>16 DEF DeleteJob, Discarded, Ended, Held
<1>17. ASSUME NEW S \in SUBSET Job, DiscardJobs(S) PROVE RunsAreCurrent'
  BY <1>0, <1>a, <1>17 DEF DiscardJobs, Discarded, Ended, Held
<1>18. CASE UNCHANGED vars
  BY <1>0, <1>a, <1>18 DEF vars, Held
<1> QED
  BY <1>1, <1>2, <1>3, <1>4, <1>5, <1>6, <1>7, <1>8, <1>10, <1>11, <1>12, <1>13, <1>14, <1>15, <1>16, <1>17, <1>18 DEF Next

-----------------------------------------------------------------------------
LEMMA Inductive == Spec => []IInv
<1>1. IInv /\ [Next]_vars => IInv'
  BY TypeStep, LeaseStep, AppliedStep, ClaimsStep, WorkStep, CurrentStep DEF IInv
<1> QED
  BY InitIInv, <1>1, PTL DEF Spec

(* Types, and the concurrency bound of the runner: TakeSlot is the only way a
   run starts calling the provider. *)
THEOREM TypeCorrect == Spec => []TypeOK
BY Inductive, PTL DEF IInv

(* A row that left 'pending' names no owner, and an expiry exists exactly where
   an owner does, under every fault. *)
THEOREM LeaseDiscipline == Spec => []LeaseMeansPending
BY Inductive, PTL DEF IInv

(* ConsumeJob's guard: under every interleaving of confirms, re-analyses,
   discards and late outcomes a proposal is applied at most once. *)
THEOREM ProposalAppliedOnce == Spec => []AppliedOnce
BY Inductive, PTL DEF IInv

(* "never silently lost": while outcome writes get through, a pending row is
   being worked by its owner or is an orphan some sweep may fail, through
   crashes, shutdowns and stalled leases. *)
THEOREM NeverSilentlyLost ==
  ASSUME "lostwrite" \notin Faults
  PROVE  Spec => []PendingIsWorkedOrOrphaned
<1>1. IInv => PendingIsWorkedOrOrphaned
  BY DEF IInv, WorkInv
<1> QED
  BY Inductive, <1>1, PTL

(* Issue #121: while lease statements get through, no recovery and no tick of
   any process fails the work of a live one. *)
THEOREM RollingUpdateSparesLiveWork ==
  ASSUME "stall" \notin Faults
  PROVE  Spec => SweepSparesLiveWork
<1> DEFINE Spared == \A j \in Job : SweptNow(j) => job[j].owner = NoProc \/ proc[job[j].owner] = "gone"
<1>1. ASSUME IInv, [Next]_vars PROVE [Spared]_vars
  <2> SUFFICES ASSUME NEW k \in Job, SweptNow(k), job[k].owner # NoProc, proc[job[k].owner] # "gone"
               PROVE  FALSE
    BY DEF Spared
  <2>1. /\ job[k].lease = "current" /\ job[k].status = "pending"
        /\ job'[k].status = "failed" /\ job'[k].endedBy = 0
    BY <1>1 DEF IInv, LiveClaimsCurrent, SweptNow
  <2> USE <2>1, <1>1, JobsAssumption DEF IInv, TypeOK, Row, Runs
  <2>2. ASSUME NEW p \in Proc, Start(p) \/ SweepTick(p) PROVE FALSE
    BY <2>2 DEF Start, SweepTick, OrStall, FailOrphanedJobs, Orphan
  <2>3. ASSUME NEW p \in Proc, RenewTick(p) PROVE FALSE
    BY <2>3 DEF RenewTick, OrStall, RenewJobLeases, HeldBy, Leased
  <2>4. ASSUME NEW p \in Proc, Shutdown(p) \/ Exit(p) \/ Kill(p) PROVE FALSE
    BY <2>4 DEF Shutdown, Exit, Kill, Die
  <2>5. ASSUME NEW p \in Proc, Release(p) PROVE FALSE
    BY <2>5 DEF Release, OrStall, ReleaseJobLeases, HeldBy, Leased
  <2>6. ASSUME NEW p \in Proc, NEW j \in Job, Submit(p, j) \/ Resubmit(p, j) PROVE FALSE
    BY <2>6 DEF Submit, Resubmit, StartRun, Claim
  <2>7. ASSUME NEW p \in Proc, NEW t \in queued[p], TakeSlot(p, t) \/ CancelQueued(p, t) PROVE FALSE
    BY <2>7 DEF TakeSlot, CancelQueued, FinishJob, Ended
  <2>8. ASSUME NEW p \in Proc, NEW t \in running[p], Fail(p, t) \/ LoseOutcome(p, t) PROVE FALSE
    BY <2>8 DEF Fail, LoseOutcome, EndRun, FinishJob, Ended
  <2>9. ASSUME NEW p \in Proc, NEW t \in running[p], NEW n \in RowCounts, Complete(p, t, n) PROVE FALSE
    BY <2>9 DEF Complete, EndRun, FinishJob, Ended
  <2>10. ASSUME NEW j \in Job, Lapse(j) \/ Review(j) \/ DeleteJob(j) PROVE FALSE
    BY <2>10 DEF Lapse, Leased, Review, DeleteJob, Discarded, Ended
  <2>11. ASSUME NEW v \in seen, Confirm(v) PROVE FALSE
    BY <2>11 DEF Confirm, Consumed, Proposal
  <2>12. ASSUME NEW S \in SUBSET Job, DiscardJobs(S) PROVE FALSE
    BY <2>12 DEF DiscardJobs, Discarded, Ended
  <2>13. CASE UNCHANGED vars
    BY <2>13 DEF vars
  <2> QED
    BY <2>2, <2>3, <2>4, <2>5, <2>6, <2>7, <2>8, <2>9, <2>10, <2>11, <2>12, <2>13 DEF Next
<1> QED
  BY Inductive, <1>1, PTL DEF Spec, SweepSparesLiveWork

(* An outcome is that of the analysis asked for last, through crashes and lost
   outcomes, as long as lease statements get through and shutdown waits for its runs:
   the row does not store which run it waits for, and nothing else tells them apart. *)
THEOREM OutcomesAreCurrent ==
  ASSUME "stall" \notin Faults, "deadline" \notin Faults
  PROVE  Spec => []OutcomeOfCurrentRun
<1>1. IInv => OutcomeOfCurrentRun
  BY DEF IInv, RunsAreCurrent
<1> QED
  BY Inductive, <1>1, PTL

(* FailOrphanedJobs excludes the sweeping process's own rows: whatever its renewals
   do, no tick fails what its process claims, under every fault. *)
THEOREM NoTickFailsItsOwn == Spec => SweepSparesOwnWork
<1> DEFINE Spared == \A j \in Job, p \in Proc :
             keeper[p] = "sweep" /\ keeper'[p] = "renew" /\ job[j].owner = p => ~SweptNow(j)
<1>1. ASSUME TypeOK, [Next]_vars PROVE [Spared]_vars
  <2> SUFFICES ASSUME NEW j \in Job, NEW p \in Proc, keeper[p] = "sweep", keeper'[p] = "renew",
                      job[j].owner = p, SweptNow(j)
               PROVE  FALSE
    BY DEF Spared
  <2>1. job'[j] # job[j] /\ keeper' # keeper
    BY DEF SweptNow
  <2>2. ASSUME NEW q \in Proc, SweepTick(q) PROVE FALSE
    <3>1. q = p
      BY <1>1, <2>2 DEF SweepTick, TypeOK
    <3> QED
      BY <2>1, <2>2, <3>1 DEF SweepTick, OrStall, FailOrphanedJobs, Orphan
  <2>3. ASSUME NEW q \in Proc, RenewTick(q) PROVE FALSE
    BY <1>1, <2>3 DEF RenewTick, TypeOK
  <2>4. \E q \in Proc : SweepTick(q) \/ RenewTick(q)
    BY <1>1, <2>1 DEF Next, vars, Start, Shutdown, Release, Exit, Kill, Die, Submit, Resubmit, StartRun, TakeSlot,
       CancelQueued, Fail, LoseOutcome, Complete, EndRun, Lapse, Review, DeleteJob, Confirm, DiscardJobs
  <2> QED
    BY <2>2, <2>3, <2>4
<1> QED
  BY TypeCorrect, <1>1, PTL DEF Spec, SweepSparesOwnWork

(* CompleteJob and FailJob look at the status: what arrives after the row was swept,
   discarded or applied changes nothing, under every fault. *)
THEOREM LateOutcomesAreDropped == Spec => LateOutcomeIsDropped
<1> DEFINE Dropped == \A p \in Proc : \A t \in running[p] :
             t \notin running'[p] /\ job[t[1]].status # "pending" => job'[t[1]] = job[t[1]]
<1>1. ASSUME TypeOK, [Next]_vars PROVE [Dropped]_vars
  <2> SUFFICES ASSUME NEW p \in Proc, NEW t \in running[p], t \notin running'[p],
                      job[t[1]].status # "pending"
               PROVE  job'[t[1]] = job[t[1]]
    BY DEF Dropped
  <2>1. running' # running
    OBVIOUS
  <2>2. ASSUME NEW q \in Proc, NEW u \in running[q], EndRun(q, u) PROVE u = t /\ q = p
    BY <1>1, <2>2 DEF EndRun, TypeOK
  <2>3. ASSUME NEW q \in Proc, NEW u \in running[q], NEW to, NEW n, EndRun(q, u), FinishJob(u, to, n)
        PROVE  job'[t[1]] = job[t[1]]
    BY <2>2, <2>3 DEF FinishJob
  <2>4. ASSUME NEW q \in Proc, Exit(q) \/ Kill(q) PROVE job' = job
    BY <2>4 DEF Exit, Kill, Die
  <2>5. ASSUME NEW q \in Proc, NEW u \in queued[q], TakeSlot(q, u) PROVE FALSE
    BY <1>1, <2>5 DEF TakeSlot, TypeOK
  <2>6. \/ \E q \in Proc : \/ Exit(q) \/ Kill(q) \/ \E u \in queued[q] : TakeSlot(q, u)
                           \/ \E u \in running[q] : \/ Fail(q, u) \/ LoseOutcome(q, u)
                                                    \/ \E n \in RowCounts : Complete(q, u, n)
    BY <1>1, <2>1 DEF Next, vars, Start, Shutdown, Release, Submit, Resubmit, StartRun, CancelQueued, RenewTick, SweepTick,
       Lapse, Review, DeleteJob, Confirm, DiscardJobs
  <2> QED
    BY <2>3, <2>4, <2>5, <2>6 DEF Fail, LoseOutcome, Complete
<1> QED
  BY TypeCorrect, <1>1, PTL DEF Spec, LateOutcomeIsDropped

-----------------------------------------------------------------------------
(* The refinement: what each action does to the status column. *)

\* One status moves, the others stay.
Moves(j, from, to) ==
    /\ job[j].status = from
    /\ job'[j].status = to
    /\ \A k \in Job \ {j} : job'[k].status = job[k].status

LEMMA MoveIsMove ==
  ASSUME TypeOK, TypeOK', NEW j \in Job, NEW from, NEW to, Moves(j, from, to), UNCHANGED applied
  PROVE  Lifecycle!Move(j, to)
BY ZenonT(60) DEF Moves, Lifecycle!Move, TypeOK, Row

LEMMA FinishRefines ==
  ASSUME TypeOK, TypeOK', NEW t \in Runs, NEW to \in {"done", "failed"}, NEW n, FinishJob(t, to, n),
         UNCHANGED applied
  PROVE  [Lifecycle!Next]_(Lifecycle!vars)
<1>1. t[1] \in Job
  BY DEF Runs
<1>2. CASE job[t[1]].status = "pending"
  <2>1. Moves(t[1], "pending", to)
    BY <1>1, <1>2 DEF FinishJob, Ended, Moves, TypeOK
  <2>2. Lifecycle!Move(t[1], to)
    BY <1>1, <2>1, MoveIsMove
  <2>3. Lifecycle!End(t[1])
    BY <1>1, <1>2, <2>2 DEF Lifecycle!End
  <2> QED
    BY <1>1, <2>3 DEF Lifecycle!Next
<1>3. CASE job[t[1]].status # "pending"
  BY <1>3 DEF FinishJob, Lifecycle!vars
<1> QED
  BY <1>2, <1>3

LEMMA SweepRefines ==
  ASSUME TypeOK, TypeOK', NEW p \in Proc, OrStall(FailOrphanedJobs(p)), UNCHANGED applied
  PROVE  [Lifecycle!Next]_(Lifecycle!vars)
<1> DEFINE S == {j \in Job : Orphan(job[j], p)}
<1>1. CASE UNCHANGED job
  BY <1>1 DEF Lifecycle!vars
<1>2. CASE FailOrphanedJobs(p) /\ S = {}
  <2>1. job' = job
    BY <1>2 DEF FailOrphanedJobs, TypeOK
  <2> QED
    BY <2>1 DEF Lifecycle!vars
<1>3. CASE FailOrphanedJobs(p) /\ S # {}
  <2>1. PICK T \in SUBSET Job : T = S
    OBVIOUS
  <2>2. \A j \in Job : job'[j].status = IF j \in T THEN "failed" ELSE job[j].status
    BY <1>3, <2>1 DEF FailOrphanedJobs, Ended
  <2>3. T # {} /\ \A j \in T : job[j].status = "pending"
    BY <1>3, <2>1 DEF Orphan
  <2>4. Lifecycle!Interrupt(T)
    BY <2>2, <2>3 DEF Lifecycle!Interrupt
  <2> QED
    BY <2>4 DEF Lifecycle!Next
<1> QED
  BY <1>1, <1>2, <1>3 DEF OrStall

LEMMA StutterRefines ==
  ASSUME \A k \in Job : job'[k].status = job[k].status, UNCHANGED applied
  PROVE  UNCHANGED Lifecycle!vars
BY DEF Lifecycle!vars

LEMMA StepRefines ==
  ASSUME TypeOK, TypeOK', [Next]_vars
  PROVE  [Lifecycle!Next]_(Lifecycle!vars)
<1> DEFINE Refined == [Lifecycle!Next]_(Lifecycle!vars)
<1>1. ASSUME NEW p \in Proc, Start(p) \/ SweepTick(p) PROVE Refined
  BY <1>1, SweepRefines DEF Start, SweepTick
<1>2. ASSUME NEW p \in Proc, RenewTick(p) \/ Release(p) PROVE Refined
  BY <1>2, StutterRefines DEF RenewTick, Release, OrStall, RenewJobLeases, ReleaseJobLeases, Leased
<1>3. ASSUME NEW p \in Proc, Shutdown(p) \/ Exit(p) \/ Kill(p) PROVE Refined
  BY <1>3, StutterRefines DEF Shutdown, Exit, Kill, Die
<1>4. ASSUME NEW p \in Proc, NEW j \in Job, Submit(p, j) PROVE Refined
  <2>1. Moves(j, "absent", "pending") /\ UNCHANGED applied
    BY <1>4 DEF Submit, StartRun, Claim, Moves, TypeOK
  <2>2. Lifecycle!Upload(j)
    BY <2>1, MoveIsMove DEF Lifecycle!Upload, Moves
  <2> QED
    BY <2>2 DEF Lifecycle!Next
<1>5. ASSUME NEW p \in Proc, NEW j \in Job, Resubmit(p, j) PROVE Refined
  <2>1. Moves(j, job[j].status, "pending") /\ UNCHANGED applied /\ job[j].status \in {"done", "failed"}
    BY <1>5 DEF Resubmit, StartRun, Claim, Moves, TypeOK
  <2>2. Lifecycle!AnalyzeAgain(j)
    BY <2>1, MoveIsMove DEF Lifecycle!AnalyzeAgain
  <2> QED
    BY <2>2 DEF Lifecycle!Next
<1>6. ASSUME NEW p \in Proc, NEW t \in queued[p], TakeSlot(p, t) PROVE Refined
  BY <1>6, StutterRefines DEF TakeSlot
<1>7. ASSUME NEW p \in Proc, NEW t \in queued[p], CancelQueued(p, t) PROVE Refined
  <2>1. t \in Runs
    BY DEF TypeOK
  <2> QED
    BY <1>7, <2>1, FinishRefines DEF CancelQueued
<1>8. ASSUME NEW p \in Proc, NEW t \in running[p], Fail(p, t) PROVE Refined
  <2>1. t \in Runs
    BY DEF TypeOK
  <2> QED
    BY <1>8, <2>1, FinishRefines DEF Fail, EndRun
<1>9. ASSUME NEW p \in Proc, NEW t \in running[p], LoseOutcome(p, t) PROVE Refined
  BY <1>9, StutterRefines DEF LoseOutcome, EndRun
<1>10. ASSUME NEW p \in Proc, NEW t \in running[p], NEW n \in RowCounts, Complete(p, t, n) PROVE Refined
  <2>1. t \in Runs
    BY DEF TypeOK
  <2> QED
    BY <1>10, <2>1, FinishRefines DEF Complete, EndRun
<1>11. ASSUME NEW j \in Job, Lapse(j) \/ Review(j) PROVE Refined
  <2>1. (\A k \in Job : job'[k].status = job[k].status) /\ UNCHANGED applied
    BY <1>11 DEF Lapse, Review, Leased, TypeOK
  <2> QED
    BY <2>1, StutterRefines
<1>12. ASSUME NEW v \in seen, Confirm(v) PROVE Refined
  <2>1. v.of \in Job
    BY DEF TypeOK, Proposal
  <2>2. Moves(v.of, "done", "consumed")
    BY <1>12, <2>1 DEF Confirm, Consumed, Moves, TypeOK
  <2>3. Lifecycle!Apply(v.of)
    BY <1>12, <2>1, <2>2 DEF Lifecycle!Apply, Moves, Confirm, TypeOK
  <2> QED
    BY <2>1, <2>3 DEF Lifecycle!Next
<1>13. ASSUME NEW S \in SUBSET Job, DiscardJobs(S) PROVE Refined
  <2>1. \A j \in Job : job'[j].status = IF j \in S THEN "deleted" ELSE job[j].status
    BY <1>13 DEF DiscardJobs, Discarded, Ended
  <2>2. Lifecycle!Discard(S)
    BY <1>13, <2>1 DEF Lifecycle!Discard, DiscardJobs
  <2> QED
    BY <2>2 DEF Lifecycle!Next
<1>14. ASSUME NEW j \in Job, DeleteJob(j) PROVE Refined
  <2>1. Moves(j, job[j].status, "deleted") /\ UNCHANGED applied
        /\ job[j].status \in {"pending", "done", "failed", "consumed"}
    BY <1>14 DEF DeleteJob, Discarded, Ended, Moves, TypeOK, Row
  <2>2. CASE job[j].status = "consumed"
    <3>1. Lifecycle!DiscardConsumed(j)
      BY <2>1, <2>2, MoveIsMove DEF Lifecycle!DiscardConsumed
    <3> QED
      BY <3>1 DEF Lifecycle!Next
  <2>3. CASE job[j].status # "consumed"
    <3>1. Lifecycle!Discard({j})
      BY <2>1, <2>3 DEF Lifecycle!Discard, Moves
    <3> QED
      BY <3>1 DEF Lifecycle!Next
  <2> QED
    BY <2>2, <2>3
<1>15. CASE UNCHANGED vars
  BY <1>15 DEF vars, Lifecycle!vars
<1> QED
  BY <1>1, <1>2, <1>3, <1>4, <1>5, <1>6, <1>7, <1>8, <1>9, <1>10, <1>11, <1>12, <1>13, <1>14, <1>15 DEF Next

(* The processes, leases and goroutines of Jobs implement the status machine of
   JobLifecycle: no late outcome, sweep or re-analysis takes a transition that
   store/jobs.go does not document. *)
THEOREM JobsImplementLifecycle == Spec => ImplementsLifecycle
<1>1. Init => Lifecycle!Init
  BY DEF Init, Lifecycle!Init
<1>2. TypeOK /\ TypeOK' /\ [Next]_vars => [Lifecycle!Next]_(Lifecycle!vars)
  BY StepRefines
<1> QED
  BY TypeCorrect, <1>1, <1>2, PTL DEF Spec, ImplementsLifecycle, Lifecycle!Spec

=============================================================================
