---------------------------- MODULE JobLifecycle ----------------------------
(* What the jobs table promises whoever polls a job: the status machine that
   store/jobs.go documents next to JobStatus, with nothing about processes,
   leases or goroutines.  A job is uploaded, ends done or failed, may be
   analysed again, and its proposal is applied at most once.  Jobs.tla is
   shown to implement this. *)
EXTENDS Integers

CONSTANT Job

VARIABLES
    status,     \* status[j]: the jobs.status column; "absent" before the insert
    applied     \* applied[j]: how often a confirm wrote j's proposal

vars == <<status, applied>>

Statuses == {"absent", "pending", "done", "failed", "consumed", "deleted"}

Init ==
    /\ status = [j \in Job |-> "absent"]
    /\ applied = [j \in Job |-> 0]

Move(j, to) ==
    /\ status' = [status EXCEPT ![j] = to]
    /\ UNCHANGED applied

Upload(j) == status[j] = "absent" /\ Move(j, "pending")

End(j) == status[j] = "pending" /\ (Move(j, "done") \/ Move(j, "failed"))

\* The sweep is one statement: it may fail several pending jobs at once.
Interrupt(S) ==
    /\ S # {}
    /\ \A j \in S : status[j] = "pending"
    /\ status' = [j \in Job |-> IF j \in S THEN "failed" ELSE status[j]]
    /\ UNCHANGED applied

AnalyzeAgain(j) == status[j] \in {"done", "failed"} /\ Move(j, "pending")

Apply(j) ==
    /\ status[j] = "done"
    /\ status' = [status EXCEPT ![j] = "consumed"]
    /\ applied' = [applied EXCEPT ![j] = @ + 1]

\* DeleteJob takes any job, DiscardJobs every one that is not consumed.
Discard(S) ==
    /\ S # {}
    /\ \A j \in S : status[j] \in {"pending", "done", "failed"}
    /\ status' = [j \in Job |-> IF j \in S THEN "deleted" ELSE status[j]]
    /\ UNCHANGED applied

DiscardConsumed(j) == status[j] = "consumed" /\ Move(j, "deleted")

Next ==
    \/ \E j \in Job : Upload(j) \/ End(j) \/ AnalyzeAgain(j) \/ Apply(j) \/ DiscardConsumed(j)
    \/ \E S \in SUBSET Job : Interrupt(S) \/ Discard(S)

Spec == Init /\ [][Next]_vars

=============================================================================
