----------------------------- MODULE KeyedWrites -----------------------------
(* One idempotency key of one user (internal/httpapi/idempotency.go,
   internal/store/idempotency.go): the calls that carry it, the lock each process
   keeps for it, the handler behind the middleware and the record of its answer.

   The handler's transaction commits, its answer goes out, and the record is
   written after that, so a client may retry what was done. *)
EXTENDS Integers, FiniteSets

CONSTANTS
    Call,           \* attempts under way at one time
    Process,
    Hash,           \* HashRequest: a careless client uses one key for two requests
    Nil,
    MaxEffects      \* bound: times the handler's write has committed

ASSUME KeyedAssumption ==
    /\ MaxEffects \in Nat
    /\ Nil \notin Hash \cup Call
    /\ Nil \notin [hash : Hash, status : {"done", "refused", "failed"}]

VARIABLES
    call,           \* where an attempt is, at which process, and the request it carries
    holder,         \* keyLocks: the call that holds the key's lock in each process
    record,         \* idempotency_records: the request and answer, or Nil
    effects,        \* history: writes committed for this key
    answers,        \* history: pairs of a request and the request its answer was made for
    excused         \* history: something the design does not cover has happened

keyedVars == <<call, holder, record, effects, answers, excused>>

NoCall == [phase |-> "idle", at |-> Nil, hash |-> Nil, status |-> "none"]

KeyedInit ==
    /\ call = [c \in Call |-> NoCall]
    /\ holder = [p \in Process |-> Nil]
    /\ record = Nil
    /\ effects = 0
    /\ answers = {}
    /\ excused = FALSE

\* Retries and first attempts alike.
Send(c, p, h) ==
    /\ call[c].phase = "idle"
    /\ call' = [call EXCEPT ![c] = [phase |-> "waiting", at |-> p, hash |-> h, status |-> "none"]]
    /\ UNCHANGED <<holder, record, effects, answers, excused>>

\* Seeded fault: no lock is kept.
BugLockAnyway(c) ==
    /\ call[c].phase = "waiting"
    /\ holder' = [holder EXCEPT ![call[c].at] = c]
    /\ call' = [call EXCEPT ![c].phase = "locked"]
    /\ UNCHANGED <<record, effects, answers, excused>>

\* keyLocks.lock
Lock(c) ==
    /\ call[c].phase = "waiting"
    /\ holder[call[c].at] = Nil
    /\ holder' = [holder EXCEPT ![call[c].at] = c]
    /\ call' = [call EXCEPT ![c].phase = "locked"]
    /\ UNCHANGED <<record, effects, answers, excused>>

\* The deferred unlock, whichever way the call ends.
Unlocked(c) == [p \in Process |-> IF holder[p] = c THEN Nil ELSE holder[p]]

Returns(c) ==
    /\ holder' = Unlocked(c)
    /\ call' = [call EXCEPT ![c] = NoCall]

\* Another process is between its own lookup and its own record.
Elsewhere(c) == \E d \in Call : call[d].phase \in {"running", "ran"} /\ call[d].at # call[c].at

\* Seeded fault: the request is not compared.
BugReplayAnything(c) == record # Nil

\* LookupIdempotent found this request.
Replayable(c) == record # Nil /\ record.hash = call[c].hash

Replay(c) ==
    /\ call[c].phase = "locked"
    /\ Replayable(c)
    /\ answers' = answers \cup {<<call[c].hash, record.hash>>}
    /\ Returns(c)
    /\ UNCHANGED <<record, effects, excused>>

\* 422: the key was used for another request.
RefuseReuse(c) ==
    /\ call[c].phase = "locked"
    /\ record # Nil /\ ~Replayable(c)
    /\ Returns(c)
    /\ UNCHANGED <<record, effects, answers, excused>>

\* The database does not answer: nothing is served.
LookupFails(c) ==
    /\ call[c].phase = "locked"
    /\ Returns(c)
    /\ UNCHANGED <<record, effects, answers, excused>>

Miss(c) ==
    /\ call[c].phase = "locked"
    /\ record = Nil
    /\ call' = [call EXCEPT ![c].phase = "running"]
    /\ excused' = (excused \/ Elsewhere(c))
    /\ UNCHANGED <<holder, record, effects, answers>>

\* The handler: its write commits and it answers, it refuses, or it fails with
\* nothing written.  The answer is on its way before the record is.
Handle(c, status) ==
    /\ call[c].phase = "running"
    /\ status = "done" => effects < MaxEffects
    /\ call' = [call EXCEPT ![c].phase = "ran", ![c].status = status]
    /\ effects' = IF status = "done" THEN effects + 1 ELSE effects
    /\ answers' = answers \cup {<<call[c].hash, call[c].hash>>}
    /\ UNCHANGED <<holder, record, excused>>

WorthRecording(status) == status # "failed"

\* RecordIdempotent: the first insert for a key stays.
RecordAnswer(c) ==
    /\ call[c].phase = "ran"
    /\ record' = IF WorthRecording(call[c].status) /\ record = Nil
                   THEN [hash |-> call[c].hash, status |-> call[c].status]
                   ELSE record
    /\ Returns(c)
    /\ UNCHANGED <<effects, answers, excused>>

\* The insert fails and is only logged.
LoseRecord(c) ==
    /\ call[c].phase = "ran" /\ WorthRecording(call[c].status)
    /\ excused' = TRUE
    /\ Returns(c)
    /\ UNCHANGED <<record, effects, answers>>

\* A process dies with its locks and its calls.
Crash(p) ==
    /\ \E c \in Call : call[c].at = p
    /\ excused' = (excused \/ \E c \in Call : call[c].at = p /\ call[c].phase = "ran")
    /\ call' = [c \in Call |-> IF call[c].at = p THEN NoCall ELSE call[c]]
    /\ holder' = [holder EXCEPT ![p] = Nil]
    /\ UNCHANGED <<record, effects, answers>>

\* IdempotencyRetention has passed.
SweepIdempotencyRecords ==
    /\ record # Nil
    /\ record' = Nil
    /\ excused' = TRUE
    /\ UNCHANGED <<call, holder, effects, answers>>

KeyedNext ==
    \/ \E c \in Call :
         \/ \E p \in Process, h \in Hash : Send(c, p, h)
         \/ Lock(c) \/ Replay(c) \/ RefuseReuse(c) \/ LookupFails(c) \/ Miss(c)
         \/ \E status \in {"done", "refused", "failed"} : Handle(c, status)
         \/ RecordAnswer(c) \/ LoseRecord(c)
    \/ \E p \in Process : Crash(p)
    \/ SweepIdempotencyRecords

KeyedSpec == KeyedInit /\ [][KeyedNext]_keyedVars

-----------------------------------------------------------------------------
KeyedTypeOK ==
    /\ call \in [Call -> [phase : {"idle", "waiting", "locked", "running", "ran"},
                          at : Process \cup {Nil}, hash : Hash \cup {Nil},
                          status : {"none", "done", "refused", "failed"}]]
    /\ holder \in [Process -> Call \cup {Nil}]
    /\ record \in [hash : Hash, status : {"done", "refused", "failed"}] \cup {Nil}
    /\ effects \in 0..MaxEffects
    /\ answers \subseteq Hash \X Hash
    /\ excused \in BOOLEAN

(* Retries and duplicates of a keyed write commit it once ("so a retry replays
   it"), as long as its record is written and kept and one process serves the
   key: what is excused is a crash or a failed insert between the commit and the
   record, a retry after retention, and a second process that looked the key up in
   between. *)
OneEffect == ~excused => effects <= 1

(* No answer is ever given to a request it was not made for, although one key may
   come with two requests (LookupIdempotent compares the hash, and the first
   record of a key stays). *)
AnswersMatch == \A a \in answers : a[1] = a[2]

=============================================================================
