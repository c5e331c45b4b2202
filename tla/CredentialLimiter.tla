-------------------------- MODULE CredentialLimiter --------------------------
(* The rate limiter of one process (internal/httpapi/ratelimit.go) as login,
   pairing and the change of a password use it: the limit is looked up before the
   secret is verified and a failure is recorded after, under two holds of the
   mutex, so attempts that are verified at the same time all pass the lookup.
   Minting pairing codes looks up and records under one. *)
EXTENDS Integers, FiniteSets

CONSTANTS
    Address, Name,      \* what credentialKeys makes keys of
    Minter,             \* users who mint codes: a limiter of its own
    Attempt,            \* attempts being verified
    Limit, Window,
    MaxClock            \* bound: the clock

Key == Address \cup Name

ASSUME LimiterAssumption ==
    /\ Limit \in Nat \ {0} /\ Window \in Nat \ {0} /\ MaxClock \in Nat
    /\ Minter \cap Key = {}
    /\ IsFiniteSet(Attempt)

VARIABLES
    now,
    windows,    \* the map: count failures since start; count 0 for no entry
    attempt,    \* the keys of each attempt that passed the lookup
    minted      \* history: codes minted in the current window

limiterVars == <<now, windows, attempt, minted>>

NoWindow == [count |-> 0, start |-> 0]

LimiterInit ==
    /\ now = 0
    /\ windows = [k \in Key \cup Minter |-> NoWindow]
    /\ attempt = [a \in Attempt |-> {}]
    /\ minted = [m \in Minter |-> 0]

\* A login has an address and, unless it is empty, a name; pairing and the change
\* of a password have an address only.
CredentialKeys == {{i} : i \in Address} \cup {{i, n} : i \in Address, n \in Name}

Lapsed(k) == windows[k].count > 0 /\ now - windows[k].start >= Window

\* Seeded fault: the attempt that reaches the limit is let through.
BugBlockedPastLimit(K) == \E k \in K : ~Lapsed(k) /\ windows[k].count > Limit

\* blockedLocked
Blocked(K) == \E k \in K : ~Lapsed(k) /\ windows[k].count >= Limit

\* Seeded fault: a window is stamped with its end.
BugRecordedUntil(K) ==
    [k \in DOMAIN windows |->
        IF k \in K
          THEN IF windows[k].count = 0 \/ Lapsed(k)
                 THEN [count |-> 1, start |-> now + Window]
                 ELSE [windows[k] EXCEPT !.count = @ + 1]
          ELSE IF Lapsed(k) THEN NoWindow ELSE windows[k]]

\* recordLocked, which sweeps first.
Recorded(K) ==
    [k \in DOMAIN windows |->
        IF k \in K
          THEN IF windows[k].count = 0 \/ Lapsed(k)
                 THEN [count |-> 1, start |-> now]
                 ELSE [windows[k] EXCEPT !.count = @ + 1]
          ELSE IF Lapsed(k) THEN NoWindow ELSE windows[k]]

\* A refusal leaves nothing behind.
Refuse(K) == Blocked(K) /\ UNCHANGED limiterVars

Check(a, K) ==
    /\ attempt[a] = {}
    /\ ~Blocked(K)
    /\ attempt' = [attempt EXCEPT ![a] = K]
    /\ UNCHANGED <<now, windows, minted>>

\* The password or the code was wrong.
Record(a) ==
    /\ attempt[a] # {}
    /\ windows' = Recorded(attempt[a])
    /\ attempt' = [attempt EXCEPT ![a] = {}]
    /\ UNCHANGED <<now, minted>>

\* It was right.
Reset(a) ==
    /\ attempt[a] # {}
    /\ windows' = [k \in DOMAIN windows |-> IF k \in attempt[a] THEN NoWindow ELSE windows[k]]
    /\ attempt' = [attempt EXCEPT ![a] = {}]
    /\ UNCHANGED <<now, minted>>

\* The handler failed for a reason of its own.
Forget(a) ==
    /\ attempt[a] # {}
    /\ attempt' = [attempt EXCEPT ![a] = {}]
    /\ UNCHANGED <<now, windows, minted>>

\* allow: counted whether or not it is allowed (bound: one past the limit).
Allow(m) ==
    /\ windows[m].count <= Limit \/ Lapsed(m)
    /\ windows' = [windows EXCEPT ![m] = Recorded({m})[m]]
    /\ minted' = [minted EXCEPT ![m] =
         IF windows[m].count = 0 \/ Lapsed(m) THEN 1 ELSE IF Blocked({m}) THEN @ ELSE @ + 1]
    /\ UNCHANGED <<now, attempt>>

Advance ==
    /\ now < MaxClock
    /\ now' = now + 1
    /\ UNCHANGED <<windows, attempt, minted>>

LimiterNext ==
    \/ Advance
    \/ \E K \in CredentialKeys : Refuse(K)
    \/ \E a \in Attempt : (\E K \in CredentialKeys : Check(a, K)) \/ Record(a) \/ Reset(a) \/ Forget(a)
    \/ \E m \in Minter : Allow(m)

LimiterSpec == LimiterInit /\ [][LimiterNext]_limiterVars

-----------------------------------------------------------------------------
LimiterTypeOK ==
    /\ now \in 0..MaxClock
    /\ windows \in [Key \cup Minter -> [count : Nat, start : 0..MaxClock]]
    /\ attempt \in [Attempt -> CredentialKeys \cup {{}}]
    /\ minted \in [Minter -> Nat]

(* The limit holds up to the attempts that are verified at the same time
   ("ten failures is ten failures across all three"): no window of an address or a
   name counts more than the limit and the attempts that passed the lookup with
   the one that reached it, and nobody mints more than Limit codes in a window. *)
GuessesBounded ==
    /\ \A k \in Key : windows[k].count <= Limit + Cardinality(Attempt) - 1
    /\ \A m \in Minter : minted[m] <= Limit

=============================================================================
