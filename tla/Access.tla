------------------------------- MODULE Access -------------------------------
(* Who may do what: accounts, sessions, pairing codes, storages and memberships
   (internal/store/users.go, sessions.go, pairing.go, storages.go), behind the
   gates of internal/httpapi/middleware.go.

   A request passes its gates first and acts later, each in a statement or a
   transaction of its own, so everything a gate has seen may be gone by the time
   the handler writes.  Usernames, labels and the rows of a storage are left out;
   wrong passwords are the business of CredentialLimiter.tla. *)
EXTENDS Integers, FiniteSets

CONSTANTS
    User, Session, Code, Storage,   \* ids; never reused
    Request,                        \* requests being served, by any process
    Page,                           \* startPages
    DefaultStartPage,
    None

ASSUME AccessAssumption ==
    /\ DefaultStartPage \in Page
    /\ None \notin User \cup Session \cup Storage \cup Page

VARIABLES
    account,    \* users; initial: it has the configured username
    session,    \* sessions
    code,       \* pairing_codes
    storage,    \* storages
    member,     \* storage_members: the start page, or None for no row
    request

accessVars == <<account, session, code, storage, member, request>>

(* What a session, a code or a login stands on: the account's present password, a
   password changed since, or one that had been changed when it was admitted. *)
Proof == {"current", "old", "late"}

Account == [state : {"fresh", "live", "gone"}, admin : BOOLEAN, initial : BOOLEAN]

NoAccount == [state |-> "fresh", admin |-> FALSE, initial |-> FALSE]

SessionRow ==
    [state : {"fresh", "live", "gone"}, user : User \cup {None}, kind : {"browser", "device"},
     expired : BOOLEAN, proof : Proof]

NoSession == [state |-> "fresh", user |-> None, kind |-> "browser", expired |-> FALSE, proof |-> "current"]

CodeRow == [state : {"fresh", "open", "gone"}, user : User \cup {None}, proof : Proof]

NoCode == [state |-> "fresh", user |-> None, proof |-> "current"]

Idle ==
    [phase |-> "idle", user |-> None, session |-> None, kind |-> "browser", storage |-> None,
     proof |-> "current"]

AccessInit ==
    /\ account = [u \in User |-> NoAccount]
    /\ session = [s \in Session |-> NoSession]
    /\ code = [c \in Code |-> NoCode]
    /\ storage = [g \in Storage |-> "fresh"]
    /\ member = [g \in Storage |-> [u \in User |-> None]]
    /\ request = [r \in Request |-> Idle]

-----------------------------------------------------------------------------
Exists(u) == u \in User /\ account[u].state = "live"

\* Deleted rows.
Without(S) == [s \in Session |-> IF s \in S THEN [NoSession EXCEPT !.state = "gone"] ELSE session[s]]

WithoutCode(c) == [code EXCEPT ![c] = [NoCode EXCEPT !.state = "gone"]]

Becomes(r, phase) == request' = [request EXCEPT ![r].phase = phase]

Ends(r) == request' = [request EXCEPT ![r] = Idle]

\* insertUser: usernames are unique, and the configured one is an account's.
InsertUser(u, admin, initial) ==
    /\ account[u].state = "fresh"
    /\ initial => \A v \in User : Exists(v) => ~account[v].initial
    /\ account' = [account EXCEPT
         ![u] = [state |-> "live", admin |-> admin, initial |-> initial]]

(* EnsureInitialAdmin, at the start of a process: the count and the insert are
   two statements, and another process may be starting too. *)
CountUsers(r) ==
    /\ request[r].phase = "idle"
    /\ \A u \in User : ~Exists(u)
    /\ Becomes(r, "counted")
    /\ UNCHANGED <<account, session, code, storage, member>>

CreateInitialAdmin(r, u) ==
    /\ request[r].phase = "counted"
    /\ InsertUser(u, TRUE, TRUE)
    /\ Ends(r)
    /\ UNCHANGED <<session, code, storage, member>>

-----------------------------------------------------------------------------
(* Ways in *)

\* Authenticate: the account is read and its password verified.
Authenticate(r, u) ==
    /\ request[r].phase = "idle"
    /\ Exists(u)
    /\ request' = [request EXCEPT ![r] =
         [Idle EXCEPT !.phase = "verified", !.user = u]]
    /\ UNCHANGED <<account, session, code, storage, member>>

\* One UPDATE ... RETURNING: a code is spent by whoever comes first.
RedeemPairingCode(r, c) ==
    /\ request[r].phase = "idle"
    /\ code[c].state = "open"
    /\ code' = WithoutCode(c)
    /\ request' = [request EXCEPT ![r] =
         [Idle EXCEPT !.phase = "redeemed", !.user = code[c].user, !.proof = code[c].proof]]
    /\ UNCHANGED <<account, session, storage, member>>

\* The foreign key refuses a deleted account.
CreateSession(s, u, kind, proof) ==
    /\ Exists(u)
    /\ session[s].state = "fresh"
    /\ session' = [session EXCEPT ![s] =
         [state |-> "live", user |-> u, kind |-> kind, expired |-> FALSE,
          proof |-> IF proof = "current" THEN "current" ELSE "late"]]

Login(r, s) ==
    /\ request[r].phase = "verified"
    /\ CreateSession(s, request[r].user, "browser", request[r].proof)
    /\ Ends(r)
    /\ UNCHANGED <<account, code, storage, member>>

Pair(r, s) ==
    /\ request[r].phase = "redeemed"
    /\ CreateSession(s, request[r].user, "device", request[r].proof)
    /\ Ends(r)
    /\ UNCHANGED <<account, code, storage, member>>

-----------------------------------------------------------------------------
(* Gates *)

\* LookupSession deletes what it finds expired.
LookupExpired(s) == session[s].expired /\ session' = Without({s})

\* LookupSession and UserByID.
ResolveSession(r, s) ==
    /\ request[r].phase = "idle"
    /\ session[s].state = "live"
    /\ \/ LookupExpired(s) /\ UNCHANGED request
       \/ /\ ~session[s].expired /\ Exists(session[s].user)
          /\ request' = [request EXCEPT ![r] =
               [Idle EXCEPT !.phase = "in", !.user = session[s].user, !.session = s,
                            !.kind = session[s].kind]]
          /\ UNCHANGED session
    /\ UNCHANGED <<account, code, storage, member>>

IsAdmin(u) == Exists(u) /\ account[u].admin

\* Asks the database on every request, and keeps devices out.
RequireAdmin(r) ==
    /\ request[r].phase = "in"
    /\ IsAdmin(request[r].user)
    /\ request[r].kind = "browser"
    /\ Becomes(r, "admin")
    /\ UNCHANGED <<account, session, code, storage, member>>

IsStorageMember(g, u) == member[g][u] # None

RequireStorageMember(r, g) ==
    /\ request[r].phase = "in"
    /\ IsStorageMember(g, request[r].user)
    /\ request' = [request EXCEPT ![r].phase = "member", ![r].storage = g]
    /\ UNCHANGED <<account, session, code, storage, member>>

\* A request that is refused, fails, or has nothing to do with these tables.
Done(r) ==
    /\ request[r].phase # "idle"
    /\ Ends(r)
    /\ UNCHANGED <<account, session, code, storage, member>>

-----------------------------------------------------------------------------
(* What a session may do with its own account *)

DeleteSession(s) == session[s].state = "live" /\ session' = Without({s})

Logout(r) ==
    /\ request[r].phase = "in"
    /\ DeleteSession(request[r].session)
    /\ Ends(r)
    /\ UNCHANGED <<account, code, storage, member>>

UserSessions(u) == {s \in Session : session[s].state = "live" /\ session[s].user = u /\ ~session[s].expired}

\* Handles are resolved among the caller's own sessions.
RevokeDevice(r, s) ==
    /\ request[r].phase = "in"
    /\ s \in UserSessions(request[r].user)
    /\ DeleteSession(s)
    /\ Ends(r)
    /\ UNCHANGED <<account, code, storage, member>>

CreatePairingCode(c, u) ==
    /\ Exists(u)
    /\ code[c].state = "fresh"
    /\ code' = [code EXCEPT ![c] = [state |-> "open", user |-> u, proof |-> "current"]]

StartPairing(r, c) ==
    /\ request[r].phase = "in"
    /\ CreatePairingCode(c, request[r].user)
    /\ Ends(r)
    /\ UNCHANGED <<account, session, storage, member>>

\* Seeded fault: paired devices stay signed in.
BugRevokedBrowsers(u, keep) ==
    {s \in Session : session[s].state = "live" /\ session[s].user = u /\ s # keep /\ session[s].kind = "browser"}

\* Every session of u but the one to keep.
Revoked(u, keep) == {s \in Session : session[s].state = "live" /\ session[s].user = u /\ s # keep}

\* changePassword: the hash and the revocation in one transaction.  Whoever asked
\* from the kept session has chosen the new password.
NewPassword(u, keep) ==
    /\ Exists(u)
    /\ session' = [s \in Session |->
         IF s \in Revoked(u, keep) THEN [NoSession EXCEPT !.state = "gone"]
         ELSE IF session[s].user = u
           THEN [session[s] EXCEPT !.proof = IF s = keep THEN "current" ELSE "old"]
         ELSE session[s]]
    /\ code' = [c \in Code |-> IF code[c].user = u THEN [code[c] EXCEPT !.proof = "old"] ELSE code[c]]

\* What logins and pairings in progress have shown is then out of date.
Outdated(u, r) ==
    [q \in Request |->
        IF q = r THEN Idle
        ELSE IF request[q].phase \in {"verified", "redeemed"} /\ request[q].user = u
          THEN [request[q] EXCEPT !.proof = "old"]
        ELSE request[q]]

\* The current password is verified against the hash the gate loaded.
ChangePassword(r) ==
    /\ request[r].phase = "in"
    /\ NewPassword(request[r].user, request[r].session)
    /\ request' = Outdated(request[r].user, r)
    /\ UNCHANGED <<account, storage, member>>

\* The row may be gone since the gate saw it.
SetStartPage(g, u, p) ==
    /\ IsStorageMember(g, u)
    /\ member' = [member EXCEPT ![g][u] = p]

PatchMembership(r, p) ==
    /\ request[r].phase = "member"
    /\ SetStartPage(request[r].storage, request[r].user, p)
    /\ Ends(r)
    /\ UNCHANGED <<account, session, code, storage>>

-----------------------------------------------------------------------------
(* What an administrator may do: the store's transactions, then the handlers.
   Every transaction inserts a row of admin_audit_log, whose actor_id has to name
   an account. *)

\* Seeded fault: the log row does not refer to an account.
BugUnaudited(r) == request[r].phase = "admin"

AsAdmin(r) == request[r].phase = "admin" /\ Exists(request[r].user)

\* Sessions, codes and memberships go by cascade.
DeleteUser(u) ==
    /\ Exists(u)
    /\ account' = [account EXCEPT ![u] = [NoAccount EXCEPT !.state = "gone"]]
    /\ session' = Without({s \in Session : session[s].user = u})
    /\ code' = [c \in Code |-> IF code[c].user = u THEN [NoCode EXCEPT !.state = "gone"] ELSE code[c]]
    /\ member' = [g \in Storage |-> [member[g] EXCEPT ![u] = None]]

CreateStorage(g) ==
    /\ storage[g] = "fresh"
    /\ storage' = [storage EXCEPT ![g] = "live"]

\* Memberships go by cascade.
DeleteStorage(g) ==
    /\ storage[g] = "live"
    /\ storage' = [storage EXCEPT ![g] = "gone"]
    /\ member' = [member EXCEPT ![g] = [u \in User |-> None]]

\* membershipNames: both exist, or nothing is written.
MembershipNames(g, u) == storage[g] = "live" /\ Exists(u)

\* A member added again keeps their row.
AddMember(g, u) ==
    /\ MembershipNames(g, u)
    /\ member' = [member EXCEPT ![g][u] = IF @ = None THEN DefaultStartPage ELSE @]

RemoveMember(g, u) ==
    /\ MembershipNames(g, u)
    /\ IsStorageMember(g, u)
    /\ member' = [member EXCEPT ![g][u] = None]

AdminCreateUser(r, u, admin, initial) ==
    /\ AsAdmin(r)
    /\ InsertUser(u, admin, initial)
    /\ Ends(r)
    /\ UNCHANGED <<session, code, storage, member>>

\* Not one's own account.
AdminDeleteUser(r, u) ==
    /\ AsAdmin(r) /\ request[r].user # u
    /\ DeleteUser(u)
    /\ Ends(r)
    /\ UNCHANGED storage

AdminResetPassword(r, u) ==
    /\ AsAdmin(r)
    /\ NewPassword(u, None)
    /\ request' = Outdated(u, r)
    /\ UNCHANGED <<account, storage, member>>

AdminCreateStorage(r, g) ==
    /\ AsAdmin(r)
    /\ CreateStorage(g)
    /\ Ends(r)
    /\ UNCHANGED <<account, session, code, member>>

AdminDeleteStorage(r, g) ==
    /\ AsAdmin(r)
    /\ DeleteStorage(g)
    /\ Ends(r)
    /\ UNCHANGED <<account, session, code>>

AdminAddMember(r, g, u) ==
    /\ AsAdmin(r)
    /\ AddMember(g, u)
    /\ Ends(r)
    /\ UNCHANGED <<account, session, code, storage>>

AdminRemoveMember(r, g, u) ==
    /\ AsAdmin(r)
    /\ RemoveMember(g, u)
    /\ Ends(r)
    /\ UNCHANGED <<account, session, code, storage>>

-----------------------------------------------------------------------------
(* Time *)

ExpireSession(s) ==
    /\ session[s].state = "live" /\ ~session[s].expired
    /\ session' = [session EXCEPT ![s].expired = TRUE]
    /\ UNCHANGED <<account, code, storage, member, request>>

SweepSessions ==
    /\ \E s \in Session : session[s].expired
    /\ session' = Without({s \in Session : session[s].expired})
    /\ UNCHANGED <<account, code, storage, member, request>>

\* PairingTTL passes; nobody sees the row after that but the sweep that removes it.
ExpireCode(c) ==
    /\ code[c].state = "open"
    /\ code' = WithoutCode(c)
    /\ UNCHANGED <<account, session, storage, member, request>>

AsUser(r) ==
    \/ Logout(r) \/ ChangePassword(r)
    \/ \E s \in Session : RevokeDevice(r, s)
    \/ \E c \in Code : StartPairing(r, c)
    \/ \E p \in Page : PatchMembership(r, p)

Administer(r) ==
    \/ \E u \in User :
         \/ \E admin, initial \in BOOLEAN : AdminCreateUser(r, u, admin, initial)
         \/ AdminDeleteUser(r, u) \/ AdminResetPassword(r, u)
    \/ \E g \in Storage :
         \/ AdminCreateStorage(r, g) \/ AdminDeleteStorage(r, g)
         \/ \E u \in User : AdminAddMember(r, g, u) \/ AdminRemoveMember(r, g, u)

Enter(r) ==
    \/ CountUsers(r)
    \/ \E u \in User : CreateInitialAdmin(r, u) \/ Authenticate(r, u)
    \/ \E c \in Code : RedeemPairingCode(r, c)
    \/ \E s \in Session : Login(r, s) \/ Pair(r, s) \/ ResolveSession(r, s)
    \/ RequireAdmin(r)
    \/ \E g \in Storage : RequireStorageMember(r, g)
    \/ Done(r)

AccessNext ==
    \/ \E r \in Request : Enter(r) \/ AsUser(r) \/ Administer(r)
    \/ \E s \in Session : ExpireSession(s)
    \/ SweepSessions
    \/ \E c \in Code : ExpireCode(c)

AccessSpec == AccessInit /\ [][AccessNext]_accessVars

-----------------------------------------------------------------------------
AccessTypeOK ==
    /\ account \in [User -> Account]
    /\ session \in [Session -> SessionRow]
    /\ code \in [Code -> CodeRow]
    /\ storage \in [Storage -> {"fresh", "live", "gone"}]
    /\ member \in [Storage -> [User -> Page \cup {None}]]
    /\ request \in [Request ->
         [phase : {"idle", "counted", "verified", "redeemed", "in", "admin", "member"},
          user : User \cup {None}, session : Session \cup {None}, kind : {"browser", "device"},
          storage : Storage \cup {None}, proof : Proof]]

(* Once there are accounts there is an administrator among them, although two
   administrators may be deleting each other: their gates were passed before, and
   only the foreign key of the audit row the second one writes refuses it
   (DeleteUser, writeAdminAudit). *)
AdminRemains ==
    (\E u \in User : account[u].state # "fresh") => \E u \in User : Exists(u) /\ account[u].admin

(* No session outlives a change of password, however changes, resets, logins and
   pairings interleave ("every other session of this user", docs/specs/14): a
   session that has not proved the current password was admitted after the
   change, by a login or a code that had been accepted before it. *)
SessionsAreCurrent ==
    \A s \in Session : session[s].state = "live" =>
        /\ Exists(session[s].user)
        /\ session[s].proof # "old"

=============================================================================
