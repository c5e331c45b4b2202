----------------------------- MODULE GateProofs -----------------------------
(* Proofs about Access.tla, KeyedWrites.tla and CredentialLimiter.tla, and about
   MCGate.tla, which composes them.

   AdminRemains is not inductive: the deletion that would leave no administrator is
   refused because the request's own account has to exist, which says nothing
   unless that account is an administrator's.  AdminRequests adds it.  It holds
   however long ago the gate was passed because no operation changes the flag of an
   account and no id is used twice.

   OneEffect needs to know why a second call cannot be in the handler: the lock of
   its own process (Locks), and for another process that a miss beside it is
   excused (OneRuns).  GuessesBounded needs the attempts that have passed the
   lookup and not failed yet (PendingBounded). *)
EXTENDS MCGate, FiniteSetTheorems, TLAPS

-----------------------------------------------------------------------------
(* Accounts, sessions and administration *)

RequestRow ==
    [phase : {"idle", "counted", "verified", "redeemed", "in", "admin", "member"},
     user : User \cup {None}, session : Session \cup {None}, kind : {"browser", "device"},
     storage : Storage \cup {None}, proof : Proof]

(* A request past the administrators' gate was sent by an account that is an
   administrator's, or gone (RequireAdmin, then any interleaving). *)
AdminRequests ==
    \A r \in Request : request[r].phase = "admin" =>
        /\ request[r].user \in User
        /\ account[request[r].user].state # "fresh"
        /\ Exists(request[r].user) => account[request[r].user].admin

AccessIInv == AccessTypeOK /\ AdminRequests /\ AdminRemains /\ SessionsAreCurrent

-----------------------------------------------------------------------------
(* Types *)

(* The rows an operation writes are rows. *)
LEMMA RowTypes ==
    /\ NoAccount \in Account /\ [NoAccount EXCEPT !.state = "gone"] \in Account
    /\ NoSession \in SessionRow /\ [NoSession EXCEPT !.state = "gone"] \in SessionRow
    /\ NoCode \in CodeRow /\ [NoCode EXCEPT !.state = "gone"] \in CodeRow
    /\ Idle \in RequestRow
  BY DEF NoAccount, Account, NoSession, SessionRow, NoCode, CodeRow, Idle, RequestRow, Proof

(* Removing rows of sessions and codes leaves tables of rows (Without, WithoutCode). *)
LEMMA WithoutTypes ==
    ASSUME AccessTypeOK
    PROVE  /\ \A S : Without(S) \in [Session -> SessionRow]
           /\ \A c : WithoutCode(c) \in [Code -> CodeRow]
  BY RowTypes DEF AccessTypeOK, Without, WithoutCode

(* A request that ends or passes a gate is still a request (Ends, Becomes). *)
LEMMA RequestTypes ==
    ASSUME AccessTypeOK, NEW r \in Request
    PROVE  /\ Ends(r) => request' \in [Request -> RequestRow]
           /\ \A p \in {"counted", "admin"} : Becomes(r, p) => request' \in [Request -> RequestRow]
  <1>1. request \in [Request -> RequestRow]
    BY DEF AccessTypeOK, RequestRow
  <1>2. ASSUME NEW p \in {"counted", "admin"}
        PROVE  [request[r] EXCEPT !.phase = p] \in RequestRow
    BY <1>1, <1>2 DEF RequestRow
  <1> QED
    BY <1>1, <1>2, RowTypes DEF Ends, Becomes

(* Every step of a request on its way in keeps the types (Enter). *)
LEMMA EnterTypes ==
    ASSUME AccessTypeOK, NEW r \in Request, Enter(r)
    PROVE  AccessTypeOK'
  <1> USE DEF RequestRow
  <1>1. CASE CountUsers(r)
    BY <1>1, RequestTypes DEF CountUsers, AccessTypeOK
  <1>2. ASSUME NEW u \in User, CreateInitialAdmin(r, u)
        PROVE  AccessTypeOK'
    BY <1>2, RequestTypes DEF CreateInitialAdmin, InsertUser, AccessTypeOK, Account
  <1>3. ASSUME NEW u \in User, Authenticate(r, u)
        PROVE  AccessTypeOK'
    BY <1>3, RowTypes DEF Authenticate, AccessTypeOK, Exists
  <1>4. ASSUME NEW c \in Code, RedeemPairingCode(r, c)
        PROVE  AccessTypeOK'
    <2>1. code[c].user \in User \cup {None} /\ code[c].proof \in Proof
      BY DEF AccessTypeOK, CodeRow
    <2> QED
      BY <1>4, <2>1, RowTypes, WithoutTypes DEF RedeemPairingCode, AccessTypeOK
  <1>5. ASSUME NEW s \in Session, Login(r, s)
        PROVE  AccessTypeOK'
    BY <1>5, RequestTypes DEF Login, CreateSession, Exists, AccessTypeOK, SessionRow, Proof
  <1>6. ASSUME NEW s \in Session, Pair(r, s)
        PROVE  AccessTypeOK'
    BY <1>6, RequestTypes DEF Pair, CreateSession, Exists, AccessTypeOK, SessionRow, Proof
  <1>7. ASSUME NEW s \in Session, ResolveSession(r, s)
        PROVE  AccessTypeOK'
    <2>1. session[s].kind \in {"browser", "device"} /\ session[s].user \in User \cup {None}
      BY DEF AccessTypeOK, SessionRow
    <2>2. [Idle EXCEPT !.phase = "in", !.user = session[s].user, !.session = s,
                       !.kind = session[s].kind] \in RequestRow
      BY <2>1, RowTypes
    <2>3. session' \in [Session -> SessionRow]
      BY <1>7, WithoutTypes DEF ResolveSession, LookupExpired, AccessTypeOK
    <2>4. request' \in [Request -> RequestRow]
      BY ZenonT(60), <1>7, <2>2 DEF ResolveSession, AccessTypeOK
    <2> QED
      BY <1>7, <2>3, <2>4 DEF ResolveSession, AccessTypeOK
  <1>8. CASE RequireAdmin(r)
    BY <1>8, RequestTypes DEF RequireAdmin, AccessTypeOK
  <1>9. ASSUME NEW g \in Storage, RequireStorageMember(r, g)
        PROVE  AccessTypeOK'
    <2>1. [request[r] EXCEPT !.phase = "member", !.storage = g] \in RequestRow
      BY DEF AccessTypeOK
    <2>2. request' = [request EXCEPT ![r] = [request[r] EXCEPT !.phase = "member", !.storage = g]]
      BY <1>9 DEF RequireStorageMember, AccessTypeOK
    <2> QED
      BY <1>9, <2>1, <2>2 DEF RequireStorageMember, AccessTypeOK
  <1>10. CASE Done(r)
    BY <1>10, RequestTypes DEF Done, AccessTypeOK
  <1> QED
    BY <1>1, <1>2, <1>3, <1>4, <1>5, <1>6, <1>7, <1>8, <1>9, <1>10 DEF Enter

(* A change of password leaves tables of rows (NewPassword, Outdated). *)
LEMMA NewPasswordTypes ==
    ASSUME AccessTypeOK, NEW u \in User, NEW keep
    PROVE  /\ NewPassword(u, keep) =>
                session' \in [Session -> SessionRow] /\ code' \in [Code -> CodeRow]
           /\ \A r \in Request : Outdated(u, r) \in [Request -> RequestRow]
  <1>1. \A s \in Session : \A p \in Proof : [session[s] EXCEPT !.proof = p] \in SessionRow
    BY ZenonT(60) DEF AccessTypeOK, SessionRow
  <1>2. ASSUME NEW c \in Code, NEW p \in Proof
        PROVE  [code[c] EXCEPT !.proof = p] \in CodeRow
    <2>1. code[c] \in CodeRow
      BY DEF AccessTypeOK
    <2> QED
      BY <2>1 DEF CodeRow
  <1>3. \A q \in Request : \A p \in Proof : [request[q] EXCEPT !.proof = p] \in RequestRow
    BY DEF AccessTypeOK, RequestRow
  <1>4. "old" \in Proof /\ "current" \in Proof
    BY DEF Proof
  <1>5. NewPassword(u, keep) => session' \in [Session -> SessionRow]
    BY <1>1, <1>4, RowTypes DEF NewPassword, AccessTypeOK
  <1>6. NewPassword(u, keep) => code' \in [Code -> CodeRow]
    BY <1>2, <1>4, RowTypes DEF NewPassword, AccessTypeOK
  <1>7. \A r \in Request : Outdated(u, r) \in [Request -> RequestRow]
    BY <1>3, <1>4, RowTypes DEF Outdated, AccessTypeOK, RequestRow
  <1> QED
    BY <1>5, <1>6, <1>7

(* What a session does with its own account keeps the types (AsUser). *)
LEMMA AsUserTypes ==
    ASSUME AccessTypeOK, NEW r \in Request, AsUser(r)
    PROVE  AccessTypeOK'
  <1> USE DEF RequestRow
  <1>1. CASE Logout(r)
    BY <1>1, RequestTypes, WithoutTypes DEF Logout, DeleteSession, AccessTypeOK
  <1>2. CASE ChangePassword(r)
    <2>1. request[r].user \in User
      BY <1>2 DEF ChangePassword, NewPassword, Exists
    <2> QED
      BY <1>2, <2>1, NewPasswordTypes DEF ChangePassword, AccessTypeOK
  <1>3. ASSUME NEW s \in Session, RevokeDevice(r, s)
        PROVE  AccessTypeOK'
    BY <1>3, RequestTypes, WithoutTypes DEF RevokeDevice, DeleteSession, AccessTypeOK
  <1>4. ASSUME NEW c \in Code, StartPairing(r, c)
        PROVE  AccessTypeOK'
    BY <1>4, RequestTypes DEF StartPairing, CreatePairingCode, Exists, AccessTypeOK, CodeRow, Proof
  <1>5. ASSUME NEW p \in Page, PatchMembership(r, p)
        PROVE  AccessTypeOK'
    BY <1>5, RequestTypes DEF PatchMembership, SetStartPage, AccessTypeOK
  <1> QED
    BY <1>1, <1>2, <1>3, <1>4, <1>5 DEF AsUser

(* What an administrator does keeps the types (Administer). *)
LEMMA AdministerTypes ==
    ASSUME AccessTypeOK, NEW r \in Request, Administer(r)
    PROVE  AccessTypeOK'
  <1> USE DEF RequestRow
  <1>1. ASSUME NEW u \in User, NEW admin \in BOOLEAN, NEW initial \in BOOLEAN,
               AdminCreateUser(r, u, admin, initial)
        PROVE  AccessTypeOK'
    BY <1>1, RequestTypes DEF AdminCreateUser, InsertUser, AccessTypeOK, Account
  <1>2. ASSUME NEW u \in User, AdminDeleteUser(r, u)
        PROVE  AccessTypeOK'
    BY <1>2, RequestTypes, RowTypes, WithoutTypes DEF AdminDeleteUser, DeleteUser, AccessTypeOK
  <1>3. ASSUME NEW u \in User, AdminResetPassword(r, u)
        PROVE  AccessTypeOK'
    BY <1>3, NewPasswordTypes DEF AdminResetPassword, AccessTypeOK
  <1>4. ASSUME NEW g \in Storage, AdminCreateStorage(r, g)
        PROVE  AccessTypeOK'
    BY <1>4, RequestTypes DEF AdminCreateStorage, CreateStorage, AccessTypeOK
  <1>5. ASSUME NEW g \in Storage, AdminDeleteStorage(r, g)
        PROVE  AccessTypeOK'
    BY <1>5, RequestTypes DEF AdminDeleteStorage, DeleteStorage, AccessTypeOK
  <1>6. ASSUME NEW g \in Storage, NEW u \in User, AdminAddMember(r, g, u)
        PROVE  AccessTypeOK'
    BY <1>6, RequestTypes, AccessAssumption DEF AdminAddMember, AddMember, AccessTypeOK
  <1>7. ASSUME NEW g \in Storage, NEW u \in User, AdminRemoveMember(r, g, u)
        PROVE  AccessTypeOK'
    BY <1>7, RequestTypes DEF AdminRemoveMember, RemoveMember, AccessTypeOK
  <1> QED
    BY <1>1, <1>2, <1>3, <1>4, <1>5, <1>6, <1>7 DEF Administer

(* Every step of the tables keeps their types. *)
LEMMA AccessTypesStep ==
    ASSUME AccessTypeOK, AccessNext
    PROVE  AccessTypeOK'
  <1>1. ASSUME NEW s \in Session, ExpireSession(s)
        PROVE  AccessTypeOK'
    <2>1. [session[s] EXCEPT !.expired = TRUE] \in SessionRow
      BY ZenonT(60) DEF AccessTypeOK, SessionRow
    <2> QED
      BY <1>1, <2>1 DEF ExpireSession, AccessTypeOK
  <1>2. CASE SweepSessions
    BY <1>2, WithoutTypes DEF SweepSessions, AccessTypeOK
  <1>3. ASSUME NEW c \in Code, ExpireCode(c)
        PROVE  AccessTypeOK'
    BY <1>3, WithoutTypes DEF ExpireCode, AccessTypeOK
  <1> QED
    BY <1>1, <1>2, <1>3, EnterTypes, AsUserTypes, AdministerTypes DEF AccessNext

-----------------------------------------------------------------------------
(* Administrators *)

(* A step that leaves the accounts alone keeps AdminRequests if it lets no request
   but an administrator's through the administrators' gate. *)
LEMMA AdminRequestsKept ==
    ASSUME AdminRequests, UNCHANGED account,
           \A r \in Request : request'[r].phase = "admin" =>
               \/ request[r].phase = "admin" /\ request'[r].user = request[r].user
               \/ IsAdmin(request'[r].user)
    PROVE  AdminRequests'
  BY DEF AdminRequests, IsAdmin, Exists

(* A new account changes nothing for the requests past the gate: their accounts had
   been created before, and ids are not used twice (insertUser). *)
LEMMA InsertUserKeeps ==
    ASSUME AccessTypeOK, AdminRequests, NEW r \in Request, NEW u \in User,
           NEW admin \in BOOLEAN, NEW initial \in BOOLEAN,
           InsertUser(u, admin, initial), Ends(r)
    PROVE  AdminRequests'
  <1>1. ASSUME NEW q \in Request, request'[q].phase = "admin"
        PROVE  /\ request[q].phase = "admin" /\ request'[q].user = request[q].user
               /\ request[q].user # u
    BY <1>1 DEF Ends, Idle, AccessTypeOK, AdminRequests, InsertUser
  <1>2. \A v \in User : v # u => account'[v] = account[v]
    BY DEF InsertUser, AccessTypeOK
  <1> QED
    BY <1>1, <1>2 DEF AdminRequests, Exists

(* What a login, a pairing or a gate does keeps AdminRequests (Enter). *)
LEMMA EnterAdmins ==
    ASSUME AccessTypeOK, AdminRequests, NEW r \in Request, Enter(r)
    PROVE  AdminRequests'
  <1>1. CASE CountUsers(r)
    BY <1>1, AdminRequestsKept DEF CountUsers, Becomes, AccessTypeOK
  <1>2. ASSUME NEW u \in User, CreateInitialAdmin(r, u)
        PROVE  AdminRequests'
    BY <1>2, InsertUserKeeps DEF CreateInitialAdmin
  <1>3. ASSUME NEW u \in User, Authenticate(r, u)
        PROVE  AdminRequests'
    BY <1>3, AdminRequestsKept DEF Authenticate, AccessTypeOK, Idle
  <1>4. ASSUME NEW c \in Code, RedeemPairingCode(r, c)
        PROVE  AdminRequests'
    BY <1>4, AdminRequestsKept DEF RedeemPairingCode, AccessTypeOK, Idle
  <1>5. ASSUME NEW s \in Session, Login(r, s) \/ Pair(r, s)
        PROVE  AdminRequests'
    BY <1>5, AdminRequestsKept DEF Login, Pair, Ends, AccessTypeOK, Idle
  <1>6. ASSUME NEW s \in Session, ResolveSession(r, s)
        PROVE  AdminRequests'
    <2>1. CASE UNCHANGED request
      BY <1>6, <2>1, AdminRequestsKept DEF ResolveSession
    <2>2. CASE request' = [request EXCEPT ![r] =
                 [Idle EXCEPT !.phase = "in", !.user = session[s].user, !.session = s,
                              !.kind = session[s].kind]]
      <3>1. \A q \in Request : request'[q].phase = "admin" => request'[q] = request[q]
        BY <2>2 DEF AccessTypeOK, Idle
      <3> QED
        BY <1>6, <3>1, AdminRequestsKept DEF ResolveSession
    <2> QED
      BY <1>6, <2>1, <2>2 DEF ResolveSession
  <1>7. CASE RequireAdmin(r)
    BY <1>7, AdminRequestsKept DEF RequireAdmin, Becomes, AccessTypeOK
  <1>8. ASSUME NEW g \in Storage, RequireStorageMember(r, g)
        PROVE  AdminRequests'
    BY <1>8, AdminRequestsKept DEF RequireStorageMember, AccessTypeOK
  <1>9. CASE Done(r)
    BY <1>9, AdminRequestsKept DEF Done, Ends, AccessTypeOK, Idle
  <1> QED
    BY <1>1, <1>2, <1>3, <1>4, <1>5, <1>6, <1>7, <1>8, <1>9 DEF Enter

(* A change of password moves no request past a gate (Outdated). *)
LEMMA OutdatedKeeps ==
    ASSUME AccessTypeOK, AdminRequests, UNCHANGED account,
           NEW r \in Request, NEW u \in User, request' = Outdated(u, r)
    PROVE  AdminRequests'
  BY AdminRequestsKept DEF Outdated, Idle, AccessTypeOK

(* So does what a session does with its own account (AsUser). *)
LEMMA AsUserAdmins ==
    ASSUME AccessTypeOK, AdminRequests, NEW r \in Request, AsUser(r)
    PROVE  AdminRequests'
  <1>1. CASE ChangePassword(r)
    BY <1>1, OutdatedKeeps DEF ChangePassword, NewPassword, Exists
  <1>2. CASE UNCHANGED account /\ Ends(r)
    BY <1>2, AdminRequestsKept DEF Ends, AccessTypeOK, Idle
  <1> QED
    BY <1>1, <1>2 DEF AsUser, Logout, RevokeDevice, StartPairing, PatchMembership

(* And what administrators do, to one another too (Administer). *)
LEMMA AdministerAdmins ==
    ASSUME AccessTypeOK, AdminRequests, NEW r \in Request, Administer(r)
    PROVE  AdminRequests'
  <1>1. ASSUME NEW u \in User, NEW admin \in BOOLEAN, NEW initial \in BOOLEAN,
               AdminCreateUser(r, u, admin, initial)
        PROVE  AdminRequests'
    BY <1>1, InsertUserKeeps DEF AdminCreateUser
  <1>2. ASSUME NEW u \in User, AdminDeleteUser(r, u)
        PROVE  AdminRequests'
    <2>1. /\ account'[u].state = "gone"
          /\ \A v \in User : v # u => account'[v] = account[v]
      BY <1>2 DEF AdminDeleteUser, DeleteUser, NoAccount, AccessTypeOK
    <2>2. \A q \in Request : request'[q].phase = "admin" => request'[q] = request[q]
      BY <1>2 DEF AdminDeleteUser, Ends, Idle, AccessTypeOK
    <2> QED
      BY <2>1, <2>2 DEF AdminRequests, Exists
  <1>3. ASSUME NEW u \in User, AdminResetPassword(r, u)
        PROVE  AdminRequests'
    BY <1>3, OutdatedKeeps DEF AdminResetPassword
  <1>4. CASE UNCHANGED account /\ Ends(r)
    BY <1>4, AdminRequestsKept DEF Ends, AccessTypeOK, Idle
  <1> QED
    BY <1>1, <1>2, <1>3, <1>4 DEF Administer, AdminCreateStorage, AdminDeleteStorage,
       AdminAddMember, AdminRemoveMember

(* AdminRequests holds after every step. *)
LEMMA AdminRequestsStep ==
    ASSUME AccessTypeOK, AdminRequests, AccessNext
    PROVE  AdminRequests'
  <1>1. CASE UNCHANGED <<account, request>>
    BY <1>1 DEF AdminRequests, Exists
  <1> QED
    BY <1>1, EnterAdmins, AsUserAdmins, AdministerAdmins
    DEF AccessNext, ExpireSession, SweepSessions, ExpireCode

(* Whoever inserts or deletes an account leaves an administrator: the account it
   acts for, or the first one (CreateInitialAdmin, AdminCreateUser,
   AdminDeleteUser). *)
LEMMA AdminRemainsStep ==
    ASSUME AccessTypeOK, AdminRequests, AdminRemains, AccessNext
    PROVE  AdminRemains'
  <1>1. CASE UNCHANGED account
    BY <1>1 DEF AdminRemains, Exists
  <1>2. ASSUME NEW r \in Request, NEW u \in User, CreateInitialAdmin(r, u)
        PROVE  AdminRemains'
    BY <1>2 DEF CreateInitialAdmin, InsertUser, AdminRemains, Exists, AccessTypeOK
  <1>3. ASSUME NEW r \in Request, NEW u \in User, AsAdmin(r),
               \A v \in User : v # u => account'[v] = account[v],
               request[r].user # u
        PROVE  AdminRemains'
    <2>1. request[r].user \in User /\ account[request[r].user].admin
      BY <1>3 DEF AsAdmin, AdminRequests
    <2>2. account'[request[r].user] = account[request[r].user]
      BY <1>3, <2>1
    <2> QED
      BY <1>3, <2>1, <2>2 DEF AsAdmin, AdminRemains, Exists
  <1>4. ASSUME NEW r \in Request, NEW u \in User, NEW admin \in BOOLEAN, NEW initial \in BOOLEAN,
               AdminCreateUser(r, u, admin, initial)
        PROVE  AdminRemains'
    <2>1. request[r].user # u
      BY <1>4 DEF AdminCreateUser, AsAdmin, Exists, InsertUser
    <2>2. \A v \in User : v # u => account'[v] = account[v]
      BY <1>4 DEF AdminCreateUser, InsertUser, AccessTypeOK
    <2> QED
      BY <1>3, <1>4, <2>1, <2>2 DEF AdminCreateUser
  <1>5. ASSUME NEW r \in Request, NEW u \in User, AdminDeleteUser(r, u)
        PROVE  AdminRemains'
    <2>1. \A v \in User : v # u => account'[v] = account[v]
      BY <1>5 DEF AdminDeleteUser, DeleteUser, AccessTypeOK
    <2> QED
      BY <1>3, <1>5, <2>1 DEF AdminDeleteUser
  <1>6. ASSUME NEW r \in Request, Enter(r)
        PROVE  AdminRemains'
    BY <1>1, <1>2, <1>6 DEF Enter, CountUsers, Authenticate, RedeemPairingCode, Login, Pair,
       ResolveSession, RequireAdmin, RequireStorageMember, Done
  <1>7. ASSUME NEW r \in Request, AsUser(r)
        PROVE  AdminRemains'
    BY <1>1, <1>7 DEF AsUser, Logout, ChangePassword, RevokeDevice, StartPairing, PatchMembership
  <1>8. ASSUME NEW r \in Request, Administer(r)
        PROVE  AdminRemains'
    BY <1>1, <1>4, <1>5, <1>8 DEF Administer, AdminResetPassword, AdminCreateStorage,
       AdminDeleteStorage, AdminAddMember, AdminRemoveMember
  <1> QED
    BY <1>1, <1>6, <1>7, <1>8 DEF AccessNext, ExpireSession, SweepSessions, ExpireCode

-----------------------------------------------------------------------------
(* Sessions *)

(* Removing sessions and expiring them makes none of the others worse. *)
LEMMA FewerSessions ==
    ASSUME SessionsAreCurrent, UNCHANGED account,
           \A s \in Session : session'[s].state = "live" =>
               /\ session[s].state = "live"
               /\ session'[s].user = session[s].user /\ session'[s].proof = session[s].proof
    PROVE  SessionsAreCurrent'
  BY DEF SessionsAreCurrent, Exists

(* Without removes, and nothing else. *)
LEMMA WithoutRemoves ==
    ASSUME SessionsAreCurrent, UNCHANGED account, NEW S, session' = Without(S)
    PROVE  SessionsAreCurrent'
  <1>1. \A s \in Session : session'[s].state = "live" => session'[s] = session[s]
    BY DEF Without, NoSession
  <1> QED
    BY <1>1, FewerSessions

(* A new session stands on the present password or is marked as late, and its
   account exists (CreateSession). *)
LEMMA CreateSessionKeeps ==
    ASSUME AccessTypeOK, SessionsAreCurrent, UNCHANGED account,
           NEW s \in Session, NEW u, NEW kind, NEW proof, CreateSession(s, u, kind, proof)
    PROVE  SessionsAreCurrent'
  <1>1. \A t \in Session : t # s => session'[t] = session[t]
    BY DEF CreateSession, AccessTypeOK
  <1>2. session'[s].user = u /\ session'[s].proof # "old" /\ Exists(u)
    BY DEF CreateSession, AccessTypeOK
  <1> QED
    BY <1>1, <1>2 DEF SessionsAreCurrent, Exists

(* A change of password leaves the account one live session at most, the one it was
   asked from (NewPassword). *)
LEMMA NewPasswordKeeps ==
    ASSUME SessionsAreCurrent, UNCHANGED account, NEW u, NEW keep, NewPassword(u, keep)
    PROVE  SessionsAreCurrent'
  <1>1. ASSUME NEW s \in Session, session'[s].state = "live"
        PROVE  Exists(session'[s].user) /\ session'[s].proof # "old"
    <2>1. s \notin Revoked(u, keep)
      BY <1>1 DEF NewPassword, NoSession
    <2>2. CASE session[s].user = u
      <3>1. session'[s] = [session[s] EXCEPT !.proof = IF s = keep THEN "current" ELSE "old"]
        BY <2>1, <2>2 DEF NewPassword
      <3>2. session'[s].state = session[s].state /\ session'[s].user = session[s].user
        BY <3>1
      <3>3. s = keep
        BY <1>1, <2>1, <2>2, <3>2 DEF Revoked
      <3> QED
        BY <1>1, <3>1, <3>2, <3>3 DEF SessionsAreCurrent
    <2>3. CASE session[s].user # u
      <3>1. session'[s] = session[s]
        BY <2>1, <2>3 DEF NewPassword
      <3> QED
        BY <1>1, <3>1 DEF SessionsAreCurrent
    <2> QED
      BY <2>2, <2>3
  <1> QED
    BY <1>1 DEF SessionsAreCurrent, Exists

(* SessionsAreCurrent holds after every step. *)
LEMMA SessionsStep ==
    ASSUME AccessTypeOK, SessionsAreCurrent, AccessNext
    PROVE  SessionsAreCurrent'
  <1>1. CASE UNCHANGED <<account, session>>
    BY <1>1 DEF SessionsAreCurrent, Exists
  <1>2. ASSUME NEW u \in User, NEW admin, NEW initial, InsertUser(u, admin, initial), UNCHANGED session
        PROVE  SessionsAreCurrent'
    BY <1>2 DEF InsertUser, SessionsAreCurrent, Exists, AccessTypeOK
  <1>3. ASSUME NEW r \in Request, Enter(r)
        PROVE  SessionsAreCurrent'
    <2>1. ASSUME NEW s \in Session, Login(r, s) \/ Pair(r, s)
          PROVE  SessionsAreCurrent'
      BY <2>1, CreateSessionKeeps DEF Login, Pair
    <2>2. ASSUME NEW s \in Session, ResolveSession(r, s)
          PROVE  SessionsAreCurrent'
      BY <1>1, <2>2, WithoutRemoves DEF ResolveSession, LookupExpired
    <2> QED
      BY <1>1, <1>2, <1>3, <2>1, <2>2 DEF Enter, CountUsers, CreateInitialAdmin, Authenticate,
         RedeemPairingCode, RequireAdmin, RequireStorageMember, Done
  <1>4. ASSUME NEW r \in Request, AsUser(r)
        PROVE  SessionsAreCurrent'
    <2>1. CASE ChangePassword(r)
      BY <2>1, NewPasswordKeeps DEF ChangePassword
    <2>2. CASE Logout(r) \/ \E s \in Session : RevokeDevice(r, s)
      BY <2>2, WithoutRemoves DEF Logout, RevokeDevice, DeleteSession
    <2> QED
      BY <1>1, <1>4, <2>1, <2>2 DEF AsUser, StartPairing, PatchMembership
  <1>5. ASSUME NEW r \in Request, Administer(r)
        PROVE  SessionsAreCurrent'
    <2>1. ASSUME NEW u \in User, AdminDeleteUser(r, u)
          PROVE  SessionsAreCurrent'
      <3>1. \A s \in Session : session'[s].state = "live" =>
               session[s].user # u /\ session'[s] = session[s]
        BY <2>1 DEF AdminDeleteUser, DeleteUser, Without, NoSession
      <3>2. \A v \in User : v # u => account'[v] = account[v]
        BY <2>1 DEF AdminDeleteUser, DeleteUser, AccessTypeOK
      <3> QED
        BY <3>1, <3>2 DEF SessionsAreCurrent, Exists
    <2>2. ASSUME NEW u \in User, AdminResetPassword(r, u)
          PROVE  SessionsAreCurrent'
      BY <2>2, NewPasswordKeeps DEF AdminResetPassword
    <2> QED
      BY <1>1, <1>2, <1>5, <2>1, <2>2 DEF Administer, AdminCreateUser, AdminCreateStorage,
         AdminDeleteStorage, AdminAddMember, AdminRemoveMember
  <1>6. ASSUME NEW s \in Session, ExpireSession(s)
        PROVE  SessionsAreCurrent'
    <2>1. \A t \in Session : /\ session'[t].state = session[t].state
                             /\ session'[t].user = session[t].user
                             /\ session'[t].proof = session[t].proof
      BY <1>6 DEF ExpireSession, AccessTypeOK, SessionRow
    <2> QED
      BY <1>6, <2>1, FewerSessions DEF ExpireSession
  <1>7. CASE SweepSessions
    BY <1>7, WithoutRemoves DEF SweepSessions
  <1> QED
    BY <1>1, <1>3, <1>4, <1>5, <1>6, <1>7 DEF AccessNext, ExpireCode

-----------------------------------------------------------------------------
(* The theorems *)

(* Before the first process starts there is no account and no session. *)
LEMMA InitAccessIInv == AccessInit => AccessIInv
  <1> SUFFICES ASSUME AccessInit
               PROVE  AccessIInv
    OBVIOUS
  <1>1. AccessTypeOK
    BY RowTypes DEF AccessInit, AccessTypeOK, RequestRow
  <1>2. AdminRequests
    BY DEF AccessInit, AdminRequests, Idle
  <1>3. AdminRemains
    BY DEF AccessInit, AdminRemains, NoAccount
  <1>4. SessionsAreCurrent
    BY DEF AccessInit, SessionsAreCurrent, NoSession
  <1> QED
    BY <1>1, <1>2, <1>3, <1>4 DEF AccessIInv

(* The four parts together are inductive. *)
LEMMA AccessIInvStep == AccessIInv /\ [AccessNext]_accessVars => AccessIInv'
  <1>1. ASSUME AccessIInv, AccessNext
        PROVE  AccessIInv'
    BY <1>1, AccessTypesStep, AdminRequestsStep, AdminRemainsStep, SessionsStep DEF AccessIInv
  <1>2. ASSUME AccessIInv, UNCHANGED accessVars
        PROVE  AccessIInv'
    BY <1>2 DEF AccessIInv, accessVars, AccessTypeOK, AdminRequests, AdminRemains,
       SessionsAreCurrent, Exists
  <1> QED
    BY <1>1, <1>2

(* The inductive invariant holds of every behaviour of the accounts. *)
THEOREM AccessInvariant == AccessSpec => []AccessIInv
  BY InitAccessIInv, AccessIInvStep, PTL DEF AccessSpec

(* Every table keeps its type, for any numbers of users, sessions, codes, storages
   and requests under way (users.go, sessions.go, pairing.go, storages.go). *)
THEOREM AccessTypeCorrect == AccessSpec => []AccessTypeOK
  <1>1. AccessIInv => AccessTypeOK
    BY DEF AccessIInv
  <1> QED
    BY <1>1, AccessInvariant, PTL

(* However many administrators delete one another at once, one of them stays
   (DeleteUser, writeAdminAudit). *)
THEOREM AnAdminRemains == AccessSpec => []AdminRemains
  <1>1. AccessIInv => AdminRemains
    BY DEF AccessIInv
  <1> QED
    BY <1>1, AccessInvariant, PTL

(* No session that was there before a change of password is there after it, and no
   session is there without its account (ChangePassword, ResetPassword,
   DeleteUser). *)
THEOREM NoSessionOutlivesPassword == AccessSpec => []SessionsAreCurrent
  <1>1. AccessIInv => SessionsAreCurrent
    BY DEF AccessIInv
  <1> QED
    BY <1>1, AccessInvariant, PTL

-----------------------------------------------------------------------------
(* Keyed writes *)

\* The phases between the lock and the deferred unlock, and those in the handler.
Holding == {"locked", "running", "ran"}

InHandler(c) == call[c].phase \in {"running", "ran"}

\* What a call carries from its first step to its last.
CallRows ==
    \A c \in Call :
        /\ call[c].phase # "idle" => call[c].at \in Process /\ call[c].hash \in Hash
        /\ call[c].phase = "ran" => call[c].status # "none"

(* keyLocks: a call between its lock and its unlock holds its process's lock. *)
Locks == \A c \in Call : call[c].phase \in Holding => holder[call[c].at] = c

(* Without an excuse one call is in the handler, nothing has been written when it
   starts, and what was written is on record or about to be. *)
OneRuns ==
    ~excused =>
        /\ \A c, d \in Call : InHandler(c) /\ InHandler(d) => c = d
        /\ \A c \in Call : call[c].phase = "running" => effects = 0
        /\ effects # 0 =>
             record # Nil \/ \E c \in Call : call[c].phase = "ran" /\ call[c].status = "done"
        /\ effects <= 1

KeyedIInv == KeyedTypeOK /\ CallRows /\ Locks /\ OneRuns /\ AnswersMatch

Row == [phase : {"idle", "waiting", "locked", "running", "ran"}, at : Process \cup {Nil},
        hash : Hash \cup {Nil}, status : {"none", "done", "refused", "failed"}]

(* What a step that moves one call along leaves of the other calls. *)
LEMMA CallMoves ==
    ASSUME KeyedTypeOK, NEW c \in Call, NEW phase, call' = [call EXCEPT ![c].phase = phase]
    PROVE  /\ \A d \in Call : d # c => call'[d] = call[d]
           /\ call'[c] = [call[c] EXCEPT !.phase = phase]
           /\ call'[c].phase = phase /\ call'[c].at = call[c].at
           /\ call'[c].hash = call[c].hash /\ call'[c].status = call[c].status
  BY DEF KeyedTypeOK

(* The deferred unlock frees what the call held and nobody else's lock (Returns). *)
LEMMA ReturnsFrees ==
    ASSUME KeyedTypeOK, CallRows, Locks, NEW c \in Call, Returns(c)
    PROVE  /\ \A d \in Call : d # c => call'[d] = call[d]
           /\ call'[c] = NoCall
           /\ call' \in [Call -> Row]
           /\ holder' \in [Process -> Call \cup {Nil}]
           /\ CallRows' /\ Locks'
  <1>1. \A d \in Call : d # c => call'[d] = call[d]
    BY DEF Returns, KeyedTypeOK
  <1>2. call'[c] = NoCall
    BY DEF Returns, KeyedTypeOK
  <1>3. call' \in [Call -> Row]
    BY DEF Returns, KeyedTypeOK, NoCall, Row
  <1>4. holder' \in [Process -> Call \cup {Nil}]
    BY DEF Returns, Unlocked, KeyedTypeOK
  <1>5. CallRows'
    BY <1>1, <1>2 DEF CallRows, NoCall
  <1>6. Locks'
    <2> SUFFICES ASSUME NEW d \in Call, call'[d].phase \in Holding
                 PROVE  holder'[call'[d].at] = d
      BY DEF Locks
    <2>1. d # c
      BY <1>2 DEF NoCall, Holding
    <2>2. holder[call[d].at] = d /\ call[d].at \in Process
      BY <1>1, <2>1 DEF Locks, CallRows, Holding
    <2> QED
      BY <1>1, <2>1, <2>2 DEF Returns, Unlocked
  <1> QED
    BY <1>1, <1>2, <1>3, <1>4, <1>5, <1>6

(* A call that ends without a word on record: what OneRuns says of the others stays
   true, unless its own write was what it rested on. *)
LEMMA ReturnsKeepsOneRuns ==
    ASSUME KeyedTypeOK, CallRows, Locks, OneRuns, NEW c \in Call, Returns(c),
           UNCHANGED <<record, effects, excused>>,
           ~(call[c].phase = "ran" /\ call[c].status = "done")
    PROVE  OneRuns'
  <1>1. /\ \A d \in Call : d # c => call'[d] = call[d]
        /\ call'[c].phase = "idle"
    BY ReturnsFrees DEF NoCall
  <1>2. \A d \in Call : InHandler(d)' => InHandler(d)
    BY <1>1 DEF InHandler
  <1> QED
    BY <1>1, <1>2 DEF OneRuns

(* Each step of a call keeps the invariant: sending and locking. *)
LEMMA SendKeeps ==
    ASSUME KeyedIInv, NEW c \in Call, NEW p \in Process, NEW h \in Hash, Send(c, p, h)
    PROVE  KeyedIInv'
  <1> USE DEF KeyedIInv
  <1>1. /\ \A d \in Call : d # c => call'[d] = call[d]
        /\ call'[c] = [phase |-> "waiting", at |-> p, hash |-> h, status |-> "none"]
    BY DEF Send, KeyedTypeOK
  <1>2. KeyedTypeOK'
    BY DEF Send, KeyedTypeOK
  <1>3. CallRows'
    BY <1>1 DEF CallRows
  <1>4. Locks'
    BY <1>1 DEF Locks, Holding, Send
  <1>5. OneRuns'
    <2>1. \A d \in Call : InHandler(d)' => d # c
      BY <1>1 DEF InHandler
    <2> QED
      BY <1>1, <2>1 DEF OneRuns, Send, InHandler
  <1> QED
    BY <1>2, <1>3, <1>4, <1>5 DEF AnswersMatch, Send

(* The lock is free when it is taken (Lock). *)
LEMMA LockKeeps ==
    ASSUME KeyedIInv, NEW c \in Call, Lock(c)
    PROVE  KeyedIInv'
  <1> USE DEF KeyedIInv
  <1>1. /\ \A d \in Call : d # c => call'[d] = call[d]
        /\ call'[c].phase = "locked" /\ call'[c].at = call[c].at
        /\ call'[c].hash = call[c].hash /\ call'[c].status = call[c].status
    BY CallMoves DEF Lock
  <1>2. KeyedTypeOK'
    <2>1. call' \in [Call -> Row]
      BY DEF Lock, KeyedTypeOK, Row
    <2>2. holder' \in [Process -> Call \cup {Nil}]
      BY DEF Lock, KeyedTypeOK
    <2> QED
      BY <2>1, <2>2 DEF Lock, KeyedTypeOK, Row
  <1>3. CallRows'
    BY <1>1 DEF CallRows, Lock
  <1>4. Locks'
    <2>0. call[c].at \in Process
      BY DEF CallRows, Lock
    <2>1. \A d \in Call : d # c /\ call[d].phase \in Holding => call[d].at # call[c].at
      BY KeyedAssumption DEF Locks, Lock
    <2> QED
      BY <1>1, <2>0, <2>1 DEF Locks, Lock, KeyedTypeOK, CallRows, Holding
  <1>5. OneRuns'
    <2>1. \A d \in Call : InHandler(d)' => d # c
      BY <1>1 DEF InHandler
    <2> QED
      BY <1>1, <2>1 DEF OneRuns, Lock, InHandler
  <1> QED
    BY <1>2, <1>3, <1>4, <1>5 DEF AnswersMatch, Lock

(* Answers from the record are answers to the request it was made for (Replay). *)
LEMMA ReplayKeeps ==
    ASSUME KeyedIInv, NEW c \in Call, Replay(c)
    PROVE  KeyedIInv'
  <1> USE DEF KeyedIInv
  <1>0. Returns(c) /\ UNCHANGED <<record, effects, excused>> /\ call[c].phase = "locked"
    BY DEF Replay
  <1>1. call[c].hash = record.hash /\ call[c].hash \in Hash
    BY <1>0 DEF Replay, Replayable, CallRows
  <1>2. answers' \subseteq Hash \X Hash /\ AnswersMatch'
    <2>1. answers' = answers \cup {<<call[c].hash, call[c].hash>>}
      BY <1>1 DEF Replay
    <2> QED
      BY <1>1, <2>1 DEF AnswersMatch, KeyedTypeOK
  <1>3. KeyedTypeOK'
    BY <1>0, <1>2, ReturnsFrees DEF KeyedTypeOK, Row
  <1> QED
    BY <1>0, <1>2, <1>3, ReturnsFrees, ReturnsKeepsOneRuns

(* A refusal and a failed lookup write nothing (RefuseReuse, LookupFails). *)
LEMMA RefuseKeeps ==
    ASSUME KeyedIInv, NEW c \in Call, RefuseReuse(c) \/ LookupFails(c)
    PROVE  KeyedIInv'
  <1> USE DEF KeyedIInv
  <1>0. Returns(c) /\ UNCHANGED <<record, effects, answers, excused>> /\ call[c].phase = "locked"
    BY DEF RefuseReuse, LookupFails
  <1>1. KeyedTypeOK'
    BY <1>0, ReturnsFrees DEF KeyedTypeOK, Row
  <1> QED
    BY <1>0, <1>1, ReturnsFrees, ReturnsKeepsOneRuns DEF AnswersMatch

(* A call that finds no record, with no other process in between, is alone in the
   handler and finds nothing written (Miss). *)
LEMMA MissKeeps ==
    ASSUME KeyedIInv, NEW c \in Call, Miss(c)
    PROVE  KeyedIInv'
  <1> USE DEF KeyedIInv
  <1>1. /\ \A d \in Call : d # c => call'[d] = call[d]
        /\ call'[c].phase = "running" /\ call'[c].at = call[c].at
        /\ call'[c].hash = call[c].hash /\ call'[c].status = call[c].status
    BY CallMoves DEF Miss
  <1>2. KeyedTypeOK'
    BY DEF Miss, KeyedTypeOK, Elsewhere
  <1>3. CallRows'
    BY <1>1 DEF CallRows, Miss
  <1>4. Locks'
    BY <1>1 DEF Locks, Miss, Holding
  <1>5. OneRuns'
    <2> SUFFICES ASSUME ~excused'
                 PROVE  OneRuns'
      BY DEF OneRuns
    <2>1. ~excused /\ ~Elsewhere(c)
      BY DEF Miss, KeyedTypeOK
    <2>2. ASSUME NEW d \in Call, InHandler(d)
          PROVE  FALSE
      <3>1. call[d].at = call[c].at
        BY <2>1, <2>2 DEF Elsewhere, InHandler
      <3>2. holder[call[d].at] = d /\ holder[call[c].at] = c
        BY <2>2 DEF Locks, InHandler, Holding, Miss
      <3>3. d = c
        BY <3>1, <3>2
      <3> QED
        BY <2>2, <3>3 DEF InHandler, Miss
    <2>3. effects = 0 /\ effects' = 0
      BY <2>1, <2>2 DEF OneRuns, InHandler, Miss
    <2>4. \A d \in Call : InHandler(d)' => d = c
      BY <1>1, <2>2 DEF InHandler
    <2> QED
      BY <2>3, <2>4 DEF OneRuns
  <1> QED
    BY <1>2, <1>3, <1>4, <1>5 DEF AnswersMatch, Miss

(* The handler commits at most once (Handle). *)
LEMMA HandleKeeps ==
    ASSUME KeyedIInv, NEW c \in Call, NEW status \in {"done", "refused", "failed"}, Handle(c, status)
    PROVE  KeyedIInv'
  <1> USE DEF KeyedIInv
  <1>1. /\ \A d \in Call : d # c => call'[d] = call[d]
        /\ call'[c].phase = "ran" /\ call'[c].at = call[c].at
        /\ call'[c].hash = call[c].hash /\ call'[c].status = status
    BY DEF Handle, KeyedTypeOK
  <1>2. call[c].hash \in Hash /\ call[c].phase = "running"
    BY DEF Handle, CallRows
  <1>3. KeyedTypeOK'
    <2>1. call' \in [Call -> Row]
      BY ZenonT(60) DEF Handle, KeyedTypeOK, Row
    <2>2. effects' \in 0..MaxEffects
      BY KeyedAssumption DEF Handle, KeyedTypeOK
    <2>3. answers' \subseteq Hash \X Hash
      BY <1>2 DEF Handle, KeyedTypeOK
    <2> QED
      BY <2>1, <2>2, <2>3 DEF Handle, KeyedTypeOK, Row
  <1>4. CallRows'
    BY <1>1, <1>2 DEF CallRows
  <1>5. Locks'
    BY ZenonT(60), <1>1, <1>2 DEF Locks, Handle, Holding
  <1>6. OneRuns'
    <2> SUFFICES ASSUME ~excused
                 PROVE  OneRuns'
      BY DEF OneRuns, Handle
    <2>1. effects = 0 /\ \A d \in Call : InHandler(d) => d = c
      BY <1>2 DEF OneRuns, InHandler
    <2>2. \A d \in Call : InHandler(d)' => d = c
      BY <1>1, <2>1 DEF InHandler
    <2>3. effects' # 0 => status = "done" /\ effects' = 1
      BY <2>1 DEF Handle
    <2>4. effects' <= 1
      BY <2>1 DEF Handle
    <2> QED
      BY <1>1, <2>2, <2>3, <2>4 DEF OneRuns, InHandler
  <1>7. AnswersMatch'
    BY DEF Handle, AnswersMatch
  <1> QED
    BY <1>3, <1>4, <1>5, <1>6, <1>7

(* The first answer worth recording stays on record (RecordAnswer). *)
LEMMA RecordAnswerKeeps ==
    ASSUME KeyedIInv, NEW c \in Call, RecordAnswer(c)
    PROVE  KeyedIInv'
  <1> USE DEF KeyedIInv
  <1>0. Returns(c) /\ call[c].phase = "ran" /\ UNCHANGED <<effects, answers, excused>>
    BY DEF RecordAnswer
  <1>1. record' \in [hash : Hash, status : {"done", "refused", "failed"}] \cup {Nil}
    <2>1. call[c].hash \in Hash /\ call[c].status \in {"done", "refused", "failed"}
      BY <1>0 DEF CallRows, KeyedTypeOK
    <2> QED
      BY <2>1 DEF RecordAnswer, KeyedTypeOK
  <1>2. KeyedTypeOK'
    BY <1>0, <1>1, ReturnsFrees DEF KeyedTypeOK, Row
  <1>3. OneRuns'
    <2> SUFFICES ASSUME ~excused
                 PROVE  OneRuns'
      BY <1>0 DEF OneRuns
    <2>1. \A d \in Call : InHandler(d) => d = c
      BY <1>0 DEF OneRuns, InHandler
    <2>2. \A d \in Call : ~InHandler(d)'
      BY <2>1, <1>0, ReturnsFrees DEF InHandler, NoCall
    <2>3. ASSUME effects # 0
          PROVE  record' # Nil
      <3>1. CASE record # Nil
        BY <3>1 DEF RecordAnswer
      <3>2. CASE call[c].status = "done" /\ record = Nil
        <4>1. record' = [hash |-> call[c].hash, status |-> "done"]
          BY <3>2 DEF RecordAnswer, WorthRecording
        <4>2. call[c].hash \in Hash
          BY <1>0 DEF CallRows
        <4> QED
          BY <4>1, <4>2, KeyedAssumption
      <3> QED
        BY <2>1, <2>3, <3>1, <3>2 DEF OneRuns, InHandler
    <2> QED
      BY <1>0, <2>2, <2>3 DEF OneRuns, InHandler
  <1> QED
    BY <1>0, <1>2, <1>3, ReturnsFrees DEF AnswersMatch

(* A lost record is excused (LoseRecord). *)
LEMMA LoseRecordKeeps ==
    ASSUME KeyedIInv, NEW c \in Call, LoseRecord(c)
    PROVE  KeyedIInv'
  <1> USE DEF KeyedIInv
  <1>0. Returns(c) /\ UNCHANGED <<record, effects, answers>> /\ excused' = TRUE
    BY DEF LoseRecord
  <1>1. KeyedTypeOK'
    BY <1>0, ReturnsFrees DEF KeyedTypeOK, Row
  <1> QED
    BY <1>0, <1>1, ReturnsFrees DEF AnswersMatch, OneRuns

(* A crash takes the process's calls and locks, and is excused if a write was not
   on record yet (Crash). *)
LEMMA CrashKeeps ==
    ASSUME KeyedIInv, NEW p \in Process, Crash(p)
    PROVE  KeyedIInv'
  <1> USE DEF KeyedIInv
  <1>1. \A c \in Call : call'[c] = IF call[c].at = p THEN NoCall ELSE call[c]
    BY DEF Crash
  <1>2. call' \in [Call -> Row]
    BY DEF Crash, KeyedTypeOK, NoCall, Row
  <1>3. KeyedTypeOK'
    BY <1>2 DEF Crash, KeyedTypeOK, Row
  <1>4. CallRows'
    BY <1>1 DEF CallRows, NoCall
  <1>5. Locks'
    BY <1>1 DEF Locks, NoCall, Holding, Crash, KeyedTypeOK, CallRows
  <1>6. OneRuns'
    <2> SUFFICES ASSUME ~excused'
                 PROVE  OneRuns'
      BY DEF OneRuns
    <2>1. ~excused /\ \A c \in Call : call[c].phase = "ran" => call[c].at # p
      BY DEF Crash
    <2>2. \A c \in Call : InHandler(c)' => InHandler(c) /\ call'[c] = call[c]
      BY <1>1 DEF InHandler, NoCall
    <2>3. \A c \in Call : call[c].phase = "ran" => call'[c] = call[c]
      BY <1>1, <2>1
    <2> QED
      BY <2>1, <2>2, <2>3 DEF OneRuns, Crash, InHandler
  <1> QED
    BY <1>3, <1>4, <1>5, <1>6 DEF AnswersMatch, Crash

(* Every step keeps the invariant of keyed writes. *)
LEMMA KeyedIInvStep == KeyedIInv /\ [KeyedNext]_keyedVars => KeyedIInv'
  <1>1. ASSUME KeyedIInv, SweepIdempotencyRecords
        PROVE  KeyedIInv'
    <2>1. KeyedTypeOK'
      BY <1>1 DEF KeyedIInv, SweepIdempotencyRecords, KeyedTypeOK
    <2> QED
      BY <1>1, <2>1 DEF KeyedIInv, SweepIdempotencyRecords, CallRows, Locks, OneRuns, AnswersMatch
  <1>2. ASSUME KeyedIInv, KeyedNext
        PROVE  KeyedIInv'
    BY <1>1, <1>2, SendKeeps, LockKeeps, ReplayKeeps, RefuseKeeps, MissKeeps, HandleKeeps,
       RecordAnswerKeeps, LoseRecordKeeps, CrashKeeps DEF KeyedNext
  <1>3. ASSUME KeyedIInv, UNCHANGED keyedVars
        PROVE  KeyedIInv'
    BY <1>3 DEF KeyedIInv, keyedVars, KeyedTypeOK, CallRows, Locks, OneRuns, InHandler, AnswersMatch
  <1> QED
    BY <1>2, <1>3

(* At first there is no call, no lock and no record. *)
LEMMA InitKeyedIInv == KeyedInit => KeyedIInv
  <1> SUFFICES ASSUME KeyedInit
               PROVE  KeyedIInv
    OBVIOUS
  <1>1. KeyedTypeOK
    <2>1. call \in [Call -> Row]
      BY DEF KeyedInit, NoCall, Row
    <2>2. effects \in 0..MaxEffects
      BY KeyedAssumption DEF KeyedInit
    <2>3. holder \in [Process -> Call \cup {Nil}]
      BY DEF KeyedInit
    <2>4. answers \subseteq Hash \X Hash /\ excused \in BOOLEAN
          /\ record \in [hash : Hash, status : {"done", "refused", "failed"}] \cup {Nil}
      BY DEF KeyedInit
    <2> QED
      BY <2>1, <2>2, <2>3, <2>4 DEF KeyedTypeOK, Row
  <1> QED
    BY <1>1 DEF KeyedInit, KeyedIInv, CallRows, Locks, OneRuns, InHandler, AnswersMatch, NoCall, Holding

(* The inductive invariant holds of every behaviour of the calls with one key. *)
THEOREM KeyedInvariant == KeyedSpec => []KeyedIInv
  BY InitKeyedIInv, KeyedIInvStep, PTL DEF KeyedSpec

(* Retries and duplicates of a keyed write commit it once, for any number of calls
   and processes, unless what the design leaves out has happened
   (idempotency.go). *)
THEOREM KeyedWritesOnce == KeyedSpec => []OneEffect
  <1>1. KeyedIInv => OneEffect
    BY DEF KeyedIInv, OneRuns, OneEffect
  <1> QED
    BY <1>1, KeyedInvariant, PTL

(* No answer goes to a request it was not made for, excused or not
   (LookupIdempotent). *)
THEOREM AnswersAreTheirOwn == KeyedSpec => []AnswersMatch
  <1>1. KeyedIInv => AnswersMatch
    BY DEF KeyedIInv
  <1> QED
    BY <1>1, KeyedInvariant, PTL

-----------------------------------------------------------------------------
(* The limiter *)

\* The attempts that have passed the lookup with k among their keys.
Pending(k) == {a \in Attempt : k \in attempt[a]}

Most == Limit + Cardinality(Attempt) - 1

(* A window that still counts has room for the failures of every attempt that is
   being verified: each of them looked before the limit was reached, or in a window
   that has lapsed since. *)
PendingBounded ==
    \A k \in Key :
        /\ windows[k].count <= Most
        /\ ~Lapsed(k) => windows[k].count + Cardinality(Pending(k)) <= Most

(* Of the codes minted in a window no more are allowed than it has counted. *)
MintingBounded ==
    \A m \in Minter :
        /\ minted[m] <= Limit
        /\ windows[m].count # 0 => minted[m] <= windows[m].count

LimiterIInv == LimiterTypeOK /\ PendingBounded /\ MintingBounded

(* Attempts and the sets of those pending are finite, and no more are pending than
   there are. *)
LEMMA PendingFinite ==
    ASSUME NEW k
    PROVE  /\ Cardinality(Attempt) \in Nat
           /\ IsFiniteSet(Pending(k)) /\ Cardinality(Pending(k)) \in Nat
           /\ Cardinality(Pending(k)) <= Cardinality(Attempt)
  <1>1. IsFiniteSet(Attempt) /\ Pending(k) \subseteq Attempt
    BY LimiterAssumption DEF Pending
  <1> QED
    BY <1>1, FS_Subset, FS_CardinalityType

(* The limit is not zero, so as many may be pending as a whole window allows. *)
LEMMA MostRoom ==
    ASSUME NEW k
    PROVE  /\ Most \in Int /\ Limit \in Nat /\ Limit - 1 >= 0
           /\ Cardinality(Pending(k)) <= Most
           /\ Limit - 1 + Cardinality(Pending(k)) <= Most
  BY PendingFinite, LimiterAssumption DEF Most

(* The keys of an attempt are addresses and names (credentialKeys). *)
LEMMA KeysAreKeys == \A K \in CredentialKeys : K \subseteq Key
  BY DEF CredentialKeys, Key

(* One more attempt is pending for the keys it has (Check). *)
LEMMA CheckPending ==
    ASSUME LimiterTypeOK, NEW a \in Attempt, NEW K \in CredentialKeys, Check(a, K), NEW k \in Key
    PROVE  /\ Pending(k)' \subseteq Attempt
           /\ k \notin K => Pending(k)' = Pending(k)
  BY DEF Check, LimiterTypeOK, Pending

(* An attempt that is over is pending for none (Record, Reset, Forget). *)
LEMMA OverPending ==
    ASSUME LimiterTypeOK, NEW a \in Attempt, attempt' = [attempt EXCEPT ![a] = {}], NEW k \in Key
    PROVE  /\ Pending(k)' = Pending(k) \ {a}
           /\ Cardinality(Pending(k)') \in Nat
           /\ Cardinality(Pending(k)') <= Cardinality(Pending(k))
           /\ k \in attempt[a] => Cardinality(Pending(k)') = Cardinality(Pending(k)) - 1
  <1>1. Pending(k)' = Pending(k) \ {a}
    BY DEF Pending, LimiterTypeOK
  <1>2. k \in attempt[a] => a \in Pending(k)
    BY DEF Pending
  <1>3. IsFiniteSet(Pending(k)) /\ Cardinality(Pending(k)) \in Nat
    BY PendingFinite
  <1>4. /\ IsFiniteSet(Pending(k) \ {a})
        /\ Cardinality(Pending(k) \ {a}) =
             IF a \in Pending(k) THEN Cardinality(Pending(k)) - 1 ELSE Cardinality(Pending(k))
    BY <1>3, FS_RemoveElement
  <1>5. Cardinality(Pending(k) \ {a}) \in Nat
    BY <1>4, FS_CardinalityType
  <1> QED
    BY <1>1, <1>2, <1>3, <1>4, <1>5

(* A window is counted up, begun or swept, and stays a window (recordLocked). *)
LEMMA RecordedTypes ==
    ASSUME LimiterTypeOK, NEW K
    PROVE  Recorded(K) \in [Key \cup Minter -> [count : Nat, start : 0..MaxClock]]
  <1>1. NoWindow \in [count : Nat, start : 0..MaxClock]
    BY LimiterAssumption DEF NoWindow
  <1>2. [count |-> 1, start |-> now] \in [count : Nat, start : 0..MaxClock]
    BY DEF LimiterTypeOK
  <1>3. \A k \in Key \cup Minter :
          [windows[k] EXCEPT !.count = @ + 1] \in [count : Nat, start : 0..MaxClock]
    BY DEF LimiterTypeOK
  <1> QED
    BY <1>1, <1>2, <1>3 DEF Recorded, LimiterTypeOK

(* No step of the limiter leaves the types. *)
LEMMA LimiterTypesStep ==
    ASSUME LimiterTypeOK, LimiterNext
    PROVE  LimiterTypeOK'
  <1>0. /\ \A k \in Key \cup Minter : windows[k] \in [count : Nat, start : 0..MaxClock]
        /\ NoWindow \in [count : Nat, start : 0..MaxClock]
    BY LimiterAssumption DEF LimiterTypeOK, NoWindow
  <1>1. CASE Advance
    BY <1>1, LimiterAssumption DEF Advance, LimiterTypeOK
  <1>2. ASSUME NEW K \in CredentialKeys, Refuse(K)
        PROVE  LimiterTypeOK'
    BY <1>2 DEF Refuse, limiterVars, LimiterTypeOK
  <1>3. ASSUME NEW a \in Attempt, NEW K \in CredentialKeys, Check(a, K)
        PROVE  LimiterTypeOK'
    BY <1>3 DEF Check, LimiterTypeOK
  <1>4. ASSUME NEW a \in Attempt, Record(a)
        PROVE  LimiterTypeOK'
    BY <1>4, RecordedTypes DEF Record, LimiterTypeOK
  <1>5. ASSUME NEW a \in Attempt, Reset(a)
        PROVE  LimiterTypeOK'
    BY <1>0, <1>5 DEF Reset, LimiterTypeOK
  <1>6. ASSUME NEW a \in Attempt, Forget(a)
        PROVE  LimiterTypeOK'
    BY <1>6 DEF Forget, LimiterTypeOK
  <1>7. ASSUME NEW m \in Minter, Allow(m)
        PROVE  LimiterTypeOK'
    <2>1. Recorded({m})[m] \in [count : Nat, start : 0..MaxClock]
      BY RecordedTypes
    <2>2. minted' \in [Minter -> Nat]
      BY <1>7 DEF Allow, LimiterTypeOK
    <2> QED
      BY <1>7, <2>1, <2>2 DEF Allow, LimiterTypeOK
  <1> QED
    BY <1>1, <1>2, <1>3, <1>4, <1>5, <1>6, <1>7 DEF LimiterNext

(* The failures of concurrent attempts keep to the room there is for them. *)
LEMMA PendingStep ==
    ASSUME LimiterTypeOK, PendingBounded, LimiterNext
    PROVE  PendingBounded'
  <1>0. \A k \in Key : windows[k].count \in Nat /\ windows[k].start \in Nat
    BY DEF LimiterTypeOK
  <1>1. CASE Advance
    <2>1. \A k \in Key : Lapsed(k) => Lapsed(k)'
      BY <1>0, <1>1, LimiterAssumption DEF Advance, Lapsed, LimiterTypeOK
    <2> QED
      BY <1>1, <2>1 DEF PendingBounded, Advance, Pending, Most
  <1>2. ASSUME NEW K \in CredentialKeys, Refuse(K)
        PROVE  PendingBounded'
    BY <1>2 DEF Refuse, limiterVars, PendingBounded, Pending, Lapsed, Most
  <1>3. ASSUME NEW a \in Attempt, NEW K \in CredentialKeys, Check(a, K)
        PROVE  PendingBounded'
    <2> SUFFICES ASSUME NEW k \in Key
                 PROVE  /\ windows'[k].count <= Most
                        /\ ~Lapsed(k)' => windows'[k].count + Cardinality(Pending(k)') <= Most
      BY DEF PendingBounded, Most
    <2>1. windows' = windows /\ (Lapsed(k)' <=> Lapsed(k))
      BY <1>3 DEF Check, Lapsed
    <2>2. CASE k \in K
      <3>1. ~Lapsed(k) => windows[k].count <= Limit - 1
        BY <1>0, <1>3, <2>2, LimiterAssumption DEF Check, Blocked
      <3>2. IsFiniteSet(Attempt) /\ Pending(k)' \subseteq Attempt
        BY <1>3, CheckPending, LimiterAssumption
      <3>3. Cardinality(Pending(k)') \in Nat /\ Cardinality(Pending(k)') <= Cardinality(Attempt)
            /\ Cardinality(Attempt) \in Nat
        BY <3>2, FS_Subset, FS_CardinalityType
      <3> QED
        BY <1>0, <2>1, <3>1, <3>3, LimiterAssumption DEF PendingBounded, Most
    <2>3. CASE k \notin K
      BY <1>3, <2>1, <2>3, CheckPending DEF PendingBounded
    <2> QED
      BY <2>2, <2>3
  <1>4. ASSUME NEW a \in Attempt, Record(a)
        PROVE  PendingBounded'
    <2> SUFFICES ASSUME NEW k \in Key
                 PROVE  /\ windows'[k].count <= Most
                        /\ ~Lapsed(k)' => windows'[k].count + Cardinality(Pending(k)') <= Most
      BY DEF PendingBounded, Most
    <2>0. /\ attempt' = [attempt EXCEPT ![a] = {}]
          /\ windows'[k] =
               IF k \in attempt[a]
                 THEN IF windows[k].count = 0 \/ Lapsed(k)
                        THEN [count |-> 1, start |-> now]
                        ELSE [windows[k] EXCEPT !.count = @ + 1]
                 ELSE IF Lapsed(k) THEN NoWindow ELSE windows[k]
          /\ now' = now
      BY <1>4 DEF Record, Recorded, LimiterTypeOK
    <2>a. /\ Cardinality(Pending(k)') \in Nat /\ Cardinality(Pending(k)) \in Nat /\ Most \in Int
          /\ Cardinality(Pending(k)') <= Cardinality(Pending(k))
          /\ Cardinality(Pending(k)) <= Most
          /\ k \in attempt[a] => Cardinality(Pending(k)') = Cardinality(Pending(k)) - 1
      BY <2>0, OverPending, PendingFinite, MostRoom
    <2>1. CASE k \in attempt[a] /\ (windows[k].count = 0 \/ Lapsed(k))
      <3>1. windows'[k].count = 1
        BY <2>0, <2>1
      <3> QED
        BY <2>a, <2>1, <3>1
    <2>2. CASE k \in attempt[a] /\ windows[k].count # 0 /\ ~Lapsed(k)
      <3>1. windows'[k].count = windows[k].count + 1
        BY <2>0, <2>2 DEF LimiterTypeOK
      <3> QED
        BY <1>0, <2>a, <2>2, <3>1 DEF PendingBounded
    <2>3. CASE k \notin attempt[a] /\ Lapsed(k)
      <3>1. windows'[k].count = 0
        BY <2>0, <2>3 DEF NoWindow
      <3> QED
        BY <2>a, <3>1
    <2>4. CASE k \notin attempt[a] /\ ~Lapsed(k)
      <3>1. windows'[k] = windows[k]
        BY <2>0, <2>4
      <3> QED
        BY <1>0, <2>a, <2>4, <3>1 DEF PendingBounded
    <2> QED
      BY <2>1, <2>2, <2>3, <2>4
  <1>5. ASSUME NEW a \in Attempt, Reset(a) \/ Forget(a)
        PROVE  PendingBounded'
    <2> SUFFICES ASSUME NEW k \in Key
                 PROVE  /\ windows'[k].count <= Most
                        /\ ~Lapsed(k)' => windows'[k].count + Cardinality(Pending(k)') <= Most
      BY DEF PendingBounded, Most
    <2>0. attempt' = [attempt EXCEPT ![a] = {}] /\ now' = now
      BY <1>5 DEF Reset, Forget
    <2>a. /\ Cardinality(Pending(k)') \in Nat /\ Cardinality(Pending(k)) \in Nat /\ Most \in Int
          /\ Cardinality(Pending(k)') <= Cardinality(Pending(k))
          /\ Cardinality(Pending(k)) <= Most
          /\ k \in attempt[a] => Cardinality(Pending(k)') = Cardinality(Pending(k)) - 1
      BY <2>0, OverPending, PendingFinite, MostRoom
    <2>1. CASE windows'[k] = NoWindow
      BY <2>a, <2>1 DEF NoWindow
    <2>2. CASE windows'[k] = windows[k]
      <3>1. Lapsed(k)' <=> Lapsed(k)
        BY <2>0, <2>2 DEF Lapsed
      <3> QED
        BY <1>0, <2>a, <2>2, <3>1 DEF PendingBounded
    <2> QED
      BY <1>5, <2>1, <2>2 DEF Reset, Forget, LimiterTypeOK
  <1>6. ASSUME NEW m \in Minter, Allow(m)
        PROVE  PendingBounded'
    <2>1. \A k \in Key : windows'[k] = windows[k]
      BY <1>6, LimiterAssumption DEF Allow, LimiterTypeOK
    <2> QED
      BY <1>6, <2>1 DEF Allow, PendingBounded, Pending, Lapsed, Most
  <1> QED
    BY <1>1, <1>2, <1>3, <1>4, <1>5, <1>6 DEF LimiterNext

(* Minting counts and checks under one hold of the mutex, so the limit is exact
   (allow). *)
LEMMA MintingStep ==
    ASSUME LimiterTypeOK, MintingBounded, LimiterNext
    PROVE  MintingBounded'
  <1>0. \A m \in Minter : windows[m].count \in Nat /\ minted[m] \in Nat
    BY DEF LimiterTypeOK
  <1>1. ASSUME UNCHANGED minted, \A m \in Minter : windows'[m] = windows[m] \/ windows'[m] = NoWindow
        PROVE  MintingBounded'
    BY <1>1 DEF MintingBounded, NoWindow
  <1>2. ASSUME NEW a \in Attempt
        PROVE  \A m \in Minter : m \notin attempt[a]
    BY KeysAreKeys, LimiterAssumption DEF LimiterTypeOK
  <1>3. ASSUME NEW a \in Attempt, Record(a)
        PROVE  MintingBounded'
    BY <1>1, <1>2, <1>3 DEF Record, Recorded, LimiterTypeOK
  <1>4. ASSUME NEW a \in Attempt, Reset(a)
        PROVE  MintingBounded'
    BY <1>1, <1>4 DEF Reset, LimiterTypeOK
  <1>5. ASSUME NEW m \in Minter, Allow(m)
        PROVE  MintingBounded'
    <2>1. \A n \in Minter : n # m => windows'[n] = windows[n] /\ minted'[n] = minted[n]
      BY <1>5 DEF Allow, LimiterTypeOK
    <2>2. /\ windows'[m] = IF windows[m].count = 0 \/ Lapsed(m)
                             THEN [count |-> 1, start |-> now]
                             ELSE [windows[m] EXCEPT !.count = @ + 1]
          /\ minted'[m] = IF windows[m].count = 0 \/ Lapsed(m) THEN 1
                          ELSE IF Blocked({m}) THEN minted[m] ELSE minted[m] + 1
      BY <1>5 DEF Allow, Recorded, LimiterTypeOK
    <2>3. CASE windows[m].count = 0 \/ Lapsed(m)
      <3>1. windows'[m].count = 1 /\ minted'[m] = 1
        BY <2>2, <2>3
      <3> QED
        BY <2>1, <3>1, LimiterAssumption DEF MintingBounded
    <2>4. CASE ~(windows[m].count = 0 \/ Lapsed(m))
      <3>1. windows'[m].count = windows[m].count + 1
        BY <2>2, <2>4 DEF LimiterTypeOK
      <3>2. Blocked({m}) <=> windows[m].count >= Limit
        BY <2>4 DEF Blocked
      <3>3. minted'[m] <= Limit /\ minted'[m] <= windows'[m].count
        BY <1>0, <2>2, <2>4, <3>1, <3>2, LimiterAssumption DEF MintingBounded
      <3> QED
        BY <2>1, <3>3 DEF MintingBounded
    <2> QED
      BY <2>3, <2>4
  <1> QED
    BY <1>1, <1>3, <1>4, <1>5 DEF LimiterNext, Advance, Refuse, limiterVars, Check, Forget

(* A process starts with an empty map. *)
LEMMA InitLimiterIInv == LimiterInit => LimiterIInv
  <1> SUFFICES ASSUME LimiterInit
               PROVE  LimiterIInv
    OBVIOUS
  <1>1. LimiterTypeOK
    BY LimiterAssumption DEF LimiterInit, LimiterTypeOK, NoWindow
  <1>2. PendingBounded
    <2>1. \A k \in Key : windows[k].count = 0
      BY DEF LimiterInit, NoWindow
    <2> QED
      BY <2>1, PendingFinite, MostRoom DEF PendingBounded
  <1>3. MintingBounded
    BY LimiterAssumption DEF LimiterInit, MintingBounded, NoWindow
  <1> QED
    BY <1>1, <1>2, <1>3 DEF LimiterIInv

(* The three parts together are inductive. *)
LEMMA LimiterIInvStep == LimiterIInv /\ [LimiterNext]_limiterVars => LimiterIInv'
  <1>1. ASSUME LimiterIInv, LimiterNext
        PROVE  LimiterIInv'
    BY <1>1, LimiterTypesStep, PendingStep, MintingStep DEF LimiterIInv
  <1>2. ASSUME LimiterIInv, UNCHANGED limiterVars
        PROVE  LimiterIInv'
    BY <1>2 DEF LimiterIInv, limiterVars, LimiterTypeOK, PendingBounded, Pending, Lapsed, Most,
       MintingBounded
  <1> QED
    BY <1>1, <1>2

(* The inductive invariant holds of every behaviour of the limiter. *)
THEOREM LimiterInvariant == LimiterSpec => []LimiterIInv
  BY InitLimiterIInv, LimiterIInvStep, PTL DEF LimiterSpec

(* However attempts interleave, a window counts at most the limit and the attempts
   that were being verified beside the one that reached it; minting keeps to the
   limit itself (ratelimit.go). *)
THEOREM GuessesAreBounded == LimiterSpec => []GuessesBounded
  <1>1. LimiterIInv => GuessesBounded
    BY DEF LimiterIInv, PendingBounded, MintingBounded, GuessesBounded, Most
  <1> QED
    BY <1>1, LimiterInvariant, PTL

-----------------------------------------------------------------------------
(* The composition *)

(* A step of the gate is a step of one component, and the others do not notice. *)
LEMMA GateSteps ==
    ASSUME [GateNext]_gateVars
    PROVE  /\ [AccessNext]_accessVars /\ [LimiterNext]_limiterVars /\ [KeyedNext]_keyedVars
  BY DEF GateNext, gateVars

(* The composition implements the specification of each of its components. *)
THEOREM GateImplements == GateSpec => AccessSpec /\ LimiterSpec /\ KeyedSpec
  <1>1. GateInit => AccessInit /\ LimiterInit /\ KeyedInit
    BY DEF GateInit
  <1>2. [GateNext]_gateVars =>
          [AccessNext]_accessVars /\ [LimiterNext]_limiterVars /\ [KeyedNext]_keyedVars
    BY GateSteps
  <1> QED
    BY <1>1, <1>2, PTL DEF GateSpec, AccessSpec, LimiterSpec, KeyedSpec

(* The three sets of tables keep their types (middleware.go). *)
THEOREM GateTypeCorrect == GateSpec => []GateTypeOK
  <1>1. AccessIInv /\ LimiterIInv /\ KeyedIInv => GateTypeOK
    BY DEF AccessIInv, LimiterIInv, KeyedIInv, GateTypeOK
  <1> QED
    BY <1>1, GateImplements, AccessInvariant, LimiterInvariant, KeyedInvariant, PTL

=============================================================================
