SPECIFICATION GateSpec
CONSTANTS
  User = {u1, u2}
  Session = {s1, s2}
  Code = {c1}
  Storage = {g1}
  Request = {r1, r2}
  Page = {dashboard, inbox}
  DefaultStartPage = dashboard
  None = None
  Nil = Nil
  Address = {i1}
  Name = {n1}
  Minter = {m1}
  Attempt = {a1, a2}
  Limit = 2
  Window = 2
  MaxClock = 3
  Call = {d1, d2}
  Process = {p1, p2}
  Hash = {h1, h2}
  MaxEffects = 2
INVARIANTS GateTypeOK AdminRemains SessionsAreCurrent GuessesBounded OneEffect AnswersMatch
