--------------------------- MODULE HouseholdProofs ---------------------------
(* Proofs about Digest.tla, Shopping.tla and Scans.tla, and, with those about Scoring.tla,
   about the household.

   Each has an inductive invariant: the type invariant, what the requests under way
   have read and hold, and the history that relates it to the property.  The proof
   that a step preserves it has one lemma per action; then the theorem. *)
EXTENDS MCHousehold, ScoringProofs

-----------------------------------------------------------------------------
(* The daily digest.  A storage that a process has claimed and not served yet is
   pending with it; what is pending has been claimed, by nobody else, and has not
   been posted. *)

SettingsRow ==
    [enabled : BOOLEAN, hour : HourOfDay \cup {Unset}, soon : BOOLEAN,
     lastRun : (1..MaxDay) \cup {Unset}, result : {Unset, "sent", "failed", "empty"}]

DueRow == [house : House, soon : BOOLEAN]

RunRow ==
    [phase : {"idle", "serve", "built", "arrived", "lost"}, ticked : BOOLEAN, day : 0..MaxDay,
     due : SUBSET DueRow, house : House \cup {Unset}, soon : BOOLEAN,
     read : [Crate -> ExpiryDay \cup {Unset}], digest : SUBSET Crate]

DigestRows ==
    /\ run \in [Ticker -> RunRow]
    /\ posts \in [House -> [1..MaxDay -> Nat]]
    /\ changes \in Nat
    /\ \A t \in Ticker : run[t].phase # "idle" => run[t].day \in 1..MaxDay
    /\ \A t \in Ticker : run[t].phase \in {"built", "arrived", "lost"} => run[t].house \in House

Waiting(t, h) == \E x \in run[t].due : x.house = h

\* Claimed by t and not posted yet.
Pending(t, h) == Waiting(t, h) \/ (run[t].phase = "built" /\ run[t].house = h)

(* A process that waits has a storage in hand at most once. *)
OneInHand ==
    \A t \in Ticker :
        /\ run[t].phase = "idle" => run[t].due = {}
        /\ \A x, y \in run[t].due : x.house = y.house => x = y
        /\ run[t].phase = "built" => ~Waiting(t, run[t].house)

(* A storage is pending for a day with one process. *)
OneClaim ==
    \A t, v \in Ticker, h \in House :
        Pending(t, h) /\ Pending(v, h) /\ run[t].day = run[v].day => t = v

\* The claim of day d, or a later one, is recorded.
Claimed(h, d) == settings[h].lastRun # Unset /\ d <= settings[h].lastRun

PendingClaimed ==
    \A t \in Ticker, h \in House : Pending(t, h) =>
        Claimed(h, run[t].day) /\ posts[h][run[t].day] = 0

PostedClaimed == \A h \in House, d \in 1..MaxDay : posts[h][d] # 0 => Claimed(h, d)

PostedOnce == \A h \in House, d \in 1..MaxDay : posts[h][d] <= 1

\* The second half of OneDigestPerDay.
DigestOf(t) ==
    run[t].digest = {c \in Crate : HouseOf[c] = run[t].house /\ run[t].read[c] # Unset
        /\ run[t].read[c] - run[t].day < IF run[t].soon THEN SoonWithinDays ELSE CriticalWithinDays}

DigestsComplete ==
    \A t \in Ticker : run[t].phase \in {"built", "arrived", "lost"} => DigestOf(t)

DigestIInv ==
    /\ DigestTypeOK /\ DigestRows /\ OneInHand /\ OneClaim /\ PendingClaimed /\ PostedClaimed
    /\ PostedOnce /\ DigestsComplete

(* Nothing about the claims changes where no storage becomes pending, no claim is
   withdrawn and nothing is posted. *)
LEMMA ClaimsStand ==
    ASSUME DigestIInv, posts' = posts,
           \A t \in Ticker, h \in House : Pending(t, h)' => Pending(t, h) /\ run'[t].day = run[t].day,
           \A h \in House : settings'[h].lastRun = settings[h].lastRun
    PROVE  OneClaim' /\ PendingClaimed' /\ PostedClaimed' /\ PostedOnce'
  <1>1. \A h \in House : \A d : Claimed(h, d) => Claimed(h, d)'
    BY DEF Claimed
  <1>2. OneClaim'
    BY DEF DigestIInv, OneClaim
  <1>3. PendingClaimed'
    BY <1>1 DEF DigestIInv, PendingClaimed
  <1>4. PostedClaimed' /\ PostedOnce'
    BY <1>1 DEF DigestIInv, PostedClaimed, PostedOnce
  <1> QED
    BY <1>2, <1>3, <1>4

(* One process goes on with what it has. *)
LEMMA TickerGoesOn ==
    ASSUME DigestIInv, NEW t \in Ticker, NEW row \in RunRow, run' = [run EXCEPT ![t] = row],
           UNCHANGED <<expires, now, posts, changes>>,
           settings' \in [House -> SettingsRow],
           \A h \in House : settings'[h].lastRun = settings[h].lastRun,
           row.phase = "idle" => row.due = {},
           row.due \subseteq run[t].due,
           row.due # {} \/ row.phase # "idle" => row.day = run[t].day /\ run[t].phase # "idle",
           row.phase \in {"built", "arrived", "lost"} =>
               /\ row.house \in House
               /\ row.digest = {c \in Crate : HouseOf[c] = row.house /\ row.read[c] # Unset
                    /\ row.read[c] - row.day < IF row.soon THEN SoonWithinDays ELSE CriticalWithinDays},
           row.phase = "built" => Pending(t, row.house) /\ \A x \in row.due : x.house # row.house
    PROVE  DigestIInv'
  <1>1. run \in [Ticker -> RunRow]
    BY DEF DigestIInv, DigestRows
  <1>2. run' \in [Ticker -> RunRow] /\ run'[t] = row /\ \A v \in Ticker : v # t => run'[v] = run[v]
    BY <1>1
  <1>3. \A h \in House : Pending(t, h)' => Pending(t, h) /\ run'[t].day = run[t].day
    BY <1>2 DEF Pending, Waiting
  <1>4. \A v \in Ticker, h \in House : Pending(v, h)' => Pending(v, h) /\ run'[v].day = run[v].day
    BY <1>2, <1>3 DEF Pending, Waiting
  <1>5. OneClaim' /\ PendingClaimed' /\ PostedClaimed' /\ PostedOnce'
    BY <1>4, ClaimsStand
  <1>6. OneInHand'
    BY <1>2 DEF DigestIInv, OneInHand, Waiting
  <1>7. DigestsComplete'
    BY <1>2 DEF DigestIInv, DigestsComplete, DigestOf
  <1>8. DigestRows'
    BY <1>2 DEF DigestIInv, DigestRows
  <1>9. DigestTypeOK'
    BY <1>2 DEF DigestIInv, DigestTypeOK, SettingsRow, RunRow
  <1> QED
    BY <1>5, <1>6, <1>7, <1>8, <1>9 DEF DigestIInv

(* The requests leave the claims alone: a save keeps last_run_at
   (SaveNotificationSettings, SendTest, StockCrate). *)
LEMMA DigestRequestsKeep ==
    ASSUME DigestIInv, SettingsNext \/ TestNext
    PROVE  DigestIInv'
  <1>1. settings \in [House -> SettingsRow] /\ expires \in [Crate -> ExpiryDay \cup {Unset}] /\ changes \in Nat
    BY DEF DigestIInv, DigestTypeOK, DigestRows, SettingsRow
  <1>2. /\ UNCHANGED <<now, run, posts>> /\ settings' \in [House -> SettingsRow] /\ changes' \in Nat
        /\ expires' \in [Crate -> ExpiryDay \cup {Unset}]
        /\ \A h \in House : settings'[h].lastRun = settings[h].lastRun
    <2>1. ASSUME NEW h \in House, NEW on \in BOOLEAN, NEW soon \in BOOLEAN, NEW hour1 \in HourOfDay,
                 SaveNotificationSettings(h, on, hour1, soon)
          PROVE  <1>2!:
      <3> DEFINE row == [settings[h] EXCEPT !.enabled = on, !.hour = hour1, !.soon = soon]
      <3>1. settings' = [settings EXCEPT ![h] = row] /\ changes' = changes + 1
            /\ UNCHANGED <<expires, now, run, posts>>
        BY <2>1 DEF SaveNotificationSettings
      <3>2. settings[h] \in SettingsRow
        BY <1>1
      <3>3. row \in SettingsRow /\ row.lastRun = settings[h].lastRun
        BY <3>2 DEF SettingsRow
      <3> HIDE DEF row
      <3> QED
        BY <1>1, <3>1, <3>3
    <2>2. ASSUME NEW h \in House, NEW result \in {"sent", "failed"}, SendTest(h, result)
          PROVE  <1>2!:
      BY <1>1, <2>2 DEF SendTest, SettingsRow
    <2>3. ASSUME NEW c \in Crate, NEW d \in ExpiryDay \cup {Unset}, StockCrate(c, d)
          PROVE  <1>2!:
      BY <1>1, <2>3 DEF StockCrate
    <2> QED
      BY <2>1, <2>2, <2>3 DEF SettingsNext, TestNext
  <1>3. \A t \in Ticker, h \in House : Pending(t, h)' <=> Pending(t, h)
    BY <1>2 DEF Pending, Waiting
  <1>4. OneClaim' /\ PendingClaimed' /\ PostedClaimed' /\ PostedOnce'
    BY <1>2, <1>3, ClaimsStand
  <1>5. OneInHand' /\ DigestsComplete' /\ DigestRows'
    BY <1>2 DEF DigestIInv, OneInHand, Waiting, DigestsComplete, DigestOf, DigestRows
  <1>6. DigestTypeOK'
    BY <1>2 DEF DigestIInv, DigestTypeOK, SettingsRow
  <1> QED
    BY <1>4, <1>5, <1>6 DEF DigestIInv

(* A process that does nothing has a row too. *)
LEMMA NoRunType ==
    /\ NoRun \in RunRow /\ NoRun.phase = "idle" /\ NoRun.due = {}
  <1>1. [c \in Crate |-> Unset] \in [Crate -> ExpiryDay \cup {Unset}] /\ 0 \in 0..MaxDay
    BY DigestAssumption
  <1> QED
    BY <1>1 DEF NoRun, RunRow

(* A run that starts claims the storages that are due and no process holds for this
   day, since a claim of this day would have made them not due
   (ClaimDueNotifications). *)
LEMMA ClaimDueNotificationsKeeps ==
    ASSUME DigestIInv, NEW t \in Ticker, ClaimDueNotifications(t)
    PROVE  DigestIInv'
  <1> DEFINE due == {h \in House : Due(h)}
             dues == {[house |-> h, soon |-> settings[h].soon] : h \in due}
             row == [NoRun EXCEPT !.phase = IF due = {} THEN "idle" ELSE "serve", !.ticked = TRUE,
                                  !.day = now.day, !.due = dues]
  <1>1. /\ run' = [run EXCEPT ![t] = row] /\ UNCHANGED <<expires, now, posts, changes>>
        /\ settings' = [h \in House |-> IF h \in due THEN [settings[h] EXCEPT !.lastRun = now.day]
                                        ELSE settings[h]]
    BY DEF ClaimDueNotifications
  <1>2. /\ settings \in [House -> SettingsRow] /\ run \in [Ticker -> RunRow] /\ now.day \in 1..MaxDay
        /\ posts \in [House -> [1..MaxDay -> Nat]]
    BY DEF DigestIInv, DigestTypeOK, DigestRows, SettingsRow
  <1>3. dues \subseteq DueRow
    BY <1>2 DEF DueRow, SettingsRow
  <1>4. \A x \in dues : x.house \in due /\ x = [house |-> x.house, soon |-> settings[x.house].soon]
    OBVIOUS
  <1>5. dues = {} <=> due = {}
    OBVIOUS
  <1>6. /\ row.phase = (IF due = {} THEN "idle" ELSE "serve") /\ row.day = now.day /\ row.due = dues
        /\ row \in RunRow
    <2> DEFINE phase == IF due = {} THEN "idle" ELSE "serve"
    <2>1. phase \in {"idle", "serve", "built", "arrived", "lost"} /\ now.day \in 0..MaxDay
      BY <1>2
    <2>2. row = [NoRun EXCEPT !.phase = phase, !.ticked = TRUE, !.day = now.day, !.due = dues]
      OBVIOUS
    <2> HIDE DEF due, dues, phase, row
    <2>3. NoRun \in RunRow
      BY NoRunType
    <2> QED
      BY <1>3, <2>1, <2>2, <2>3 DEF RunRow, phase
  <1>7. \A h \in due : h \in House /\ (settings[h].lastRun = Unset \/ settings[h].lastRun < now.day)
    BY DEF Due
  <1> HIDE DEF due, dues, row
  <1>8. run' \in [Ticker -> RunRow] /\ run'[t] = row /\ \A v \in Ticker : v # t => run'[v] = run[v]
    BY <1>1, <1>2, <1>6
  <1>9. \A h \in House :
          /\ settings'[h] \in SettingsRow
          /\ h \in due => settings'[h].lastRun = now.day
          /\ h \notin due => settings'[h] = settings[h]
    <2> SUFFICES ASSUME NEW h \in House
                 PROVE  /\ settings'[h] \in SettingsRow
                        /\ h \in due => settings'[h].lastRun = now.day
                        /\ h \notin due => settings'[h] = settings[h]
      OBVIOUS
    <2>1. settings[h] \in SettingsRow
      BY <1>2
    <2>2. CASE h \in due
      <3>1. settings'[h] = [settings[h] EXCEPT !.lastRun = now.day]
        BY <1>1, <2>2
      <3> QED
        BY <1>2, <2>1, <2>2, <3>1 DEF SettingsRow
    <2>3. CASE h \notin due
      BY <1>1, <2>1, <2>3
    <2> QED
      BY <2>2, <2>3
  <1>10. \A h \in House, d \in 0..MaxDay : Claimed(h, d) => Claimed(h, d)' /\ (h \in due => d < now.day)
    <2> SUFFICES ASSUME NEW h \in House, NEW d \in 0..MaxDay, Claimed(h, d)
                 PROVE  Claimed(h, d)' /\ (h \in due => d < now.day)
      OBVIOUS
    <2>1. settings[h].lastRun \in 1..MaxDay
      BY <1>2 DEF Claimed, SettingsRow
    <2>2. CASE h \in due
      <3>1. settings[h].lastRun < now.day /\ settings'[h].lastRun = now.day
        BY <1>7, <1>9, <2>2 DEF Claimed
      <3>2. d < now.day /\ now.day # Unset
        BY <1>2, <2>1, <3>1, DigestAssumption DEF Claimed
      <3> QED
        BY <1>2, <3>1, <3>2 DEF Claimed
    <2>3. CASE h \notin due
      BY <1>9, <2>3 DEF Claimed
    <2> QED
      BY <2>2, <2>3
  <1>11. \A h \in House : Pending(t, h)' => h \in due /\ run'[t].day = now.day
    BY <1>4, <1>6, <1>8 DEF Pending, Waiting
  <1>12. \A v \in Ticker, h \in House : v # t => (Pending(v, h)' <=> Pending(v, h)) /\ run'[v].day = run[v].day
    BY <1>8 DEF Pending, Waiting
  <1>13. \A v \in Ticker : run[v].day \in 0..MaxDay
    BY <1>2 DEF RunRow
  <1>14. OneClaim'
    <2>1. \A v \in Ticker, h \in House : v # t /\ h \in due /\ Pending(v, h)' => run'[v].day < now.day
      BY <1>10, <1>12, <1>13 DEF DigestIInv, PendingClaimed
    <2>2. \A v \in Ticker, h \in House : v # t /\ h \in due /\ Pending(v, h)' => run'[v].day # now.day
      BY <1>2, <1>12, <1>13, <2>1
    <2> QED
      BY <1>11, <1>12, <2>2 DEF DigestIInv, OneClaim
  <1>15. PendingClaimed'
    <2> SUFFICES ASSUME NEW v \in Ticker, NEW h \in House, Pending(v, h)'
                 PROVE  /\ settings'[h].lastRun # Unset /\ run'[v].day <= settings'[h].lastRun
                        /\ posts[h][run'[v].day] = 0
      BY <1>1 DEF PendingClaimed, Claimed
    <2>1. CASE v = t
      <3>1. h \in due /\ run'[v].day = now.day
        BY <1>11, <2>1
      <3>2. now.day # Unset /\ now.day <= now.day /\ settings'[h].lastRun = now.day
        BY <1>2, <1>9, <3>1, DigestAssumption
      <3>3. posts[h][now.day] = 0
        <4>1. ~Claimed(h, now.day)
          BY <1>2, <1>10, <3>1
        <4> QED
          BY <1>2, <4>1 DEF DigestIInv, PostedClaimed
      <3> QED
        BY <3>1, <3>2, <3>3
    <2>2. CASE v # t
      <3>1. Claimed(h, run[v].day) /\ posts[h][run[v].day] = 0 /\ run'[v].day = run[v].day
        BY <1>12, <2>2 DEF DigestIInv, PendingClaimed
      <3>2. Claimed(h, run[v].day) => settings'[h].lastRun # Unset /\ run[v].day <= settings'[h].lastRun
        BY <1>10, <1>13 DEF Claimed
      <3> QED
        BY <3>1, <3>2
    <2> QED
      BY <2>1, <2>2
  <1>16. PostedClaimed' /\ PostedOnce'
    <2>1. 1..MaxDay \subseteq 0..MaxDay
      BY DigestAssumption
    <2> QED
      BY <1>1, <1>10, <2>1 DEF DigestIInv, PostedClaimed, PostedOnce
  <1>17. OneInHand'
    BY <1>4, <1>5, <1>6, <1>8 DEF DigestIInv, OneInHand, Waiting
  <1>18. DigestsComplete'
    BY <1>6, <1>8 DEF DigestIInv, DigestsComplete, DigestOf
  <1>19. DigestRows'
    BY <1>1, <1>2, <1>6, <1>8 DEF DigestIInv, DigestRows
  <1>20. DigestTypeOK'
    <2>1. settings' \in [House -> SettingsRow]
      BY <1>1, <1>9
    <2>2. \A v \in Ticker : run'[v].phase \in {"idle", "serve", "built", "arrived", "lost"}
                              /\ run'[v].digest \subseteq Crate
      BY <1>8 DEF RunRow
    <2> QED
      BY <1>1, <2>1, <2>2 DEF DigestIInv, DigestTypeOK, SettingsRow
  <1> QED
    BY <1>14, <1>15, <1>16, <1>17, <1>18, <1>19, <1>20 DEF DigestIInv

(* The window of the query and the bands of the classification leave no gap: what is
   built is every batch that is due and no other (ExpiringBatchesBefore, Classify,
   Build). *)
LEMMA NoGap ==
    ASSUME DigestIInv, NEW h \in House, NEW day \in 0..MaxDay, NEW soon \in BOOLEAN
    PROVE  Build(ExpiringBatchesBefore(h, day + SoonWithinDays), day, soon) =
             {c \in Crate : HouseOf[c] = h /\ expires[c] # Unset
                /\ expires[c] - day < IF soon THEN SoonWithinDays ELSE CriticalWithinDays}
  <1> SUFFICES ASSUME NEW c \in Crate
               PROVE  c \in Build(ExpiringBatchesBefore(h, day + SoonWithinDays), day, soon) <=>
                        /\ HouseOf[c] = h /\ expires[c] # Unset
                        /\ expires[c] - day < IF soon THEN SoonWithinDays ELSE CriticalWithinDays
    BY DEF Build, ExpiringBatchesBefore
  <1>1. CASE expires[c] = Unset
    BY <1>1 DEF Build, ExpiringBatchesBefore
  <1>2. CASE expires[c] # Unset
    <2>1. expires[c] \in Nat /\ day \in Nat /\ SoonWithinDays \in Nat /\ CriticalWithinDays \in Nat
          /\ CriticalWithinDays <= SoonWithinDays
      <3>1. expires[c] \in ExpiryDay
        BY <1>2 DEF DigestIInv, DigestTypeOK
      <3>2. /\ ExpiryDay \subseteq Nat /\ CriticalWithinDays <= SoonWithinDays
            /\ {CriticalWithinDays, SoonWithinDays} \subseteq Nat /\ MaxDay \in Nat
        BY Zenon, DigestAssumption
      <3>3. day \in Nat
        BY <3>2
      <3> QED
        BY <3>1, <3>2, <3>3
    <2> DEFINE e == expires[c]
    <2>2. c \in Build(ExpiringBatchesBefore(h, day + SoonWithinDays), day, soon) <=>
            /\ HouseOf[c] = h /\ e < day + SoonWithinDays
            /\ Classify(e, day) \in {"expired", "critical"} \cup (IF soon THEN {"soon"} ELSE {})
      BY <1>2 DEF Build, ExpiringBatchesBefore
    <2> HIDE DEF e
    <2>3. e \in Nat
      BY <2>1 DEF e
    <2>4. /\ e < day => Classify(e, day) = "expired"
          /\ e >= day /\ e < day + CriticalWithinDays => Classify(e, day) = "critical"
          /\ e >= day + CriticalWithinDays /\ e < day + SoonWithinDays => Classify(e, day) = "soon"
          /\ e >= day /\ e >= day + SoonWithinDays /\ e >= day + CriticalWithinDays
               => Classify(e, day) = "ok"
      BY <2>1, <2>3 DEF Classify
    <2>5. CASE e < day
      BY <2>1, <2>2, <2>3, <2>4, <2>5, <1>2 DEF e
    <2>6. CASE e >= day /\ e < day + CriticalWithinDays
      BY <2>1, <2>2, <2>3, <2>4, <2>6, <1>2 DEF e
    <2>7. CASE e >= day + CriticalWithinDays
      BY <2>1, <2>2, <2>3, <2>4, <2>7, <1>2 DEF e
    <2> QED
      BY <2>1, <2>3, <2>5, <2>6, <2>7
  <1> QED
    BY <1>1, <1>2

(* The next storage of a run is read and its digest built (BuildDigest). *)
LEMMA BuildDigestKeeps ==
    ASSUME DigestIInv, NEW t \in Ticker, NEW x \in run[t].due, BuildDigest(t, x)
    PROVE  DigestIInv'
  <1> DEFINE digest == Build(ExpiringBatchesBefore(x.house, run[t].day + SoonWithinDays), run[t].day, x.soon)
             row == [run[t] EXCEPT !.phase = "built", !.due = run[t].due \ {x}, !.house = x.house,
                                   !.soon = x.soon, !.read = expires, !.digest = digest]
  <1>1. run[t].phase = "serve" /\ run' = [run EXCEPT ![t] = row]
        /\ UNCHANGED <<settings, expires, now, posts, changes>>
    BY DEF BuildDigest
  <1>2. /\ run[t] \in RunRow /\ settings \in [House -> SettingsRow]
        /\ expires \in [Crate -> ExpiryDay \cup {Unset}]
    BY DEF DigestIInv, DigestTypeOK, DigestRows, SettingsRow
  <1>3. x \in DueRow /\ x.house \in House /\ x.soon \in BOOLEAN /\ run[t].day \in 0..MaxDay
    BY <1>2 DEF RunRow, DueRow
  <1>4. digest = {c \in Crate : HouseOf[c] = x.house /\ expires[c] # Unset
                    /\ expires[c] - run[t].day < IF x.soon THEN SoonWithinDays ELSE CriticalWithinDays}
    BY <1>3, NoGap
  <1>5. digest \subseteq Crate
    BY <1>4
  <1> HIDE DEF digest
  <1>6. /\ row.phase = "built" /\ row.due = run[t].due \ {x} /\ row.house = x.house /\ row.soon = x.soon
        /\ row.read = expires /\ row.digest = digest /\ row.day = run[t].day
    BY <1>2 DEF RunRow
  <1>7. row \in RunRow
    BY <1>2, <1>3, <1>5 DEF RunRow
  <1> HIDE DEF row
  <1>8. Pending(t, x.house)
    BY DEF Pending, Waiting
  <1>9. \A y \in row.due : y.house # x.house
    BY <1>6 DEF DigestIInv, OneInHand
  <1> QED
    BY <1>1, <1>2, <1>3, <1>4, <1>6, <1>7, <1>8, <1>9, TickerGoesOn

(* The result is recorded and the run goes on with the next storage
   (RecordNotificationResult). *)
LEMMA RecordKeeps ==
    ASSUME DigestIInv, NEW t \in Ticker, NEW result \in {"sent", "failed", "empty"},
           run[t].phase \in {"built", "arrived", "lost"}, RecordNotificationResult(t, result),
           UNCHANGED <<expires, now, posts, changes>>
    PROVE  DigestIInv'
  <1> DEFINE phase == IF run[t].due = {} THEN "idle" ELSE "serve"
             blank == [c \in Crate |-> Unset]
             row == [run[t] EXCEPT !.phase = phase, !.house = Unset, !.soon = FALSE,
                                   !.read = blank, !.digest = {}]
             h == run[t].house
  <1>1. run' = [run EXCEPT ![t] = row] /\ settings' = [settings EXCEPT ![h].result = result]
    BY DEF RecordNotificationResult
  <1>2. run[t] \in RunRow /\ settings \in [House -> SettingsRow] /\ h \in House
    BY DEF DigestIInv, DigestTypeOK, DigestRows, SettingsRow
  <1>3. phase \in {"idle", "serve"} /\ blank \in [Crate -> ExpiryDay \cup {Unset}]
        /\ (phase = "idle" => run[t].due = {})
    OBVIOUS
  <1> HIDE DEF phase, blank
  <1>4. row \in RunRow /\ row.phase = phase /\ row.due = run[t].due /\ row.day = run[t].day
    BY <1>2, <1>3 DEF RunRow
  <1> HIDE DEF row
  <1>5. /\ settings' \in [House -> SettingsRow]
        /\ \A k \in House : settings'[k].lastRun = settings[k].lastRun
    <2> HIDE DEF h
    <2> QED
      BY <1>1, <1>2 DEF SettingsRow
  <1> QED
    BY <1>1, <1>3, <1>4, <1>5, TickerGoesOn

(* A post that arrives is counted, and its storage is no longer pending: no other
   process holds the claim it was made under (PostDigest). *)
LEMMA PostDigestKeeps ==
    ASSUME DigestIInv, NEW t \in Ticker, NEW arrives \in BOOLEAN, PostDigest(t, arrives)
    PROVE  DigestIInv'
  <1> DEFINE phase == IF arrives THEN "arrived" ELSE "lost"
             row == [run[t] EXCEPT !.phase = phase]
             h == run[t].house
             d == run[t].day
  <1>1. /\ run[t].phase = "built" /\ UNCHANGED <<settings, expires, now, changes>>
        /\ run' = [run EXCEPT ![t] = row]
        /\ posts' = IF arrives THEN [posts EXCEPT ![h][d] = @ + 1] ELSE posts
    BY DEF PostDigest, DigestIInv, DigestRows
  <1>2. /\ run \in [Ticker -> RunRow] /\ run[t] \in RunRow /\ settings \in [House -> SettingsRow]
        /\ h \in House /\ d \in 1..MaxDay /\ posts \in [House -> [1..MaxDay -> Nat]]
    BY <1>1 DEF DigestIInv, DigestTypeOK, DigestRows, SettingsRow
  <1>3. phase \in {"arrived", "lost"}
    OBVIOUS
  <1> HIDE DEF phase
  <1>4. /\ row \in RunRow /\ row.phase = phase /\ row.due = run[t].due /\ row.day = d /\ row.house = h
        /\ row.soon = run[t].soon /\ row.read = run[t].read /\ row.digest = run[t].digest
    BY <1>2, <1>3 DEF RunRow
  <1> HIDE DEF row
  <1>5. row.digest = {c \in Crate : HouseOf[c] = row.house /\ row.read[c] # Unset
                    /\ row.read[c] - row.day < IF row.soon THEN SoonWithinDays ELSE CriticalWithinDays}
    <2>1. DigestOf(t)
      BY <1>1 DEF DigestIInv, DigestsComplete
    <2> QED
      BY <1>4, <2>1 DEF DigestOf
  <1>6. CASE ~arrives
    BY <1>1, <1>2, <1>3, <1>4, <1>5, <1>6, TickerGoesOn
  <1>7. CASE arrives
    <2>1. Pending(t, h) /\ posts[h][d] = 0 /\ Claimed(h, d) /\ ~Waiting(t, h)
      BY <1>1, <1>2 DEF Pending, DigestIInv, PendingClaimed, OneInHand
    <2>2. \A v \in Ticker : v # t /\ Pending(v, h) => run[v].day # d
      BY <1>2, <2>1 DEF DigestIInv, OneClaim
    <2>3. run' \in [Ticker -> RunRow] /\ run'[t] = row /\ \A v \in Ticker : v # t => run'[v] = run[v]
      BY <1>1, <1>2, <1>4
    <2>4. /\ posts' \in [House -> [1..MaxDay -> Nat]] /\ posts'[h][d] = 1
          /\ \A k \in House, e \in 1..MaxDay : <<k, e>> # <<h, d>> => posts'[k][e] = posts[k][e]
      <3>1. posts' = [posts EXCEPT ![h][d] = @ + 1]
        BY <1>1, <1>7
      <3>2. posts[h] \in [1..MaxDay -> Nat] /\ posts[h][d] + 1 = 1
        BY <1>2, <2>1
      <3> DEFINE mine == [posts[h] EXCEPT ![d] = posts[h][d] + 1]
      <3>3. posts' = [posts EXCEPT ![h] = mine]
        BY <3>1
      <3>4. mine \in [1..MaxDay -> Nat] /\ mine[d] = 1
            /\ \A e \in 1..MaxDay : e # d => mine[e] = posts[h][e]
        <4> HIDE DEF h, d
        <4> QED
          BY <1>2, <3>2
      <3> HIDE DEF h, d, mine
      <3> QED
        BY <1>2, <3>3, <3>4
    <2>5. \A v \in Ticker, k \in House : Pending(v, k)' =>
            Pending(v, k) /\ run'[v].day = run[v].day /\ <<k, run[v].day>> # <<h, d>>
      <3> SUFFICES ASSUME NEW v \in Ticker, NEW k \in House, Pending(v, k)'
                   PROVE  Pending(v, k) /\ run'[v].day = run[v].day /\ <<k, run[v].day>> # <<h, d>>
        OBVIOUS
      <3>1. CASE v = t
        BY <1>3, <1>4, <2>1, <2>3, <3>1 DEF Pending, Waiting
      <3>2. CASE v # t
        BY <2>2, <2>3, <3>2 DEF Pending, Waiting
      <3> QED
        BY <3>1, <3>2
    <2>6. \A k \in House : \A e : Claimed(k, e)' <=> Claimed(k, e)
      BY <1>1 DEF Claimed
    <2>7. OneClaim'
      BY <2>5 DEF DigestIInv, OneClaim
    <2>8. \A v \in Ticker : \A k \in House : Pending(v, k) => run[v].day \in 1..MaxDay
      BY DEF Pending, Waiting, DigestIInv, DigestRows, OneInHand
    <2>9. PendingClaimed'
      <3> SUFFICES ASSUME NEW v \in Ticker, NEW k \in House, Pending(v, k)'
                   PROVE  /\ settings[k].lastRun # Unset /\ run'[v].day <= settings[k].lastRun
                          /\ posts'[k][run'[v].day] = 0
        BY <1>1 DEF PendingClaimed, Claimed
      <3>1. Pending(v, k) /\ run'[v].day = run[v].day /\ <<k, run[v].day>> # <<h, d>>
        BY <2>5
      <3>2. Claimed(k, run[v].day) /\ posts[k][run[v].day] = 0 /\ run[v].day \in 1..MaxDay
        BY <2>8, <3>1 DEF DigestIInv, PendingClaimed
      <3>3. posts'[k][run[v].day] = posts[k][run[v].day]
        BY <2>4, <3>1, <3>2
      <3> QED
        BY <3>1, <3>2, <3>3 DEF Claimed
    <2>10. PostedClaimed'
      <3> SUFFICES ASSUME NEW k \in House, NEW e \in 1..MaxDay, posts'[k][e] # 0
                   PROVE  Claimed(k, e)
        BY <2>6 DEF PostedClaimed
      <3>1. CASE <<k, e>> = <<h, d>>
        BY <2>1, <3>1
      <3>2. CASE <<k, e>> # <<h, d>>
        BY <2>4, <3>2 DEF DigestIInv, PostedClaimed
      <3> QED
        BY <3>1, <3>2
    <2>11. PostedOnce'
      <3> SUFFICES ASSUME NEW k \in House, NEW e \in 1..MaxDay
                   PROVE  posts'[k][e] <= 1
        BY DEF PostedOnce
      <3>1. CASE <<k, e>> = <<h, d>>
        BY <2>4, <3>1
      <3>2. CASE <<k, e>> # <<h, d>>
        BY <2>4, <3>2 DEF DigestIInv, PostedOnce
      <3> QED
        BY <3>1, <3>2
    <2>12. OneInHand' /\ DigestRows'
      BY <1>1, <1>2, <1>3, <1>4, <2>3, <2>4 DEF DigestIInv, OneInHand, Waiting, DigestRows
    <2>13. DigestsComplete'
      BY <1>5, <2>3 DEF DigestIInv, DigestsComplete, DigestOf
    <2>14. DigestTypeOK'
      BY <1>1, <2>3 DEF DigestIInv, DigestTypeOK, RunRow
    <2> QED
      BY <2>7, <2>9, <2>10, <2>11, <2>12, <2>13, <2>14 DEF DigestIInv
  <1> QED
    BY <1>6, <1>7

(* A process that starts again has forgotten what it claimed (Restart). *)
LEMMA RestartKeeps ==
    ASSUME DigestIInv, NEW t \in Ticker, Restart(t)
    PROVE  DigestIInv'
  <1> DEFINE row == [NoRun EXCEPT !.ticked = TRUE]
  <1>1. run' = [run EXCEPT ![t] = row] /\ UNCHANGED <<settings, expires, now, posts, changes>>
    BY DEF Restart
  <1>2. row \in RunRow /\ row.phase = "idle" /\ row.due = {}
    BY NoRunType DEF RunRow
  <1> HIDE DEF row
  <1>3. settings \in [House -> SettingsRow]
    BY DEF DigestIInv, DigestTypeOK, SettingsRow
  <1> QED
    BY <1>1, <1>2, <1>3, TickerGoesOn

(* The clock goes on, or back an hour, and every process may run again
   (NextTopOfHour). *)
LEMMA NextTopOfHourKeeps ==
    ASSUME DigestIInv, NEW n \in [day : 1..MaxDay, hour : HourOfDay], NextTopOfHour(n)
    PROVE  DigestIInv'
  <1>1. /\ now' = n /\ UNCHANGED <<settings, expires, posts, changes>>
        /\ run' = [t \in Ticker |-> [run[t] EXCEPT !.ticked = FALSE]]
    BY DEF NextTopOfHour
  <1>2. \A t \in Ticker :
          /\ run'[t] \in RunRow /\ run'[t].phase = run[t].phase /\ run'[t].day = run[t].day
          /\ run'[t].due = run[t].due /\ run'[t].house = run[t].house /\ run'[t].soon = run[t].soon
          /\ run'[t].read = run[t].read /\ run'[t].digest = run[t].digest
    <2> SUFFICES ASSUME NEW t \in Ticker
                 PROVE  /\ run'[t] \in RunRow /\ run'[t].phase = run[t].phase /\ run'[t].day = run[t].day
                        /\ run'[t].due = run[t].due /\ run'[t].house = run[t].house
                        /\ run'[t].soon = run[t].soon /\ run'[t].read = run[t].read
                        /\ run'[t].digest = run[t].digest
      OBVIOUS
    <2>1. run[t] \in RunRow /\ run'[t] = [run[t] EXCEPT !.ticked = FALSE]
      BY <1>1 DEF DigestIInv, DigestRows
    <2> QED
      BY <2>1 DEF RunRow
  <1>3. \A t \in Ticker, h \in House : Pending(t, h)' <=> Pending(t, h)
    BY <1>2 DEF Pending, Waiting
  <1>4. OneClaim' /\ PendingClaimed' /\ PostedClaimed' /\ PostedOnce'
    BY <1>1, <1>2, <1>3, ClaimsStand
  <1>5. OneInHand'
    BY <1>2 DEF DigestIInv, OneInHand, Waiting
  <1>6. DigestsComplete'
    BY <1>2 DEF DigestIInv, DigestsComplete, DigestOf
  <1>7. DigestRows'
    <2>1. run' \in [Ticker -> RunRow]
      BY <1>1, <1>2
    <2> QED
      BY <1>1, <1>2, <2>1 DEF DigestIInv, DigestRows
  <1>8. DigestTypeOK'
    BY <1>1, <1>2 DEF DigestIInv, DigestTypeOK, RunRow
  <1> QED
    BY <1>4, <1>5, <1>6, <1>7, <1>8 DEF DigestIInv

(* Every step of the digest keeps its invariant (DigestNext). *)
LEMMA DigestStepKeeps ==
    ASSUME DigestIInv, [DigestNext]_digestVars
    PROVE  DigestIInv'
  <1>1. CASE SettingsNext \/ TestNext
    BY <1>1, DigestRequestsKeep
  <1>2. ASSUME NEW t \in Ticker, ClaimDueNotifications(t) \/ Restart(t)
        PROVE  DigestIInv'
    BY <1>2, ClaimDueNotificationsKeeps, RestartKeeps
  <1>3. ASSUME NEW t \in Ticker, SkipDigest(t) \/ DeliveryAnswered(t)
        PROVE  DigestIInv'
    BY <1>3, RecordKeeps DEF SkipDigest, DeliveryAnswered
  <1>4. ASSUME NEW t \in Ticker, \E x \in run[t].due : BuildDigest(t, x)
        PROVE  DigestIInv'
    BY <1>4, BuildDigestKeeps
  <1>5. ASSUME NEW t \in Ticker, \E arrives \in BOOLEAN : PostDigest(t, arrives)
        PROVE  DigestIInv'
    BY <1>5, PostDigestKeeps
  <1>6. ASSUME NEW d \in 1..MaxDay, NEW hour1 \in HourOfDay, NextTopOfHour([day |-> d, hour |-> hour1])
        PROVE  DigestIInv'
    BY <1>6, NextTopOfHourKeeps
  <1>7. CASE UNCHANGED digestVars
    BY <1>7
    DEF digestVars, DigestIInv, DigestTypeOK, DigestRows, OneInHand, OneClaim, PendingClaimed,
        PostedClaimed, PostedOnce, DigestsComplete, DigestOf, Pending, Waiting, Claimed
  <1> QED
    BY <1>1, <1>2, <1>3, <1>4, <1>5, <1>6, <1>7 DEF DigestNext, RunDueNext

(* Nothing has been claimed or posted to begin with (DigestInit). *)
LEMMA DigestInitHolds == DigestInit => DigestIInv
  <1> SUFFICES ASSUME DigestInit
               PROVE  DigestIInv
    OBVIOUS
  <1>1. \A t \in Ticker : run[t] = NoRun
    BY DEF DigestInit
  <1>2. \A h \in House, d \in 1..MaxDay : posts[h][d] = 0
    BY DEF DigestInit
  <1>3. run \in [Ticker -> RunRow] /\ posts \in [House -> [1..MaxDay -> Nat]] /\ changes \in Nat
    BY NoRunType DEF DigestInit
  <1>4. DigestTypeOK
    <2>1. settings \in [House -> SettingsRow]
      BY DigestAssumption DEF DigestInit, SettingsRow
    <2>2. now \in [day : 1..MaxDay, hour : HourOfDay] /\ expires \in [Crate -> ExpiryDay \cup {Unset}]
      BY DigestAssumption DEF DigestInit
    <2> QED
      BY <1>3, <2>1, <2>2 DEF DigestTypeOK, SettingsRow, RunRow
  <1>5. DigestRows /\ OneInHand /\ OneClaim /\ PendingClaimed /\ DigestsComplete
    BY <1>1, <1>3, NoRunType
    DEF DigestRows, OneInHand, OneClaim, PendingClaimed, DigestsComplete, Pending, Waiting
  <1>6. PostedClaimed /\ PostedOnce
    BY <1>2 DEF PostedClaimed, PostedOnce
  <1> QED
    BY <1>4, <1>5, <1>6 DEF DigestIInv

(* The invariant of the claims holds for every number of storages, processes and days. *)
THEOREM DigestInvariant == DigestSpec => []DigestIInv
  <1>1. DigestInit => DigestIInv
    BY DigestInitHolds
  <1>2. DigestIInv /\ [DigestNext]_digestVars => DigestIInv'
    BY DigestStepKeeps
  <1> QED
    BY <1>1, <1>2, PTL DEF DigestSpec

(* A storage is notified at most once for a day, whatever processes, restarts and
   clocks do, and a digest names what was due when it was read and nothing else
   (ClaimDueNotifications, runOne). *)
THEOREM NotifiedOncePerDay == DigestSpec => []OneDigestPerDay
  <1>1. DigestIInv => OneDigestPerDay
    BY DEF DigestIInv, PostedOnce, DigestsComplete, DigestOf, OneDigestPerDay
  <1> QED
    BY <1>1, DigestInvariant, PTL

-----------------------------------------------------------------------------
(* Shopping lists, the reorder list and their pictures.  A line or a product that a
   request has locked stays as the request found it; a picture on disk belongs to
   one request or to one product. *)

LineStatus == {"absent", "exact_match", "ambiguous", "new_item", "resolved"}

LineRow == [status : LineStatus, text : Nat, match : Ware \cup {None}, quantity : Nat]

WareRow == [picture : Picture \cup {None}, minStock : {0, 1}]

RequestRow ==
    [phase : {"idle", "picture", "ready", "locked", "cleanup"},
     kind : {None, "resolve", "track", "image", "convert"}, line : Line \cup {None},
     job : PhotoJob \cup {None}, ware : Ware \cup {None}, new : BOOLEAN, quantity : Nat,
     picture : Picture \cup {None}, previous : LineStatus \cup {0, 1, None}]

\* What a request has, by what it asks for and how far it is.
WellFormed(r) ==
    /\ r \in RequestRow
    /\ r.kind = "resolve" <=> r.line # None
    /\ r.kind = "convert" => r.job # None /\ r.phase \in {"ready", "cleanup"} /\ r.picture = None
    /\ r.phase = "locked" => r.kind \in {"resolve", "track", "image"}
    /\ r.phase = "cleanup" => r.kind = "convert"
    /\ r.phase \in {"idle", "picture"} => r.picture = None
    /\ r.kind \in {"resolve", "track"} /\ ~r.new => r.picture = None /\ r.phase # "picture"
    /\ r.phase = "picture" => r.kind \in {"resolve", "track", "image"}
    /\ r.phase = "locked" /\ r.kind # "resolve" => ~r.new

ShoppingRows ==
    /\ line \in [Line -> LineRow]
    /\ ware \in [Wares -> WareRow]
    /\ DOMAIN request = Shopper /\ \A s \in Shopper : WellFormed(request[s])
    /\ stocked \in [Line -> Nat] /\ lists \in [PhotoJob \cup ListJob -> Nat]
    /\ rises \in [Ware -> Nat] /\ credits \in [Ware -> Nat] /\ requests \in Nat

(* The line a request is about is there. *)
NamedLines == \A s \in Shopper : request[s].kind = "resolve" => line[request[s].line].status # "absent"

HoldsLine(s) == request[s].phase = "locked" /\ request[s].kind = "resolve"
HoldsWare(s) == request[s].phase = "locked" /\ request[s].kind # "resolve"

(* A locked line is open and locked once. *)
LineLocks ==
    /\ \A s \in Shopper : HoldsLine(s) => line[request[s].line].status # "resolved"
    /\ \A s, r \in Shopper : HoldsLine(s) /\ HoldsLine(r) /\ request[s].line = request[r].line => s = r

(* A locked product is there, tracked or not as it was, and locked once. *)
WareLocks ==
    /\ \A s \in Shopper : HoldsWare(s) =>
         /\ request[s].ware \in Wares
         /\ request[s].kind = "track" => request[s].previous = ware[request[s].ware].minStock
    /\ \A s, r \in Shopper : HoldsWare(s) /\ HoldsWare(r) /\ request[s].ware = request[r].ware => s = r

LinesSettled == \A l \in Line : LineSettled(l)

ListsOnce == \A j \in PhotoJob : lists[j] <= 1 /\ (lists[j] = 1 => jobStatus[j] = "gone")

(* A picture a request has saved is its own, and on disk. *)
SavedPictures ==
    \A s \in Shopper : LET f == request[s].picture IN f # None =>
        /\ f \in disk
        /\ \A r \in Shopper : request[r].picture = f => r = s
        /\ \A w \in Wares : ware[w].picture # f

(* A picture a product names is its own, and on disk unless its commit was answered
   with an error. *)
NamedPictures ==
    \A w \in Wares : LET f == ware[w].picture IN f # None =>
        /\ f \in spent
        /\ \A x \in Wares : ware[x].picture = f => x = w
        /\ w \notin blind => f \in disk

CreditsEven == \A w \in Ware : credits[w] = rises[w]

ShoppingIInv ==
    /\ ShoppingTypeOK /\ ShoppingRows /\ NamedLines /\ LineLocks /\ WareLocks /\ LinesSettled
    /\ ListsOnce /\ SavedPictures /\ NamedPictures /\ CreditsEven

(* Locks stand where no request takes one and the locked rows stay as they are. *)
LEMMA LocksKept ==
    ASSUME ShoppingIInv,
           \A s \in Shopper : request'[s] = request[s] \/ request'[s].phase # "locked",
           \A s \in Shopper : HoldsLine(s) /\ request'[s] = request[s] =>
               line'[request[s].line].status = line[request[s].line].status,
           \A s \in Shopper : HoldsWare(s) /\ request'[s] = request[s] =>
               /\ request[s].ware \in DOMAIN ware'
               /\ ware'[request[s].ware].minStock = ware[request[s].ware].minStock
    PROVE  LineLocks' /\ WareLocks'
  <1>1. \A s \in Shopper : (HoldsLine(s) \/ HoldsWare(s))' => request'[s] = request[s]
    BY DEF HoldsLine, HoldsWare
  <1>2. LineLocks'
    BY <1>1 DEF ShoppingIInv, LineLocks, HoldsLine
  <1>3. WareLocks'
    BY <1>1 DEF ShoppingIInv, WareLocks, HoldsWare, Wares
  <1> QED
    BY <1>2, <1>3

(* Pictures stand where nobody gets one and only those are removed that neither a
   request nor a product with an answer has. *)
LEMMA PicturesKept ==
    ASSUME ShoppingIInv,
           \A s \in Shopper : request'[s].picture \in {request[s].picture, None},
           \A w \in DOMAIN ware' : w \in Wares /\ ware'[w].picture = ware[w].picture,
           \A w \in DOMAIN ware' : w \notin blind' => w \notin blind,
           spent \subseteq spent',
           \A f \in disk : f \notin disk' =>
               /\ \A s \in Shopper : request'[s].picture # f
               /\ \A w \in DOMAIN ware' : ware'[w].picture # f
    PROVE  SavedPictures' /\ NamedPictures'
  <1>1. SavedPictures'
    <2> SUFFICES ASSUME NEW s \in Shopper, request'[s].picture # None
                 PROVE  /\ request'[s].picture \in disk'
                        /\ \A r \in Shopper : request'[r].picture = request'[s].picture => r = s
                        /\ \A w \in DOMAIN ware' : ware'[w].picture # request'[s].picture
      BY DEF SavedPictures, Wares
    <2>1. request'[s].picture = request[s].picture
      OBVIOUS
    <2>2. /\ request[s].picture \in disk
          /\ \A r \in Shopper : request[r].picture = request[s].picture => r = s
          /\ \A w \in Wares : ware[w].picture # request[s].picture
      BY <2>1 DEF ShoppingIInv, SavedPictures
    <2> QED
      BY <2>1, <2>2
  <1>2. NamedPictures'
    <2> SUFFICES ASSUME NEW w \in DOMAIN ware', ware'[w].picture # None
                 PROVE  /\ ware'[w].picture \in spent'
                        /\ \A x \in DOMAIN ware' : ware'[x].picture = ware'[w].picture => x = w
                        /\ w \notin blind' => ware'[w].picture \in disk'
      BY DEF NamedPictures, Wares
    <2>1. w \in Wares /\ ware'[w].picture = ware[w].picture
      OBVIOUS
    <2>2. /\ ware[w].picture \in spent
          /\ \A x \in Wares : ware[x].picture = ware[w].picture => x = w
          /\ w \notin blind => ware[w].picture \in disk
      BY <2>1 DEF ShoppingIInv, NamedPictures
    <2> QED
      BY <2>1, <2>2
  <1> QED
    BY <1>1, <1>2

(* A product gets the picture of the request that made or pictured it, and the file
   goes if the answer was lost (Answered). *)
LEMMA PictureGiven ==
    ASSUME ShoppingIInv, NEW s \in Shopper, NEW w, NEW lost \in BOOLEAN,
           request'[s].picture = None, \A r \in Shopper : r # s => request'[r] = request[r],
           DOMAIN ware' = Wares \cup {w}, ware'[w].picture = request[s].picture,
           \A x \in Wares : x # w => ware'[x].picture = ware[x].picture,
           disk' = IF lost THEN disk \ {request[s].picture} ELSE disk,
           blind' = IF lost /\ request[s].picture # None THEN blind \cup {w} ELSE blind,
           spent' = spent
    PROVE  SavedPictures' /\ NamedPictures'
  <1> DEFINE f == request[s].picture
  <1>1. f # None => /\ f \in disk
                    /\ \A r \in Shopper : request[r].picture = f => r = s
                    /\ \A x \in Wares : ware[x].picture # f
    BY DEF ShoppingIInv, SavedPictures
  <1>2. disk \subseteq spent
    BY DEF ShoppingIInv, ShoppingTypeOK
  <1>3. ASSUME NEW r \in Shopper, request'[r].picture # None
        PROVE  /\ r # s /\ request'[r] = request[r] /\ request[r].picture # f
               /\ request[r].picture \in disk'
               /\ \A q \in Shopper : request'[q].picture = request[r].picture => q = r
               /\ \A x \in DOMAIN ware' : ware'[x].picture # request[r].picture
    <2>1. r # s /\ request'[r] = request[r]
      BY <1>3
    <2>2. /\ request[r].picture \in disk
          /\ \A q \in Shopper : request[q].picture = request[r].picture => q = r
          /\ \A x \in Wares : ware[x].picture # request[r].picture
      BY <1>3, <2>1 DEF ShoppingIInv, SavedPictures
    <2>3. request[r].picture # f
      BY <2>1, <2>2
    <2> QED
      BY <1>3, <2>1, <2>2, <2>3
  <1>4. SavedPictures'
    BY <1>3 DEF SavedPictures, Wares
  <1>5. NamedPictures'
    <2> SUFFICES ASSUME NEW x \in DOMAIN ware', ware'[x].picture # None
                 PROVE  /\ ware'[x].picture \in spent
                        /\ \A y \in DOMAIN ware' : ware'[y].picture = ware'[x].picture => y = x
                        /\ x \notin blind' => ware'[x].picture \in disk'
      BY DEF NamedPictures, Wares
    <2>1. CASE x = w
      BY <1>1, <1>2, <2>1
    <2>2. CASE x # w
      <3>1. x \in Wares /\ ware'[x].picture = ware[x].picture
        BY <2>2
      <3>2. /\ ware[x].picture \in spent
            /\ \A y \in Wares : ware[y].picture = ware[x].picture => y = x
            /\ x \notin blind => ware[x].picture \in disk
        BY <3>1 DEF ShoppingIInv, NamedPictures
      <3>3. ware[x].picture # f
        BY <1>1, <3>1
      <3> QED
        BY <2>2, <3>1, <3>2, <3>3
    <2> QED
      BY <2>1, <2>2
  <1> QED
    BY <1>4, <1>5

(* A request that is not being served has a row too. *)
LEMMA NoRequestType ==
    /\ WellFormed(NoRequest) /\ NoRequest.phase = "idle" /\ NoRequest.picture = None
    /\ NoRequest.kind = None
  <1>1. NoRequest \in RequestRow
    BY DEF NoRequest, RequestRow
  <1>2. /\ NoRequest.phase = "idle" /\ NoRequest.kind = None /\ NoRequest.line = None
        /\ NoRequest.picture = None
    BY DEF NoRequest
  <1>3. None # "resolve" /\ None # "track" /\ None # "convert"
    BY ShoppingAssumption
  <1> HIDE DEF NoRequest
  <1> QED
    BY <1>1, <1>2, <1>3 DEF WellFormed

(* Lines nobody has locked are made or matched anew, and jobs go their way. *)
LEMMA LinesStep ==
    ASSUME ShoppingIInv,
           UNCHANGED <<ware, disk, request, stocked, rises, credits, blind, made, spent, requests>>,
           line' \in [Line -> LineRow], \A l \in Line : line'[l].match \in Wares \cup {None},
           \A l \in Line :
               \/ line'[l] = line[l]
               \/ /\ ~LineHeld(l) /\ line[l].status # "resolved"
                  /\ line'[l].status \notin {"absent", "resolved"},
           jobStatus' \in [PhotoJob \cup ListJob -> {"absent", "pending", "done", "gone"}],
           photos' \subseteq PhotoJob \cup ListJob, lists' \in [PhotoJob \cup ListJob -> Nat], ListsOnce'
    PROVE  ShoppingIInv'
  <1>1. LineLocks' /\ WareLocks'
    <2>1. \A s \in Shopper : HoldsLine(s) => request[s].line \in Line /\ LineHeld(request[s].line)
      BY DEF HoldsLine, LineHeld, ShoppingIInv, ShoppingRows, WellFormed, RequestRow
    <2>2. \A s \in Shopper : HoldsWare(s) => request[s].ware \in Wares
      BY DEF ShoppingIInv, WareLocks
    <2> QED
      BY <2>1, <2>2, LocksKept DEF Wares
  <1>2. SavedPictures' /\ NamedPictures'
    BY PicturesKept DEF Wares
  <1>3. NamedLines'
    <2>1. \A s \in Shopper : request[s].kind = "resolve" => request[s].line \in Line
      BY DEF ShoppingIInv, ShoppingRows, WellFormed, RequestRow
    <2> QED
      BY <2>1 DEF ShoppingIInv, NamedLines
  <1>4. LinesSettled'
    BY DEF ShoppingIInv, LinesSettled, LineSettled
  <1>5. ShoppingRows' /\ CreditsEven'
    BY DEF ShoppingIInv, ShoppingRows, CreditsEven, Wares
  <1>6. ShoppingTypeOK'
    BY DEF ShoppingIInv, ShoppingTypeOK, Wares, LineRow, LineStatus
  <1> QED
    BY <1>1, <1>2, <1>3, <1>4, <1>5, <1>6 DEF ShoppingIInv

(* A matched line is a row (NewLine). *)
LEMMA NewLineType ==
    ASSUME ShoppingIInv, NEW t \in Amount, NEW m \in Matches
    PROVE  /\ NewLine(t, m) \in LineRow /\ NewLine(t, m).match \in Wares \cup {None}
           /\ NewLine(t, m).status \notin {"absent", "resolved"} /\ NewLine(t, m).quantity = 0
  <1>1. m.status \in {"exact_match", "ambiguous", "new_item"} /\ m.match \in Wares \cup {None}
    BY DEF Matches
  <1>2. t \in Nat /\ Wares \subseteq Ware
    BY ShoppingAssumption DEF ShoppingIInv, ShoppingTypeOK
  <1> QED
    BY <1>1, <1>2 DEF NewLine, LineRow, LineStatus

(* A line that is fresh is locked by nobody (FreshLine). *)
LEMMA FreshLineFree ==
    ASSUME ShoppingIInv, NEW l \in Line, FreshLine(l)
    PROVE  line[l].status = "absent" /\ ~LineHeld(l)
  <1>1. line[l].status = "absent"
    BY DEF FreshLine, Lowest
  <1>2. ASSUME NEW s \in Shopper, request[s].line = l
        PROVE  FALSE
    <2>1. l # None
      BY ShoppingAssumption
    <2>2. request[s].kind = "resolve"
      BY <1>2, <2>1 DEF ShoppingIInv, ShoppingRows, WellFormed
    <2> QED
      BY <1>1, <1>2, <2>2 DEF ShoppingIInv, NamedLines
  <1> QED
    BY <1>1, <1>2 DEF LineHeld

(* A list is typed in, and a line is matched anew (CreateShoppingList,
   RematchShoppingListItem). *)
LEMMA LinesNextKeeps ==
    ASSUME ShoppingIInv, LinesNext(Line)
    PROVE  ShoppingIInv'
  <1>0. PICK l \in Line, t \in Amount, m \in Matches :
          CreateShoppingList(l, t, m) \/ RematchShoppingListItem(l, t, m)
    BY DEF LinesNext
  <1> DEFINE old == line[l]
             new == IF CreateShoppingList(l, t, m) THEN NewLine(t, m)
                    ELSE [NewLine(t, m) EXCEPT !.quantity = line[l].quantity]
  <1>1. /\ line \in [Line -> LineRow] /\ \A k \in Line : line[k].match \in Wares \cup {None}
        /\ jobStatus \in [PhotoJob \cup ListJob -> {"absent", "pending", "done", "gone"}]
        /\ photos \subseteq PhotoJob \cup ListJob /\ lists \in [PhotoJob \cup ListJob -> Nat]
    BY DEF ShoppingIInv, ShoppingTypeOK, ShoppingRows
  <1>2. NewLine(t, m) \in LineRow /\ NewLine(t, m).match \in Wares \cup {None}
        /\ NewLine(t, m).status \notin {"absent", "resolved"}
    BY NewLineType
  <1>3. line[l] \in LineRow /\ line[l].quantity \in Nat
    BY <1>1 DEF LineRow
  <1>4. /\ new \in LineRow /\ new.match \in Wares \cup {None} /\ new.status \notin {"absent", "resolved"}
    BY <1>2, <1>3 DEF LineRow
  <1>5. line' = [line EXCEPT ![l] = new]
    BY <1>0 DEF CreateShoppingList, RematchShoppingListItem
  <1>6. UNCHANGED <<ware, jobStatus, photos, disk, request, stocked, rises, credits, lists, blind,
                    made, spent, requests>>
    BY <1>0 DEF CreateShoppingList, RematchShoppingListItem, tally
  <1>7. ~LineHeld(l) /\ line[l].status # "resolved"
    <2>1. CASE CreateShoppingList(l, t, m)
      <3>1. FreshLine(l)
        BY <2>1 DEF CreateShoppingList
      <3> QED
        BY <3>1, FreshLineFree
    <2>2. CASE RematchShoppingListItem(l, t, m)
      BY <2>2 DEF RematchShoppingListItem
    <2> QED
      BY <1>0, <2>1, <2>2
  <1>8. ListsOnce'
    BY <1>6 DEF ShoppingIInv, ListsOnce
  <1> HIDE DEF new
  <1>9. /\ line' \in [Line -> LineRow] /\ line'[l] = new /\ \A k \in Line : k # l => line'[k] = line[k]
    BY <1>1, <1>4, <1>5
  <1> QED
    BY <1>1, <1>4, <1>6, <1>7, <1>8, <1>9, LinesStep

(* Photos of lists are read, and proposals reviewed elsewhere (StartShoppingList,
   ListWork, ReviewElsewhere). *)
LEMMA ListJobsKeep ==
    ASSUME ShoppingIInv,
           \/ \E j \in ListJob : StartShoppingList(j)
           \/ \E j \in PhotoJob : ReviewElsewhere(j)
           \/ \E l \in Line, t \in Amount, m \in Matches, j \in ListJob, outcome \in {"done", "pending"} :
                ListWork(j, l, t, m, outcome)
    PROVE  ShoppingIInv'
  <1>1. /\ line \in [Line -> LineRow] /\ \A k \in Line : line[k].match \in Wares \cup {None}
        /\ jobStatus \in [PhotoJob \cup ListJob -> {"absent", "pending", "done", "gone"}]
        /\ photos \subseteq PhotoJob \cup ListJob /\ lists \in [PhotoJob \cup ListJob -> Nat]
    BY DEF ShoppingIInv, ShoppingTypeOK, ShoppingRows
  <1>2. \A j \in PhotoJob : lists[j] <= 1 /\ (lists[j] = 1 => jobStatus[j] = "gone")
    BY DEF ShoppingIInv, ListsOnce
  <1>3. ASSUME NEW j \in ListJob, StartShoppingList(j)
        PROVE  ShoppingIInv'
    <2>1. /\ jobStatus' = [jobStatus EXCEPT ![j] = "pending"] /\ photos' = photos \cup {j}
          /\ UNCHANGED <<ware, line, disk, request, stocked, rises, credits, lists, blind, made, spent, requests>>
      BY <1>3 DEF StartShoppingList, tally
    <2>2. ListsOnce'
      BY <1>1, <1>2, <2>1, ShoppingAssumption DEF ListsOnce
    <2> QED
      BY <1>1, <2>1, <2>2, LinesStep
  <1>4. ASSUME NEW j \in PhotoJob, ReviewElsewhere(j)
        PROVE  ShoppingIInv'
    <2>1. PICK x \in {"gone", "pending", "done"} :
            jobStatus[j] # "gone" /\ jobStatus' = [jobStatus EXCEPT ![j] = x]
      BY <1>4 DEF ReviewElsewhere
    <2>2. UNCHANGED <<ware, line, photos, disk, request, stocked, rises, credits, lists, blind, made, spent, requests>>
      BY <1>4 DEF ReviewElsewhere, tally
    <2>3. ListsOnce'
      BY <1>1, <1>2, <2>1, <2>2 DEF ListsOnce
    <2> QED
      BY <1>1, <2>1, <2>2, <2>3, LinesStep
  <1>5. ASSUME NEW l \in Line, NEW t \in Amount, NEW m \in Matches, NEW j \in ListJob,
               NEW outcome \in {"done", "pending"}, ListWork(j, l, t, m, outcome)
        PROVE  ShoppingIInv'
    <2> DEFINE new == NewLine(t, m)
    <2>1. /\ line' = [line EXCEPT ![l] = new] /\ lists' = [lists EXCEPT ![j] = @ + 1]
          /\ jobStatus' = [jobStatus EXCEPT ![j] = outcome] /\ FreshLine(l)
          /\ UNCHANGED <<ware, photos, disk, request, stocked, rises, credits, blind, made, spent, requests>>
      BY <1>5 DEF ListWork, tally
    <2>2. /\ new \in LineRow /\ new.match \in Wares \cup {None} /\ new.status \notin {"absent", "resolved"}
      BY NewLineType
    <2> HIDE DEF new
    <2>3. line[l].status = "absent" /\ ~LineHeld(l)
      BY <2>1, FreshLineFree
    <2>4. line' \in [Line -> LineRow] /\ line'[l] = new /\ \A k \in Line : k # l => line'[k] = line[k]
      BY <1>1, <2>1, <2>2
    <2>5. ListsOnce'
      BY <1>1, <1>2, <2>1, ShoppingAssumption DEF ListsOnce
    <2>6. /\ jobStatus' \in [PhotoJob \cup ListJob -> {"absent", "pending", "done", "gone"}]
          /\ lists' \in [PhotoJob \cup ListJob -> Nat]
      BY <1>1, <2>1
    <2> QED
      BY <1>1, <2>1, <2>2, <2>3, <2>4, <2>5, <2>6, LinesStep
  <1> QED
    BY <1>3, <1>4, <1>5

(* One request goes on without taking a lock. *)
LEMMA RequestMoves ==
    ASSUME ShoppingIInv, NEW s \in Shopper, NEW row, WellFormed(row), row.phase # "locked",
           request' = [request EXCEPT ![s] = row],
           UNCHANGED <<ware, line, jobStatus, stocked, rises, credits, lists, blind, made>>,
           photos' \subseteq PhotoJob \cup ListJob, requests' \in Nat,
           disk' \subseteq spent', spent' \subseteq Picture,
           row.kind = "resolve" => line[row.line].status # "absent",
           SavedPictures', NamedPictures'
    PROVE  ShoppingIInv'
  <1>1. DOMAIN request = Shopper /\ \A r \in Shopper : WellFormed(request[r])
    BY DEF ShoppingIInv, ShoppingRows
  <1>2. request'[s] = row /\ \A r \in Shopper : r # s => request'[r] = request[r]
    BY <1>1
  <1>3. DOMAIN request' = Shopper /\ \A r \in Shopper : WellFormed(request'[r])
    BY <1>1, <1>2
  <1>4. LineLocks' /\ WareLocks'
    <2>1. \A r \in Shopper : HoldsWare(r) => request[r].ware \in DOMAIN ware'
      BY DEF ShoppingIInv, WareLocks, Wares
    <2>2. \A r \in Shopper : request'[r] = request[r] \/ request'[r].phase # "locked"
      BY <1>2
    <2> QED
      BY <2>1, <2>2, LocksKept
  <1>5. NamedLines'
    BY <1>2 DEF ShoppingIInv, NamedLines
  <1>6. LinesSettled' /\ ListsOnce' /\ CreditsEven'
    BY DEF ShoppingIInv, LinesSettled, LineSettled, ListsOnce, CreditsEven
  <1>7. ShoppingRows'
    BY <1>3 DEF ShoppingIInv, ShoppingRows, Wares
  <1>8. ShoppingTypeOK'
    BY DEF ShoppingIInv, ShoppingTypeOK, Wares
  <1> QED
    BY <1>4, <1>5, <1>6, <1>7, <1>8 DEF ShoppingIInv

(* A request that begins has no picture yet (BeginRequest). *)
LEMMA BeginRequestKeeps ==
    ASSUME ShoppingIInv, NEW s \in Shopper, NEW row, BeginRequest(s, row), WellFormed(row),
           row.phase # "locked", row.picture = None,
           row.kind = "resolve" => line[row.line].status # "absent"
    PROVE  ShoppingIInv'
  <1>1. /\ request' = [request EXCEPT ![s] = row] /\ requests' = requests + 1
        /\ UNCHANGED <<ware, line, jobStatus, photos, disk, stocked, rises, credits, lists, blind, made, spent>>
    BY DEF BeginRequest, tally
  <1>2. DOMAIN request = Shopper /\ requests \in Nat
    BY DEF ShoppingIInv, ShoppingRows
  <1>3. \A r \in Shopper : request'[r].picture \in {request[r].picture, None}
    BY <1>1, <1>2
  <1>4. SavedPictures' /\ NamedPictures'
    BY <1>1, <1>3, PicturesKept DEF Wares
  <1>5. photos \subseteq PhotoJob \cup ListJob /\ disk \subseteq spent /\ spent \subseteq Picture
    BY DEF ShoppingIInv, ShoppingTypeOK
  <1>6. requests' \in Nat
    BY <1>1, <1>2
  <1> QED
    BY <1>1, <1>4, <1>5, <1>6, RequestMoves

(* The requests of more than one step begin (Resolve, AddItem, SetImage,
   CreateFromJob). *)
LEMMA RequestsBegin ==
    ASSUME ShoppingIInv, NEW s \in Shopper,
           \/ \E l \in Line, w \in Wares \cup {None}, new \in BOOLEAN, q \in Amount \cup {0} :
                Resolve(s, l, w, new, q)
           \/ \E w \in Wares \cup {None}, new \in BOOLEAN : AddItem(s, w, new)
           \/ \E w \in Wares : SetImage(s, w)
           \/ \E j \in PhotoJob : CreateFromJob(s, j)
    PROVE  ShoppingIInv'
  <1>0. /\ Wares \subseteq Ware /\ NoRequest \in RequestRow /\ Amount \subseteq Nat
        /\ None # "resolve" /\ None # "track" /\ None # "convert" /\ None \notin Line /\ None \notin PhotoJob
    BY NoRequestType, ShoppingAssumption DEF ShoppingIInv, ShoppingTypeOK, WellFormed
  <1>1. ASSUME NEW l \in Line, NEW w \in Wares \cup {None}, NEW new \in BOOLEAN, NEW q \in Amount \cup {0},
               Resolve(s, l, w, new, q)
        PROVE  ShoppingIInv'
    <2> DEFINE phase == IF new THEN "picture" ELSE "ready"
               row == [NoRequest EXCEPT !.phase = phase, !.kind = "resolve", !.line = l, !.ware = w,
                                        !.new = new, !.quantity = q]
    <2>1. BeginRequest(s, row) /\ line[l].status # "absent"
      BY <1>1 DEF Resolve
    <2>2. phase \in {"picture", "ready"} /\ (phase = "picture" <=> new)
      OBVIOUS
    <2> HIDE DEF phase
    <2>3. /\ row.phase = phase /\ row.kind = "resolve" /\ row.line = l /\ row.new = new
          /\ row.picture = None
      BY DEF NoRequest
    <2>4. row \in RequestRow
      <3>1. q \in Nat /\ w \in Ware \cup {None} /\ l \in Line \cup {None}
        BY <1>0
      <3> QED
        BY <1>0, <2>2, <3>1 DEF RequestRow
    <2> HIDE DEF row
    <2>5. WellFormed(row)
      BY <1>0, <2>2, <2>3, <2>4 DEF WellFormed
    <2> QED
      BY <2>1, <2>2, <2>3, <2>5, BeginRequestKeeps
  <1>2. ASSUME NEW w \in Wares \cup {None}, NEW new \in BOOLEAN, AddItem(s, w, new)
        PROVE  ShoppingIInv'
    <2> DEFINE phase == IF new THEN "picture" ELSE "ready"
               row == [NoRequest EXCEPT !.phase = phase, !.kind = "track", !.ware = w, !.new = new]
    <2>1. BeginRequest(s, row)
      BY <1>2 DEF AddItem
    <2>2. phase \in {"picture", "ready"} /\ (phase = "picture" <=> new)
      OBVIOUS
    <2> HIDE DEF phase
    <2>3. /\ row.phase = phase /\ row.kind = "track" /\ row.line = None /\ row.new = new
          /\ row.picture = None
      BY DEF NoRequest
    <2>4. row \in RequestRow
      BY <1>0, <2>2 DEF RequestRow
    <2> HIDE DEF row
    <2>5. WellFormed(row)
      BY <1>0, <2>2, <2>3, <2>4 DEF WellFormed
    <2> QED
      BY <2>1, <2>2, <2>3, <2>5, BeginRequestKeeps
  <1>3. ASSUME NEW w \in Wares, SetImage(s, w)
        PROVE  ShoppingIInv'
    <2> DEFINE row == [NoRequest EXCEPT !.phase = "picture", !.kind = "image", !.ware = w]
    <2>1. BeginRequest(s, row)
      BY <1>3 DEF SetImage
    <2>3. /\ row.phase = "picture" /\ row.kind = "image" /\ row.line = None /\ row.picture = None
      BY DEF NoRequest
    <2>4. row \in RequestRow
      BY <1>0 DEF RequestRow
    <2> HIDE DEF row
    <2>5. WellFormed(row)
      BY <1>0, <2>3, <2>4 DEF WellFormed
    <2> QED
      BY <2>1, <2>3, <2>5, BeginRequestKeeps
  <1>4. ASSUME NEW j \in PhotoJob, CreateFromJob(s, j)
        PROVE  ShoppingIInv'
    <2> DEFINE row == [NoRequest EXCEPT !.phase = "ready", !.kind = "convert", !.job = j]
    <2>1. BeginRequest(s, row)
      BY <1>4 DEF CreateFromJob
    <2>3. /\ row.phase = "ready" /\ row.kind = "convert" /\ row.line = None /\ row.picture = None
          /\ row.job = j
      BY DEF NoRequest
    <2>4. row \in RequestRow
      BY <1>0 DEF RequestRow
    <2> HIDE DEF row
    <2>5. WellFormed(row)
      BY <1>0, <2>3, <2>4 DEF WellFormed
    <2> QED
      BY <2>1, <2>3, <2>5, BeginRequestKeeps
  <1> QED
    BY <1>1, <1>2, <1>3, <1>4

(* A request ends without a commit: refused, crashed, or after its photo was removed
   (RefuseRequest, CrashRequest, RemovePhoto). *)
LEMMA RequestsEnd ==
    ASSUME ShoppingIInv, NEW s \in Shopper, RefuseRequest(s) \/ CrashRequest(s) \/ RemovePhoto(s)
    PROVE  ShoppingIInv'
  <1>1. /\ request' = [request EXCEPT ![s] = NoRequest] /\ photos' \subseteq photos
        /\ disk' = disk \/ disk' = disk \ {request[s].picture}
        /\ UNCHANGED <<ware, line, jobStatus, stocked, rises, credits, lists, blind, made, spent, requests>>
    BY DEF RefuseRequest, CrashRequest, RemovePhoto, tally
  <1>2. DOMAIN request = Shopper /\ requests \in Nat
    BY DEF ShoppingIInv, ShoppingRows
  <1>3. request'[s].picture = None /\ \A r \in Shopper : r # s => request'[r] = request[r]
    BY <1>1, <1>2, NoRequestType
  <1>4. \A f \in disk : f \notin disk' =>
          /\ \A r \in Shopper : request'[r].picture # f
          /\ \A w \in Wares : ware[w].picture # f
    <2> SUFFICES ASSUME NEW f \in disk, f = request[s].picture
                 PROVE  /\ \A r \in Shopper : request'[r].picture # f
                        /\ \A w \in Wares : ware[w].picture # f
      BY <1>1
    <2>1. f # None
      BY ShoppingAssumption DEF ShoppingIInv, ShoppingTypeOK
    <2> QED
      BY <1>3, <2>1 DEF ShoppingIInv, SavedPictures
  <1>5. SavedPictures' /\ NamedPictures'
    BY <1>1, <1>3, <1>4, PicturesKept DEF Wares
  <1>6. photos' \subseteq PhotoJob \cup ListJob /\ disk' \subseteq spent /\ spent \subseteq Picture
    BY <1>1 DEF ShoppingIInv, ShoppingTypeOK
  <1>7. NoRequest.kind # "resolve"
    BY NoRequestType, ShoppingAssumption
  <1> QED
    BY <1>1, <1>2, <1>5, <1>6, <1>7, NoRequestType, RequestMoves

(* A picture is saved under a name nobody has (PromotePicture). *)
LEMMA PromotePictureKeeps ==
    ASSUME ShoppingIInv, NEW s \in Shopper, NEW f \in Picture \cup {None}, PromotePicture(s, f)
    PROVE  ShoppingIInv'
  <1> DEFINE row == [request[s] EXCEPT !.phase = "ready", !.picture = f]
  <1>1. /\ request[s].phase = "picture" /\ (f = None \/ (f \in Picture /\ f \notin spent))
        /\ disk' = disk \cup ({f} \ {None}) /\ spent' = spent \cup ({f} \ {None})
        /\ UNCHANGED <<ware, line, jobStatus, photos, stocked, rises, credits, lists, blind, made, requests>>
    BY DEF PromotePicture, FreshPicture, Lowest, tally
  <1>2. DOMAIN request = Shopper /\ WellFormed(request[s]) /\ request[s] \in RequestRow /\ requests \in Nat
    BY DEF ShoppingIInv, ShoppingRows, WellFormed
  <1>3. request' = [request EXCEPT ![s] = row]
    BY <1>2 DEF PromotePicture
  <1>4. /\ row.phase = "ready" /\ row.picture = f /\ row.kind = request[s].kind /\ row.line = request[s].line
        /\ row.new = request[s].new /\ row.job = request[s].job
    BY <1>2 DEF RequestRow
  <1>5. row \in RequestRow
    BY <1>2 DEF RequestRow
  <1> HIDE DEF row
  <1>6. WellFormed(row)
    <2>1. request[s].kind \in {"resolve", "track", "image"}
      BY <1>1, <1>2 DEF WellFormed
    <2> QED
      BY <1>1, <1>2, <1>4, <1>5, <2>1 DEF WellFormed
  <1>7. request'[s] = row /\ \A r \in Shopper : r # s => request'[r] = request[r]
    BY <1>2, <1>3
  <1>8. disk \subseteq spent /\ spent \subseteq Picture
    BY DEF ShoppingIInv, ShoppingTypeOK
  <1>9. /\ \A r \in Shopper : request[r].picture # None => request[r].picture \in disk
        /\ \A w \in Wares : ware[w].picture # None => ware[w].picture \in spent
    BY DEF ShoppingIInv, SavedPictures, NamedPictures
  <1>10. SavedPictures'
    <2> SUFFICES ASSUME NEW r \in Shopper, request'[r].picture # None
                 PROVE  /\ request'[r].picture \in disk'
                        /\ \A q \in Shopper : request'[q].picture = request'[r].picture => q = r
                        /\ \A w \in Wares : ware[w].picture # request'[r].picture
      BY <1>1 DEF SavedPictures, Wares
    <2>1. CASE r = s
      BY <1>1, <1>4, <1>7, <1>8, <1>9, <2>1
    <2>2. CASE r # s
      <3>1. /\ request'[r] = request[r] /\ request[r].picture \in disk /\ request[r].picture # f
            /\ \A q \in Shopper : request[q].picture = request[r].picture => q = r
            /\ \A w \in Wares : ware[w].picture # request[r].picture
        BY <1>1, <1>7, <1>8, <1>9, <2>2 DEF ShoppingIInv, SavedPictures
      <3> QED
        BY <1>1, <1>4, <1>7, <2>2, <3>1
    <2> QED
      BY <2>1, <2>2
  <1>11. NamedPictures'
    BY <1>1 DEF ShoppingIInv, NamedPictures, Wares
  <1>12. row.kind = "resolve" => line[row.line].status # "absent"
    BY <1>4 DEF ShoppingIInv, NamedLines
  <1>13. photos' \subseteq PhotoJob \cup ListJob /\ disk' \subseteq spent' /\ spent' \subseteq Picture
    BY <1>1, <1>8 DEF ShoppingIInv, ShoppingTypeOK
  <1> QED
    BY <1>1, <1>2, <1>3, <1>4, <1>6, <1>10, <1>11, <1>12, <1>13, RequestMoves

(* A line is locked that is open, a product that is there, if nobody else has locked
   it (LockRow). *)
LEMMA LockRowKeeps ==
    ASSUME ShoppingIInv, NEW s \in Shopper, LockRow(s)
    PROVE  ShoppingIInv'
  <1> DEFINE r == request[s]
             previous == IF r.kind = "resolve" THEN line[r.line].status ELSE ware[r.ware].minStock
             row == [r EXCEPT !.phase = "locked", !.previous = previous]
  <1>1. /\ r.phase = "ready"
        /\ \/ r.kind = "resolve" /\ ~LineHeld(r.line) /\ LineOpen(r.line)
           \/ r.kind \in {"track", "image"} /\ ~r.new /\ r.ware \in Wares /\ ~WareHeld(r.ware)
        /\ UNCHANGED <<ware, line, jobStatus, photos, disk, stocked, rises, credits, lists, blind,
                       made, spent, requests>>
    BY DEF LockRow, tally
  <1>2. DOMAIN request = Shopper /\ WellFormed(r) /\ r \in RequestRow
    BY DEF ShoppingIInv, ShoppingRows, WellFormed
  <1>3. request' = [request EXCEPT ![s] = row]
    BY <1>1, <1>2 DEF LockRow
  <1>4. previous \in LineStatus \cup {0, 1}
    <2>1. CASE r.kind = "resolve"
      <3>1. r.line \in Line
        BY <1>2, <2>1 DEF WellFormed, RequestRow
      <3> QED
        BY <2>1, <3>1 DEF ShoppingIInv, ShoppingRows, LineRow
    <2>2. CASE r.kind # "resolve"
      BY <1>1, <2>2 DEF ShoppingIInv, ShoppingRows, WareRow
    <2> QED
      BY <2>1, <2>2
  <1>5. r.kind = "track" => previous = ware[r.ware].minStock
    OBVIOUS
  <1> HIDE DEF previous
  <1>6. /\ row.phase = "locked" /\ row.kind = r.kind /\ row.line = r.line /\ row.ware = r.ware
        /\ row.new = r.new /\ row.picture = r.picture /\ row.previous = previous /\ row.job = r.job
    BY <1>2 DEF RequestRow
  <1>7. row \in RequestRow
    BY <1>2, <1>4 DEF RequestRow
  <1> HIDE DEF row
  <1>8. WellFormed(row)
    BY <1>1, <1>2, <1>6, <1>7 DEF WellFormed
  <1>9. request'[s] = row /\ \A q \in Shopper : q # s => request'[q] = request[q]
    BY <1>2, <1>3
  <1>10. LineLocks'
    <2>1. r.kind = "resolve" => \A q \in Shopper : HoldsLine(q) => request[q].line # r.line
      BY <1>1 DEF HoldsLine, LineHeld
    <2>2. r.kind = "resolve" => line[r.line].status # "resolved"
      BY <1>1 DEF LineOpen
    <2> HIDE DEF r
    <2> QED
      BY <1>1, <1>6, <1>9, <2>1, <2>2 DEF ShoppingIInv, LineLocks, HoldsLine
  <1>11. WareLocks'
    <2>1. r.kind # "resolve" => \A q \in Shopper : HoldsWare(q) => request[q].ware # r.ware
      BY <1>1 DEF HoldsWare, WareHeld
    <2>2. r.kind # "resolve" => r.ware \in Wares
      BY <1>1
    <2> HIDE DEF r
    <2> QED
      BY <1>1, <1>5, <1>6, <1>9, <2>1, <2>2 DEF ShoppingIInv, WareLocks, HoldsWare, Wares
  <1>12. SavedPictures' /\ NamedPictures'
    <2>1. \A q \in Shopper : request'[q].picture \in {request[q].picture, None}
      BY <1>6, <1>9
    <2> QED
      BY <1>1, <2>1, PicturesKept DEF Wares
  <1>13. NamedLines'
    BY <1>1, <1>6, <1>9 DEF ShoppingIInv, NamedLines
  <1>14. LinesSettled' /\ ListsOnce' /\ CreditsEven'
    BY <1>1 DEF ShoppingIInv, LinesSettled, LineSettled, ListsOnce, CreditsEven
  <1>15. ShoppingRows'
    <2>1. DOMAIN request' = Shopper /\ \A q \in Shopper : WellFormed(request'[q])
      BY <1>2, <1>3, <1>8, <1>9 DEF ShoppingIInv, ShoppingRows
    <2> QED
      BY <1>1, <2>1 DEF ShoppingIInv, ShoppingRows, Wares
  <1>16. ShoppingTypeOK'
    BY <1>1 DEF ShoppingIInv, ShoppingTypeOK, Wares
  <1> QED
    BY <1>10, <1>11, <1>12, <1>13, <1>14, <1>15, <1>16 DEF ShoppingIInv

(* A commit ends its request and changes no row that another has locked
   (Answered). *)
LEMMA AnsweredKeeps ==
    ASSUME ShoppingIInv, NEW s \in Shopper, NEW w \in Ware \cup {None}, NEW lost, Answered(s, w, lost),
           request[s].picture # None => w \in Ware,
           line' \in [Line -> LineRow], \A l \in Line : line'[l].match \in DOMAIN ware' \cup {None},
           \A l \in Line : line'[l].status # line[l].status =>
               HoldsLine(s) /\ request[s].line = l /\ line'[l].status # "absent",
           ware' \in [DOMAIN ware' -> WareRow], Wares \subseteq DOMAIN ware',
           DOMAIN ware' \subseteq Wares \cup ({w} \ {None}),
           \A x \in Wares : ware'[x].minStock # ware[x].minStock =>
               HoldsWare(s) /\ request[s].ware = x,
           stocked' \in [Line -> Nat], rises' \in [Ware -> Nat], credits' \in [Ware -> Nat],
           LinesSettled', CreditsEven', SavedPictures', NamedPictures'
    PROVE  ShoppingIInv'
  <1>1. /\ request' = [request EXCEPT ![s] = NoRequest] /\ made' = made \cup ({w} \ {None})
        /\ disk' = IF lost THEN disk \ {request[s].picture} ELSE disk
        /\ blind' = IF lost /\ request[s].picture # None THEN blind \cup {w} ELSE blind
        /\ UNCHANGED <<jobStatus, photos, lists, spent, requests>>
    BY DEF Answered
  <1>2. DOMAIN request = Shopper /\ \A r \in Shopper : WellFormed(request[r])
    BY DEF ShoppingIInv, ShoppingRows
  <1>3. request'[s] = NoRequest /\ \A r \in Shopper : r # s => request'[r] = request[r]
    BY <1>1, <1>2
  <1>4. NoRequest.phase = "idle" /\ NoRequest.kind # "resolve"
    BY NoRequestType, ShoppingAssumption
  <1>5. \A r \in Shopper : request[r].kind = "resolve" => request[r].line \in Line
    BY <1>2 DEF WellFormed, RequestRow
  <1>6. LineLocks' /\ WareLocks'
    <2>1. \A r \in Shopper : request'[r] = request[r] \/ request'[r].phase # "locked"
      BY <1>3, <1>4
    <2>2. ASSUME NEW r \in Shopper, HoldsLine(r), request'[r] = request[r]
          PROVE  line'[request[r].line].status = line[request[r].line].status
      <3>1. r # s
        BY <1>3, <1>4, <2>2 DEF HoldsLine
      <3>2. request[r].line \in Line
        BY <1>5, <2>2 DEF HoldsLine
      <3> QED
        BY <2>2, <3>1, <3>2 DEF ShoppingIInv, LineLocks
    <2>3. ASSUME NEW r \in Shopper, HoldsWare(r), request'[r] = request[r]
          PROVE  /\ request[r].ware \in DOMAIN ware'
                 /\ ware'[request[r].ware].minStock = ware[request[r].ware].minStock
      <3>1. r # s
        BY <1>3, <1>4, <2>3 DEF HoldsWare
      <3> QED
        BY <2>3, <3>1 DEF ShoppingIInv, WareLocks
    <2> QED
      BY <2>1, <2>2, <2>3, LocksKept
  <1>7. NamedLines'
    BY <1>3, <1>4, <1>5 DEF ShoppingIInv, NamedLines
  <1>8. ListsOnce'
    BY <1>1 DEF ShoppingIInv, ListsOnce
  <1>9. ShoppingRows'
    <2>1. DOMAIN request' = Shopper /\ \A r \in Shopper : WellFormed(request'[r])
      BY <1>1, <1>2, <1>3, NoRequestType
    <2> QED
      BY <1>1, <2>1 DEF ShoppingIInv, ShoppingRows, Wares
  <1>10. ShoppingTypeOK'
    BY <1>1 DEF ShoppingIInv, ShoppingTypeOK, Wares, LineRow, LineStatus, WareRow
  <1> QED
    BY <1>6, <1>7, <1>8, <1>9, <1>10 DEF ShoppingIInv

(* A new product is one nobody has seen, with the request's picture (WithWare). *)
LEMMA NewWare ==
    ASSUME ShoppingIInv, NEW s \in Shopper, NEW w \in Ware, FreshWare(w), NEW n \in {0, 1},
           ware' = WithWare(w, request[s].picture, n)
    PROVE  /\ w \notin Wares /\ w # None /\ DOMAIN ware' = Wares \cup {w} /\ ware' \in [DOMAIN ware' -> WareRow]
           /\ ware'[w].picture = request[s].picture /\ \A x \in Wares : ware'[x] = ware[x]
  <1>1. w \notin Wares /\ w # None
    BY ShoppingAssumption DEF FreshWare, Lowest, ShoppingIInv, ShoppingTypeOK
  <1>2. /\ ware' = [x \in Wares \cup {w} |->
                      IF x = w THEN [picture |-> request[s].picture, minStock |-> n] ELSE ware[x]]
    BY DEF WithWare
  <1>3. request[s].picture \in Picture \cup {None} /\ ware \in [Wares -> WareRow]
    BY DEF ShoppingIInv, ShoppingRows, WellFormed, RequestRow
  <1>4. [picture |-> request[s].picture, minStock |-> n] \in WareRow
    BY <1>3 DEF WareRow
  <1> QED
    BY <1>1, <1>2, <1>3, <1>4

(* A product that is only named keeps its picture, and a request without a picture
   removes none (Answered). *)
LEMMA NoPictureGiven ==
    ASSUME ShoppingIInv, NEW s \in Shopper, NEW w, NEW lost, Answered(s, w, lost),
           request[s].picture = None, DOMAIN ware' = Wares,
           \A x \in Wares : ware'[x].picture = ware[x].picture
    PROVE  SavedPictures' /\ NamedPictures'
  <1>1. DOMAIN request = Shopper
    BY DEF ShoppingIInv, ShoppingRows
  <1>2. disk \subseteq Picture /\ None \notin disk
    BY ShoppingAssumption DEF ShoppingIInv, ShoppingTypeOK
  <1>3. disk' = disk /\ blind' = blind /\ spent' = spent
    BY <1>2 DEF Answered
  <1>4. \A r \in Shopper : request'[r].picture \in {request[r].picture, None}
    BY <1>1, NoRequestType DEF Answered
  <1> QED
    BY <1>3, <1>4, PicturesKept

(* The picture of the request is the product's (Answered). *)
LEMMA AnsweredGivesPicture ==
    ASSUME ShoppingIInv, NEW s \in Shopper, NEW w, NEW lost \in BOOLEAN, Answered(s, w, lost),
           DOMAIN ware' = Wares \cup {w}, ware'[w].picture = request[s].picture,
           \A x \in Wares : x # w => ware'[x].picture = ware[x].picture
    PROVE  SavedPictures' /\ NamedPictures'
  <1>1. DOMAIN request = Shopper
    BY DEF ShoppingIInv, ShoppingRows
  <1>2. request'[s].picture = None /\ \A r \in Shopper : r # s => request'[r] = request[r]
    BY <1>1, NoRequestType DEF Answered
  <1>3. /\ disk' = IF lost THEN disk \ {request[s].picture} ELSE disk
        /\ blind' = IF lost /\ request[s].picture # None THEN blind \cup {w} ELSE blind
        /\ spent' = spent
    BY DEF Answered
  <1> QED
    BY <1>2, <1>3, PictureGiven

(* A line is settled by the request that has it locked: it was open, so nothing had
   been stocked for it (ResolveShoppingListItem). *)
LEMMA ResolveKeeps ==
    ASSUME ShoppingIInv, NEW s \in Shopper, NEW w \in Ware \cup {None}, NEW lost \in BOOLEAN,
           ResolveShoppingListItem(s, w, lost)
    PROVE  ShoppingIInv'
  <1> DEFINE r == request[s]
             row == [line[r.line] EXCEPT !.status = "resolved", !.match = w, !.quantity = r.quantity]
  <1>1. /\ r.phase = "locked" /\ r.kind = "resolve"
        /\ IF r.new THEN FreshWare(w) ELSE w = r.ware /\ (w = None \/ w \in Wares)
        /\ ware' = IF r.new THEN WithWare(w, r.picture, 0) ELSE ware
        /\ line' = [line EXCEPT ![r.line] = row]
        /\ stocked' = [stocked EXCEPT ![r.line] = @ + r.quantity]
        /\ Answered(s, w, lost) /\ rises' = rises /\ credits' = credits
    BY DEF ResolveShoppingListItem
  <1>2. WellFormed(r) /\ HoldsLine(s)
    BY <1>1 DEF ShoppingIInv, ShoppingRows, HoldsLine
  <1>3. r.line \in Line /\ r.quantity \in Nat
    BY <1>1, <1>2 DEF WellFormed, RequestRow
  <1>4. /\ line \in [Line -> LineRow] /\ stocked \in [Line -> Nat] /\ ware \in [Wares -> WareRow]
        /\ rises \in [Ware -> Nat] /\ credits \in [Ware -> Nat]
        /\ \A l \in Line : line[l].match \in Wares \cup {None}
    BY DEF ShoppingIInv, ShoppingRows, ShoppingTypeOK
  <1>5. stocked[r.line] = 0
    BY <1>2, <1>3 DEF ShoppingIInv, LinesSettled, LineSettled, LineLocks
  <1>6. row \in LineRow
    <2> DEFINE old == line[r.line]
    <2>1. old \in LineRow
      BY <1>3, <1>4
    <2>2. row = [old EXCEPT !.status = "resolved", !.match = w, !.quantity = r.quantity]
      OBVIOUS
    <2> HIDE DEF old, r, row
    <2> QED
      BY <1>3, <2>1, <2>2 DEF LineRow, LineStatus
  <1>7. row.status = "resolved" /\ row.match = w /\ row.quantity = r.quantity
    BY <1>3, <1>4 DEF LineRow
  <1> HIDE DEF row
  <1>8. /\ line' \in [Line -> LineRow] /\ line'[r.line] = row
        /\ \A l \in Line : l # r.line => line'[l] = line[l]
    BY <1>1, <1>3, <1>4, <1>6
  <1>9. LinesSettled'
    <2>1. /\ stocked'[r.line] = r.quantity /\ \A l \in Line : l # r.line => stocked'[l] = stocked[l]
      BY <1>1, <1>3, <1>4, <1>5
    <2> QED
      BY <1>7, <1>8, <2>1 DEF ShoppingIInv, LinesSettled, LineSettled
  <1>10. stocked' \in [Line -> Nat]
    BY <1>1, <1>3, <1>4
  <1>11. CreditsEven'
    BY <1>1 DEF ShoppingIInv, CreditsEven
  <1>12. /\ ware' \in [DOMAIN ware' -> WareRow] /\ Wares \subseteq DOMAIN ware'
         /\ DOMAIN ware' \subseteq Wares \cup ({w} \ {None}) /\ w \in DOMAIN ware' \cup {None}
         /\ \A x \in Wares : ware'[x].minStock = ware[x].minStock
         /\ r.picture # None => w \in Ware
         /\ SavedPictures' /\ NamedPictures'
    <2>1. CASE r.new
      <3>1. ware' = WithWare(w, request[s].picture, 0) /\ FreshWare(w)
        BY <1>1, <2>1
      <3>2. w \in Ware
        BY <3>1 DEF FreshWare, Lowest
      <3>3. /\ w \notin Wares /\ w # None /\ DOMAIN ware' = Wares \cup {w} /\ ware' \in [DOMAIN ware' -> WareRow]
            /\ ware'[w].picture = request[s].picture /\ \A x \in Wares : ware'[x] = ware[x]
        BY <3>1, <3>2, NewWare
      <3>4. SavedPictures' /\ NamedPictures'
        BY <1>1, <3>3, AnsweredGivesPicture
      <3> QED
        BY <3>2, <3>3, <3>4
    <2>2. CASE ~r.new
      <3>1. request[s].picture = None /\ ware' = ware /\ DOMAIN ware = Wares
        BY <1>1, <1>2, <2>2 DEF WellFormed, Wares
      <3>2. SavedPictures' /\ NamedPictures'
        BY <1>1, <3>1, NoPictureGiven
      <3> QED
        BY <1>1, <1>4, <2>2, <3>1, <3>2
    <2> QED
      BY <2>1, <2>2
  <1>13. \A l \in Line : line'[l].match \in DOMAIN ware' \cup {None}
    BY <1>4, <1>7, <1>8, <1>12
  <1>14. \A l \in Line : line'[l].status # line[l].status =>
           HoldsLine(s) /\ request[s].line = l /\ line'[l].status # "absent"
    BY <1>2, <1>7, <1>8
  <1>15. rises' \in [Ware -> Nat] /\ credits' \in [Ware -> Nat]
    BY <1>1, <1>4
  <1> QED
    BY <1>1, <1>8, <1>9, <1>10, <1>11, <1>12, <1>13, <1>14, <1>15, AnsweredKeeps

(* A product starts being tracked, and the credit is for it: the threshold the request
   read under its lock still stands (UpdateProductMinStockAsUser). *)
LEMMA TrackKeeps ==
    ASSUME ShoppingIInv, NEW s \in Shopper, NEW lost \in BOOLEAN, UpdateProductMinStockAsUser(s, lost)
    PROVE  ShoppingIInv'
  <1> DEFINE r == request[s]
             w == r.ware
             first == IF r.previous = 0 THEN 1 ELSE 0
             raised == IF ware[w].minStock = 0 THEN 1 ELSE 0
  <1>1. /\ r.phase = "locked" /\ r.kind = "track"
        /\ ware' = [ware EXCEPT ![w].minStock = 1]
        /\ rises' = [rises EXCEPT ![w] = @ + raised] /\ credits' = [credits EXCEPT ![w] = @ + first]
        /\ Answered(s, w, lost) /\ line' = line /\ stocked' = stocked
    BY DEF UpdateProductMinStockAsUser
  <1>2. WellFormed(r) /\ HoldsWare(s)
    BY <1>1 DEF ShoppingIInv, ShoppingRows, HoldsWare
  <1>3. w \in Wares /\ w \in Ware /\ w # None /\ r.previous = ware[w].minStock
    BY <1>1, <1>2, ShoppingAssumption DEF ShoppingIInv, WareLocks, ShoppingTypeOK
  <1>4. request[s].picture = None
    BY <1>1, <1>2 DEF WellFormed
  <1>5. /\ line \in [Line -> LineRow] /\ stocked \in [Line -> Nat] /\ ware \in [Wares -> WareRow]
        /\ rises \in [Ware -> Nat] /\ credits \in [Ware -> Nat]
        /\ \A l \in Line : line[l].match \in Wares \cup {None}
    BY DEF ShoppingIInv, ShoppingRows, ShoppingTypeOK
  <1>6. first = raised /\ first \in Nat
    BY <1>3
  <1>7. rises' \in [Ware -> Nat] /\ credits' \in [Ware -> Nat] /\ CreditsEven'
    <2> HIDE DEF first, raised
    <2> QED
      BY <1>1, <1>3, <1>5, <1>6 DEF ShoppingIInv, CreditsEven
  <1>8. /\ DOMAIN ware' = Wares /\ ware' \in [DOMAIN ware' -> WareRow]
        /\ \A x \in Wares : ware'[x].picture = ware[x].picture
        /\ \A x \in Wares : x # w => ware'[x] = ware[x]
    BY <1>1, <1>3, <1>5 DEF WareRow
  <1>9. LinesSettled'
    BY <1>1 DEF ShoppingIInv, LinesSettled, LineSettled
  <1>10. SavedPictures' /\ NamedPictures'
    BY <1>1, <1>4, <1>8, NoPictureGiven
  <1>11. \A x \in Wares : ware'[x].minStock # ware[x].minStock => HoldsWare(s) /\ request[s].ware = x
    BY <1>2, <1>8
  <1> HIDE DEF w
  <1> QED
    BY <1>1, <1>3, <1>4, <1>5, <1>7, <1>8, <1>9, <1>10, <1>11, AnsweredKeeps

(* A product is made to be tracked (CreateTrackedProduct). *)
LEMMA CreateTrackedKeeps ==
    ASSUME ShoppingIInv, NEW s \in Shopper, NEW w \in Ware, NEW lost \in BOOLEAN,
           CreateTrackedProduct(s, w, lost)
    PROVE  ShoppingIInv'
  <1>1. /\ FreshWare(w) /\ ware' = WithWare(w, request[s].picture, 1) /\ Answered(s, w, lost)
        /\ UNCHANGED <<line, stocked, rises, credits>>
    BY DEF CreateTrackedProduct, tally
  <1>2. /\ w \notin Wares /\ w # None /\ DOMAIN ware' = Wares \cup {w} /\ ware' \in [DOMAIN ware' -> WareRow]
        /\ ware'[w].picture = request[s].picture /\ \A x \in Wares : ware'[x] = ware[x]
    BY <1>1, NewWare
  <1>3. SavedPictures' /\ NamedPictures'
    BY <1>1, <1>2, AnsweredGivesPicture
  <1>4. /\ line \in [Line -> LineRow] /\ stocked \in [Line -> Nat]
        /\ rises \in [Ware -> Nat] /\ credits \in [Ware -> Nat]
        /\ \A l \in Line : line[l].match \in Wares \cup {None}
    BY DEF ShoppingIInv, ShoppingRows, ShoppingTypeOK
  <1>5. LinesSettled' /\ CreditsEven'
    BY <1>1 DEF ShoppingIInv, LinesSettled, LineSettled, CreditsEven
  <1> QED
    BY <1>1, <1>2, <1>3, <1>4, <1>5, AnsweredKeeps

(* A product is given a picture (SetProductImageAsUser). *)
LEMMA SetImageKeeps ==
    ASSUME ShoppingIInv, NEW s \in Shopper, NEW lost \in BOOLEAN, SetProductImageAsUser(s, lost)
    PROVE  ShoppingIInv'
  <1> DEFINE r == request[s]
             w == r.ware
  <1>1. /\ r.phase = "locked" /\ r.kind = "image" /\ ware' = [ware EXCEPT ![w].picture = r.picture]
        /\ Answered(s, w, lost) /\ UNCHANGED <<line, stocked, rises, credits>>
    BY DEF SetProductImageAsUser, tally
  <1>2. WellFormed(r) /\ HoldsWare(s)
    BY <1>1 DEF ShoppingIInv, ShoppingRows, HoldsWare
  <1>3. w \in Wares /\ w \in Ware /\ w # None /\ r.picture \in Picture \cup {None}
    BY <1>1, <1>2, ShoppingAssumption DEF ShoppingIInv, WareLocks, ShoppingTypeOK, WellFormed, RequestRow
  <1>4. /\ line \in [Line -> LineRow] /\ stocked \in [Line -> Nat] /\ ware \in [Wares -> WareRow]
        /\ rises \in [Ware -> Nat] /\ credits \in [Ware -> Nat]
        /\ \A l \in Line : line[l].match \in Wares \cup {None}
    BY DEF ShoppingIInv, ShoppingRows, ShoppingTypeOK
  <1>5. /\ DOMAIN ware' = Wares /\ ware' \in [DOMAIN ware' -> WareRow]
        /\ ware'[w].picture = r.picture /\ \A x \in Wares : ware'[x].minStock = ware[x].minStock
        /\ \A x \in Wares : x # w => ware'[x] = ware[x]
    BY <1>1, <1>3, <1>4 DEF WareRow
  <1>6. LinesSettled' /\ CreditsEven'
    BY <1>1 DEF ShoppingIInv, LinesSettled, LineSettled, CreditsEven
  <1>7. DOMAIN ware' = Wares \cup {w}
    BY <1>3, <1>5
  <1>8. SavedPictures' /\ NamedPictures'
    BY <1>1, <1>5, <1>7, AnsweredGivesPicture
  <1> HIDE DEF w
  <1> QED
    BY <1>1, <1>3, <1>4, <1>5, <1>6, <1>8, AnsweredKeeps

(* A proposal becomes a list, and goes (CreateShoppingListFromJob). *)
LEMMA ConvertKeeps ==
    ASSUME ShoppingIInv, NEW s \in Shopper, NEW l \in Line, NEW t \in Amount, NEW m \in Matches,
           CreateShoppingListFromJob(s, l, t, m)
    PROVE  ShoppingIInv'
  <1> DEFINE j == request[s].job
             row == [request[s] EXCEPT !.phase = "cleanup"]
             new == NewLine(t, m)
  <1>1. /\ request[s].phase = "ready" /\ request[s].kind = "convert"
        /\ jobStatus[j] = "done" /\ FreshLine(l)
        /\ line' = [line EXCEPT ![l] = new] /\ jobStatus' = [jobStatus EXCEPT ![j] = "gone"]
        /\ lists' = [lists EXCEPT ![j] = @ + 1]
        /\ UNCHANGED <<ware, photos, disk, stocked, rises, credits, blind, made, spent, requests>>
    BY DEF CreateShoppingListFromJob, tally
  <1>2. DOMAIN request = Shopper /\ WellFormed(request[s]) /\ request[s] \in RequestRow
    BY DEF ShoppingIInv, ShoppingRows, WellFormed
  <1>3. request' = [request EXCEPT ![s] = row]
    BY <1>2 DEF CreateShoppingListFromJob
  <1>4. j \in PhotoJob /\ request[s].picture = None
    BY <1>1, <1>2 DEF WellFormed, RequestRow
  <1>5. /\ row.phase = "cleanup" /\ row.kind = request[s].kind /\ row.line = request[s].line
        /\ row.new = request[s].new /\ row.job = request[s].job /\ row.picture = request[s].picture
    BY <1>2 DEF RequestRow
  <1>6. row \in RequestRow
    BY <1>2 DEF RequestRow
  <1> HIDE DEF row
  <1>7. WellFormed(row)
    BY <1>1, <1>2, <1>4, <1>5, <1>6 DEF WellFormed
  <1>8. request'[s] = row /\ \A r \in Shopper : r # s => request'[r] = request[r]
    BY <1>2, <1>3
  <1>9. /\ line \in [Line -> LineRow] /\ \A k \in Line : line[k].match \in Wares \cup {None}
        /\ jobStatus \in [PhotoJob \cup ListJob -> {"absent", "pending", "done", "gone"}]
        /\ lists \in [PhotoJob \cup ListJob -> Nat]
    BY DEF ShoppingIInv, ShoppingTypeOK, ShoppingRows
  <1>10. /\ new \in LineRow /\ new.match \in Wares \cup {None} /\ new.status \notin {"absent", "resolved"}
    BY NewLineType
  <1> HIDE DEF new, j
  <1>11. line[l].status = "absent" /\ ~LineHeld(l)
    BY <1>1, FreshLineFree
  <1>12. line' \in [Line -> LineRow] /\ line'[l] = new /\ \A k \in Line : k # l => line'[k] = line[k]
    BY <1>1, <1>9, <1>10
  <1>13. LineLocks' /\ WareLocks'
    <2>1. \A r \in Shopper : request'[r] = request[r] \/ request'[r].phase # "locked"
      BY <1>5, <1>8
    <2>2. \A r \in Shopper : HoldsLine(r) => request[r].line \in Line /\ request[r].line # l
      BY <1>11 DEF HoldsLine, LineHeld, ShoppingIInv, ShoppingRows, WellFormed, RequestRow
    <2>3. \A r \in Shopper : HoldsWare(r) => request[r].ware \in Wares
      BY DEF ShoppingIInv, WareLocks
    <2> QED
      BY <1>1, <1>12, <2>1, <2>2, <2>3, LocksKept DEF Wares
  <1>14. SavedPictures' /\ NamedPictures'
    <2>1. \A r \in Shopper : request'[r].picture \in {request[r].picture, None}
      BY <1>5, <1>8
    <2> QED
      BY <1>1, <2>1, PicturesKept DEF Wares
  <1>15. NamedLines'
    <2>1. \A r \in Shopper : request'[r].kind = request[r].kind /\ request'[r].line = request[r].line
      BY <1>5, <1>8
    <2>2. \A r \in Shopper : request[r].kind = "resolve" => request[r].line \in Line
      BY DEF ShoppingIInv, ShoppingRows, WellFormed, RequestRow
    <2> QED
      BY <1>10, <1>12, <2>1, <2>2 DEF ShoppingIInv, NamedLines
  <1>16. LinesSettled'
    BY <1>1, <1>10, <1>11, <1>12 DEF ShoppingIInv, LinesSettled, LineSettled
  <1>17. ListsOnce'
    <2>1. lists[j] = 0
      BY <1>1, <1>4, <1>9 DEF ShoppingIInv, ListsOnce
    <2> QED
      BY <1>1, <1>4, <1>9, <2>1 DEF ShoppingIInv, ListsOnce
  <1>18. ShoppingRows' /\ CreditsEven'
    <2>1. DOMAIN request' = Shopper /\ \A r \in Shopper : WellFormed(request'[r])
      BY <1>2, <1>3, <1>7, <1>8 DEF ShoppingIInv, ShoppingRows
    <2>2. lists' \in [PhotoJob \cup ListJob -> Nat]
      BY <1>1, <1>4, <1>9
    <2> QED
      BY <1>1, <1>12, <2>1, <2>2 DEF ShoppingIInv, ShoppingRows, CreditsEven, Wares
  <1>19. ShoppingTypeOK'
    <2>1. jobStatus' \in [PhotoJob \cup ListJob -> {"absent", "pending", "done", "gone"}]
      BY <1>1, <1>4, <1>9
    <2>2. \A k \in Line : line'[k].status \in LineStatus /\ line'[k].match \in Wares \cup {None}
      BY <1>9, <1>10, <1>12 DEF LineRow
    <2> QED
      BY <1>1, <2>1, <2>2 DEF ShoppingIInv, ShoppingTypeOK, Wares, LineStatus
  <1> QED
    BY <1>13, <1>14, <1>15, <1>16, <1>17, <1>18, <1>19 DEF ShoppingIInv

(* Products change or go that no request has locked, and lines that name one that goes
   name what replaces it (PatchMinStock, RetireProduct). *)
LEMMA WaresStep ==
    ASSUME ShoppingIInv,
           UNCHANGED <<jobStatus, photos, request, stocked, rises, credits, lists, made, spent, requests>>,
           ware' \in [DOMAIN ware' -> WareRow], DOMAIN ware' \subseteq Wares,
           \A x \in Wares : WareHeld(x) => x \in DOMAIN ware' /\ ware'[x] = ware[x],
           \A x \in DOMAIN ware' : ware'[x].picture = ware[x].picture,
           line' \in [Line -> LineRow], \A l \in Line : line'[l].match \in DOMAIN ware' \cup {None},
           \A l \in Line : line'[l].status = line[l].status /\ line'[l].quantity = line[l].quantity,
           disk' \subseteq disk, blind' \subseteq blind,
           \A x \in DOMAIN ware' : x \notin blind' => x \notin blind,
           \A f \in disk : f \notin disk' =>
               /\ \A s \in Shopper : request[s].picture # f
               /\ \A x \in DOMAIN ware' : ware'[x].picture # f
    PROVE  ShoppingIInv'
  <1>1. \A s \in Shopper : request[s].kind = "resolve" => request[s].line \in Line
    BY DEF ShoppingIInv, ShoppingRows, WellFormed, RequestRow
  <1>2. LineLocks' /\ WareLocks'
    <2>1. \A s \in Shopper : HoldsWare(s) => request[s].ware \in Wares /\ WareHeld(request[s].ware)
      BY DEF HoldsWare, WareHeld, ShoppingIInv, WareLocks
    <2>2. \A s \in Shopper : HoldsLine(s) => request[s].line \in Line
      BY <1>1 DEF HoldsLine
    <2> QED
      BY <2>1, <2>2, LocksKept
  <1>3. SavedPictures' /\ NamedPictures'
    BY PicturesKept
  <1>4. NamedLines'
    BY <1>1 DEF ShoppingIInv, NamedLines
  <1>5. LinesSettled' /\ ListsOnce' /\ CreditsEven'
    BY DEF ShoppingIInv, LinesSettled, LineSettled, ListsOnce, CreditsEven
  <1>6. ShoppingRows'
    BY DEF ShoppingIInv, ShoppingRows, Wares
  <1>7. ShoppingTypeOK'
    BY DEF ShoppingIInv, ShoppingTypeOK, Wares, LineRow, LineStatus, WareRow
  <1> QED
    BY <1>2, <1>3, <1>4, <1>5, <1>6, <1>7 DEF ShoppingIInv

(* A product's threshold is set elsewhere (PatchMinStock). *)
LEMMA PatchKeeps ==
    ASSUME ShoppingIInv, NEW w \in Ware, NEW n \in {0, 1}, PatchMinStock(w, n)
    PROVE  ShoppingIInv'
  <1>1. /\ w \in Wares /\ ~WareHeld(w) /\ ware' = [ware EXCEPT ![w].minStock = n]
        /\ UNCHANGED <<line, jobStatus, photos, disk, request, stocked, rises, credits, lists, blind,
                       made, spent, requests>>
    BY DEF PatchMinStock, tally
  <1>2. /\ ware \in [Wares -> WareRow] /\ line \in [Line -> LineRow]
        /\ \A l \in Line : line[l].match \in Wares \cup {None}
    BY DEF ShoppingIInv, ShoppingRows, ShoppingTypeOK
  <1>3. /\ DOMAIN ware' = Wares /\ ware' \in [DOMAIN ware' -> WareRow]
        /\ \A x \in Wares : ware'[x].picture = ware[x].picture
        /\ \A x \in Wares : x # w => ware'[x] = ware[x]
    BY <1>1, <1>2 DEF WareRow
  <1> QED
    BY <1>1, <1>2, <1>3, WaresStep

(* A product that nobody has locked goes, with its picture or without
   (RetireProduct). *)
LEMMA RetireKeeps ==
    ASSUME ShoppingIInv, NEW w \in Wares, NEW heir \in Wares \cup {None}, NEW removed \in BOOLEAN,
           RetireProduct(w, heir, removed)
    PROVE  ShoppingIInv'
  <1>1. /\ heir \in (Wares \ {w}) \cup {None} /\ ~WareHeld(w)
        /\ ware' = [x \in Wares \ {w} |-> ware[x]]
        /\ line' = [l \in Line |-> IF line[l].match = w THEN [line[l] EXCEPT !.match = heir] ELSE line[l]]
        /\ disk' = IF removed THEN disk \ {ware[w].picture} ELSE disk
        /\ blind' = blind \ {w}
        /\ UNCHANGED <<jobStatus, photos, request, stocked, rises, credits, lists, made, spent, requests>>
    BY DEF RetireProduct, tally
  <1>2. /\ ware \in [Wares -> WareRow] /\ line \in [Line -> LineRow] /\ Wares \subseteq Ware
        /\ \A l \in Line : line[l].match \in Wares \cup {None}
    BY DEF ShoppingIInv, ShoppingRows, ShoppingTypeOK
  <1>3. /\ DOMAIN ware' = Wares \ {w} /\ ware' \in [DOMAIN ware' -> WareRow]
        /\ \A x \in DOMAIN ware' : ware'[x] = ware[x]
    BY <1>1, <1>2
  <1>4. ASSUME NEW l \in Line
        PROVE  /\ line'[l] \in LineRow /\ line'[l].match \in DOMAIN ware' \cup {None}
               /\ line'[l].status = line[l].status /\ line'[l].quantity = line[l].quantity
    <2> DEFINE old == line[l]
    <2>1. old \in LineRow /\ old.match \in Wares \cup {None}
      BY <1>2
    <2>2. line'[l] = IF old.match = w THEN [old EXCEPT !.match = heir] ELSE old
      BY <1>1
    <2> HIDE DEF old
    <2>3. CASE old.match = w
      <3>1. [old EXCEPT !.match = heir] \in LineRow
        BY <1>1, <1>2, <2>1 DEF LineRow
      <3>2. LET n == [old EXCEPT !.match = heir]
            IN  n.match = heir /\ n.status = old.status /\ n.quantity = old.quantity
        BY <2>1 DEF LineRow
      <3> QED
        BY <1>1, <1>3, <2>2, <2>3, <3>1, <3>2 DEF old
    <2>4. CASE old.match # w
      BY <1>3, <2>1, <2>2, <2>4 DEF old
    <2> QED
      BY <2>3, <2>4
  <1>5. line' \in [Line -> LineRow]
    BY <1>1, <1>4
  <1>6. ASSUME NEW f \in disk, f \notin disk'
        PROVE  /\ \A s \in Shopper : request[s].picture # f
               /\ \A x \in DOMAIN ware' : ware'[x].picture # f
    <2>1. f = ware[w].picture /\ f # None
      BY <1>1, <1>6, ShoppingAssumption DEF ShoppingIInv, ShoppingTypeOK
    <2>2. \A s \in Shopper : request[s].picture # f
      BY <2>1 DEF ShoppingIInv, SavedPictures
    <2>3. \A x \in Wares : ware[x].picture = f => x = w
      BY <2>1 DEF ShoppingIInv, NamedPictures
    <2> QED
      BY <1>3, <2>2, <2>3
  <1>7. disk' \subseteq disk /\ blind' \subseteq blind
    BY <1>1
  <1>8. \A x \in Wares : WareHeld(x) => x \in DOMAIN ware' /\ ware'[x] = ware[x]
    BY <1>1, <1>3
  <1>9. \A x \in DOMAIN ware' : x \notin blind' => x \notin blind
    BY <1>1, <1>3
  <1> QED
    BY <1>1, <1>3, <1>4, <1>5, <1>6, <1>7, <1>8, <1>9, WaresStep

(* Every step keeps the invariant. *)
LEMMA ShoppingStepKeeps ==
    ASSUME ShoppingIInv, [ShoppingNext]_shoppingVars
    PROVE  ShoppingIInv'
  <1>1. CASE LinesNext(Line)
    BY <1>1, LinesNextKeeps
  <1>2. CASE PhotosNext
    <2>1. ASSUME NEW s \in Shopper, NEW l \in Line, NEW t \in Amount, NEW m \in Matches,
                 CreateShoppingListFromJob(s, l, t, m)
          PROVE  ShoppingIInv'
      BY <2>1, ConvertKeeps
    <2>2. ASSUME NEW s \in Shopper, RemovePhoto(s)
          PROVE  ShoppingIInv'
      BY <2>2, RequestsEnd
    <2>3. ASSUME NEW s \in Shopper, \E j \in PhotoJob : CreateFromJob(s, j)
          PROVE  ShoppingIInv'
      BY <2>3, RequestsBegin
    <2> QED
      BY <1>2, <2>1, <2>2, <2>3, ListJobsKeep DEF PhotosNext
  <1>3. CASE ResolveNext
    <2>1. ASSUME NEW s \in Shopper, NEW l \in Line, NEW w \in Wares \cup {None}, NEW new \in BOOLEAN,
                 NEW q \in Amount \cup {0}, Resolve(s, l, w, new, q)
          PROVE  ShoppingIInv'
      BY <2>1, RequestsBegin
    <2>2. ASSUME NEW s \in Shopper, NEW w \in Ware \cup {None}, NEW lost \in BOOLEAN,
                 ResolveShoppingListItem(s, w, lost)
          PROVE  ShoppingIInv'
      BY <2>2, ResolveKeeps
    <2> QED
      BY <1>3, <2>1, <2>2 DEF ResolveNext
  <1>4. CASE ReorderNext
    <2>1. ASSUME NEW s \in Shopper, NEW w \in Wares \cup {None}, NEW new \in BOOLEAN, AddItem(s, w, new)
          PROVE  ShoppingIInv'
      BY <2>1, RequestsBegin
    <2>2. ASSUME NEW s \in Shopper, NEW w \in Wares, SetImage(s, w)
          PROVE  ShoppingIInv'
      BY <2>2, RequestsBegin
    <2>3. ASSUME NEW s \in Shopper, NEW lost \in BOOLEAN, UpdateProductMinStockAsUser(s, lost)
          PROVE  ShoppingIInv'
      BY <2>3, TrackKeeps
    <2>4. ASSUME NEW s \in Shopper, NEW lost \in BOOLEAN, SetProductImageAsUser(s, lost)
          PROVE  ShoppingIInv'
      BY <2>4, SetImageKeeps
    <2>5. ASSUME NEW s \in Shopper, NEW lost \in BOOLEAN, NEW w \in Ware, CreateTrackedProduct(s, w, lost)
          PROVE  ShoppingIInv'
      BY <2>5, CreateTrackedKeeps
    <2>6. ASSUME NEW w \in Ware, NEW n \in {0, 1}, PatchMinStock(w, n)
          PROVE  ShoppingIInv'
      BY <2>6, PatchKeeps
    <2> QED
      BY <1>4, <2>1, <2>2, <2>3, <2>4, <2>5, <2>6 DEF ReorderNext
  <1>5. CASE RequestsNext
    <2>1. ASSUME NEW s \in Shopper, NEW f \in Picture \cup {None}, PromotePicture(s, f)
          PROVE  ShoppingIInv'
      BY <2>1, PromotePictureKeeps
    <2>2. ASSUME NEW s \in Shopper, LockRow(s)
          PROVE  ShoppingIInv'
      BY <2>2, LockRowKeeps
    <2>3. ASSUME NEW s \in Shopper, RefuseRequest(s) \/ CrashRequest(s)
          PROVE  ShoppingIInv'
      BY <2>3, RequestsEnd
    <2>4. ASSUME NEW w \in Wares, NEW heir \in Wares \cup {None}, NEW removed \in BOOLEAN,
                 RetireProduct(w, heir, removed)
          PROVE  ShoppingIInv'
      BY <2>4, RetireKeeps
    <2> QED
      BY <1>5, <2>1, <2>2, <2>3, <2>4 DEF RequestsNext
  <1>6. CASE UNCHANGED shoppingVars
    <2>1. UNCHANGED <<ware, line, jobStatus, photos, disk, request, stocked, rises, credits, lists,
                      blind, made, spent, requests>>
      BY <1>6 DEF shoppingVars
    <2>2. /\ ware \in [Wares -> WareRow] /\ line \in [Line -> LineRow] /\ DOMAIN ware = Wares
          /\ \A l \in Line : line[l].match \in Wares \cup {None}
      BY DEF ShoppingIInv, ShoppingRows, ShoppingTypeOK, Wares
    <2> QED
      BY <2>1, <2>2, WaresStep
  <1> QED
    BY <1>1, <1>2, <1>3, <1>4, <1>5, <1>6 DEF ShoppingNext

(* The invariant holds of a storage with one product and no lists. *)
LEMMA ShoppingInitHolds == ShoppingInit => ShoppingIInv
  <1> SUFFICES ASSUME ShoppingInit PROVE ShoppingIInv
    OBVIOUS
  <1> DEFINE first == [picture |-> None, minStock |-> 0]
  <1>1. /\ ware = [w \in {1} |-> first] /\ line = [l \in Line |-> NoLine]
        /\ jobStatus = [j \in PhotoJob \cup ListJob |-> IF j \in PhotoJob THEN "done" ELSE "absent"]
        /\ photos = PhotoJob /\ disk = {} /\ request = [s \in Shopper |-> NoRequest]
        /\ stocked = [l \in Line |-> 0] /\ lists = [j \in PhotoJob \cup ListJob |-> 0]
        /\ rises = [w \in Ware |-> 0] /\ credits = [w \in Ware |-> 0]
        /\ blind = {} /\ made = {1} /\ spent = {} /\ requests = 0
    BY DEF ShoppingInit
  <1>2. first \in WareRow /\ first.picture = None
    BY DEF WareRow
  <1>3. /\ NoLine \in LineRow /\ NoLine.status = "absent" /\ NoLine.match = None
    BY DEF NoLine, LineRow, LineStatus
  <1> HIDE DEF first
  <1>4. NoRequest.kind # "resolve" /\ NoRequest.phase = "idle" /\ NoRequest.picture = None
    BY NoRequestType, ShoppingAssumption
  <1>5. Wares = {1} /\ 1 \in Ware
    BY <1>1, ShoppingAssumption DEF Wares
  <1>6. ShoppingRows
    <2>1. ware \in [Wares -> WareRow] /\ line \in [Line -> LineRow]
      BY <1>1, <1>2, <1>3, <1>5
    <2>2. DOMAIN request = Shopper /\ \A s \in Shopper : WellFormed(request[s])
      BY <1>1, NoRequestType
    <2> QED
      BY <1>1, <2>1, <2>2 DEF ShoppingRows
  <1>7. ShoppingTypeOK
    BY <1>1, <1>3, <1>5, <1>6 DEF ShoppingTypeOK, ShoppingRows, WareRow
  <1>8. NamedLines /\ LineLocks /\ WareLocks
    BY <1>1, <1>4 DEF NamedLines, LineLocks, WareLocks, HoldsLine, HoldsWare
  <1>9. LinesSettled /\ ListsOnce /\ CreditsEven
    BY <1>1, <1>3 DEF LinesSettled, LineSettled, ListsOnce, CreditsEven
  <1>10. SavedPictures /\ NamedPictures
    BY <1>1, <1>2, <1>4, <1>5 DEF SavedPictures, NamedPictures
  <1> QED
    BY <1>6, <1>7, <1>8, <1>9, <1>10 DEF ShoppingIInv

(* What holds in every state of the lists, the reorder list and their pictures,
   however many requests are served at once and wherever they crash. *)
THEOREM ShoppingInvariant == ShoppingSpec => []ShoppingIInv
  <1>1. ShoppingInit => ShoppingIInv
    BY ShoppingInitHolds
  <1>2. ShoppingIInv /\ [ShoppingNext]_shoppingVars => ShoppingIInv'
    BY ShoppingStepKeeps
  <1> QED
    BY <1>1, <1>2, PTL DEF ShoppingSpec

(* What is settled is settled once: a line's stock is what the line records, a
   proposal makes one list and is then gone, a product whose commit was answered has
   its picture on disk, and a contribution is credited exactly when a product starts
   being tracked (ResolveShoppingListItem, CreateShoppingListFromJob,
   productPictures, UpdateProductMinStockAsUser). *)
THEOREM SettledOnce == ShoppingSpec => []ShoppingSettlesOnce
  <1>1. ShoppingIInv => ShoppingSettlesOnce
    BY DEF ShoppingIInv, LinesSettled, ListsOnce, NamedPictures, CreditsEven, ShoppingSettlesOnce
  <1> QED
    BY <1>1, ShoppingInvariant, PTL


-----------------------------------------------------------------------------
(* Scans.  The sum over the shelf is not inductive: it says nothing of scans under
   way.  What a scan has taken from the lots it holds, and what its plan has yet to
   take, is always the quantity it was asked for; and a lot has one holder. *)

ScanRow ==
    [phase : {"idle", "accept", "in", "out", "take"}, code : Code \cup {Nobody},
     card : Card \cup {Nobody}, item : Item \cup {Nobody}, quantity : Nat,
     plan : Seq([lot : Lot, units : Nat]), left : [Lot -> Nat \cup {Nobody}]]

PromptRow == [enabled : BOOLEAN, seen : BOOLEAN, first : Nat]

ScanRows ==
    /\ scan \in [Scanner -> ScanRow]
    /\ added \in Nat /\ taken \in Nat /\ discarded \in Nat
    /\ \A s \in Scanner : scan[s].phase # "take" => \A l \in Lot : scan[s].left[l] = Nobody
    /\ \A s \in Scanner : scan[s].phase = "accept" => scan[s].code \in Code

Prompted ==
    /\ prompt \in [Reader -> PromptRow]
    /\ \A u \in Reader : prompt[u].first <= 1 /\ (~prompt[u].seen => prompt[u].first = 0)

OneHolder ==
    \A s, t \in Scanner, l \in Lot :
        scan[s].left[l] # Nobody /\ scan[t].left[l] # Nobody => s = t

UnitsOf(r) == [l \in Lot |-> r[l].units]

\* What a transaction has taken from each lot.
TookOf(left, r) == [l \in Lot |-> IF left[l] = Nobody THEN 0 ELSE r[l].units - left[l]]

PlanUnits(plan) == [i \in DOMAIN plan |-> plan[i].units]
PlanSum(plan) == SumOf(PlanUnits(plan), DOMAIN plan)

Accounted(s) ==
    scan[s].phase = "take" =>
        SumOf(TookOf(scan[s].left, lot), Lot) + PlanSum(scan[s].plan) = scan[s].quantity

AllAccounted == \A s \in Scanner : Accounted(s)

Balanced ==
    SumOf(UnitsOf(lot), Lot) = UnitSum(FirstLots, DOMAIN FirstLots) + added - taken - discarded

ScansIInv ==
    ScansTypeOK /\ ScanRows /\ Prompted /\ OneHolder /\ AllAccounted /\ Balanced

\* Lots typed, and the units of each a number.
LEMMA LotUnits ==
  ASSUME ScansTypeOK
  PROVE  /\ \A l \in Lot : lot[l] \in [owner : Item \cup {Nobody}, units : Nat]
         /\ \A l \in Lot : UnitsOf(lot)[l] = lot[l].units /\ UnitsOf(lot)[l] \in Int
         /\ SumOf(UnitsOf(lot), Lot) \in Int
<1>1. \A l \in Lot : lot[l] \in [owner : Item \cup {Nobody}, units : Nat]
  BY DEF ScansTypeOK
<1>2. \A l \in Lot : UnitsOf(lot)[l] = lot[l].units /\ UnitsOf(lot)[l] \in Int
  BY <1>1 DEF UnitsOf
<1>3. IsFiniteSet(Lot)
  BY ScansAssumption
<1> QED
  BY <1>1, <1>2, <1>3, SumType

\* The shelf as the model counts it.
LEMMA UnitsAreSums ==
  ASSUME ScansTypeOK, NEW ls \in SUBSET Lot
  PROVE  Units(ls) = SumOf(UnitsOf(lot), ls) /\ Units(ls) \in Int
<1>1. IsFiniteSet(ls)
  BY ScansAssumption, FS_Subset
<1>2. \A x \in ls : UnitsOf(lot)[x] \in Int /\ UnitsOf(lot)[x] = lot[x].units
  BY LotUnits
<1>3. UnitSum(lot, ls) = SumOf(UnitsOf(lot), ls)
  BY <1>1, <1>2, UnitSumIsSum
<1>4. SumOf(UnitsOf(lot), ls) \in Int
  BY <1>1, <1>2, SumType
<1>5. Units(ls) = UnitSum(lot, ls)
  BY DEF Units, UnitSum
<1> QED
  BY <1>3, <1>4, <1>5

(* The total of a plan, computed by a fold, is the sum over its positions (PlanTotal). *)
LEMMA PlanTotals ==
  ASSUME NEW plan \in Seq([lot : Lot, units : Nat])
  PROVE  PlanTotal(plan) = PlanSum(plan) /\ PlanSum(plan) \in Int
<1>1. IsFiniteSet(DOMAIN plan)
  <2>1. DOMAIN plan = 1..Len(plan) /\ Len(plan) \in Int
    OBVIOUS
  <2> QED
    BY <2>1, FS_Interval
<1>2. \A i \in DOMAIN plan : PlanUnits(plan)[i] \in Int /\ PlanUnits(plan)[i] = plan[i].units
  <2> SUFFICES ASSUME NEW i \in DOMAIN plan
               PROVE  PlanUnits(plan)[i] \in Int /\ PlanUnits(plan)[i] = plan[i].units
    OBVIOUS
  <2>1. plan[i] \in [lot : Lot, units : Nat]
    <3> DEFINE R == [lot : Lot, units : Nat]
    <3>1. plan \in Seq(R)
      OBVIOUS
    <3> HIDE DEF R
    <3>2. plan[i] \in R
      BY <3>1
    <3> QED
      BY <3>2 DEF R
  <2> QED
    BY <2>1 DEF PlanUnits
<1>3. UnitSum(plan, DOMAIN plan) = SumOf(PlanUnits(plan), DOMAIN plan)
  BY <1>1, <1>2, UnitSumIsSum
<1>4. PlanTotal(plan) = UnitSum(plan, DOMAIN plan)
  BY DEF PlanTotal, UnitSum
<1>5. SumOf(PlanUnits(plan), DOMAIN plan) \in Int
  BY <1>1, <1>2, SumType
<1> QED
  BY <1>3, <1>4, <1>5 DEF PlanSum

\* The first decrement of a plan, and the rest.
LEMMA PlanSplits ==
  ASSUME NEW plan \in Seq([lot : Lot, units : Nat]), plan # <<>>
  PROVE  /\ PlanSum(plan) = Head(plan).units + PlanSum(Tail(plan))
         /\ Head(plan) \in [lot : Lot, units : Nat]
         /\ Tail(plan) \in Seq([lot : Lot, units : Nat])
<1>1. PICK n \in Nat : Len(plan) = n + 1
  <2>1. Len(plan) \in Nat /\ Len(plan) # 0
    OBVIOUS
  <2> QED
    BY <2>1
<1>2. /\ DOMAIN plan = 1..(n + 1) /\ Head(plan) = plan[1]
      /\ Tail(plan) \in Seq([lot : Lot, units : Nat])
      /\ DOMAIN Tail(plan) = 1..n /\ \A i \in 1..n : Tail(plan)[i] = plan[i + 1]
      /\ \A i \in 1..(n + 1) : plan[i] \in [lot : Lot, units : Nat]
  <2> DEFINE R == [lot : Lot, units : Nat]
  <2>1. plan \in Seq(R)
    OBVIOUS
  <2> HIDE DEF R
  <2>2. DOMAIN plan = 1..(n + 1) /\ Head(plan) = plan[1] /\ Tail(plan) \in Seq(R)
    BY <1>1, <2>1
  <2>3. Len(Tail(plan)) = n /\ DOMAIN Tail(plan) = 1..n
    BY <1>1, <2>1
  <2>4. \A i \in 1..n : Tail(plan)[i] = plan[i + 1]
    BY <1>1, <2>1
  <2>5. \A i \in 1..(n + 1) : plan[i] \in R
    BY <2>1, <2>2
  <2> QED
    BY <2>2, <2>3, <2>4, <2>5 DEF R
<1> DEFINE f == PlanUnits(plan)
           h == PlanUnits(Tail(plan))
<1>3. \A i \in 1..(n + 1) : f[i] \in Int /\ f[i] = plan[i].units
  BY <1>2 DEF PlanUnits
<1>4. \A i \in 1..n : h[i] = f[i + 1]
  BY <1>2 DEF PlanUnits
<1> HIDE DEF f, h
<1>5. SumOf(f, 1..(n + 1)) = f[1] + SumOf(h, 1..n)
  BY <1>3, <1>4, SumShift
<1>6. f[1] = Head(plan).units
  BY <1>2, <1>3
<1>7. Head(plan) \in [lot : Lot, units : Nat]
  BY <1>2
<1> QED
  BY <1>2, <1>5, <1>6, <1>7 DEF PlanSum, f, h

(* What a scan has taken of every lot, and of all of them, is a number. *)
LEMMA TookTypes ==
  ASSUME ScansTypeOK, NEW left \in [Lot -> Nat \cup {Nobody}]
  PROVE  /\ \A l \in Lot : TookOf(left, lot)[l] \in Int
         /\ SumOf(TookOf(left, lot), Lot) \in Int
<1>1. \A l \in Lot : TookOf(left, lot)[l] \in Int
  BY LotUnits DEF TookOf
<1>2. IsFiniteSet(Lot)
  BY ScansAssumption
<1> QED
  BY <1>1, <1>2, SumType

\* A request that is left alone, with the lots it holds.
LEMMA StaysAccounted ==
  ASSUME NEW s \in Scanner, Accounted(s), scan'[s] = scan[s],
         \A l \in Lot : scan[s].left[l] # Nobody => lot'[l].units = lot[l].units
  PROVE  Accounted(s)'
<1>1. TookOf(scan[s].left, lot') = TookOf(scan[s].left, lot)
  BY DEF TookOf
<1> HIDE DEF TookOf
<1>2. Accounted(s)' <=> (scan'[s].phase = "take" =>
          SumOf(TookOf(scan'[s].left, lot'), Lot) + PlanSum(scan'[s].plan) = scan'[s].quantity)
  BY DEF Accounted, TookOf, PlanSum, PlanUnits, SumOf, MapThenSumSet, MapThenFoldSet
<1> QED
  BY <1>1, <1>2 DEF Accounted

\* Steps that count nothing: lots keep their units, requests stay as they are.
LEMMA NothingCounted ==
  ASSUME ScansIInv, UNCHANGED <<scan, books>>, ScansTypeOK', Prompted',
         \A l \in Lot : lot'[l].units = lot[l].units
  PROVE  ScansIInv'
<1>1. ScanRows' /\ OneHolder'
  BY DEF ScansIInv, ScanRows, OneHolder, books
<1>2. ASSUME NEW s \in Scanner
      PROVE  Accounted(s)'
  BY StaysAccounted DEF ScansIInv, AllAccounted
<1>3. UnitsOf(lot') = UnitsOf(lot)
  BY DEF UnitsOf
<1>4. Balanced'
  <2>1. SumOf(UnitsOf(lot'), Lot) = SumOf(UnitsOf(lot), Lot)
    BY <1>3
  <2>2. Balanced' <=> SumOf(UnitsOf(lot'), Lot) = UnitSum(FirstLots, DOMAIN FirstLots) + added' - taken' - discarded'
    BY DEF Balanced, UnitsOf, SumOf, UnitSum, MapThenSumSet, MapThenFoldSet
  <2> QED
    BY <2>1, <2>2 DEF ScansIInv, Balanced, books
<1> QED
  BY <1>1, <1>2, <1>4 DEF ScansIInv, AllAccounted

\* One request changes, and no lot.
LEMMA RequestChanges ==
  ASSUME ScansIInv, UNCHANGED <<lot, prompt, books>>, ScansTypeOK',
         NEW s \in Scanner, NEW r \in ScanRow, scan' = [scan EXCEPT ![s] = r],
         r.phase # "take" => \A l \in Lot : r.left[l] = Nobody,
         r.phase = "accept" => r.code \in Code,
         \A l \in Lot : r.left[l] # Nobody => \A t \in Scanner \ {s} : scan[t].left[l] = Nobody,
         r.phase = "take" => SumOf(TookOf(r.left, lot), Lot) + PlanSum(r.plan) = r.quantity
  PROVE  ScansIInv'
<1>1. scan'[s] = r /\ \A t \in Scanner \ {s} : scan'[t] = scan[t]
  BY DEF ScansIInv, ScanRows
<1>2. ScanRows'
  BY <1>1 DEF ScansIInv, ScanRows, books
<1>3. OneHolder'
  BY <1>1 DEF ScansIInv, OneHolder
<1>4. ASSUME NEW t \in Scanner
      PROVE  Accounted(t)'
  <2>1. CASE t # s
    BY <1>1, <2>1, StaysAccounted DEF ScansIInv, AllAccounted
  <2>2. CASE t = s
    <3>1. Accounted(t)' <=> (scan'[t].phase = "take" =>
              SumOf(TookOf(scan'[t].left, lot'), Lot) + PlanSum(scan'[t].plan) = scan'[t].quantity)
      BY DEF Accounted, TookOf, PlanSum, PlanUnits, SumOf, MapThenSumSet, MapThenFoldSet
    <3> QED
      BY <1>1, <2>2, <3>1
  <2> QED
    BY <2>1, <2>2
<1>5. Prompted' /\ Balanced'
  <2>1. Balanced' <=> SumOf(UnitsOf(lot'), Lot) = UnitSum(FirstLots, DOMAIN FirstLots) + added' - taken' - discarded'
    BY DEF Balanced, UnitsOf, SumOf, UnitSum, MapThenSumSet, MapThenFoldSet
  <2>2. Balanced'
    BY <2>1 DEF ScansIInv, Balanced, books
  <2> QED
    BY <2>2 DEF ScansIInv, Prompted
<1> QED
  BY <1>2, <1>3, <1>4, <1>5 DEF ScansIInv, AllAccounted

LEMMA NoScanType ==
  NoScan \in ScanRow /\ NoScan.phase = "idle" /\ \A l \in Lot : NoScan.left[l] = Nobody
<1> DEFINE none == [l \in Lot |-> Nobody]
<1>1. none \in [Lot -> Nat \cup {Nobody}] /\ <<>> \in Seq([lot : Lot, units : Nat])
  OBVIOUS
<1>2. NoScan = [phase |-> "idle", code |-> Nobody, card |-> Nobody, item |-> Nobody, quantity |-> 0,
                plan |-> <<>>, left |-> none]
  BY DEF NoScan
<1>3. \A l \in Lot : none[l] = Nobody
  OBVIOUS
<1> HIDE DEF none
<1> QED
  BY <1>1, <1>2, <1>3 DEF ScanRow

(* Codes come and go without counting anything (AssociateBarcode and the deletions). *)
LEMMA CodesKeep ==
  ASSUME ScansIInv, NEW p \in Item, NEW c \in Code,
         AssociateBarcode(p, c) \/ DeleteProductBarcode(p, c) \/ DeleteCatalogBarcode(c)
  PROVE  ScansIInv'
<1>1. ScansTypeOK'
  <2>1. CASE AssociateBarcode(p, c)
    BY <2>1 DEF ScansIInv, ScansTypeOK, AssociateBarcode, Items
  <2>2. CASE DeleteProductBarcode(p, c)
    BY <2>2 DEF ScansIInv, ScansTypeOK, DeleteProductBarcode, Items
  <2>3. CASE DeleteCatalogBarcode(c)
    BY <2>3 DEF ScansIInv, ScansTypeOK, DeleteCatalogBarcode, Items
  <2> QED
    BY <2>1, <2>2, <2>3
<1>2. UNCHANGED <<lot, scan, books, prompt>>
  BY DEF AssociateBarcode, DeleteProductBarcode, DeleteCatalogBarcode
<1>3. Prompted'
  BY <1>2 DEF ScansIInv, Prompted
<1>4. UNCHANGED <<scan, books>> /\ \A l \in Lot : lot'[l].units = lot[l].units
  BY <1>2
<1> QED
  BY <1>1, <1>3, <1>4, NothingCounted

(* The prompt of a member is not about stock (MarkBarcodePromptShown). *)
LEMMA PromptsKeep ==
  ASSUME ScansIInv, PromptNext
  PROVE  ScansIInv'
<1>1. UNCHANGED <<card, names, hint, lot, scan, books>>
  BY DEF PromptNext, MarkBarcodePromptShown, SetBarcodePromptEnabled
<1>2. Prompted'
  <2>1. ASSUME NEW u \in Reader, MarkBarcodePromptShown(u)
        PROVE  Prompted'
    BY <2>1 DEF ScansIInv, Prompted, PromptRow, MarkBarcodePromptShown
  <2>2. ASSUME NEW u \in Reader, NEW on \in BOOLEAN, SetBarcodePromptEnabled(u, on)
        PROVE  Prompted'
    BY <2>2 DEF ScansIInv, Prompted, PromptRow, SetBarcodePromptEnabled
  <2> QED
    BY <2>1, <2>2 DEF PromptNext
<1>3. ScansTypeOK'
  BY <1>1 DEF ScansIInv, ScansTypeOK, Items
<1>4. UNCHANGED <<scan, books>> /\ \A l \in Lot : lot'[l].units = lot[l].units
  BY <1>1
<1> QED
  BY <1>2, <1>3, <1>4, NothingCounted

LEMMA MergeItemsKeeps ==
  ASSUME ScansIInv, NEW p \in Item, NEW q \in Item, MergeItems(p, q)
  PROVE  ScansIInv'
<1>1. ScansTypeOK
  BY DEF ScansIInv
<1>2. \A l \in Lot : lot[l] \in [owner : Item \cup {Nobody}, units : Nat]
  BY <1>1, LotUnits
<1>3. \A l \in Lot : /\ lot'[l] = IF lot[l].owner = q THEN [lot[l] EXCEPT !.owner = p] ELSE lot[l]
                     /\ lot'[l] \in [owner : Item \cup {Nobody}, units : Nat]
                     /\ lot'[l].units = lot[l].units
                     /\ lot'[l].owner = IF lot[l].owner = q THEN p ELSE lot[l].owner
  BY <1>2 DEF MergeItems, LotsOf
<1>4. ScansTypeOK'
  <2>1. lot' \in [Lot -> [owner : Item \cup {Nobody}, units : Nat]]
    BY <1>3 DEF MergeItems
  <2>2. DOMAIN card' = Items \ {q} /\ \A x \in Items \ {q} : card'[x] = card[x]
    BY DEF MergeItems
  <2>3. \A l \in Lot : lot'[l].owner = Nobody \/ lot'[l].owner \in DOMAIN card'
    BY <1>1, <1>3, <2>2 DEF ScansTypeOK, MergeItems
  <2>4. /\ names' \in [Code -> Item \cup {Nobody}] /\ UNCHANGED hint
        /\ \A c \in Code : names'[c] = Nobody \/ names'[c] \in DOMAIN card'
    BY <1>1, <2>2 DEF ScansTypeOK, MergeItems
  <2>5. DOMAIN card' \subseteq Item /\ \A x \in DOMAIN card' : card'[x] \in Card \cup {Nobody}
    BY <1>1, <2>2 DEF ScansTypeOK, Items
  <2> QED
    BY <1>1, <2>1, <2>3, <2>4, <2>5 DEF ScansTypeOK, Items
<1>5. Prompted' /\ UNCHANGED <<scan, books>>
  BY DEF ScansIInv, Prompted, MergeItems
<1> QED
  BY <1>3, <1>4, <1>5, NothingCounted

\* The books are kept when lots change: no lot that a request goes on holding does,
\* and what the shelf gains is what the books say.
LEMMA LotsCounted ==
  ASSUME ScansIInv, ScansTypeOK', UNCHANGED prompt,
         added' \in Nat, taken' \in Nat, discarded' \in Nat,
         NEW out \in SUBSET Scanner,
         scan' = [s \in Scanner |-> IF s \in out THEN NoScan ELSE scan[s]],
         \A s \in Scanner \ out, l \in Lot : scan[s].left[l] # Nobody => lot'[l].units = lot[l].units,
         SumOf(UnitsOf(lot'), Lot)
           = SumOf(UnitsOf(lot), Lot) + ((added' - added) - (taken' - taken) - (discarded' - discarded))
  PROVE  ScansIInv'
<1>1. \A s \in Scanner : IF s \in out THEN scan'[s] = NoScan ELSE scan'[s] = scan[s]
  OBVIOUS
<1>2. ScanRows'
  <2>1. scan' \in [Scanner -> ScanRow]
    BY <1>1, NoScanType DEF ScansIInv, ScanRows
  <2> QED
    BY <1>1, <2>1, NoScanType DEF ScansIInv, ScanRows
<1>3. OneHolder'
  BY <1>1, NoScanType DEF ScansIInv, OneHolder
<1>4. ASSUME NEW s \in Scanner
      PROVE  Accounted(s)'
  <2>1. CASE s \notin out
    BY <1>1, <2>1, StaysAccounted DEF ScansIInv, AllAccounted
  <2>2. CASE s \in out
    BY <1>1, <2>2, NoScanType DEF Accounted
  <2> QED
    BY <2>1, <2>2
<1>5. Balanced'
  <2>1. Balanced' <=> SumOf(UnitsOf(lot'), Lot) = UnitSum(FirstLots, DOMAIN FirstLots) + added' - taken' - discarded'
    BY DEF Balanced, UnitsOf, SumOf, UnitSum, MapThenSumSet, MapThenFoldSet
  <2>2. SumOf(UnitsOf(lot), Lot) \in Int /\ SumOf(UnitsOf(lot'), Lot) \in Int
    <3>1. \A l \in Lot : UnitsOf(lot')[l] \in Int
      BY DEF ScansTypeOK, UnitsOf
    <3> QED
      BY <3>1, LotUnits, ScansAssumption, SumType DEF ScansIInv
  <2>3. UnitSum(FirstLots, DOMAIN FirstLots) \in Int
    <3> DEFINE f == [l \in DOMAIN FirstLots |-> FirstLots[l].units]
    <3>1. IsFiniteSet(DOMAIN FirstLots)
      BY ScansAssumption, FS_Subset
    <3>2. \A l \in DOMAIN FirstLots : f[l] \in Int /\ f[l] = FirstLots[l].units
      BY ScansAssumption
    <3> HIDE DEF f
    <3> QED
      BY <3>1, <3>2, UnitSumIsSum, SumType
  <2>4. /\ added \in Nat /\ taken \in Nat /\ discarded \in Nat
        /\ SumOf(UnitsOf(lot), Lot) = UnitSum(FirstLots, DOMAIN FirstLots) + added - taken - discarded
    BY DEF ScansIInv, Balanced, ScanRows
  <2>5. SumOf(UnitsOf(lot'), Lot) = UnitSum(FirstLots, DOMAIN FirstLots) + added' - taken' - discarded'
    <3> DEFINE x == SumOf(UnitsOf(lot), Lot)
               y == SumOf(UnitsOf(lot'), Lot)
               z == UnitSum(FirstLots, DOMAIN FirstLots)
    <3>1. x \in Int /\ y \in Int /\ z \in Int
      BY <2>2, <2>3
    <3>2. x = z + added - taken - discarded
      BY <2>4
    <3>3. y = x + ((added' - added) - (taken' - taken) - (discarded' - discarded))
      OBVIOUS
    <3>4. /\ added \in Int /\ taken \in Int /\ discarded \in Int
          /\ added' \in Int /\ taken' \in Int /\ discarded' \in Int
      BY <2>4
    <3> HIDE DEF x, y, z
    <3>6. y = z + added' - taken' - discarded'
      BY ONLY <3>1, <3>2, <3>3, <3>4
    <3> QED
      BY <3>6 DEF y, z
  <2> QED
    BY <2>1, <2>5
<1> QED
  BY <1>2, <1>3, <1>4, <1>5 DEF ScansIInv, AllAccounted, Prompted

LEMMA DeleteItemKeeps ==
  ASSUME ScansIInv, NEW p \in Item, DeleteItem(p)
  PROVE  ScansIInv'
<1>1. ScansTypeOK /\ p # Nobody
  BY ScansAssumption DEF ScansIInv
<1>2. \A l \in Lot : lot[l] \in [owner : Item \cup {Nobody}, units : Nat]
  BY <1>1, LotUnits
<1>3. \A l \in Lot : /\ lot'[l] = IF lot[l].owner = p THEN NoLot ELSE lot[l]
                     /\ lot'[l] \in [owner : Item \cup {Nobody}, units : Nat]
                     /\ lot'[l].units = IF l \in LotsOf(p) THEN 0 ELSE lot[l].units
                     /\ lot'[l].owner = IF lot[l].owner = p THEN Nobody ELSE lot[l].owner
  BY <1>2 DEF DeleteItem, LotsOf, NoLot
<1>4. ScansTypeOK'
  <2>1. lot' \in [Lot -> [owner : Item \cup {Nobody}, units : Nat]]
    BY <1>3 DEF DeleteItem
  <2>2. DOMAIN card' = Items \ {p} /\ \A x \in Items \ {p} : card'[x] = card[x]
    BY DEF DeleteItem
  <2>3. \A l \in Lot : lot'[l].owner = Nobody \/ lot'[l].owner \in DOMAIN card'
    BY <1>1, <1>3, <2>2 DEF ScansTypeOK
  <2>4. /\ names' \in [Code -> Item \cup {Nobody}] /\ UNCHANGED hint
        /\ \A c \in Code : names'[c] = Nobody \/ names'[c] \in DOMAIN card'
    BY <1>1, <2>2 DEF ScansTypeOK, DeleteItem, Forget
  <2>5. DOMAIN card' \subseteq Item /\ \A x \in DOMAIN card' : card'[x] \in Card \cup {Nobody}
    BY <1>1, <2>2 DEF ScansTypeOK, Items
  <2> QED
    BY <1>1, <2>1, <2>3, <2>4, <2>5 DEF ScansTypeOK, Items
<1>5. LotsOf(p) \in SUBSET Lot /\ IsFiniteSet(Lot)
  BY ScansAssumption DEF LotsOf
<1> DEFINE u == UnitsOf(lot)
           v == UnitsOf(lot')
           g == [l \in Lot |-> IF l \in LotsOf(p) THEN u[l] ELSE 0]
<1>6. \A l \in Lot : u[l] \in Int /\ u[l] = lot[l].units /\ v[l] = lot'[l].units
  BY <1>1, LotUnits DEF UnitsOf
<1>7. \A l \in Lot : g[l] = IF l \in LotsOf(p) THEN u[l] ELSE 0
  OBVIOUS
<1> HIDE DEF u, v, g
<1>8. SumOf(g, Lot) = SumOf(u, LotsOf(p))
  BY <1>5, <1>6, <1>7, SumPart
<1>9. \A l \in Lot : v[l] \in Int /\ g[l] \in Int /\ u[l] = v[l] + g[l]
  BY <1>2, <1>3, <1>6, <1>7
<1>10. SumOf(u, Lot) = SumOf(v, Lot) + SumOf(g, Lot)
  BY <1>5, <1>9, SumPlus
<1>11. Units(LotsOf(p)) = SumOf(u, LotsOf(p))
  BY <1>1, <1>5, UnitsAreSums DEF u
<1>12. discarded' = discarded + SumOf(u, LotsOf(p)) /\ UNCHANGED <<added, taken, scan, prompt>>
  BY <1>11 DEF DeleteItem
<1>13. SumOf(u, LotsOf(p)) \in Nat
  <2>1. \A l \in Lot : u[l] \in Nat
    BY <1>2, <1>6
  <2> QED
    BY <1>5, <2>1, SumNat, FS_Subset
<1>14. SumOf(v, Lot) \in Int /\ SumOf(u, Lot) \in Int
  BY <1>5, <1>6, <1>9, SumType
<1>15. SumOf(v, Lot) = SumOf(u, Lot) + ((added' - added) - (taken' - taken) - (discarded' - discarded))
  BY <1>8, <1>10, <1>12, <1>13, <1>14 DEF ScansIInv, ScanRows
<1>16. \A s \in Scanner \ {}, l \in Lot : scan[s].left[l] # Nobody => lot'[l].units = lot[l].units
  <2>1. \A l \in LotsOf(p), s \in Scanner : scan[s].left[l] = Nobody
    BY DEF DeleteItem, Held
  <2> QED
    BY <1>3, <2>1
<1>17. scan' = [s \in Scanner |-> IF s \in {} THEN NoScan ELSE scan[s]]
  BY <1>12 DEF ScansIInv, ScanRows
<1>18. added' \in Nat /\ taken' \in Nat /\ discarded' \in Nat
  BY <1>12, <1>13 DEF ScansIInv, ScanRows
<1>19. SumOf(UnitsOf(lot'), Lot)
         = SumOf(UnitsOf(lot), Lot) + ((added' - added) - (taken' - taken) - (discarded' - discarded))
  BY <1>15 DEF u, v
<1>20. {} \in SUBSET Scanner /\ UNCHANGED prompt
  BY <1>12
<1> QED
  BY <1>4, <1>16, <1>17, <1>18, <1>19, <1>20, LotsCounted

\* A request begins or is refused; the codes may change with it.
LEMMA RequestFree ==
  ASSUME ScansIInv, UNCHANGED <<lot, prompt, books>>, ScansTypeOK',
         NEW s \in Scanner, NEW r \in ScanRow, scan' = [scan EXCEPT ![s] = r],
         r.phase # "take", \A l \in Lot : r.left[l] = Nobody,
         r.phase = "accept" => r.code \in Code
  PROVE  ScansIInv'
BY RequestChanges

(* A request that begins has taken nothing yet (AcceptCatalog, LogBarcode). *)
LEMMA RequestsBeginKeep ==
  ASSUME ScansIInv, NEW s \in Scanner, NEW c \in Code,
         AcceptCatalog(s, c) \/ \E d \in {"in", "out"}, q \in Quantity : LogBarcode(s, c, d, q)
  PROVE  ScansIInv'
<1>1. CASE AcceptCatalog(s, c)
  <2> DEFINE r == [NoScan EXCEPT !.phase = "accept", !.code = c, !.card = hint[c]]
  <2>1. hint[c] \in Card \cup {Nobody}
    BY DEF ScansIInv, ScansTypeOK
  <2>2. r \in ScanRow /\ r.phase = "accept" /\ r.code = c /\ \A l \in Lot : r.left[l] = Nobody
    BY <2>1, NoScanType DEF ScanRow
  <2>3. /\ scan' = [scan EXCEPT ![s] = r]
        /\ UNCHANGED <<card, names, hint, lot, prompt, books>>
    BY <1>1 DEF AcceptCatalog, BeginScan
  <2>4. ScansTypeOK'
    BY <2>3 DEF ScansIInv, ScansTypeOK, Items
  <2> HIDE DEF r
  <2> QED
    BY <2>2, <2>3, <2>4, RequestFree
<1>2. ASSUME NEW d \in {"in", "out"}, NEW q \in Quantity, LogBarcode(s, c, d, q)
      PROVE  ScansIInv'
  <2> DEFINE r == [NoScan EXCEPT !.phase = d, !.code = c, !.item = names[c], !.quantity = q]
  <2>1. names[c] \in Item \cup {Nobody} /\ q \in Nat
    BY ScansAssumption DEF ScansIInv, ScansTypeOK
  <2>2. r \in ScanRow /\ r.phase = d /\ \A l \in Lot : r.left[l] = Nobody
    BY <2>1, NoScanType DEF ScanRow
  <2>3. /\ scan' = [scan EXCEPT ![s] = r]
        /\ UNCHANGED <<card, names, hint, lot, prompt, books>>
    BY <1>2 DEF LogBarcode, BeginScan
  <2>4. ScansTypeOK'
    BY <2>3 DEF ScansIInv, ScansTypeOK, Items
  <2> HIDE DEF r
  <2> QED
    BY <2>2, <2>3, <2>4, RequestFree
<1> QED
  BY <1>1, <1>2

LEMMA RefuseScanKeeps ==
  ASSUME ScansIInv, NEW s \in Scanner, RefuseScan(s)
  PROVE  ScansIInv'
<1>1. /\ scan' = [scan EXCEPT ![s] = NoScan]
      /\ UNCHANGED <<card, names, hint, lot, prompt, books>>
  BY DEF RefuseScan
<1>2. ScansTypeOK'
  BY <1>1 DEF ScansIInv, ScansTypeOK, Items
<1> QED
  BY <1>1, <1>2, NoScanType, RequestFree

LEMMA CreateFromHintKeeps ==
  ASSUME ScansIInv, NEW s \in Scanner, NEW p \in Item, CreateProductFromBarcodeHint(s, p)
  PROVE  ScansIInv'
<1>1. /\ scan' = [scan EXCEPT ![s] = NoScan]
      /\ UNCHANGED <<hint, lot, prompt, books>>
  BY DEF CreateProductFromBarcodeHint
<1>2. scan[s].code \in Code /\ scan[s].card \in Card \cup {Nobody}
  BY DEF CreateProductFromBarcodeHint, ScansIInv, ScanRows, ScanRow
<1>3. ScansTypeOK'
  <2>1. /\ DOMAIN card' = Items \cup {p}
        /\ \A q \in Items \cup {p} : card'[q] = IF q = p THEN scan[s].card ELSE card[q]
    BY DEF CreateProductFromBarcodeHint
  <2>2. names' = [names EXCEPT ![scan[s].code] = p]
    BY DEF CreateProductFromBarcodeHint
  <2> QED
    BY <1>1, <1>2, <2>1, <2>2 DEF ScansIInv, ScansTypeOK, Items
<1> QED
  BY <1>1, <1>3, NoScanType, RequestFree

LEMMA StockUpKeeps ==
  ASSUME ScansIInv, NEW s \in Scanner, NEW l \in Lot, StockUp(s, l)
  PROVE  ScansIInv'
<1>1. scan[s].quantity \in Nat /\ scan[s].item \in Items /\ Items \subseteq Item
  BY DEF StockUp, ScansIInv, ScanRows, ScanRow, ScansTypeOK
<1> DEFINE row == [owner |-> scan[s].item, units |-> scan[s].quantity]
           u == UnitsOf(lot)
           v == UnitsOf(lot')
<1>2. row \in [owner : Item \cup {Nobody}, units : Nat] /\ row.owner = scan[s].item /\ row.units = scan[s].quantity
  BY <1>1
<1>3. /\ lot' = [lot EXCEPT ![l] = row] /\ added' = added + scan[s].quantity
      /\ scan' = [scan EXCEPT ![s] = NoScan]
      /\ UNCHANGED <<card, names, hint, prompt, taken, discarded>>
      /\ lot[l].units = 0 /\ Held(l) = {}
  BY DEF StockUp, NoLot, Unplanned
<1> HIDE DEF row
<1>4. lot'[l] = row /\ \A k \in Lot \ {l} : lot'[k] = lot[k]
  BY <1>3 DEF ScansIInv, ScansTypeOK
<1>5. ScansTypeOK'
  BY <1>1, <1>2, <1>3, <1>4 DEF ScansIInv, ScansTypeOK, Items
<1>6. \A k \in Lot : u[k] \in Int /\ u[k] = lot[k].units /\ v[k] = lot'[k].units /\ v[k] \in Int
  BY <1>5 DEF UnitsOf, ScansIInv, ScansTypeOK
<1>7. IsFiniteSet(Lot)
  BY ScansAssumption
<1> HIDE DEF u, v
<1>8. u[l] = 0 /\ v[l] = scan[s].quantity /\ \A k \in Lot : k # l => v[k] = u[k]
  BY <1>2, <1>3, <1>4, <1>6
<1>9. SumOf(v, Lot) = SumOf(u, Lot) + (v[l] - u[l])
  <2>1. (\A k \in Lot : u[k] \in Int /\ v[k] \in Int) /\ (\A k \in Lot : k # l => v[k] = u[k])
    BY <1>6, <1>8
  <2> QED
    BY <1>7, <2>1, SumChange
<1>10. SumOf(v, Lot) \in Int /\ SumOf(u, Lot) \in Int
  BY <1>6, <1>7, SumType
<1>11. added \in Nat /\ taken \in Nat /\ discarded \in Nat
  BY DEF ScansIInv, ScanRows
<1>12. SumOf(v, Lot) = SumOf(u, Lot) + ((added' - added) - (taken' - taken) - (discarded' - discarded))
  BY <1>1, <1>3, <1>8, <1>9, <1>10, <1>11
<1>13. SumOf(UnitsOf(lot'), Lot)
         = SumOf(UnitsOf(lot), Lot) + ((added' - added) - (taken' - taken) - (discarded' - discarded))
  BY <1>12 DEF u, v
<1>14. \A t \in Scanner \ {s}, k \in Lot : scan[t].left[k] # Nobody => lot'[k].units = lot[k].units
  BY <1>3, <1>4 DEF Held
<1>15. scan' = [t \in Scanner |-> IF t \in {s} THEN NoScan ELSE scan[t]]
  BY <1>3 DEF ScansIInv, ScanRows
<1>16. added' \in Nat /\ taken' \in Nat /\ discarded' \in Nat /\ {s} \in SUBSET Scanner /\ UNCHANGED prompt
  BY <1>1, <1>3, <1>11
<1> QED
  BY <1>5, <1>13, <1>14, <1>15, <1>16, LotsCounted

LEMMA CommitScanKeeps ==
  ASSUME ScansIInv, NEW s \in Scanner, CommitScan(s)
  PROVE  ScansIInv'
<1>1. /\ scan[s].quantity \in Nat /\ scan[s].left \in [Lot -> Nat \cup {Nobody}] /\ Nobody \notin Nat
      /\ ScansTypeOK
  BY ScansAssumption DEF ScansIInv, ScanRows, ScanRow
<1> DEFINE left == scan[s].left
           u == UnitsOf(lot)
           v == UnitsOf(lot')
           g == TookOf(left, lot)
<1>2. \A l \in Lot : lot[l] \in [owner : Item \cup {Nobody}, units : Nat]
  BY <1>1, LotUnits
<1>3. /\ taken' = taken + scan[s].quantity /\ scan' = [scan EXCEPT ![s] = NoScan]
      /\ UNCHANGED <<card, names, hint, prompt, added, discarded>>
      /\ lot' = [l \in Lot |-> IF left[l] = Nobody THEN lot[l]
                               ELSE IF left[l] = 0 THEN NoLot ELSE [lot[l] EXCEPT !.units = left[l]]]
  BY DEF CommitScan
<1>4. left \in [Lot -> Nat \cup {Nobody}]
  BY <1>1
<1> HIDE DEF left
<1>5. \A l \in Lot : /\ lot'[l] \in [owner : Item \cup {Nobody}, units : Nat]
                     /\ lot'[l].units = IF left[l] = Nobody THEN lot[l].units ELSE left[l]
                     /\ lot'[l].owner = Nobody \/ lot'[l].owner = lot[l].owner
  BY <1>1, <1>2, <1>3, <1>4 DEF NoLot
<1>6. ScansTypeOK'
  <2>1. lot' \in [Lot -> [owner : Item \cup {Nobody}, units : Nat]]
    BY <1>3, <1>5
  <2> QED
    BY <1>1, <1>3, <1>5, <2>1 DEF ScansTypeOK, Items
<1>7. \A l \in Lot : /\ u[l] \in Int /\ u[l] = lot[l].units /\ v[l] = lot'[l].units
                     /\ g[l] = IF left[l] = Nobody THEN 0 ELSE lot[l].units - left[l]
  BY <1>2 DEF UnitsOf, TookOf
<1>8. IsFiniteSet(Lot)
  BY ScansAssumption
<1>9. SumOf(g, Lot) = scan[s].quantity
  <2>1. SumOf(g, Lot) + PlanSum(<<>>) = scan[s].quantity /\ SumOf(g, Lot) \in Int
    BY <1>1, TookTypes DEF left, CommitScan, ScansIInv, AllAccounted, Accounted
  <2>2. PlanSum(<<>>) = 0
    <3>1. DOMAIN <<>> = {}
      OBVIOUS
    <3> QED
      BY <3>1, SumEmpty DEF PlanSum
  <2> HIDE DEF g
  <2> QED
    BY <2>1, <2>2
<1> HIDE DEF u, v, g
<1>10. \A l \in Lot : v[l] \in Int /\ g[l] \in Int /\ u[l] = v[l] + g[l]
  BY <1>1, <1>2, <1>4, <1>5, <1>7
<1>11. SumOf(u, Lot) = SumOf(v, Lot) + SumOf(g, Lot)
  BY <1>8, <1>10, SumPlus
<1>12. SumOf(v, Lot) \in Int /\ SumOf(u, Lot) \in Int
  BY <1>7, <1>8, <1>10, SumType
<1>13. added \in Nat /\ taken \in Nat /\ discarded \in Nat
  BY DEF ScansIInv, ScanRows
<1>14. SumOf(v, Lot) = SumOf(u, Lot) + ((added' - added) - (taken' - taken) - (discarded' - discarded))
  BY <1>1, <1>3, <1>9, <1>11, <1>12, <1>13
<1>15. SumOf(UnitsOf(lot'), Lot)
         = SumOf(UnitsOf(lot), Lot) + ((added' - added) - (taken' - taken) - (discarded' - discarded))
  BY <1>14 DEF u, v
<1>16. \A t \in Scanner \ {s}, k \in Lot : scan[t].left[k] # Nobody => lot'[k].units = lot[k].units
  BY <1>5 DEF left, ScansIInv, OneHolder
<1>17. scan' = [t \in Scanner |-> IF t \in {s} THEN NoScan ELSE scan[t]]
  BY <1>3 DEF ScansIInv, ScanRows
<1>18. added' \in Nat /\ taken' \in Nat /\ discarded' \in Nat /\ {s} \in SUBSET Scanner /\ UNCHANGED prompt
  BY <1>1, <1>3, <1>13
<1> QED
  BY <1>6, <1>15, <1>16, <1>17, <1>18, LotsCounted

\* Whatever is planned names lots and numbers.
LEMMA PlansTyped ==
  ASSUME ScansIInv, NEW s \in Scanner, NEW plan, PlanDecrements(s, plan)
  PROVE  plan \in Seq([lot : Lot, units : Nat])
<1> DEFINE p == scan[s].item
           q == scan[s].quantity
<1>1. ScansTypeOK /\ q \in Nat
  BY DEF ScansIInv, ScanRows, ScanRow
<1>2. \A i \in DOMAIN plan : plan[i].units >= 1
  BY DEF PlanDecrements
<1>3. CASE plan \in ChosenDecrements(q)
  <2>1. ASSUME NEW l \in Lot, plan = <<[lot |-> l, units |-> q]>>
        PROVE  plan \in Seq([lot : Lot, units : Nat])
    BY <1>1, <2>1
  <2>2. ASSUME NEW l \in Lot, NEW k \in Lot,
               plan = <<[lot |-> l, units |-> q - 1], [lot |-> k, units |-> 1]>>
        PROVE  plan \in Seq([lot : Lot, units : Nat])
    <3>1. q - 1 >= 1
      BY <1>2, <2>2
    <3> QED
      BY <1>1, <2>2, <3>1
  <2> HIDE DEF q
  <2>3. \/ \E l \in Lot : plan = <<[lot |-> l, units |-> q]>>
        \/ \E l, k \in Lot : plan = <<[lot |-> l, units |-> q - 1], [lot |-> k, units |-> 1]>>
    BY <1>3 DEF ChosenDecrements
  <2> QED
    BY <2>1, <2>2, <2>3
<1>4. CASE plan \in DefaultDecrements(p, q)
  <2> DEFINE Before(l) == Units({k \in LotsOf(p) : k < l})
             Take(l) == Min({lot[l].units, q - Before(l)})
             Touched == {l \in LotsOf(p) : Take(l) > 0}
             N == 1..Cardinality(Touched)
  <2>1. PICK o \in [N -> Touched] : plan = [i \in N |-> [lot |-> o[i], units |-> Take(o[i])]]
    BY <1>4 DEF DefaultDecrements
  <2>2. Touched \subseteq Lot
    BY DEF LotsOf
  <2>3. Cardinality(Touched) \in Nat
    <3> HIDE DEF Touched
    <3> QED
      BY <2>2, ScansAssumption, FS_Subset, FS_CardinalityType
  <2>4. ASSUME NEW l \in Lot
        PROVE  Take(l) \in Int
    <3>1. Before(l) \in Int
      <4> DEFINE ls == {k \in LotsOf(p) : k < l}
      <4>1. ls \in SUBSET Lot
        BY DEF LotsOf
      <4> HIDE DEF ls
      <4>2. Units(ls) \in Int
        BY <1>1, <4>1, UnitsAreSums
      <4> QED
        BY <4>2 DEF ls
    <3>2. lot[l].units \in Int
      BY <1>1, LotUnits
    <3> DEFINE b == q - Before(l)
    <3>3. b \in Int
      BY <1>1, <3>1
    <3> HIDE DEF b
    <3>4. \E x \in {lot[l].units, b} : \A y \in {lot[l].units, b} : x <= y
      BY <3>2, <3>3
    <3>5. Min({lot[l].units, b}) \in {lot[l].units, b}
      BY <3>4 DEF Min
    <3>6. Min({lot[l].units, b}) \in Int
      BY <3>2, <3>3, <3>5
    <3> QED
      BY <3>6 DEF b
  <2>5. ASSUME NEW i \in N
        PROVE  plan[i] \in [lot : Lot, units : Nat]
    <3>1. o[i] \in Lot
      BY <2>1, <2>2
    <3> DEFINE t == Take(o[i])
    <3>2. t \in Int
      BY <2>4, <3>1
    <3> HIDE DEF Take, Touched
    <3>3. plan[i] = [lot |-> o[i], units |-> t] /\ i \in DOMAIN plan
      BY <2>1
    <3> HIDE DEF t
    <3>4. t >= 1
      BY <1>2, <3>3
    <3>5. t \in Nat
      BY <3>2, <3>4
    <3> QED
      BY <3>1, <3>3, <3>5
  <2>6. DOMAIN plan = N /\ plan = [i \in N |-> plan[i]]
    <3> HIDE DEF Take, Touched
    <3> QED
      BY <2>1
  <2> HIDE DEF Take, Touched
  <2>7. plan \in [1..Cardinality(Touched) -> [lot : Lot, units : Nat]]
    BY <2>5, <2>6
  <2> DEFINE R == [lot : Lot, units : Nat]
             m == Cardinality(Touched)
  <2>8. m \in Nat /\ plan \in [1..m -> R]
    BY <2>3, <2>7
  <2> HIDE DEF R, m
  <2>9. plan \in Seq(R)
    BY <2>8
  <2> QED
    BY <2>9 DEF R
<1> QED
  BY <1>3, <1>4 DEF PlanDecrements

LEMMA PlanDecrementsKeeps ==
  ASSUME ScansIInv, NEW s \in Scanner, NEW plan, PlanDecrements(s, plan)
  PROVE  ScansIInv'
<1> DEFINE r == [scan[s] EXCEPT !.phase = "take", !.plan = plan]
<1>1. plan \in Seq([lot : Lot, units : Nat])
  BY PlansTyped
<1>2. /\ scan[s] \in ScanRow /\ scan[s].phase = "out"
      /\ \A l \in Lot : scan[s].left[l] = Nobody
  BY DEF PlanDecrements, ScansIInv, ScanRows
<1>3. /\ r \in ScanRow /\ r.phase = "take" /\ r.plan = plan /\ r.left = scan[s].left
      /\ r.quantity = scan[s].quantity
  BY <1>1, <1>2 DEF ScanRow
<1>4. /\ scan' = [scan EXCEPT ![s] = r] /\ UNCHANGED <<card, names, hint, lot, prompt, books>>
      /\ PlanTotal(plan) = scan[s].quantity
  BY <1>2 DEF PlanDecrements, ScansIInv, ScanRows, ScanRow
<1>5. ScansTypeOK'
  BY <1>4 DEF ScansIInv, ScansTypeOK, Items
<1>6. PlanSum(plan) = scan[s].quantity /\ PlanSum(plan) \in Int
  BY <1>1, <1>4, PlanTotals
<1>7. SumOf(TookOf(scan[s].left, lot), Lot) = 0
  <2>1. \A l \in Lot : TookOf(scan[s].left, lot)[l] = 0
    BY <1>2 DEF TookOf
  <2> QED
    BY <2>1, ScansAssumption, SumZero
<1> HIDE DEF r
<1>8. SumOf(TookOf(r.left, lot), Lot) + PlanSum(r.plan) = r.quantity
  BY <1>3, <1>6, <1>7
<1>9. \A l \in Lot : r.left[l] # Nobody => \A t \in Scanner \ {s} : scan[t].left[l] = Nobody
  BY <1>2, <1>3
<1> QED
  BY <1>3, <1>4, <1>5, <1>8, <1>9, RequestChanges

LEMMA AdjustBatchKeeps ==
  ASSUME ScansIInv, NEW s \in Scanner, AdjustBatch(s)
  PROVE  ScansIInv'
<1> DEFINE plan == scan[s].plan
           left == scan[s].left
           d == Head(plan)
           units == IF left[d.lot] # Nobody THEN left[d.lot] ELSE lot[d.lot].units
           less == [left EXCEPT ![d.lot] = units - d.units]
           r == [scan[s] EXCEPT !.plan = Tail(plan), !.left = less]
<1>1. /\ scan[s] \in ScanRow /\ scan[s].phase = "take" /\ plan # <<>>
      /\ plan \in Seq([lot : Lot, units : Nat]) /\ left \in [Lot -> Nat \cup {Nobody}]
      /\ scan[s].quantity \in Nat
  BY DEF AdjustBatch, ScansIInv, ScanRows, ScanRow
<1>2. /\ PlanSum(plan) = d.units + PlanSum(Tail(plan))
      /\ d \in [lot : Lot, units : Nat] /\ Tail(plan) \in Seq([lot : Lot, units : Nat])
      /\ PlanSum(plan) \in Int /\ PlanSum(Tail(plan)) \in Int
  <2> HIDE DEF plan
  <2>1. /\ PlanSum(plan) = d.units + PlanSum(Tail(plan))
        /\ d \in [lot : Lot, units : Nat] /\ Tail(plan) \in Seq([lot : Lot, units : Nat])
    BY <1>1, PlanSplits
  <2> QED
    BY <1>1, <2>1, PlanTotals
<1>3. d.lot \in Lot /\ d.units \in Nat
  BY <1>2
<1>4. lot[d.lot].units \in Nat /\ ScansTypeOK
  BY <1>3, LotUnits DEF ScansIInv
<1>5. units \in Nat /\ units >= d.units /\ Held(d.lot) \subseteq {s}
  BY <1>1, <1>3, <1>4 DEF AdjustBatch, LockLot
<1>6. scan' = [scan EXCEPT ![s] = r] /\ UNCHANGED <<card, names, hint, lot, prompt, books>>
  BY <1>1 DEF AdjustBatch, ScansIInv, ScanRows, ScanRow
<1>7. units - d.units \in Nat
  <2> HIDE DEF units
  <2> QED
    BY <1>3, <1>5
<1>8. /\ less \in [Lot -> Nat \cup {Nobody}] /\ less[d.lot] = units - d.units
      /\ \A l \in Lot : l # d.lot => less[l] = left[l]
  <2> HIDE DEF units, left, d
  <2> QED
    BY <1>1, <1>3, <1>7
<1>9. r \in ScanRow /\ r.phase = "take" /\ r.plan = Tail(plan) /\ r.left = less /\ r.quantity = scan[s].quantity
  <2> HIDE DEF less, plan
  <2> QED
    BY <1>1, <1>2, <1>8 DEF ScanRow
<1>10. ScansTypeOK'
  BY <1>6 DEF ScansIInv, ScansTypeOK, Items
<1> DEFINE f == TookOf(left, lot)
           h == TookOf(less, lot)
           l == d.lot
<1>11. /\ \A k \in Lot : f[k] \in Int /\ h[k] \in Int
       /\ SumOf(f, Lot) \in Int /\ SumOf(h, Lot) \in Int
  <2> HIDE DEF less, left
  <2> QED
    BY <1>1, <1>4, <1>8, TookTypes
<1>12. f[l] = lot[l].units - units /\ h[l] = lot[l].units - (units - d.units)
  <2>1. l \in Lot /\ less[l] # Nobody /\ less[l] = units - d.units
    BY <1>3, <1>7, <1>8, ScansAssumption
  <2>2. h[l] = lot[l].units - (units - d.units)
    <3> HIDE DEF less, units, l
    <3> QED
      BY <2>1 DEF TookOf
  <2>3. f[l] = lot[l].units - units
    <3>1. CASE left[l] = Nobody
      <4>1. units = lot[l].units /\ f[l] = 0
        BY <2>1, <3>1 DEF TookOf
      <4> HIDE DEF units, f
      <4> QED
        BY <1>4, <4>1
    <3>2. CASE left[l] # Nobody
      BY <2>1, <3>2 DEF TookOf
    <3> QED
      BY <3>1, <3>2
  <2> QED
    BY <2>2, <2>3
<1>13. \A k \in Lot : k # l => h[k] = f[k]
  <2> HIDE DEF less, left
  <2> QED
    BY <1>8 DEF TookOf
<1>14. SumOf(f, Lot) + PlanSum(plan) = scan[s].quantity
  BY <1>1 DEF ScansIInv, AllAccounted, Accounted
<1>15. \A k \in Lot : r.left[k] # Nobody => \A t \in Scanner \ {s} : scan[t].left[k] = Nobody
  <2>1. \A k \in Lot : r.left[k] # Nobody => k = l \/ left[k] # Nobody
    <3> HIDE DEF r, less, left, d
    <3> QED
      BY <1>8, <1>9
  <2>2. \A k \in Lot : left[k] # Nobody => \A t \in Scanner \ {s} : scan[t].left[k] = Nobody
    BY DEF ScansIInv, OneHolder
  <2>3. \A t \in Scanner \ {s} : scan[t].left[l] = Nobody
    BY <1>5 DEF Held
  <2> HIDE DEF r, left, l
  <2> QED
    BY <2>1, <2>2, <2>3
<1>16. SumOf(TookOf(r.left, lot), Lot) + PlanSum(r.plan) = r.quantity
  <2>1. TookOf(r.left, lot) = h
    BY <1>9
  <2>2. l \in Lot /\ IsFiniteSet(Lot)
    BY <1>3, ScansAssumption
  <2> HIDE DEF f, h, l, units, plan, d
  <2>3. SumOf(h, Lot) = SumOf(f, Lot) + (h[l] - f[l])
    <3>1. \A k \in Lot : f[k] \in Int /\ h[k] \in Int
      BY <1>11
    <3> QED
      BY <1>13, <2>2, <3>1, SumChange
  <2>4. h[l] - f[l] = d.units
    BY <1>3, <1>4, <1>5, <1>12 DEF l
  <2>5. SumOf(h, Lot) + PlanSum(Tail(plan)) = scan[s].quantity
    BY <1>1, <1>2, <1>3, <1>11, <1>14, <2>3, <2>4
  <2> QED
    BY <1>9, <2>1, <2>5
<1> HIDE DEF r
<1> QED
  BY <1>6, <1>9, <1>10, <1>15, <1>16, RequestChanges

(* The invariant of the scans holds initially. *)
LEMMA ScansInitHolds == ScansInit => ScansIInv
<1> SUFFICES ASSUME ScansInit
             PROVE  ScansIInv
  OBVIOUS
<1>1. \A l \in Lot : /\ lot[l] = IF l \in DOMAIN FirstLots THEN FirstLots[l] ELSE NoLot
                     /\ lot[l] \in [owner : Item \cup {Nobody}, units : Nat]
                     /\ lot[l].owner = Nobody \/ lot[l].owner \in DOMAIN FirstItems
  BY ScansAssumption DEF ScansInit, NoLot
<1>2. ScansTypeOK
  <2>1. lot \in [Lot -> [owner : Item \cup {Nobody}, units : Nat]]
    BY <1>1 DEF ScansInit
  <2>2. /\ Items = DOMAIN FirstItems
        /\ \A p \in Items : card[p] \in Card \cup {Nobody}
        /\ Items \subseteq Item
    BY ScansAssumption DEF ScansInit, Items
  <2>3. names \in [Code -> Item \cup {Nobody}] /\ hint \in [Code -> Card \cup {Nobody}]
    BY DEF ScansInit
  <2>4. \A c \in Code : names[c] = Nobody
    BY DEF ScansInit
  <2> QED
    BY <1>1, <2>1, <2>2, <2>3, <2>4 DEF ScansTypeOK
<1>3. \A s \in Scanner : scan[s] = NoScan
  BY DEF ScansInit
<1>4. ScanRows /\ OneHolder
  BY <1>3, NoScanType DEF ScansInit, ScanRows, OneHolder
<1>5. Prompted
  BY DEF ScansInit, Prompted, PromptRow
<1>6. AllAccounted
  BY <1>3, NoScanType DEF AllAccounted, Accounted
<1>7. Balanced
  <2> DEFINE f == [l \in DOMAIN FirstLots |-> FirstLots[l].units]
             g == [l \in Lot |-> IF l \in DOMAIN FirstLots THEN FirstLots[l].units ELSE 0]
             h == UnitsOf(lot)
             D == DOMAIN FirstLots
  <2>1. D \in SUBSET Lot /\ IsFiniteSet(D) /\ IsFiniteSet(Lot)
    BY ScansAssumption, FS_Subset
  <2>2. \A l \in D : f[l] \in Int /\ f[l] = FirstLots[l].units /\ g[l] = f[l]
    BY ScansAssumption
  <2>3. \A l \in Lot : g[l] \in Int /\ h[l] = IF l \in D THEN g[l] ELSE 0
    BY <1>1, ScansAssumption DEF UnitsOf, NoLot
  <2>4. UnitSum(FirstLots, D) = SumOf(f, D)
    <3> HIDE DEF f, D
    <3> QED
      BY <2>1, <2>2, UnitSumIsSum
  <2>5. SumOf(g, D) = SumOf(f, D)
    <3> HIDE DEF f, g, D
    <3> QED
      BY <2>1, <2>2, SumSame
  <2>6. SumOf(h, Lot) = SumOf(g, D)
    <3>1. \A x \in Lot : g[x] \in Int
      BY <2>3
    <3>2. \A x \in Lot : h[x] = IF x \in D THEN g[x] ELSE 0
      BY <2>3
    <3> HIDE DEF g, h, D
    <3> QED
      BY <2>1, <3>1, <3>2, SumPart
  <2>7. SumOf(f, D) \in Int
    <3> HIDE DEF f, D
    <3> QED
      BY <2>1, <2>2, SumType
  <2>8. added = 0 /\ taken = 0 /\ discarded = 0
    BY DEF ScansInit
  <2> HIDE DEF f, g, h, D
  <2>9. SumOf(h, Lot) = UnitSum(FirstLots, D) + added - taken - discarded
    BY <2>4, <2>5, <2>6, <2>7, <2>8
  <2> QED
    BY <2>9 DEF Balanced, h, D
<1> QED
  BY <1>2, <1>4, <1>5, <1>6, <1>7 DEF ScansIInv

(* Every step of the scans keeps their invariant. *)
LEMMA ScansStepKeeps ==
  ASSUME ScansIInv, [ScansNext \/ PromptNext]_scanVars
  PROVE  ScansIInv'
<1>1. CASE ScansNext
  <2>1. ASSUME NEW p \in Item, NEW c \in Code, AssociateBarcode(p, c) \/ DeleteProductBarcode(p, c)
        PROVE  ScansIInv'
    BY <2>1, CodesKeep
  <2>2. ASSUME NEW c \in Code, DeleteCatalogBarcode(c)
        PROVE  ScansIInv'
    <3>1. UNCHANGED <<lot, scan, books, prompt, card, names>>
      BY <2>2 DEF DeleteCatalogBarcode
    <3>2. ScansTypeOK' /\ Prompted'
      BY <2>2, <3>1 DEF ScansIInv, ScansTypeOK, DeleteCatalogBarcode, Items, Prompted
    <3>3. UNCHANGED <<scan, books>> /\ \A l \in Lot : lot'[l].units = lot[l].units
      BY <3>1
    <3> QED
      BY <3>2, <3>3, NothingCounted
  <2>3. ASSUME NEW s \in Scanner,
               NEW plan \in DefaultDecrements(scan[s].item, scan[s].quantity)
                              \cup ChosenDecrements(scan[s].quantity),
               PlanDecrements(s, plan)
        PROVE  ScansIInv'
    BY <2>3, PlanDecrementsKeeps
  <2>4. ASSUME NEW p \in Item, NEW q \in Item, MergeItems(p, q)
        PROVE  ScansIInv'
    BY <2>4, MergeItemsKeeps
  <2>5. ASSUME NEW p \in Item, DeleteItem(p)
        PROVE  ScansIInv'
    BY <2>5, DeleteItemKeeps
  <2>6. ASSUME NEW s \in Scanner, NEW c \in Code,
               AcceptCatalog(s, c) \/ \E d \in {"in", "out"}, q \in Quantity : LogBarcode(s, c, d, q)
        PROVE  ScansIInv'
    BY <2>6, RequestsBeginKeep
  <2>7. ASSUME NEW s \in Scanner, NEW p \in Item, CreateProductFromBarcodeHint(s, p)
        PROVE  ScansIInv'
    BY <2>7, CreateFromHintKeeps
  <2>8. ASSUME NEW s \in Scanner, NEW l \in Lot, StockUp(s, l)
        PROVE  ScansIInv'
    BY <2>8, StockUpKeeps
  <2>9. ASSUME NEW s \in Scanner, AdjustBatch(s) \/ CommitScan(s) \/ RefuseScan(s)
        PROVE  ScansIInv'
    BY <2>9, AdjustBatchKeeps, CommitScanKeeps, RefuseScanKeeps
  <2> QED
    BY <1>1, <2>1, <2>2, <2>3, <2>4, <2>5, <2>6, <2>7, <2>8, <2>9 DEF ScansNext
<1>2. CASE PromptNext
  BY <1>2, PromptsKeep
<1>3. CASE UNCHANGED scanVars
  <2>1. UNCHANGED <<card, names, hint, lot, prompt>> /\ UNCHANGED <<scan, books>>
    BY <1>3 DEF scanVars, books
  <2>2. ScansTypeOK' /\ Prompted' /\ \A l \in Lot : lot'[l].units = lot[l].units
    BY <2>1 DEF ScansIInv, ScansTypeOK, Items, Prompted
  <2> QED
    BY <2>1, <2>2, NothingCounted
<1> QED
  BY <1>1, <1>2, <1>3

(* The inductive invariant of Scans. *)
THEOREM ScansInvariant == ScansSpec => []ScansIInv
<1>1. ScansInit => ScansIInv
  BY ScansInitHolds
<1>2. ScansIInv /\ [ScansNext \/ PromptNext]_scanVars => ScansIInv'
  BY ScansStepKeeps
<1> QED
  BY <1>1, <1>2, PTL DEF ScansSpec

(* For any number of scans, lots, merges and deletions, the shelf is what was there
   and what was scanned in, less exactly what answered scans took and what went with a
   product (LogBarcode, defaultDecrements, adjustBatch, mergeProducts, DeleteProduct). *)
THEOREM ScansAddUp == ScansSpec => []ScansCountOnce
<1>1. ScansIInv => ScansCountOnce
  <2> SUFFICES ASSUME ScansIInv
               PROVE  ScansCountOnce
    OBVIOUS
  <2>1. Units(Lot) = SumOf(UnitsOf(lot), Lot)
    BY UnitsAreSums DEF ScansIInv
  <2>2. UnitSum(FirstLots, DOMAIN FirstLots) = MapThenSumSet(LAMBDA l : FirstLots[l].units, DOMAIN FirstLots)
    BY DEF UnitSum
  <2>3. \A u \in Reader : prompt[u].first <= 1
    BY DEF ScansIInv, Prompted
  <2> QED
    BY <2>1, <2>2, <2>3 DEF ScansIInv, Balanced, ScansCountOnce
<1> QED
  BY <1>1, ScansInvariant, PTL


-----------------------------------------------------------------------------
(* The composition *)

(* What is in focus is what the four modules do. *)
LEMMA FocusIsOwn ==
  /\ Scanning => ScansNext \/ PromptNext
  /\ Shops => ShoppingNext
  /\ Scores => ScoringNext
  /\ Notifies => DigestNext
<1>1. Scanning => ScansNext \/ PromptNext
  BY DEF Scanning
<1>2. Shops => ShoppingNext
  <2>1. 1 \in Line
    BY Zenon, FocusAssumption
  <2>2. LinesNext({1}) => LinesNext(Line)
    BY <2>1 DEF LinesNext
  <2> QED
    BY <2>2 DEF Shops, ShoppingNext
<1>3. Scores => ScoringNext
  <2>1. 1 \in Good /\ j1 \in WeekJob
    BY Zenon, FocusAssumption
  <2>2. Helpful \subseteq Deed /\ Confirming \subseteq Deed
    BY Zenon, FocusAssumption
  <2>3. ASSUME NEW ps \in SUBSET Good, NEW kinds \in SUBSET Deed, WritesNext(ps, kinds)
        PROVE  WritesNext(Good, Deed)
    <3>1. ASSUME NEW w \in Writer, NEW u \in Member, NEW p \in ps, NEW g \in Generator,
                 "metadata_filled" \in kinds, FillIn(w, u, g, p)
          PROVE  WritesNext(Good, Deed)
      <4>1. p \in Good /\ "metadata_filled" \in Deed
        BY <3>1
      <4> QED
        BY <3>1, <4>1 DEF WritesNext
    <3>2. ASSUME NEW w \in Writer, NEW u \in Member, NEW p \in ps, NEW k \in kinds, NEW e \in BOOLEAN,
                 Score(w, u, k, p, e)
          PROVE  WritesNext(Good, Deed)
      <4>1. p \in Good /\ k \in Deed
        OBVIOUS
      <4> QED
        BY <3>2, <4>1 DEF WritesNext
    <3>3. ASSUME NEW w \in Writer, Bump(w) \/ AdvanceOneQuest(w) \/ CommitWrite(w) \/ RollBack(w)
          PROVE  WritesNext(Good, Deed)
      BY <3>3 DEF WritesNext
    <3>4. ASSUME NEW w \in Writer, NEW u \in Member, PayContributor(w, u)
          PROVE  WritesNext(Good, Deed)
      BY <3>4 DEF WritesNext
    <3> QED
      BY <2>3, <3>1, <3>2, <3>3, <3>4 DEF WritesNext
  <2>4. RunWeeklyGamificationJobs({j1}) => RunWeeklyGamificationJobs(WeekJob)
    BY <2>1 DEF RunWeeklyGamificationJobs
  <2>5. DropProduct(1) => GoodsNext
    BY <2>1 DEF GoodsNext
  <2>6. (\E g \in Generator, p \in Good : MeetQuietly(g, p)) => GoodsNext
    BY DEF GoodsNext
  <2>7. /\ WritesNext(Good, Helpful) => WritesNext(Good, Deed)
        /\ WritesNext({1}, Helpful) => WritesNext(Good, Deed)
        /\ WritesNext({1}, Confirming) => WritesNext(Good, Deed)
    <3>1. {1} \in SUBSET Good /\ Good \in SUBSET Good
      BY <2>1
    <3>2. Helpful \in SUBSET Deed /\ Confirming \in SUBSET Deed
      BY <2>2
    <3> QED
      BY <2>3, <3>1, <3>2
  <2> QED
    BY <2>4, <2>5, <2>6, <2>7 DEF Scores, ScoringNext
<1>4. Notifies => DigestNext
  <2>1. 0 \in HourOfDay
    BY Zenon, FocusAssumption
  <2>2. (\E h \in House, on \in BOOLEAN : SaveNotificationSettings(h, on, 0, FALSE)) => SettingsNext
    BY <2>1 DEF SettingsNext
  <2> QED
    BY <2>2 DEF Notifies, DigestNext
<1> QED
  BY <1>1, <1>2, <1>3, <1>4

(* Scanning, shopping, scoring and notifying, put side by side, are each what they are
   alone, whatever is in focus. *)
THEOREM HouseholdImplements == HouseholdSpec => ScansSpec /\ ShoppingSpec /\ ScoringSpec /\ DigestSpec
<1>1. HouseholdInit => ScansInit /\ ShoppingInit /\ ScoringInit /\ DigestInit
  BY DEF HouseholdInit
<1>2. [HouseholdNext]_householdVars => [ScansNext \/ PromptNext]_scanVars
  BY FocusIsOwn DEF HouseholdNext, householdVars
<1>3. [HouseholdNext]_householdVars => [ShoppingNext]_shoppingVars
  BY FocusIsOwn DEF HouseholdNext, householdVars
<1>4. [HouseholdNext]_householdVars => [ScoringNext]_scoringVars
  BY FocusIsOwn DEF HouseholdNext, householdVars
<1>5. [HouseholdNext]_householdVars => [DigestNext]_digestVars
  BY FocusIsOwn DEF HouseholdNext, householdVars
<1> QED
  BY <1>1, <1>2, <1>3, <1>4, <1>5, PTL DEF HouseholdSpec, ScansSpec, ShoppingSpec, ScoringSpec, DigestSpec

(* Products, lots, lists, points, quests and digests keep their types, whatever the
   members of the household do in turn. *)
THEOREM HouseholdTypeCorrect == HouseholdSpec => []HouseholdTypeOK
<1>1. ScansIInv => ScansTypeOK
  BY DEF ScansIInv
<1>2. ShoppingIInv => ShoppingTypeOK
  BY DEF ShoppingIInv
<1>3. DigestIInv => DigestTypeOK
  BY DEF DigestIInv
<1>4. ScansTypeOK /\ ShoppingTypeOK /\ ScoringTypeOK /\ DigestTypeOK => HouseholdTypeOK
  BY DEF HouseholdTypeOK
<1> QED
  BY <1>1, <1>2, <1>3, <1>4, HouseholdImplements, ScansInvariant, ShoppingInvariant, ScoringTypeCorrect,
     DigestInvariant, PTL

(* What the four modules promise holds of the household: what is on the shelf is what was
   scanned, lines are settled once, rewards are paid once, no points are lost, and a storage
   is notified once a day. *)
THEOREM HouseholdSafe ==
    HouseholdSpec => [](ScansCountOnce /\ ShoppingSettlesOnce /\ QuestsPayOnce /\ NoXPLost /\ OneDigestPerDay)
BY HouseholdImplements, ScansAddUp, SettledOnce, RewardsPaidOnce, NoPointsLost, NotifiedOncePerDay, PTL
=============================================================================
