-------------------------------- MODULE Digest --------------------------------
(* The daily digest of what is about to expire (internal/store/notifications.go,
   internal/notify, internal/httpapi/notifications.go, runExpiryNotifications).

   Every process wakes at the top of each hour, claims the storages that are due in
   one statement, and then reads, builds, posts and records one after the other.
   Nothing is retried.  Kind, URL, token and the wording of the message are left
   out: a post reaches the receiver or not, and is answered or not. *)
EXTENDS Integers, FiniteSets

CONSTANTS
    House,          \* storages
    Crate, HouseOf, \* batches, and the storage of each
    FirstSettings,  \* what may be saved to begin with
    FirstExpires,   \* dates to begin with
    ExpiryDay,      \* days on which a batch may expire
    Ticker,         \* server processes
    HourOfDay,      \* hours of a day: 0..n
    CriticalWithinDays, SoonWithinDays,
    MaxDay, MaxChanges,
    Unset           \* no row; NULL

ASSUME DigestAssumption ==
    /\ MaxDay \in Nat \ {0} /\ MaxChanges \in Nat
    /\ HourOfDay \subseteq Nat /\ 0 \in HourOfDay
    /\ ExpiryDay \subseteq Nat /\ {Unset} \cap Nat = {} /\ Unset \notin House
    /\ {CriticalWithinDays, SoonWithinDays} \subseteq Nat /\ CriticalWithinDays <= SoonWithinDays
    /\ FirstSettings \subseteq
         [House -> [enabled : BOOLEAN, hour : HourOfDay \cup {Unset}, soon : BOOLEAN,
                    lastRun : (1..MaxDay) \cup {Unset}, result : {Unset, "sent", "failed", "empty"}]]
    /\ FirstExpires \in [Crate -> ExpiryDay \cup {Unset}]

VARIABLES
    settings,       \* notification_settings
    expires,        \* expiration_date of every batch there is; Unset: no batch
    now,            \* the server's day and hour
    run,            \* what a process is doing
    posts,          \* history: digests posted for a storage, by the day they were claimed
    changes         \* history: requests

digestVars == <<settings, expires, now, run, posts, changes>>

NoSettings == [enabled |-> FALSE, hour |-> Unset, soon |-> FALSE, lastRun |-> Unset, result |-> Unset]
NoRun == [phase |-> "idle", ticked |-> FALSE, day |-> 0, due |-> {}, house |-> Unset, soon |-> FALSE,
          read |-> [c \in Crate |-> Unset], digest |-> {}]

DigestInit ==
    /\ settings \in FirstSettings
    /\ expires = FirstExpires
    /\ now = [day |-> 1, hour |-> 0]
    /\ run = [t \in Ticker |-> NoRun]
    /\ posts = [h \in House |-> [d \in 1..MaxDay |-> 0]]
    /\ changes = 0

Saved(h) == settings[h].hour # Unset

-----------------------------------------------------------------------------
(* Requests *)

\* A save keeps last_run_at and last_result.
SaveNotificationSettings(h, on, hour, soon) ==
    /\ changes < MaxChanges
    /\ settings' = [settings EXCEPT ![h] = [@ EXCEPT !.enabled = on, !.hour = hour, !.soon = soon]]
    /\ changes' = changes + 1
    /\ UNCHANGED <<expires, now, run, posts>>

\* Test: only for settings that are saved and on; the result is recorded.
SendTest(h, result) ==
    /\ Saved(h) /\ settings[h].enabled
    /\ settings' = [settings EXCEPT ![h].result = result]
    /\ UNCHANGED <<expires, now, run, posts, changes>>

\* Batches come, go and are dated anew.
StockCrate(c, d) ==
    /\ changes < MaxChanges /\ expires[c] # d
    /\ expires' = [expires EXCEPT ![c] = d]
    /\ changes' = changes + 1
    /\ UNCHANGED <<settings, now, run, posts>>

-----------------------------------------------------------------------------
(* The hourly run *)

\* Seeded fault: a storage that was served today is due again.
BugDue(h) == settings[h].enabled /\ settings[h].hour = now.hour

Due(h) ==
    /\ settings[h].enabled /\ settings[h].hour = now.hour
    /\ settings[h].lastRun = Unset \/ settings[h].lastRun < now.day

\* RunDue: last_run_at is set before anything is read or posted.
ClaimDueNotifications(t) ==
    LET due == {h \in House : Due(h)}
    IN  /\ run[t].phase = "idle" /\ ~run[t].ticked
        /\ settings' = [h \in House |-> IF h \in due THEN [settings[h] EXCEPT !.lastRun = now.day]
                                        ELSE settings[h]]
        /\ run' = [run EXCEPT ![t] = [NoRun EXCEPT
                        !.phase = IF due = {} THEN "idle" ELSE "serve", !.ticked = TRUE, !.day = now.day,
                        !.due = {[house |-> h, soon |-> settings[h].soon] : h \in due}]]
        /\ UNCHANGED <<expires, now, posts, changes>>

\* Batches with a date in the widest window.
ExpiringBatchesBefore(h, until) ==
    {c \in Crate : HouseOf[c] = h /\ expires[c] # Unset /\ expires[c] < until}

Classify(date, today) ==
    CASE date < today -> "expired"
      [] date >= today /\ date < today + CriticalWithinDays -> "critical"
      [] date >= today + CriticalWithinDays /\ date < today + SoonWithinDays -> "soon"
      [] OTHER -> "ok"

Build(cs, today, soon) ==
    {c \in cs : Classify(expires[c], today) \in {"expired", "critical"} \cup (IF soon THEN {"soon"} ELSE {})}

\* The next storage, read with the day and the settings of the claim.
BuildDigest(t, x) ==
    /\ run[t].phase = "serve" /\ x \in run[t].due
    /\ run' = [run EXCEPT ![t] = [@ EXCEPT
                    !.phase = "built", !.due = run[t].due \ {x}, !.house = x.house, !.soon = x.soon,
                    !.read = expires,
                    !.digest = Build(ExpiringBatchesBefore(x.house, run[t].day + SoonWithinDays),
                                     run[t].day, x.soon)]]
    /\ UNCHANGED <<settings, expires, now, posts, changes>>

RecordNotificationResult(t, result) ==
    /\ settings' = [settings EXCEPT ![run[t].house].result = result]
    /\ run' = [run EXCEPT ![t] = [@ EXCEPT !.phase = IF run[t].due = {} THEN "idle" ELSE "serve",
                    !.house = Unset, !.soon = FALSE, !.read = [c \in Crate |-> Unset], !.digest = {}]]

\* A read that failed, and a digest with nothing in it, are recorded and not posted.
SkipDigest(t) ==
    /\ run[t].phase = "built"
    /\ \/ run[t].digest = {} /\ RecordNotificationResult(t, "empty")
       \/ RecordNotificationResult(t, "failed")
    /\ UNCHANGED <<expires, now, posts, changes>>

\* The post arrives or not, whatever comes back within the timeout.
PostDigest(t, arrives) ==
    /\ run[t].phase = "built" /\ run[t].digest # {}
    /\ posts' = IF arrives THEN [posts EXCEPT ![run[t].house][run[t].day] = @ + 1] ELSE posts
    /\ run' = [run EXCEPT ![t].phase = IF arrives THEN "arrived" ELSE "lost"]
    /\ UNCHANGED <<settings, expires, now, changes>>

\* Only an answer counts as sent.
DeliveryAnswered(t) ==
    /\ \/ run[t].phase = "arrived" /\ RecordNotificationResult(t, "sent")
       \/ run[t].phase \in {"arrived", "lost"} /\ RecordNotificationResult(t, "failed")
    /\ UNCHANGED <<expires, now, posts, changes>>

\* A process that starts again waits for the next full hour.
Restart(t) ==
    /\ run[t].phase # "idle"
    /\ run' = [run EXCEPT ![t] = [NoRun EXCEPT !.ticked = TRUE]]
    /\ UNCHANGED <<settings, expires, now, posts, changes>>

\* The server's clock: the next hour, or an hour that daylight saving repeats.
NextTopOfHour(n) ==
    /\ \/ n = [now EXCEPT !.hour = @ + 1] /\ n.hour \in HourOfDay
       \/ n = [now EXCEPT !.hour = @ - 1] /\ n.hour \in HourOfDay
       \/ n = [day |-> now.day + 1, hour |-> 0] /\ now.hour + 1 \notin HourOfDay /\ n.day <= MaxDay
    /\ now' = n
    /\ run' = [t \in Ticker |-> [run[t] EXCEPT !.ticked = FALSE]]
    /\ UNCHANGED <<settings, expires, posts, changes>>

TestNext == \E h \in House, result \in {"sent", "failed"} : SendTest(h, result)

SettingsNext ==
    \/ \E h \in House, on, soon \in BOOLEAN, hour \in HourOfDay : SaveNotificationSettings(h, on, hour, soon)
    \/ \E c \in Crate, d \in ExpiryDay \cup {Unset} : StockCrate(c, d)

RunDueNext ==
    \/ \E t \in Ticker :
          \/ ClaimDueNotifications(t) \/ SkipDigest(t) \/ DeliveryAnswered(t) \/ Restart(t)
          \/ \E x \in run[t].due : BuildDigest(t, x)
          \/ \E arrives \in BOOLEAN : PostDigest(t, arrives)
    \/ \E d \in 1..MaxDay, hour \in HourOfDay : NextTopOfHour([day |-> d, hour |-> hour])

DigestNext == SettingsNext \/ RunDueNext \/ TestNext

DigestSpec == DigestInit /\ [][DigestNext]_digestVars

-----------------------------------------------------------------------------
DigestTypeOK ==
    /\ settings \in [House -> [enabled : BOOLEAN, hour : HourOfDay \cup {Unset}, soon : BOOLEAN,
                               lastRun : (1..MaxDay) \cup {Unset},
                               result : {Unset, "sent", "failed", "empty"}]]
    /\ expires \in [Crate -> ExpiryDay \cup {Unset}]
    /\ now \in [day : 1..MaxDay, hour : HourOfDay]
    /\ \A t \in Ticker : run[t].phase \in {"idle", "serve", "built", "arrived", "lost"}
                           /\ run[t].digest \subseteq Crate

(* A storage is notified at most once for a day, whichever processes wake at its
   hour, however often that hour is changed, repeated by the clock or restarted in
   (ClaimDueNotifications); and what is posted names every batch of that storage and
   no other that was due on that day when it was read: the window of the query and
   the bands of Classify leave no gap (runOne, Build). *)
OneDigestPerDay ==
    /\ \A h \in House, d \in 1..MaxDay : posts[h][d] <= 1
    /\ \A t \in Ticker : run[t].phase \in {"built", "arrived", "lost"} =>
          run[t].digest = {c \in Crate : HouseOf[c] = run[t].house /\ run[t].read[c] # Unset
              /\ run[t].read[c] - run[t].day < IF run[t].soon THEN SoonWithinDays ELSE CriticalWithinDays}

=============================================================================
