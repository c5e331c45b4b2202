------------------------------- MODULE Scoring -------------------------------
(* The experience points of one storage (internal/store/gamification.go, quests.go,
   achievements.go, internal/gamification).

   A write that scores appends its event, raises the cached points of its user,
   re-checks the weekly quests it may advance and pays whoever contributed, all in
   the write's own transaction; the rows it locks stay locked until that ends. A
   weekly job generates quests and pays milestones, a nightly one rebuilds the
   cache from the events of a snapshot.

   `met' abstracts the catalogue: the products that satisfy a generator's
   condition. Streaks, holidays, levels and the health score are left out. *)
EXTENDS Integers, Sequences, FiniteSets, FiniteSetsExt

CONSTANTS
    Member,             \* the storage's members
    Good,               \* ids of products, a set of naturals: queries ORDER BY id
    Generator,          \* the generators in use
    Deed,               \* kinds of writes in use
    Writer,             \* transactions that score
    WeekJob,            \* processes that run the weekly job
    Threshold,          \* rows that make an id-list generator fire, and its target
    QuestLimit,         \* quests of one week
    Milestone,          \* the clean-storage milestones: days and XP by key
    StorageAchievement, \* the other achievements every member is given
    ScoreWindow,        \* hours
    MaxDeeds, MaxHour, MaxWeek,
    Never               \* NULL

VARIABLES
    goods,      \* the products there are
    events,     \* committed rows of inventory_logs and contribution_events that score
    xp,         \* user_progress.xp
    met,        \* by generator
    quest,      \* by week and generator
    unlocked,   \* achievements_unlocked
    cleanSince,
    write,      \* transactions that score
    job,
    recompute,
    hour, week,
    raced,      \* history: members whose cache a rebuild or a deletion left behind
    silent,     \* history: conditions that came true without a quest seeing it
    questPaid, milestonePaid,       \* history: rewards committed
    deeds       \* history: scoring writes begun

scoringVars == <<goods, events, xp, met, quest, unlocked, cleanSince, write, job, recompute,
                 hour, week, raced, silent, questPaid, milestonePaid, deeds>>

IdLists == {"missing_expiry", "uncategorized", "imageless", "untracked_reorder", "expiring_soon"}
Ledger == {"purchase", "consumption", "vision_ingestion"}

\* Conditions of generators that look at this week's log.
Weekly(g) == g \in {"consumption_hygiene", "stale_location"}

ASSUME ScoringAssumption ==
    /\ IsFiniteSet(Good) /\ Good \subseteq Nat
    /\ \A g \in Generator : g \in IdLists \/ Weekly(g) \/ g = "first_mile"
    /\ Threshold \in Nat \ {0}
    /\ MaxWeek \in Nat \ {0}
    /\ StorageAchievement \cap DOMAIN Milestone = {}
    /\ Never \notin Member

\* No kind is called what confirmations and corrections are grouped under.
ASSUME PointsAssumption ==
    /\ Never \notin Nat
    /\ Writer \cap WeekJob = {}
    /\ "confirm action" \notin Deed
    /\ {ScoreWindow, MaxHour} \subseteq Nat
    /\ \A m \in DOMAIN Milestone : Milestone[m].xp \in Nat

XPForGenerator(g) ==
    CASE g \in {"stale_location", "first_mile"} -> 40
      [] g = "expiring_soon" -> 30
      [] g = "missing_expiry" -> 25
      [] g = "consumption_hygiene" -> 15
      [] OTHER -> 20

\* XPForLedgerReason and XPForContribution
XPForDeed(k) ==
    CASE k \in Ledger -> 3
      [] k \in {"ai_correction", "location_mapped"} -> 5
      [] k = "ambiguity_resolved" -> 4
      [] OTHER -> 2

QuestRelevantGenerators(k) ==
    CASE k \in {"purchase", "vision_ingestion"} -> <<"first_mile", "stale_location">>
      [] k = "consumption" -> <<"consumption_hygiene", "expiring_soon">>
      [] k = "expiry_confirmed" -> <<"missing_expiry">>
      [] k = "location_mapped" -> <<"stale_location">>
      [] OTHER -> <<>>

-----------------------------------------------------------------------------
(* Scores *)

CoalesceGroup(k) == IF k \in {"vision_ingestion", "ai_correction"} THEN "confirm action" ELSE k

\* One group's total: a window ends where ScoreWindow passes without an event, and
\* is worth its best event.
WindowsXP(group) ==
    LET At == {e.at : e \in group}
        Start == {t \in At : \A s \in At : s < t => t - s >= ScoreWindow}
        Within(t) == {e \in group : e.at >= t /\ \A s \in Start : s > t => e.at < s}
        Best == [t \in Start |-> Max({XPForDeed(e.kind) : e \in Within(t)})]
    IN  MapThenSumSet(LAMBDA t : Best[t], Start)

Coalesce(es) ==
    LET Key(e) == <<e.ref, CoalesceGroup(e.kind)>>
        Keys == {Key(e) : e \in es}
        Worth == [k \in Keys |-> WindowsXP({e \in es : Key(e) = k})]
    IN  MapThenSumSet(LAMBDA k : Worth[k], Keys)

EventsOf(u) == {e \in events : e.user = u}

-----------------------------------------------------------------------------
Week == 1..MaxWeek
QuestKey == Week \X Generator

NoQuest == [live |-> FALSE, frozen |-> {}, target |-> 0, completed |-> FALSE, helpers |-> {}]

NoWrite == [phase |-> "idle", user |-> Never, kind |-> Never, good |-> Never, at |-> 0, week |-> 0,
            gens |-> <<>>, meets |-> {}, xp |-> [u \in Member |-> Never], held |-> {},
            missed |-> {}, helps |-> {}, ends |-> {}, paying |-> Never, pays |-> {}, pay |-> {}]

NoJob(n) == [phase |-> "idle", ran |-> n, picked |-> {}, frozen |-> [g \in Generator |-> {}],
             xp |-> [u \in Member |-> Never], awards |-> {}, due |-> {}, clean |-> {}]

ScoringInit ==
    /\ goods = Good
    /\ events = {}
    /\ xp = [u \in Member |-> 0]
    /\ met = [g \in Generator |-> IF g = "first_mile" THEN Good ELSE {}]
    /\ quest = [k \in QuestKey |-> NoQuest]
    /\ unlocked = {}
    /\ cleanSince = Never
    /\ write = [w \in Writer |-> NoWrite]
    /\ job = [j \in WeekJob |-> NoJob(0)]
    /\ recompute = [phase |-> "idle", snapshot |-> {}, todo |-> {}]
    /\ hour = 0 /\ week = 1
    /\ raced = {} /\ silent = {} /\ deeds = 0
    /\ questPaid = [i \in QuestKey \X Member |-> 0]
    /\ milestonePaid = [i \in (DOMAIN Milestone) \X Member |-> 0]

history == <<questPaid, milestonePaid>>
clock == <<hour, week>>

-----------------------------------------------------------------------------
(* Cached points.  A transaction that has touched a row of user_progress holds it. *)

Holders(u) == {w \in Writer : write[w].xp[u] # Never} \cup {j \in WeekJob : job[j].xp[u] # Never}

\* Seeded fault: the row is read without FOR UPDATE.
BugReadUnlocked(x, u) == TRUE

LockProgress(x, u) == Holders(u) \subseteq {x}

\* bumpProgress in a transaction whose own rows are `mine'.
BumpProgress(mine, u, delta) ==
    [mine EXCEPT ![u] = (IF mine[u] # Never THEN mine[u] ELSE xp[u]) + delta]

\* What a commit makes of the cache.
Committed(mine) == [u \in Member |-> IF mine[u] # Never THEN mine[u] ELSE xp[u]]

-----------------------------------------------------------------------------
(* Writes that score *)

FreshWriter(w) == write[w].phase = "idle" /\ w = CHOOSE v \in Writer : write[v].phase = "idle"

\* The change itself holds its row: two of one kind on one product take turns.
Begin(w, u, k, p, gens, meets) ==
    /\ FreshWriter(w) /\ p \in goods /\ deeds < MaxDeeds
    /\ \A v \in Writer : write[v].phase # "idle" => <<write[v].kind, write[v].good>> # <<k, p>>
    /\ deeds' = deeds + 1
    /\ write' = [write EXCEPT ![w] = [NoWrite EXCEPT !.phase = "bump", !.user = u, !.kind = k,
                    !.good = p, !.at = hour, !.week = week, !.gens = gens, !.meets = meets]]
    /\ UNCHANGED <<goods, events, xp, met, quest, unlocked, cleanSince, job, recompute, clock,
                   raced, silent, history>>

\* recordContribution for metadata_filled: only where the field was empty, and for
\* the one generator it names.
FillIn(w, u, g, p) ==
    /\ g \in {"uncategorized", "imageless", "untracked_reorder"} /\ p \notin met[g]
    /\ Begin(w, u, "metadata_filled", p, <<g>>, {g})

\* recordContribution of any other kind, and bumpForLedgerReason.
Score(w, u, k, p, emptied) ==
    LET g == QuestRelevantGenerators(k)
        Meets == {x \in Generator : \E i \in DOMAIN g : g[i] = x}
    IN  /\ k # "metadata_filled"
        /\ Begin(w, u, k, p, g, {x \in Meets : x = "expiring_soon" => emptied})

\* The event is written; the user's own row is raised first.
Bump(w) ==
    /\ write[w].phase = "bump"
    /\ LockProgress(w, write[w].user)
    /\ write' = [write EXCEPT ![w].phase = "quests",
                    ![w].xp = BumpProgress(write[w].xp, write[w].user, XPForDeed(write[w].kind))]
    /\ UNCHANGED <<goods, events, xp, met, quest, unlocked, cleanSince, job, recompute, clock,
                   raced, silent, history, deeds>>

\* The products that satisfy g as the transaction sees them.
Seen(w, g) ==
    met[g] \cup (IF g \in write[w].meets /\ (Weekly(g) => write[w].week = week)
                 THEN {write[w].good} ELSE {})

QuestProgress(k, ps) ==
    CASE k[2] \in IdLists -> Cardinality(quest[k].frozen \cap ps)
      [] Weekly(k[2]) -> IF ps # {} THEN 1 ELSE 0
      [] OTHER -> Max({0, Min({quest[k].target, Cardinality(ps) - Cardinality(quest[k].frozen)})})

QuestTargetQualifies(k, p) == k[2] \in IdLists => p \in quest[k].frozen

\* Seeded fault: a quest that was completed while its row was waited for is served again.
BugActive(k) == quest[k].live

Active(k) == quest[k].live /\ ~quest[k].completed

\* SELECT ... FOR UPDATE waits for whoever holds the quest's row.
LockQuest(w, k) == \A v \in Writer \ {w} : k \notin write[v].held

NextGenerator(r) == [r EXCEPT !.gens = Tail(r.gens)]

\* advanceOneQuest, up to the payments.
AdvanceOneQuest(w) ==
    LET r == write[w]
        k == <<week, Head(r.gens)>>
        held == [r EXCEPT !.held = r.held \cup {k}]
        helped == [held EXCEPT !.helps = r.helps \cup {k}]
    IN  /\ r.phase = "quests" /\ r.gens # <<>>
        /\ \/ /\ ~(k \in QuestKey /\ Active(k))
              /\ write' = [write EXCEPT ![w] =
                    NextGenerator([r EXCEPT !.missed = r.missed \cup ({k} \cap QuestKey)])]
           \/ /\ k \in QuestKey /\ Active(k) /\ LockQuest(w, k)
              /\ write' = [write EXCEPT ![w] =
                    IF ~QuestTargetQualifies(k, r.good) THEN NextGenerator(held)
                    ELSE IF QuestProgress(k, Seen(w, k[2])) < quest[k].target THEN NextGenerator(helped)
                    ELSE [helped EXCEPT !.phase = "pay", !.ends = r.ends \cup {k}, !.paying = k,
                                        !.pays = quest[k].helpers \cup {r.user}]]
        /\ UNCHANGED <<goods, events, xp, met, quest, unlocked, cleanSince, job, recompute, clock,
                       raced, silent, history, deeds>>

\* The reward of the quest just completed, to one contributor after the other.
PayContributor(w, u) ==
    LET r == write[w]
        k == r.paying
        paid == [r EXCEPT !.xp = BumpProgress(r.xp, u, XPForGenerator(k[2])),
                          !.pays = r.pays \ {u}, !.pay = r.pay \cup {<<k, u>>}]
    IN  /\ r.phase = "pay" /\ u \in r.pays
        /\ LockProgress(w, u)
        /\ write' = [write EXCEPT ![w] =
             IF r.pays = {u} THEN [NextGenerator(paid) EXCEPT !.phase = "quests", !.paying = Never]
             ELSE paid]
        /\ UNCHANGED <<goods, events, xp, met, quest, unlocked, cleanSince, job, recompute, clock,
                       raced, silent, history, deeds>>

JobActive == \E j \in WeekJob : job[j].phase # "idle"

\* Quests of this week a write that satisfies their condition did not see: none was
\* active when it asked, or it asked last week.
Unseen(r) == {k \in {week} \X r.meets : \E i \in r.missed \cup (r.held \ {k}) : i[2] = k[2]}

CommitWrite(w) ==
    LET r == write[w]
    IN  /\ r.phase = "quests" /\ r.gens = <<>>
        /\ events' = events \cup {[user |-> r.user, ref |-> r.good, kind |-> r.kind, at |-> r.at]}
        /\ xp' = Committed(r.xp)
        /\ met' = [g \in Generator |-> Seen(w, g)]
        /\ quest' = [k \in QuestKey |-> [quest[k] EXCEPT
                        !.completed = quest[k].completed \/ k \in r.ends,
                        !.helpers = IF k \in r.helps THEN quest[k].helpers \cup {r.user}
                                    ELSE quest[k].helpers]]
        /\ silent' = silent \cup {k \in Unseen(r) : JobActive \/ Active(k)}
        /\ questPaid' = [i \in QuestKey \X Member |-> questPaid[i] + IF i \in r.pay THEN 1 ELSE 0]
        /\ write' = [write EXCEPT ![w] = NoWrite]
        /\ UNCHANGED <<goods, unlocked, cleanSince, job, recompute, clock, raced, milestonePaid, deeds>>

\* An error, a lost connection, or the database's choice of a victim when two
\* transactions wait for each other's rows.
RollBack(w) ==
    /\ write[w].phase # "idle"
    /\ write' = [write EXCEPT ![w] = NoWrite]
    /\ UNCHANGED <<goods, events, xp, met, quest, unlocked, cleanSince, job, recompute, clock,
                   raced, silent, history, deeds>>

-----------------------------------------------------------------------------
(* The rest of the catalogue *)

\* A condition that comes true without a user being credited: a cascade's date, a
\* patch, a new product.
MeetQuietly(g, p) ==
    /\ p \in goods \ met[g] /\ ~Weekly(g)
    /\ \A w \in Writer : write[w].phase # "idle" => write[w].good # p
    /\ met' = [met EXCEPT ![g] = @ \cup {p}]
    /\ silent' = silent \cup {<<week, g>>}
    /\ UNCHANGED <<goods, events, xp, quest, unlocked, cleanSince, write, job, recompute, clock,
                   raced, history, deeds>>

\* Corrections of p that were scored together with detections of it, which go with p:
\* what is left of their windows can be worth more than before.
Severed(p) ==
    {u \in Member : {"vision_ingestion", "ai_correction"} \subseteq {e.kind : e \in {x \in EventsOf(u) : x.ref = p}}}

\* A product's log goes with it; contributions stay.
DropProduct(p) ==
    /\ p \in goods
    /\ \A w \in Writer : write[w].phase # "idle" => write[w].good # p
    /\ goods' = goods \ {p}
    /\ met' = [g \in Generator |-> met[g] \ {p}]
    /\ events' = {e \in events : e.ref = p => e.kind \notin Ledger}
    /\ raced' = raced \cup Severed(p)
    /\ UNCHANGED <<xp, quest, unlocked, cleanSince, write, job, recompute, clock,
                   silent, history, deeds>>

-----------------------------------------------------------------------------
(* The weekly job *)

Candidates(g) == goods \ met[g]

\* quiet: the locations and consumptions nobody has touched for long enough.
Fires(g, quiet) ==
    CASE g \in IdLists -> Cardinality(Candidates(g)) >= Threshold
      [] Weekly(g) -> g \in quiet /\ met[g] = {}
      [] OTHER -> Cardinality(met[g]) < Threshold

\* The first Threshold ids, or for first_mile the products counted so far.
Frozen(g) ==
    IF g \in IdLists
    THEN {p \in Candidates(g) : Cardinality({q \in Candidates(g) : q <= p}) <= Threshold}
    ELSE IF g = "first_mile" THEN met[g] ELSE {}

TargetCount(g, frozen) ==
    CASE g \in IdLists -> Threshold [] Weekly(g) -> 1 [] OTHER -> Threshold - Cardinality(frozen)

\* The neediest of the fired ones; how needy a quiet one is depends on time.
SelectQuests(fired) ==
    {s \in SUBSET fired :
        /\ Cardinality(s) = Min({QuestLimit, Cardinality(fired)})
        /\ \A g \in s \cap IdLists, h \in (fired \ s) \cap IdLists :
              Cardinality(Candidates(g)) >= Cardinality(Candidates(h))}

GatherQuestCandidates(j, quiet) ==
    /\ job[j].phase = "idle" /\ job[j].ran < week
    /\ \E s \in SelectQuests({g \in Generator : Fires(g, quiet)}) :
         job' = [job EXCEPT ![j] = [NoJob(week) EXCEPT !.phase = "insert", !.picked = s,
                                      !.frozen = [g \in Generator |-> Frozen(g)]]]
    /\ UNCHANGED <<goods, events, xp, met, quest, unlocked, cleanSince, write, recompute, clock,
                   raced, silent, history, deeds>>

\* The inserts wait for another job's rows of the same key; then clean_since is read,
\* without a lock, and written where it has to change.
UpdateCleanStreak(j) ==
    LET clear == job[j].picked = {}
        days == 7 * (job[j].ran - cleanSince)
        due == {m \in DOMAIN Milestone : days >= Milestone[m].days}
    IN  /\ job[j].phase = "insert"
        /\ \A i \in WeekJob \ {j} : job[i].phase = "pay" => job[i].picked \cap job[j].picked = {}
        /\ job' = [job EXCEPT ![j].phase = "pay",
             ![j].clean = IF clear /\ cleanSince = Never THEN {job[j].ran}
                          ELSE IF ~clear /\ cleanSince # Never THEN {Never} ELSE {},
             ![j].due = IF clear /\ cleanSince # Never THEN due \X Member ELSE {}]
        /\ UNCHANGED <<goods, events, xp, met, quest, unlocked, cleanSince, write, recompute, clock,
                       raced, silent, history, deeds>>

\* achievementNewlyUnlocked waits for the same row of another transaction, and
\* the XP follows the insert.
PayMilestone(j, m, u) ==
    /\ job[j].phase = "pay" /\ <<m, u>> \in job[j].due
    /\ \A i \in WeekJob \ {j} : <<m, u>> \notin job[i].awards
    /\ \/ /\ <<m, u>> \in unlocked
          /\ job' = [job EXCEPT ![j].due = job[j].due \ {<<m, u>>}]
       \/ /\ <<m, u>> \notin unlocked
          /\ LockProgress(j, u)
          /\ job' = [job EXCEPT ![j].due = job[j].due \ {<<m, u>>},
                                ![j].awards = job[j].awards \cup {<<m, u>>},
                                ![j].xp = BumpProgress(job[j].xp, u, Milestone[m].xp)]
    /\ UNCHANGED <<goods, events, xp, met, quest, unlocked, cleanSince, write, recompute, clock,
                   raced, silent, history, deeds>>

GenerateWeeklyQuests(j) ==
    LET New(k) == k[1] = job[j].ran /\ k[2] \in job[j].picked /\ ~quest[k].live
    IN  /\ job[j].phase = "pay" /\ job[j].due = {}
        /\ quest' = [k \in QuestKey |-> IF ~New(k) THEN quest[k] ELSE
                       [NoQuest EXCEPT !.live = TRUE, !.frozen = job[j].frozen[k[2]],
                                       !.target = TargetCount(k[2], job[j].frozen[k[2]])]]
        /\ cleanSince' = IF job[j].clean = {} THEN cleanSince ELSE CHOOSE c \in job[j].clean : TRUE
        /\ unlocked' = unlocked \cup job[j].awards
        /\ xp' = Committed(job[j].xp)
        /\ milestonePaid' = [i \in DOMAIN milestonePaid |->
                               milestonePaid[i] + IF i \in job[j].awards THEN 1 ELSE 0]
        /\ job' = [job EXCEPT ![j] = NoJob(job[j].ran)]
        /\ UNCHANGED <<goods, events, met, write, recompute, clock, raced, silent, questPaid, deeds>>

\* The storage is passed over until next Monday.
WeekFails(j) ==
    /\ job[j].phase # "idle"
    /\ job' = [job EXCEPT ![j] = NoJob(job[j].ran)]
    /\ UNCHANGED <<goods, events, xp, met, quest, unlocked, cleanSince, write, recompute, clock,
                   raced, silent, history, deeds>>

\* The achievements of a storage as a whole, when what they ask for is the case.
AwardToEveryMember(a) ==
    /\ unlocked' = unlocked \cup ({a} \X Member)
    /\ UNCHANGED <<goods, events, xp, met, quest, cleanSince, write, job, recompute, clock,
                   raced, silent, history, deeds>>

-----------------------------------------------------------------------------
(* The nightly rebuild *)

LoadRecomputeSnapshot ==
    /\ recompute.phase = "idle"
    /\ recompute' = [phase |-> "write", snapshot |-> events, todo |-> Member]
    /\ UNCHANGED <<goods, events, xp, met, quest, unlocked, cleanSince, write, job, clock,
                   raced, silent, history, deeds>>

\* One transaction per member: the upsert waits for the row and overwrites it.
RecomputeOnePair(u) ==
    LET mine == {e \in recompute.snapshot : e.user = u}
    IN  /\ recompute.phase = "write" /\ u \in recompute.todo
        /\ Holders(u) = {}
        /\ xp' = [xp EXCEPT ![u] = Coalesce(mine)]
        /\ raced' = IF EventsOf(u) = mine THEN raced \ {u}
                    ELSE IF EventsOf(u) \subseteq mine THEN raced ELSE raced \cup {u}
        /\ recompute' = IF recompute.todo = {u} THEN [phase |-> "idle", snapshot |-> {}, todo |-> {}]
                        ELSE [recompute EXCEPT !.todo = @ \ {u}]
        /\ UNCHANGED <<goods, events, met, quest, unlocked, cleanSince, write, job, clock,
                       silent, history, deeds>>

RecomputeFails ==
    /\ recompute.phase = "write"
    /\ recompute' = [phase |-> "idle", snapshot |-> {}, todo |-> {}]
    /\ UNCHANGED <<goods, events, xp, met, quest, unlocked, cleanSince, write, job, clock,
                   raced, silent, history, deeds>>

-----------------------------------------------------------------------------
PassHour ==
    /\ hour < MaxHour
    /\ hour' = hour + 1
    /\ UNCHANGED <<goods, events, xp, met, quest, unlocked, cleanSince, write, job, recompute, week,
                   raced, silent, history, deeds>>

\* This week's log starts empty.
NewWeek ==
    /\ week < MaxWeek
    /\ week' = week + 1
    /\ met' = [g \in Generator |-> IF Weekly(g) THEN {} ELSE met[g]]
    /\ UNCHANGED <<goods, events, xp, quest, unlocked, cleanSince, write, job, recompute, hour,
                   raced, silent, history, deeds>>

WritesNext(ps, kinds) ==
    \/ \E w \in Writer, u \in Member, p \in ps :
         \/ \E g \in Generator : "metadata_filled" \in kinds /\ FillIn(w, u, g, p)
         \/ \E k \in kinds, emptied \in BOOLEAN : Score(w, u, k, p, emptied)
    \/ \E w \in Writer : Bump(w) \/ AdvanceOneQuest(w) \/ CommitWrite(w) \/ RollBack(w)
    \/ \E w \in Writer, u \in Member : PayContributor(w, u)

GoodsNext ==
    \/ \E g \in Generator, p \in Good : MeetQuietly(g, p)
    \/ \E p \in Good : DropProduct(p)

RunWeeklyGamificationJobs(jobs) ==
    \/ \E j \in jobs, quiet \in SUBSET Generator : GatherQuestCandidates(j, quiet)
    \/ \E j \in jobs : UpdateCleanStreak(j) \/ GenerateWeeklyQuests(j) \/ WeekFails(j)
    \/ \E j \in jobs, m \in DOMAIN Milestone, u \in Member : PayMilestone(j, m, u)

RecomputeAllProgress ==
    \/ LoadRecomputeSnapshot
    \/ \E u \in Member : RecomputeOnePair(u)
    \/ RecomputeFails

RunNightlyStorageAchievements == \E a \in StorageAchievement : AwardToEveryMember(a)

ScoringNext ==
    \/ WritesNext(Good, Deed) \/ GoodsNext
    \/ RunWeeklyGamificationJobs(WeekJob)
    \/ RecomputeAllProgress \/ RunNightlyStorageAchievements
    \/ PassHour \/ NewWeek

ScoringSpec == ScoringInit /\ [][ScoringNext]_scoringVars

-----------------------------------------------------------------------------
ScoringTypeOK ==
    /\ goods \subseteq Good
    /\ events \subseteq [user : Member, ref : Good, kind : Deed, at : 0..MaxHour]
    /\ xp \in [Member -> Nat]
    /\ \A k \in QuestKey : quest[k].helpers \subseteq Member /\ quest[k].frozen \subseteq Good
    /\ unlocked \subseteq (DOMAIN Milestone \cup StorageAchievement) \X Member
    /\ cleanSince \in Week \cup {Never}
    /\ \A w \in Writer : write[w].held \subseteq QuestKey /\ write[w].pays \subseteq Member
    /\ raced \subseteq Member /\ silent \subseteq QuestKey

(* A quest pays each of its contributors exactly once, when it is completed, and a
   milestone each member exactly once, whatever writes, jobs and rollbacks
   interleave (advanceOneQuest, updateCleanStreak); and the write that satisfies
   the last of a quest's frozen targets completes it, unless a target was met
   without credit or while the quest was being generated. *)
QuestsPayOnce ==
    /\ \A k \in QuestKey, u \in Member :
         questPaid[<<k, u>>] = IF quest[k].completed /\ u \in quest[k].helpers THEN 1 ELSE 0
    /\ \A m \in DOMAIN Milestone, u \in Member :
         milestonePaid[<<m, u>>] = IF <<m, u>> \in unlocked THEN 1 ELSE 0
    /\ \A g \in Generator : LET k == <<week, g>> IN
         Active(k) /\ k \notin silent => QuestProgress(k, met[g]) < quest[k].target

(* The cached points never fall below what the ledgers are worth: concurrent bumps
   of one row add up, and a rebuild never writes less than its snapshot, except
   for a member whose events went on while the rebuild ran, or whose windows the
   deletion of a product has cut since (bumpProgress, recomputeOnePair). *)
NoXPLost == \A u \in Member \ raced : xp[u] >= Coalesce(EventsOf(u))

=============================================================================
