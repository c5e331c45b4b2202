----------------------------- MODULE MCHousehold -----------------------------
(* What the members of a household do with its stock besides putting it away:
   scanning, shopping, scoring and being notified.  The four modules share no
   variable, and within Scoring and Shopping some operations meet only through the
   ones that are kept with them, so each group is explored on its own. *)
EXTENDS Scans, Shopping, Scoring, Digest, TLC

CONSTANTS p1, p2, k1, h1, h2, b1, b2, j1

VARIABLE focus

householdVars == <<scanVars, shoppingVars, scoringVars, digestVars, focus>>

\* A product that has a catalogue row and two lots, and one that has neither.
MCFirstItems == p1 :> k1 @@ p2 :> Nobody
MCFirstLots == 1 :> [owner |-> p1, units |-> 2] @@ 2 :> [owner |-> p1, units |-> 1]

\* One batch in each storage.
MCHouseOf == b1 :> h1 @@ b2 :> h2

\* Both expire on day 4; one or both storages are to be notified, at the same hour.
MCFirstExpires == [b \in Crate |-> 4]
MCFirstSettings ==
    {[h \in House |-> IF h \in hs THEN [NoSettings EXCEPT !.enabled = TRUE, !.hour = 0, !.soon = h = h1]
                      ELSE NoSettings] : hs \in {{h1}, House}}

\* A milestone of one clean week.
MCMilestone == "immaculate_90" :> [days |-> 7, xp |-> 200]

\* Everything that happens with one of these words in focus is between the operations
\* of that line.
Focus == {"scans", "prompts", "resolve", "photos", "reorder",
          "quests", "weeks", "milestones", "points", "serve", "settings", "tests"}

\* Writes that quests ask for, and writes that are scored together.
Helpful == {"metadata_filled", "consumption"}
Confirming == {"vision_ingestion", "ai_correction"}

\* The operations in focus are some of the modules' own.
ASSUME FocusAssumption ==
    /\ 1 \in Line /\ 1 \in Good /\ j1 \in WeekJob /\ 0 \in HourOfDay
    /\ Helpful \cup Confirming \subseteq Deed

HouseholdInit ==
    /\ ScansInit /\ ShoppingInit /\ ScoringInit /\ DigestInit
    /\ focus \in Focus
    /\ focus = "serve" <=> \A h \in House : Saved(h)

Scanning ==
    \/ focus = "scans" /\ ScansNext
    \/ focus = "prompts" /\ PromptNext

\* One list is enough for its line to be contended for.
Shops ==
    \/ focus = "resolve" /\ (LinesNext({1}) \/ ResolveNext \/ RequestsNext)
    \/ focus = "photos" /\ (PhotosNext \/ RequestsNext)
    \/ focus = "reorder" /\ (ReorderNext \/ RequestsNext)

Scores ==
    \/ focus = "quests" /\ (WritesNext(Good, Helpful) \/ RunWeeklyGamificationJobs({j1})
                              \/ \E g \in Generator, p \in Good : MeetQuietly(g, p))
    \/ focus = "weeks" /\ (WritesNext({1}, Helpful) \/ RunWeeklyGamificationJobs({j1}) \/ NewWeek)
    \/ focus = "milestones" /\ (RunWeeklyGamificationJobs(WeekJob) \/ NewWeek
                                  \/ RunNightlyStorageAchievements)
    \/ focus = "points" /\ (WritesNext({1}, Confirming) \/ DropProduct(1)
                              \/ RecomputeAllProgress \/ PassHour)

Notifies ==
    \/ focus = "serve" /\ RunDueNext
    \/ focus = "settings" /\ (RunDueNext \/ SettingsNext)
    \/ focus = "tests" /\ (TestNext \/ \E h \in House, on \in BOOLEAN :
                              SaveNotificationSettings(h, on, 0, FALSE))

HouseholdNext ==
    \/ Scanning /\ UNCHANGED <<shoppingVars, scoringVars, digestVars, focus>>
    \/ Shops /\ UNCHANGED <<scanVars, scoringVars, digestVars, focus>>
    \/ Scores /\ UNCHANGED <<scanVars, shoppingVars, digestVars, focus>>
    \/ Notifies /\ UNCHANGED <<scanVars, shoppingVars, scoringVars, focus>>

HouseholdSpec == HouseholdInit /\ [][HouseholdNext]_householdVars

Alike == Permutations(Member)

\* The four type invariants.
HouseholdTypeOK == ScansTypeOK /\ ShoppingTypeOK /\ ScoringTypeOK /\ DigestTypeOK

=============================================================================
