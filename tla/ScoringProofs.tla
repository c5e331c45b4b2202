---------------------------- MODULE ScoringProofs ----------------------------
(* Quests and milestones are paid once, and no points are lost.

   What is committed says too little of the transactions under way.  The invariant adds,
   of every write: the quests it holds are active, held by nobody else, and what it is
   going to pay for one it ends is what its contributors are; of every condition it
   satisfies: the quest was looked for, and one it found and did not end falls short
   of its target with this product counted (WriteOK).  Of every weekly job: nothing has
   been done yet about the quests it is about to make, or it is on record that it was
   done unseen (JobOK).

   The points need an argument about what events are worth.  One more event may join two
   windows, and never adds more than its own points: what starts a window with it starts one
   without it, or is the event (CoalesceSubadditive).  Events that go in whole groups take
   the worth of these groups along (CoalesceFewer).  A second invariant says that rows of
   points are raised by one transaction at a time, by at least that much (PointsIInv). *)
EXTENDS Scoring, Induction

\* The generators writes ask about.
Asked == IdLists \cup {"first_mile", "stale_location", "consumption_hygiene"}

QuestRow ==
    [live : BOOLEAN, frozen : SUBSET Good, target : Int, completed : BOOLEAN, helpers : SUBSET Member]

\* Fields no invariant is about have whatever value they have.
WriteRow(r) ==
    [phase : {"idle", "bump", "quests", "pay"}, user : Member \cup {Never}, kind : {r.kind},
     good : Good \cup {Never}, at : {r.at}, week : {r.week}, gens : Seq(Asked),
     meets : SUBSET Generator, xp : {r.xp}, held : SUBSET QuestKey, missed : SUBSET QuestKey,
     helps : SUBSET QuestKey, ends : SUBSET QuestKey, paying : QuestKey \cup {Never},
     pays : SUBSET Member, pay : SUBSET (QuestKey \X Member)]

JobRow(r) ==
    [phase : {"idle", "insert", "pay"}, ran : 0..MaxWeek, picked : SUBSET Generator,
     frozen : [Generator -> SUBSET Good], xp : {r.xp}, awards : SUBSET ((DOMAIN Milestone) \X Member),
     due : SUBSET ((DOMAIN Milestone) \X Member), clean : {r.clean}]

\* QuestProgress of a row q of generator g.
Progress(q, g, ps) ==
    CASE g \in IdLists -> Cardinality(q.frozen \cap ps)
      [] Weekly(g) -> IF ps # {} THEN 1 ELSE 0
      [] OTHER -> Max({0, Min({q.target, Cardinality(ps) - Cardinality(q.frozen)})})

SeenBy(r, g) ==
    met[g] \cup (IF g \in r.meets /\ (Weekly(g) => r.week = week) THEN {r.good} ELSE {})

ScoringRows ==
    /\ goods \subseteq Good /\ met \in [Generator -> SUBSET Good]
    /\ week \in Week /\ silent \subseteq QuestKey
    /\ quest \in [QuestKey -> QuestRow]
    /\ DOMAIN write = Writer /\ \A w \in Writer : write[w] \in WriteRow(write[w])
    /\ DOMAIN job = WeekJob /\ \A j \in WeekJob : job[j] \in JobRow(job[j])
    /\ questPaid \in [QuestKey \X Member -> Nat]
    /\ milestonePaid \in [(DOMAIN Milestone) \X Member -> Nat]

QuestShape ==
    \A k \in QuestKey :
        /\ ~quest[k].live => ~quest[k].completed /\ quest[k].helpers = {}
        /\ quest[k].live => k[1] <= week

PaidBy(r, k) == {u \in Member : <<k, u>> \in r.pay}
Paying(r, k) == IF r.phase = "pay" /\ k = r.paying THEN r.pays ELSE {}

\* A row of a write: what it holds, and what it pays.
Holds(r) ==
    /\ r.phase # "idle" => r.user \in Member /\ r.good \in Good
    /\ r.phase = "idle" => r.held = {} /\ r.meets = {}
    /\ r.phase = "pay" => r.paying \in r.ends /\ r.gens # <<>> /\ r.paying[2] = Head(r.gens)
    /\ r.ends \subseteq r.helps /\ r.helps \subseteq r.held
    /\ \A k \in r.held : Active(k)
    /\ \A i \in r.pay : i[1] \in r.ends
    /\ \A k \in r.ends : PaidBy(r, k) \cup Paying(r, k) = quest[k].helpers \cup {r.user}

\* Every condition it satisfies is looked at, now or later.
LooksAt(r) ==
    \A g \in r.meets : \/ \E n \in DOMAIN r.gens : r.gens[n] = g
                       \/ \E i \in r.held \cup r.missed : i[2] = g

\* A quest it holds and does not end is short of its target.
Short(r) ==
    \A k \in r.held \ r.ends : k[1] = week /\ k \notin silent =>
        Progress(quest[k], k[2], SeenBy(r, k[2])) < quest[k].target

WriteOK(r) == Holds(r) /\ LooksAt(r) /\ Short(r)

QuestLocks == \A v, w \in Writer : v # w => write[v].held \cap write[w].held = {}

\* What a job has found is still so.
Fits(r, g) ==
    IF g \in IdLists THEN r.frozen[g] \cap met[g] = {}
    ELSE IF Weekly(g) THEN met[g] = {}
    ELSE met[g] \subseteq r.frozen[g] /\ Cardinality(r.frozen[g]) < Threshold

JobOK(r) ==
    /\ r.ran <= week
    /\ r.awards \cap unlocked = {}
    /\ r.phase # "idle" /\ r.ran = week =>
         \A g \in r.picked : <<week, g>> \in silent \/ quest[<<week, g>>].live \/ Fits(r, g)

AwardLocks == \A i, j \in WeekJob : i # j => job[i].awards \cap job[j].awards = {}

QuestsPaid ==
    \A k \in QuestKey, u \in Member :
        questPaid[<<k, u>>] = IF quest[k].completed /\ u \in quest[k].helpers THEN 1 ELSE 0

MilestonesPaid ==
    \A m \in DOMAIN Milestone, u \in Member :
        milestonePaid[<<m, u>>] = IF <<m, u>> \in unlocked THEN 1 ELSE 0

\* A quest nobody holds is short of its target.
Watched(g) ==
    Active(<<week, g>>) /\ <<week, g>> \notin silent =>
        Progress(quest[<<week, g>>], g, met[g]) < quest[<<week, g>>].target

ScoringIInv ==
    /\ ScoringRows /\ QuestShape
    /\ \A w \in Writer : WriteOK(write[w])
    /\ QuestLocks
    /\ \A j \in WeekJob : JobOK(job[j])
    /\ AwardLocks /\ QuestsPaid /\ MilestonesPaid
    /\ \A g \in Generator : Watched(g)

-----------------------------------------------------------------------------
(* Progress *)

(* The least and the greatest of two numbers. *)
LEMMA TwoNumbers ==
  ASSUME NEW a \in Int, NEW b \in Int
  PROVE  /\ Min({a, b}) = IF a <= b THEN a ELSE b
         /\ Max({a, b}) = IF a >= b THEN a ELSE b
<1>1. Min({a, b}) = IF a <= b THEN a ELSE b
  <2>1. \E x \in {a, b} : \A y \in {a, b} : x <= y
    OBVIOUS
  <2>2. Min({a, b}) \in {a, b} /\ \A y \in {a, b} : Min({a, b}) <= y
    BY <2>1 DEF Min
  <2> QED
    BY <2>2
<1>2. Max({a, b}) = IF a >= b THEN a ELSE b
  <2>1. \E x \in {a, b} : \A y \in {a, b} : x >= y
    OBVIOUS
  <2>2. Max({a, b}) \in {a, b} /\ \A y \in {a, b} : Max({a, b}) >= y
    BY <2>1 DEF Max
  <2> QED
    BY <2>2
<1> QED
  BY <1>1, <1>2

\* Sets of products have a size, and a part is not larger.
LEMMA GoodsFinite ==
  ASSUME NEW ps \in SUBSET Good, NEW qs \in SUBSET Good, ps \subseteq qs
  PROVE  Cardinality(ps) \in Nat /\ Cardinality(qs) \in Nat /\ Cardinality(ps) <= Cardinality(qs)
<1>1. IsFiniteSet(Good)
  BY ScoringAssumption
<1>2. IsFiniteSet(ps) /\ IsFiniteSet(qs)
  BY <1>1, FS_Subset
<1>3. Cardinality(ps) <= Cardinality(qs)
  BY <1>2, FS_Subset
<1> QED
  BY <1>2, <1>3, FS_CardinalityType

\* The progress of a quest that is neither a list of ids nor about this week's log.
LEMMA CountedProgress ==
  ASSUME NEW t \in Int, NEW n \in Int
  PROVE  /\ Max({0, Min({t, n})}) \in Int
         /\ Max({0, Min({t, n})}) < t <=> 0 < t /\ n < t
<1>1. Min({t, n}) = IF t <= n THEN t ELSE n
  BY TwoNumbers
<1> DEFINE m == Min({t, n})
<1>2. m \in Int
  BY <1>1
<1> HIDE DEF m
<1>3. Max({0, m}) = IF 0 >= m THEN 0 ELSE m
  BY <1>2, TwoNumbers
<1>4. /\ Max({0, m}) \in Int
      /\ Max({0, m}) < t <=> 0 < t /\ n < t
  BY <1>1, <1>2, <1>3 DEF m
<1> QED
  BY <1>4 DEF m

(* A condition that fewer products satisfy is not further along. *)
LEMMA FewerIsLess ==
  ASSUME NEW q \in QuestRow, NEW g, NEW ps \in SUBSET Good, NEW qs \in SUBSET Good, ps \subseteq qs,
         Progress(q, g, qs) < q.target
  PROVE  Progress(q, g, ps) < q.target
<1>1. q.frozen \in SUBSET Good /\ q.target \in Int
  BY DEF QuestRow
<1>2. CASE g \in IdLists
  <2>1. Cardinality(q.frozen \cap ps) \in Nat /\ Cardinality(q.frozen \cap qs) \in Nat
        /\ Cardinality(q.frozen \cap ps) <= Cardinality(q.frozen \cap qs)
    BY <1>1, GoodsFinite
  <2>2. Progress(q, g, ps) = Cardinality(q.frozen \cap ps) /\ Progress(q, g, qs) = Cardinality(q.frozen \cap qs)
    BY <1>2 DEF Progress, IdLists, Weekly
  <2> QED
    BY <1>1, <2>1, <2>2
<1>3. CASE g \notin IdLists /\ Weekly(g)
  <2>1. /\ Progress(q, g, ps) = IF ps # {} THEN 1 ELSE 0
        /\ Progress(q, g, qs) = IF qs # {} THEN 1 ELSE 0
    BY <1>3 DEF Progress
  <2> QED
    BY <1>1, <2>1
<1>4. CASE g \notin IdLists /\ ~Weekly(g)
  <2> DEFINE f == Cardinality(q.frozen)
             m == Cardinality(ps) - f
             n == Cardinality(qs) - f
  <2>1. f \in Nat /\ Cardinality(ps) \in Nat /\ Cardinality(qs) \in Nat /\ Cardinality(ps) <= Cardinality(qs)
    BY <1>1, GoodsFinite
  <2>2. m \in Int /\ n \in Int /\ m <= n
    <3> HIDE DEF f
    <3> QED
      BY <2>1
  <2>3. Progress(q, g, ps) = Max({0, Min({q.target, m})}) /\ Progress(q, g, qs) = Max({0, Min({q.target, n})})
    BY <1>4 DEF Progress
  <2> HIDE DEF m, n, f
  <2>4. 0 < q.target /\ n < q.target
    BY <1>1, <2>2, <2>3, CountedProgress
  <2>5. m < q.target
    BY <1>1, <2>2, <2>4
  <2> QED
    BY <1>1, <2>2, <2>3, <2>4, <2>5, CountedProgress
<1> QED
  BY <1>2, <1>3, <1>4

\* Only the frozen ids and the target of a quest matter.
LEMMA SameQuest ==
  ASSUME NEW q, NEW r, q.frozen = r.frozen, q.target = r.target, NEW g, NEW ps
  PROVE  Progress(q, g, ps) = Progress(r, g, ps)
BY DEF Progress

\* A product that is not among the frozen ids makes no difference.
LEMMA Unqualified ==
  ASSUME NEW q, NEW g \in IdLists, NEW p, p \notin q.frozen, NEW ps
  PROVE  Progress(q, g, ps \cup {p}) = Progress(q, g, ps)
<1>1. q.frozen \cap (ps \cup {p}) = q.frozen \cap ps
  OBVIOUS
<1> QED
  BY <1>1 DEF Progress, IdLists, Weekly

(* A quest as a job makes it is short of its target as long as what the job found is so. *)
LEMMA NewQuestIsShort ==
  ASSUME ScoringRows, NEW g \in Generator, NEW r, r \in JobRow(r), Fits(r, g), NEW q \in QuestRow,
         q.frozen = r.frozen[g], q.target = TargetCount(g, r.frozen[g])
  PROVE  Progress(q, g, met[g]) < q.target
<1>1. q.frozen \in SUBSET Good /\ q.target \in Int /\ met[g] \in SUBSET Good
  BY DEF QuestRow, ScoringRows
<1>2. Threshold \in Nat /\ Threshold > 0
  BY ScoringAssumption
<1>3. CASE g \in IdLists
  <2>1. q.frozen \cap met[g] = {} /\ q.target = Threshold
    BY <1>3 DEF Fits, TargetCount, IdLists, Weekly
  <2>2. Progress(q, g, met[g]) = Cardinality({})
    BY <1>3, <2>1 DEF Progress, IdLists, Weekly
  <2> QED
    BY <1>2, <2>1, <2>2, FS_EmptySet
<1>4. CASE g \notin IdLists /\ Weekly(g)
  BY <1>4 DEF Fits, TargetCount, Progress
<1>5. CASE g \notin IdLists /\ ~Weekly(g)
  <2>1. met[g] \subseteq q.frozen /\ Cardinality(q.frozen) < Threshold /\ q.target = Threshold - Cardinality(q.frozen)
    BY <1>5 DEF Fits, TargetCount
  <2> DEFINE f == Cardinality(q.frozen)
             n == Cardinality(met[g])
  <2>2. f \in Nat /\ n \in Nat /\ n <= f
    BY <1>1, <2>1, GoodsFinite
  <2>3. Progress(q, g, met[g]) = Max({0, Min({q.target, n - f})})
    BY <1>5 DEF Progress
  <2>4. f < Threshold /\ q.target = Threshold - f
    BY <2>1
  <2> HIDE DEF f, n
  <2>5. 0 < q.target /\ n - f < q.target /\ n - f \in Int
    BY <1>2, <2>2, <2>4
  <2> QED
    BY <1>1, <2>3, <2>5, CountedProgress
<1> QED
  BY <1>3, <1>4, <1>5

-----------------------------------------------------------------------------
(* Steps of one transaction, before its end *)

\* Nothing a row is judged by changes.
LEMMA RowIs ==
  ASSUME NEW v, NEW r, WriteOK(r), write'[v] = r, UNCHANGED <<met, quest, week, silent>>
  PROVE  WriteOK(write[v])'
<1>1. Holds(write[v])'
  BY DEF WriteOK, Holds, Active, PaidBy, Paying
<1>2. LooksAt(write[v])'
  BY DEF WriteOK, LooksAt
<1>3. Short(write[v])'
  BY DEF WriteOK, Short, SeenBy
<1> QED
  BY <1>1, <1>2, <1>3 DEF WriteOK

\* One write goes on.
LEMMA WriteGoesOn ==
  ASSUME ScoringIInv, UNCHANGED <<goods, met, quest, unlocked, job, week, silent, questPaid, milestonePaid>>,
         NEW w \in Writer, NEW r, write' = [write EXCEPT ![w] = r], r \in WriteRow(r), WriteOK(r),
         \A v \in Writer \ {w} : r.held \cap write[v].held = {}
  PROVE  ScoringIInv'
<1>1. write'[w] = r /\ DOMAIN write' = Writer /\ \A v \in Writer \ {w} : write'[v] = write[v]
  BY DEF ScoringIInv, ScoringRows
<1>2. ScoringRows'
  <2>1. \A v \in Writer : write'[v] \in WriteRow(write'[v])
    BY <1>1 DEF ScoringIInv, ScoringRows
  <2> QED
    BY <1>1, <2>1 DEF ScoringIInv, ScoringRows, WriteRow, JobRow
<1>3. QuestShape' /\ QuestsPaid' /\ MilestonesPaid' /\ AwardLocks'
  BY DEF ScoringIInv, QuestShape, QuestsPaid, MilestonesPaid, AwardLocks
<1>4. ASSUME NEW v \in Writer
      PROVE  WriteOK(write[v])'
  <2>1. CASE v = w
    BY <1>1, <2>1, RowIs
  <2>2. CASE v # w
    <3>1. WriteOK(write[v]) /\ write'[v] = write[v]
      BY <1>1, <2>2 DEF ScoringIInv
    <3> QED
      BY <3>1, RowIs
  <2> QED
    BY <2>1, <2>2
<1>5. QuestLocks'
  BY <1>1 DEF ScoringIInv, QuestLocks
<1>6. ASSUME NEW j \in WeekJob
      PROVE  JobOK(job[j])'
  <2>1. JobOK(job[j])
    BY DEF ScoringIInv
  <2> QED
    BY <2>1 DEF JobOK, Fits
<1>7. ASSUME NEW g \in Generator
      PROVE  Watched(g)'
  BY DEF ScoringIInv, Watched, Active
<1> QED
  BY <1>2, <1>3, <1>4, <1>5, <1>6, <1>7 DEF ScoringIInv

\* One job goes on.
LEMMA JobGoesOn ==
  ASSUME ScoringIInv, UNCHANGED <<goods, met, quest, unlocked, write, week, silent, questPaid, milestonePaid>>,
         NEW j \in WeekJob, NEW r, job' = [job EXCEPT ![j] = r], r \in JobRow(r), JobOK(r),
         \A i \in WeekJob \ {j} : r.awards \cap job[i].awards = {}
  PROVE  ScoringIInv'
<1>1. job'[j] = r /\ DOMAIN job' = WeekJob /\ \A i \in WeekJob \ {j} : job'[i] = job[i]
  BY DEF ScoringIInv, ScoringRows
<1>2. ScoringRows'
  <2>1. \A i \in WeekJob : job'[i] \in JobRow(job'[i])
    BY <1>1 DEF ScoringIInv, ScoringRows
  <2> QED
    BY <1>1, <2>1 DEF ScoringIInv, ScoringRows, WriteRow, JobRow
<1>3. QuestShape' /\ QuestsPaid' /\ MilestonesPaid' /\ QuestLocks'
  BY DEF ScoringIInv, QuestShape, QuestsPaid, MilestonesPaid, QuestLocks
<1>4. ASSUME NEW v \in Writer
      PROVE  WriteOK(write[v])'
  <2>1. WriteOK(write[v]) /\ write'[v] = write[v]
    BY DEF ScoringIInv
  <2> QED
    BY <2>1, RowIs
<1>5. AwardLocks'
  BY <1>1 DEF ScoringIInv, AwardLocks
<1>6. ASSUME NEW i \in WeekJob
      PROVE  JobOK(job[i])'
  <2>1. JobOK(job[i])
    BY DEF ScoringIInv
  <2> QED
    BY <1>1, <2>1 DEF JobOK, Fits
<1>7. ASSUME NEW g \in Generator
      PROVE  Watched(g)'
  BY DEF ScoringIInv, Watched, Active
<1> QED
  BY <1>2, <1>3, <1>4, <1>5, <1>6, <1>7 DEF ScoringIInv

(* A step that leaves alone what the invariant reads keeps it. *)
LEMMA NothingHappens ==
  ASSUME ScoringIInv,
         UNCHANGED <<goods, met, quest, unlocked, write, job, week, silent, questPaid, milestonePaid>>
  PROVE  ScoringIInv'
<1>2. ScoringRows'
  BY DEF ScoringIInv, ScoringRows, WriteRow, JobRow
<1>3. QuestShape' /\ QuestsPaid' /\ MilestonesPaid' /\ QuestLocks' /\ AwardLocks'
  BY DEF ScoringIInv, QuestShape, QuestsPaid, MilestonesPaid, QuestLocks, AwardLocks
<1>4. ASSUME NEW v \in Writer
      PROVE  WriteOK(write[v])'
  <2>1. WriteOK(write[v]) /\ write'[v] = write[v]
    BY DEF ScoringIInv
  <2> QED
    BY <2>1, RowIs
<1>6. ASSUME NEW i \in WeekJob
      PROVE  JobOK(job[i])'
  <2>1. JobOK(job[i])
    BY DEF ScoringIInv
  <2> QED
    BY <2>1 DEF JobOK, Fits
<1>7. ASSUME NEW g \in Generator
      PROVE  Watched(g)'
  BY DEF ScoringIInv, Watched, Active
<1> QED
  BY <1>2, <1>3, <1>4, <1>6, <1>7 DEF ScoringIInv

LEMMA NoWriteOK == NoWrite \in WriteRow(NoWrite) /\ WriteOK(NoWrite) /\ NoWrite.held = {} /\ NoWrite.phase = "idle"
<1> DEFINE none == [u \in Member |-> Never]
<1>1. NoWrite = [phase |-> "idle", user |-> Never, kind |-> Never, good |-> Never, at |-> 0, week |-> 0,
            gens |-> <<>>, meets |-> {}, xp |-> none, held |-> {},
            missed |-> {}, helps |-> {}, ends |-> {}, paying |-> Never, pays |-> {}, pay |-> {}]
  BY DEF NoWrite
<1> HIDE DEF none
<1>2. <<>> \in Seq(Asked)
  OBVIOUS
<1>3. NoWrite \in WriteRow(NoWrite)
  BY <1>1, <1>2 DEF WriteRow
<1>4. /\ NoWrite.phase = "idle" /\ NoWrite.held = {} /\ NoWrite.meets = {} /\ NoWrite.helps = {}
      /\ NoWrite.ends = {} /\ NoWrite.pay = {}
  BY <1>1
<1>5. WriteOK(NoWrite)
  BY <1>4 DEF WriteOK, Holds, LooksAt, Short
<1> QED
  BY <1>3, <1>4, <1>5

LEMMA NoJobOK ==
  ASSUME NEW n \in 0..MaxWeek, n <= week
  PROVE  NoJob(n) \in JobRow(NoJob(n)) /\ JobOK(NoJob(n)) /\ NoJob(n).awards = {}
<1> DEFINE none == [u \in Member |-> Never]
           lists == [g \in Generator |-> {}]
<1>1. NoJob(n) = [phase |-> "idle", ran |-> n, picked |-> {}, frozen |-> lists,
                  xp |-> none, awards |-> {}, due |-> {}, clean |-> {}]
  BY DEF NoJob
<1>2. lists \in [Generator -> SUBSET Good]
  OBVIOUS
<1> HIDE DEF none, lists
<1>3. NoJob(n) \in JobRow(NoJob(n))
  BY <1>1, <1>2 DEF JobRow
<1>4. NoJob(n).phase = "idle" /\ NoJob(n).ran = n /\ NoJob(n).awards = {}
  BY <1>1
<1>5. JobOK(NoJob(n))
  BY <1>4 DEF JobOK
<1> QED
  BY <1>3, <1>4, <1>5

LEMMA BeginKeeps ==
  ASSUME ScoringIInv, NEW w \in Writer, NEW u \in Member, NEW k, NEW p, NEW gens \in Seq(Asked),
         NEW meets \in SUBSET Generator, \A g \in meets : \E n \in DOMAIN gens : gens[n] = g,
         Begin(w, u, k, p, gens, meets)
  PROVE  ScoringIInv'
<1> DEFINE r == [NoWrite EXCEPT !.phase = "bump", !.user = u, !.kind = k, !.good = p, !.at = hour,
                                !.week = week, !.gens = gens, !.meets = meets]
<1>1. p \in Good
  BY DEF Begin, ScoringIInv, ScoringRows
<1>2. NoWrite \in WriteRow(NoWrite) /\ NoWrite.held = {} /\ NoWrite.helps = {} /\ NoWrite.ends = {}
      /\ NoWrite.pay = {}
  BY NoWriteOK DEF NoWrite
<1>3. /\ r.phase = "bump" /\ r.user = u /\ r.good = p /\ r.gens = gens /\ r.meets = meets
      /\ r.held = {} /\ r.helps = {} /\ r.ends = {} /\ r.pay = {}
  BY <1>2 DEF WriteRow
<1>4. r \in WriteRow(r)
  BY <1>1, <1>2 DEF WriteRow
<1>5. /\ write' = [write EXCEPT ![w] = r]
      /\ UNCHANGED <<goods, met, quest, unlocked, job, week, silent, questPaid, milestonePaid>>
  BY DEF Begin, history, clock
<1> HIDE DEF r
<1>6. WriteOK(r)
  BY <1>1, <1>3 DEF WriteOK, Holds, LooksAt, Short
<1>7. \A v \in Writer \ {w} : r.held \cap write[v].held = {}
  BY <1>3
<1> QED
  BY <1>4, <1>5, <1>6, <1>7, WriteGoesOn

\* A row of one or two generators.
LEMMA ShortRows ==
  ASSUME NEW a \in Asked, NEW b \in Asked
  PROVE  <<>> \in Seq(Asked) /\ <<a>> \in Seq(Asked) /\ <<a, b>> \in Seq(Asked)
<1> HIDE DEF Asked
<1> QED
  OBVIOUS

LEMMA FillInKeeps ==
  ASSUME ScoringIInv, NEW w \in Writer, NEW u \in Member, NEW g \in Generator, NEW p, FillIn(w, u, g, p)
  PROVE  ScoringIInv'
<1> DEFINE gens == <<g>>
           meets == {g}
<1>1. g \in Asked
  BY DEF FillIn, Asked, IdLists
<1>2. gens \in Seq(Asked)
  BY <1>1, ShortRows
<1>3. 1 \in DOMAIN gens /\ gens[1] = g
  OBVIOUS
<1>4. meets \in SUBSET Generator /\ \A x \in meets : x = g
  OBVIOUS
<1>5. Begin(w, u, "metadata_filled", p, gens, meets)
  BY DEF FillIn
<1> HIDE DEF gens, meets
<1>6. \A x \in meets : \E n \in DOMAIN gens : gens[n] = x
  BY <1>3, <1>4
<1> QED
  BY <1>2, <1>4, <1>5, <1>6, BeginKeeps

LEMMA ScoreKeeps ==
  ASSUME ScoringIInv, NEW w \in Writer, NEW u \in Member, NEW k, NEW p, NEW emptied, Score(w, u, k, p, emptied)
  PROVE  ScoringIInv'
<1> DEFINE gens == QuestRelevantGenerators(k)
           Meets == {x \in Generator : \E i \in DOMAIN gens : gens[i] = x}
           meets == {x \in Meets : x = "expiring_soon" => emptied}
<1>1. gens \in Seq(Asked)
  <2>1. /\ "first_mile" \in Asked /\ "stale_location" \in Asked /\ "consumption_hygiene" \in Asked
        /\ "expiring_soon" \in Asked /\ "missing_expiry" \in Asked
    BY DEF Asked, IdLists
  <2>2. \/ gens = <<"first_mile", "stale_location">> \/ gens = <<"consumption_hygiene", "expiring_soon">>
        \/ gens = <<"missing_expiry">> \/ gens = <<"stale_location">> \/ gens = <<>>
    BY DEF QuestRelevantGenerators
  <2> HIDE DEF gens
  <2> QED
    BY <2>1, <2>2, ShortRows
<1>2. meets \in SUBSET Generator /\ \A g \in meets : \E n \in DOMAIN gens : gens[n] = g
  <2> HIDE DEF gens
  <2> QED
    OBVIOUS
<1>3. Begin(w, u, k, p, gens, meets)
  BY DEF Score
<1> HIDE DEF gens, meets
<1> QED
  BY <1>1, <1>2, <1>3, BeginKeeps

LEMMA BumpKeeps ==
  ASSUME ScoringIInv, NEW w \in Writer, Bump(w)
  PROVE  ScoringIInv'
<1> DEFINE o == write[w]
           b == BumpProgress(o.xp, o.user, XPForDeed(o.kind))
           r == [o EXCEPT !.phase = "quests", !.xp = b]
<1>1. o \in WriteRow(o) /\ WriteOK(o) /\ o.phase = "bump" /\ DOMAIN write = Writer
  BY DEF Bump, ScoringIInv, ScoringRows
<1> HIDE DEF b
<1>2. /\ write' = [write EXCEPT ![w] = r]
      /\ UNCHANGED <<goods, met, quest, unlocked, job, week, silent, questPaid, milestonePaid>>
  BY <1>1 DEF Bump, history, clock, b, WriteRow
<1>3. \A v \in Writer \ {w} : o.held \cap write[v].held = {}
  BY DEF ScoringIInv, QuestLocks
<1> HIDE DEF o
<1>4. r \in WriteRow(r)
  BY <1>1 DEF WriteRow
<1>5. /\ r.phase = "quests" /\ r.user = o.user /\ r.good = o.good /\ r.gens = o.gens /\ r.meets = o.meets
      /\ r.held = o.held /\ r.missed = o.missed /\ r.helps = o.helps /\ r.ends = o.ends /\ r.pay = o.pay
      /\ r.week = o.week
  BY <1>1 DEF WriteRow
<1> HIDE DEF r
<1>6. Holds(r)
  BY <1>1, <1>5 DEF WriteOK, Holds, PaidBy, Paying
<1>7. LooksAt(r) /\ Short(r)
  BY <1>1, <1>5 DEF WriteOK, LooksAt, Short, SeenBy
<1>8. \A v \in Writer \ {w} : r.held \cap write[v].held = {}
  BY <1>3, <1>5
<1> QED
  BY <1>2, <1>4, <1>6, <1>7, <1>8, WriteGoesOn DEF WriteOK

LEMMA RollBackKeeps ==
  ASSUME ScoringIInv, NEW w \in Writer, RollBack(w)
  PROVE  ScoringIInv'
<1>1. /\ write' = [write EXCEPT ![w] = NoWrite]
      /\ UNCHANGED <<goods, met, quest, unlocked, job, week, silent, questPaid, milestonePaid>>
  BY DEF RollBack, history, clock
<1>2. \A v \in Writer \ {w} : NoWrite.held \cap write[v].held = {}
  BY NoWriteOK
<1> QED
  BY <1>1, <1>2, NoWriteOK, WriteGoesOn

\* A sequence that is not empty.
LEMMA TailOf ==
  ASSUME NEW s \in Seq(Asked), s # <<>>
  PROVE  /\ Tail(s) \in Seq(Asked) /\ Head(s) \in Asked
         /\ \A n \in DOMAIN s : s[n] = Head(s) \/ \E i \in DOMAIN Tail(s) : Tail(s)[i] = s[n]
<1>1. Tail(s) \in Seq(Asked) /\ Head(s) = s[1] /\ Len(s) \in Nat /\ Len(s) > 0 /\ DOMAIN s = 1..Len(s)
      /\ Head(s) \in Asked
  OBVIOUS
<1>2. Len(Tail(s)) = Len(s) - 1 /\ DOMAIN Tail(s) = 1..(Len(s) - 1)
  BY <1>1
<1>3. \A i \in 1..(Len(s) - 1) : Tail(s)[i] = s[i + 1]
  BY <1>1
<1>4. ASSUME NEW n \in DOMAIN s, n # 1
      PROVE  \E i \in DOMAIN Tail(s) : Tail(s)[i] = s[n]
  <2>1. n - 1 \in 1..(Len(s) - 1) /\ (n - 1) + 1 = n
    BY <1>1, <1>4
  <2>2. Tail(s)[n - 1] = s[n]
    BY <1>3, <2>1
  <2> QED
    BY <1>2, <2>1, <2>2
<1> QED
  BY <1>1, <1>4

(* What a write asks about a quest: there is none, or it waits for the row and holds it;
   then it is not among the ids, or falls short, or is completed. *)
LEMMA AdvanceOneQuestKeeps ==
  ASSUME ScoringIInv, NEW w \in Writer, AdvanceOneQuest(w)
  PROVE  ScoringIInv'
<1> DEFINE o == write[w]
           k == <<week, Head(o.gens)>>
           lost == NextGenerator([o EXCEPT !.missed = o.missed \cup ({k} \cap QuestKey)])
           held == [o EXCEPT !.held = o.held \cup {k}]
           helped == [held EXCEPT !.helps = o.helps \cup {k}]
           done == [helped EXCEPT !.phase = "pay", !.ends = o.ends \cup {k}, !.paying = k,
                                  !.pays = quest[k].helpers \cup {o.user}]
<1>1. /\ o \in WriteRow(o) /\ WriteOK(o) /\ o.phase = "quests" /\ o.gens # <<>>
      /\ week \in Week /\ quest \in [QuestKey -> QuestRow] /\ met \in [Generator -> SUBSET Good]
  BY DEF AdvanceOneQuest, ScoringIInv, ScoringRows
<1>2. UNCHANGED <<goods, met, quest, unlocked, job, week, silent, questPaid, milestonePaid>>
  BY DEF AdvanceOneQuest, history, clock
<1>3. \A v \in Writer \ {w} : o.held \cap write[v].held = {}
  BY DEF ScoringIInv, QuestLocks
<1>4. o.gens \in Seq(Asked)
  BY <1>1 DEF WriteRow
<1>5. /\ Tail(o.gens) \in Seq(Asked)
      /\ \A n \in DOMAIN o.gens : o.gens[n] = Head(o.gens) \/ \E i \in DOMAIN Tail(o.gens) : Tail(o.gens)[i] = o.gens[n]
  BY <1>1, <1>4, TailOf
<1>6. k[1] = week /\ k[2] = Head(o.gens) /\ (Head(o.gens) \in Generator => k \in QuestKey)
  BY <1>1 DEF QuestKey
<1>7. /\ o.user \in Member /\ o.good \in Good
      /\ o.ends \subseteq o.helps /\ o.helps \subseteq o.held
      /\ \A e \in o.ends : PaidBy(o, e) = quest[e].helpers \cup {o.user}
      /\ \A i \in o.pay : i[1] \in o.ends
      /\ \A e \in o.held : Active(e)
  BY <1>1 DEF WriteOK, Holds, Paying
<1>8. CASE ~(k \in QuestKey /\ Active(k))
  <2>1. write' = [write EXCEPT ![w] = lost]
    BY <1>8 DEF AdvanceOneQuest
  <2>2. lost \in WriteRow(lost)
    <3> HIDE DEF o, k
    <3> QED
      BY <1>1, <1>5 DEF WriteRow, NextGenerator
  <2>3. /\ lost.phase = "quests" /\ lost.user = o.user /\ lost.good = o.good /\ lost.gens = Tail(o.gens)
        /\ lost.meets = o.meets /\ lost.held = o.held /\ lost.missed = o.missed \cup ({k} \cap QuestKey)
        /\ lost.helps = o.helps /\ lost.ends = o.ends /\ lost.pay = o.pay /\ lost.week = o.week
    <3> HIDE DEF o, k
    <3> QED
      BY <1>1 DEF WriteRow, NextGenerator
  <2> HIDE DEF lost, o, k
  <2>4. Holds(lost)
    BY <1>1, <1>7, <2>3 DEF Holds, PaidBy, Paying
  <2>5. LooksAt(lost)
    <3> SUFFICES ASSUME NEW g \in lost.meets
                 PROVE  \/ \E n \in DOMAIN lost.gens : lost.gens[n] = g
                        \/ \E i \in lost.held \cup lost.missed : i[2] = g
      BY DEF LooksAt
    <3>1. g \in Generator
      BY <1>1, <2>3 DEF WriteRow
    <3>2. \/ \E n \in DOMAIN o.gens : o.gens[n] = g
          \/ \E i \in o.held \cup o.missed : i[2] = g
      BY <1>1, <2>3 DEF WriteOK, LooksAt
    <3> QED
      BY <1>5, <1>6, <2>3, <3>1, <3>2
  <2>6. Short(lost)
    BY <1>1, <2>3 DEF WriteOK, Short, SeenBy
  <2>7. \A v \in Writer \ {w} : lost.held \cap write[v].held = {}
    BY <1>3, <2>3
  <2> QED
    BY <1>2, <2>1, <2>2, <2>4, <2>5, <2>6, <2>7, WriteGoesOn DEF WriteOK
<1>9. CASE k \in QuestKey /\ Active(k)
  <2>1. /\ LockQuest(w, k)
        /\ write' = [write EXCEPT ![w] =
             IF ~QuestTargetQualifies(k, o.good) THEN NextGenerator(held)
             ELSE IF QuestProgress(k, Seen(w, k[2])) < quest[k].target THEN NextGenerator(helped) ELSE done]
    BY <1>9 DEF AdvanceOneQuest
  <2>2. \A v \in Writer \ {w} : (o.held \cup {k}) \cap write[v].held = {}
    BY <1>3, <2>1 DEF LockQuest
  <2>3. QuestProgress(k, Seen(w, k[2])) = Progress(quest[k], k[2], SeenBy(o, k[2]))
    BY DEF QuestProgress, Progress, Seen, SeenBy
  <2>4. quest[k] \in QuestRow /\ Watched(k[2]) /\ k = <<week, k[2]>>
    BY <1>1, <1>9, <1>6 DEF QuestKey, ScoringIInv
  <2>5. \A g \in o.meets : \/ \E n \in DOMAIN Tail(o.gens) : Tail(o.gens)[n] = g
                           \/ \E i \in (o.held \cup {k}) \cup o.missed : i[2] = g
    <3> SUFFICES ASSUME NEW g \in o.meets
                 PROVE  \/ \E n \in DOMAIN Tail(o.gens) : Tail(o.gens)[n] = g
                        \/ \E i \in (o.held \cup {k}) \cup o.missed : i[2] = g
      OBVIOUS
    <3> HIDE DEF o, k
    <3>1. \/ \E n \in DOMAIN o.gens : o.gens[n] = g
          \/ \E i \in o.held \cup o.missed : i[2] = g
      BY <1>1 DEF WriteOK, LooksAt
    <3>2. CASE \E i \in o.held \cup o.missed : i[2] = g
      BY <3>2
    <3>3. CASE \E n \in DOMAIN o.gens : o.gens[n] = g
      <4>1. g = k[2] \/ \E i \in DOMAIN Tail(o.gens) : Tail(o.gens)[i] = g
        BY <1>5, <1>6, <3>3
      <4> QED
        BY <4>1
    <3> QED
      BY <3>1, <3>2, <3>3
  <2>6. CASE ~QuestTargetQualifies(k, o.good)
    <3> DEFINE n == NextGenerator(held)
    <3>1. write' = [write EXCEPT ![w] = n]
      BY <2>1, <2>6
    <3>2. k[2] \in IdLists /\ o.good \notin quest[k].frozen
      BY <2>6 DEF QuestTargetQualifies
    <3> HIDE DEF o, k
    <3>3. n \in WriteRow(n)
      BY <1>1, <1>5, <1>9 DEF WriteRow, NextGenerator
    <3>4. /\ n.phase = "quests" /\ n.user = o.user /\ n.good = o.good /\ n.gens = Tail(o.gens)
          /\ n.meets = o.meets /\ n.held = o.held \cup {k} /\ n.missed = o.missed
          /\ n.helps = o.helps /\ n.ends = o.ends /\ n.pay = o.pay /\ n.week = o.week
      BY <1>1 DEF WriteRow, NextGenerator
    <3> HIDE DEF n
    <3>5. Holds(n)
      BY <1>1, <1>7, <1>9, <3>4 DEF Holds, PaidBy, Paying
    <3>6. LooksAt(n)
      BY <2>5, <3>4 DEF LooksAt
    <3>7. k \notin silent => Progress(quest[k], k[2], met[k[2]]) < quest[k].target
      BY <1>9, <2>4 DEF Watched
    <3>8. Progress(quest[k], k[2], met[k[2]] \cup {o.good}) = Progress(quest[k], k[2], met[k[2]])
      BY <3>2, Unqualified
    <3>9. Short(n)
      <4> SUFFICES ASSUME NEW x \in n.held \ n.ends, x[1] = week, x \notin silent
                   PROVE  Progress(quest[x], x[2], SeenBy(n, x[2])) < quest[x].target
        BY DEF Short
      <4>1. CASE x = k
        <5>1. SeenBy(n, k[2]) = met[k[2]] \cup {o.good} \/ SeenBy(n, k[2]) = met[k[2]]
          BY <3>4 DEF SeenBy
        <5> QED
          BY <3>7, <3>8, <4>1, <5>1
      <4>2. CASE x # k
        BY <1>1, <3>4, <4>2 DEF WriteOK, Short, SeenBy
      <4> QED
        BY <4>1, <4>2
    <3>10. \A v \in Writer \ {w} : n.held \cap write[v].held = {}
      BY <2>2, <3>4
    <3> QED
      BY <1>2, <3>1, <3>3, <3>5, <3>6, <3>9, <3>10, WriteGoesOn DEF WriteOK
  <2>7. CASE QuestTargetQualifies(k, o.good) /\ QuestProgress(k, Seen(w, k[2])) < quest[k].target
    <3> DEFINE n == NextGenerator(helped)
    <3>1. write' = [write EXCEPT ![w] = n]
      BY <2>1, <2>7
    <3>2. Progress(quest[k], k[2], SeenBy(o, k[2])) < quest[k].target
      BY <2>3, <2>7
    <3> HIDE DEF o, k
    <3>3. n \in WriteRow(n)
      BY ZenonT(60), <1>1, <1>5, <1>9 DEF WriteRow, NextGenerator
    <3>4. /\ n.phase = "quests" /\ n.user = o.user /\ n.good = o.good /\ n.gens = Tail(o.gens)
          /\ n.meets = o.meets /\ n.held = o.held \cup {k} /\ n.missed = o.missed
          /\ n.helps = o.helps \cup {k} /\ n.ends = o.ends /\ n.pay = o.pay /\ n.week = o.week
      BY <1>1 DEF WriteRow, NextGenerator
    <3> HIDE DEF n
    <3>5. Holds(n)
      BY <1>1, <1>7, <1>9, <3>4 DEF Holds, PaidBy, Paying
    <3>6. LooksAt(n)
      BY <2>5, <3>4 DEF LooksAt
    <3>7. Short(n)
      <4> SUFFICES ASSUME NEW x \in n.held \ n.ends, x[1] = week, x \notin silent
                   PROVE  Progress(quest[x], x[2], SeenBy(n, x[2])) < quest[x].target
        BY DEF Short
      <4>1. SeenBy(n, x[2]) = SeenBy(o, x[2])
        BY <3>4 DEF SeenBy
      <4>2. CASE x = k
        BY <3>2, <4>1, <4>2
      <4>3. CASE x # k
        BY <1>1, <3>4, <4>1, <4>3 DEF WriteOK, Short
      <4> QED
        BY <4>2, <4>3
    <3>8. \A v \in Writer \ {w} : n.held \cap write[v].held = {}
      BY <2>2, <3>4
    <3> QED
      BY <1>2, <3>1, <3>3, <3>5, <3>6, <3>7, <3>8, WriteGoesOn DEF WriteOK
  <2>8. CASE QuestTargetQualifies(k, o.good) /\ ~(QuestProgress(k, Seen(w, k[2])) < quest[k].target)
    <3>1. write' = [write EXCEPT ![w] = done]
      BY <2>1, <2>8
    <3> HIDE DEF o, k
    <3>2. quest[k].helpers \cup {o.user} \in SUBSET Member
      BY <1>7, <2>4 DEF QuestRow
    <3>3. done \in WriteRow(done)
      <4> DEFINE hs == quest[k].helpers \cup {o.user}
                 es == o.ends \cup {k}
                 ls == o.helps \cup {k}
                 ks == o.held \cup {k}
      <4>1. hs \in SUBSET Member /\ es \in SUBSET QuestKey /\ ls \in SUBSET QuestKey /\ ks \in SUBSET QuestKey
        BY <1>1, <1>9, <3>2 DEF WriteRow
      <4>2. ASSUME NEW a \in SUBSET Member, NEW b \in SUBSET QuestKey, NEW c \in SUBSET QuestKey,
                   NEW d \in SUBSET QuestKey, NEW x,
                   x = [o EXCEPT !.held = d, !.helps = c, !.phase = "pay", !.ends = b, !.paying = k, !.pays = a]
            PROVE  x \in WriteRow(x)
        <5>1. x.kind = o.kind /\ x.at = o.at /\ x.week = o.week /\ x.xp = o.xp
          BY <1>1, <4>2 DEF WriteRow
        <5>2. WriteRow(x) = WriteRow(o)
          BY <5>1 DEF WriteRow
        <5>3. x \in WriteRow(o)
          BY <1>1, <1>9, <4>2 DEF WriteRow
        <5> QED
          BY <5>2, <5>3
      <4>3. done = [o EXCEPT !.held = ks, !.helps = ls, !.phase = "pay", !.ends = es, !.paying = k, !.pays = hs]
        BY <1>1 DEF WriteRow
      <4> HIDE DEF hs, es, ls, ks, done
      <4> QED
        BY <4>1, <4>2, <4>3
    <3>4. /\ done.phase = "pay" /\ done.user = o.user /\ done.good = o.good /\ done.gens = o.gens
          /\ done.meets = o.meets /\ done.held = o.held \cup {k} /\ done.missed = o.missed
          /\ done.helps = o.helps \cup {k} /\ done.ends = o.ends \cup {k} /\ done.pay = o.pay /\ done.week = o.week
          /\ done.paying = k /\ done.pays = quest[k].helpers \cup {o.user}
      BY <1>1 DEF WriteRow
    <3> HIDE DEF done
    <3>5. ASSUME NEW e \in done.ends
          PROVE  PaidBy(done, e) \cup Paying(done, e) = quest[e].helpers \cup {done.user}
      <4>1. PaidBy(done, e) = PaidBy(o, e)
        BY <3>4 DEF PaidBy
      <4>2. CASE e = k
        <5>1. Paying(done, e) = quest[k].helpers \cup {o.user}
          BY <3>4, <4>2 DEF Paying
        <5>2. PaidBy(o, k) \subseteq quest[k].helpers \cup {o.user}
          <6>1. CASE k \in o.ends
            BY <1>7, <6>1
          <6>2. CASE k \notin o.ends
            <7>1. ASSUME NEW u \in Member, <<k, u>> \in o.pay
                  PROVE  FALSE
              BY <1>7, <6>2, <7>1
            <7> QED
              BY <7>1 DEF PaidBy
          <6> QED
            BY <6>1, <6>2
        <5> QED
          BY <3>4, <4>1, <4>2, <5>1, <5>2
      <4>3. CASE e # k
        BY <1>7, <3>4, <4>1, <4>3 DEF Paying
      <4> QED
        BY <4>2, <4>3
    <3>6. Holds(done)
      BY <1>1, <1>6, <1>7, <1>9, <3>4, <3>5 DEF Holds
    <3>7. LooksAt(done)
      BY <1>1, <3>4 DEF WriteOK, LooksAt
    <3>8. Short(done)
      BY <1>1, <3>4 DEF WriteOK, Short, SeenBy
    <3>9. \A v \in Writer \ {w} : done.held \cap write[v].held = {}
      BY <2>2, <3>4
    <3> QED
      BY <1>2, <3>1, <3>3, <3>6, <3>7, <3>8, <3>9, WriteGoesOn DEF WriteOK
  <2> QED
    BY <2>6, <2>7, <2>8
<1> QED
  BY <1>8, <1>9

\* One contributor after the other.
LEMMA PayContributorKeeps ==
  ASSUME ScoringIInv, NEW w \in Writer, NEW u \in Member, PayContributor(w, u)
  PROVE  ScoringIInv'
<1> DEFINE o == write[w]
           k == o.paying
           b == BumpProgress(o.xp, u, XPForGenerator(k[2]))
           paid == [o EXCEPT !.xp = b, !.pays = o.pays \ {u}, !.pay = o.pay \cup {<<k, u>>}]
           last == [NextGenerator(paid) EXCEPT !.phase = "quests", !.paying = Never]
           n == IF o.pays = {u} THEN last ELSE paid
<1>1. /\ o \in WriteRow(o) /\ WriteOK(o) /\ o.phase = "pay" /\ u \in o.pays
  BY DEF PayContributor, ScoringIInv, ScoringRows
<1>2. /\ write' = [write EXCEPT ![w] = n]
      /\ UNCHANGED <<goods, met, quest, unlocked, job, week, silent, questPaid, milestonePaid>>
  BY DEF PayContributor, history, clock
<1>3. \A v \in Writer \ {w} : o.held \cap write[v].held = {}
  BY DEF ScoringIInv, QuestLocks
<1> HIDE DEF o, b
<1>4. /\ k \in o.ends /\ o.gens # <<>> /\ k[2] = Head(o.gens) /\ o.gens \in Seq(Asked)
      /\ o.user \in Member /\ o.good \in Good
      /\ o.ends \subseteq o.helps /\ o.helps \subseteq o.held
      /\ \A i \in o.pay : i[1] \in o.ends
      /\ \A e \in o.held : Active(e)
      /\ \A e \in o.ends : PaidBy(o, e) \cup Paying(o, e) = quest[e].helpers \cup {o.user}
  BY <1>1 DEF WriteOK, Holds, WriteRow
<1>5. k \in QuestKey /\ k \in o.held
  BY <1>1, <1>4 DEF WriteRow
<1>6. /\ Tail(o.gens) \in Seq(Asked)
      /\ \A i \in DOMAIN o.gens : o.gens[i] = Head(o.gens) \/ \E j \in DOMAIN Tail(o.gens) : Tail(o.gens)[j] = o.gens[i]
  BY <1>4, TailOf
<1> HIDE DEF k
<1>7. paid \in WriteRow(paid) /\ last \in WriteRow(last)
  <2> DEFINE ps == o.pays \ {u}
             ys == o.pay \cup {<<k, u>>}
  <2>1. ps \in SUBSET Member /\ ys \in SUBSET (QuestKey \X Member)
    BY <1>1, <1>5 DEF WriteRow
  <2>2. paid \in WriteRow(paid)
    <3>1. ASSUME NEW a \in SUBSET Member, NEW c \in SUBSET (QuestKey \X Member), NEW x,
                 x = [o EXCEPT !.xp = b, !.pays = a, !.pay = c]
          PROVE  x \in WriteRow(x)
      <4>1. x.kind = o.kind /\ x.at = o.at /\ x.week = o.week /\ x.xp = b
        BY <1>1, <3>1 DEF WriteRow
      <4> QED
        BY ZenonT(60), <1>1, <3>1, <4>1 DEF WriteRow
    <3>2. paid = [o EXCEPT !.xp = b, !.pays = ps, !.pay = ys]
      OBVIOUS
    <3> HIDE DEF ps, ys, paid
    <3> QED
      BY <2>1, <3>1, <3>2
  <2>3. paid.gens = o.gens
    BY <1>1 DEF WriteRow
  <2> HIDE DEF paid
  <2>4. last \in WriteRow(last)
    BY <1>6, <2>2, <2>3 DEF WriteRow, NextGenerator
  <2> QED
    BY <2>2, <2>4
<1>8. /\ n.user = o.user /\ n.good = o.good /\ n.meets = o.meets /\ n.held = o.held /\ n.missed = o.missed
      /\ n.helps = o.helps /\ n.ends = o.ends /\ n.pay = o.pay \cup {<<k, u>>} /\ n.week = o.week
      /\ n.pays = o.pays \ {u}
      /\ IF o.pays = {u} THEN n.phase = "quests" /\ n.gens = Tail(o.gens)
         ELSE n.phase = "pay" /\ n.gens = o.gens /\ n.paying = o.paying
  BY <1>1 DEF WriteRow, NextGenerator
<1>9. n \in WriteRow(n)
  BY <1>7
<1> HIDE DEF n
<1>10. \A e \in n.ends : PaidBy(n, e) \cup Paying(n, e) = quest[e].helpers \cup {n.user}
  <2> SUFFICES ASSUME NEW e \in n.ends
               PROVE  PaidBy(n, e) \cup Paying(n, e) = PaidBy(o, e) \cup Paying(o, e)
    BY <1>4, <1>8
  <2>1. CASE e = k
    <3>1. PaidBy(n, k) = PaidBy(o, k) \cup {u}
      BY <1>8 DEF PaidBy
    <3>2. Paying(o, k) = o.pays /\ Paying(n, k) = o.pays \ {u}
      BY <1>1, <1>8 DEF Paying, k
    <3> QED
      BY <1>1, <2>1, <3>1, <3>2
  <2>2. CASE e # k
    <3>1. PaidBy(n, e) = PaidBy(o, e)
      BY <1>8, <2>2 DEF PaidBy
    <3>2. Paying(o, e) = {} /\ Paying(n, e) = {}
      BY <1>1, <1>8, <2>2 DEF Paying, k
    <3> QED
      BY <3>1, <3>2
  <2> QED
    BY <2>1, <2>2
<1>11. \A i \in n.pay : i[1] \in n.ends
  BY <1>4, <1>8
<1>12. Holds(n)
  BY <1>4, <1>8, <1>10, <1>11 DEF Holds, k
<1>13. LooksAt(n)
  <2> SUFFICES ASSUME NEW g \in n.meets
               PROVE  \/ \E i \in DOMAIN n.gens : n.gens[i] = g
                      \/ \E i \in n.held \cup n.missed : i[2] = g
    BY DEF LooksAt
  <2>1. \/ \E i \in DOMAIN o.gens : o.gens[i] = g
        \/ \E i \in o.held \cup o.missed : i[2] = g
    BY <1>1, <1>8 DEF WriteOK, LooksAt
  <2>2. CASE \E i \in o.held \cup o.missed : i[2] = g
    BY <1>8, <2>2
  <2>3. CASE \E i \in DOMAIN o.gens : o.gens[i] = g
    <3>1. g = k[2] \/ \E i \in DOMAIN Tail(o.gens) : Tail(o.gens)[i] = g
      BY <1>4, <1>6, <2>3
    <3>2. n.gens = Tail(o.gens) \/ n.gens = o.gens
      BY <1>8
    <3> QED
      BY <1>5, <1>8, <2>3, <3>1, <3>2
  <2> QED
    BY <2>1, <2>2, <2>3
<1>14. Short(n)
  BY <1>1, <1>8 DEF WriteOK, Short, SeenBy
<1>15. \A v \in Writer \ {w} : n.held \cap write[v].held = {}
  BY <1>3, <1>8
<1> QED
  BY <1>2, <1>9, <1>12, <1>13, <1>14, <1>15, WriteGoesOn DEF WriteOK

-----------------------------------------------------------------------------
(* The weekly job, before its end *)

(* A job picks what fires: the ids it freezes are of products that do not satisfy the
   condition, and nothing is on this week's log. *)
LEMMA GatherQuestCandidatesKeeps ==
  ASSUME ScoringIInv, NEW j \in WeekJob, NEW quiet, GatherQuestCandidates(j, quiet)
  PROVE  ScoringIInv'
<1>1. PICK s \in SelectQuests({g \in Generator : Fires(g, quiet)}) :
        job' = [job EXCEPT ![j] = [NoJob(week) EXCEPT !.phase = "insert", !.picked = s,
                                      !.frozen = [g \in Generator |-> Frozen(g)]]]
  BY DEF GatherQuestCandidates
<1> DEFINE ids == [g \in Generator |-> Frozen(g)]
           r == [NoJob(week) EXCEPT !.phase = "insert", !.picked = s, !.frozen = ids]
<1>2. \A g \in s : g \in Generator /\ Fires(g, quiet)
  BY <1>1 DEF SelectQuests
<1>3. /\ goods \subseteq Good /\ met \in [Generator -> SUBSET Good] /\ week \in 0..MaxWeek /\ week <= week
  BY DEF ScoringIInv, ScoringRows, Week
<1>4. ids \in [Generator -> SUBSET Good]
  <2>1. ASSUME NEW g \in Generator
        PROVE  Frozen(g) \in SUBSET Good
    BY <1>3 DEF Frozen, Candidates
  <2> QED
    BY <2>1
<1>5. /\ NoJob(week) \in JobRow(NoJob(week)) /\ NoJob(week).awards = {} /\ NoJob(week).ran = week
  BY <1>3, NoJobOK DEF NoJob
<1>6. \A g \in Generator : ids[g] = Frozen(g)
  OBVIOUS
<1>7. job' = [job EXCEPT ![j] = r] /\ UNCHANGED <<goods, met, quest, unlocked, write, week, silent, questPaid, milestonePaid>>
  BY <1>1 DEF GatherQuestCandidates, history, clock
<1> HIDE DEF ids
<1>8. r \in JobRow(r)
  <2>1. s \in SUBSET Generator
    BY <1>2
  <2> QED
    BY <1>4, <1>5, <2>1 DEF JobRow
<1>9. r.phase = "insert" /\ r.ran = week /\ r.awards = {} /\ r.picked = s /\ r.frozen = ids
  BY <1>5 DEF JobRow
<1> HIDE DEF r
<1>10. ASSUME NEW g \in s
       PROVE  Fits(r, g)
  <2>1. g \in Generator /\ Fires(g, quiet) /\ r.frozen[g] = Frozen(g)
    BY <1>2, <1>6, <1>9
  <2>2. CASE g \in IdLists
    BY <2>1, <2>2 DEF Fits, Frozen, Candidates
  <2>3. CASE g \notin IdLists /\ Weekly(g)
    BY <2>1, <2>3 DEF Fits, Fires
  <2>4. CASE g \notin IdLists /\ ~Weekly(g)
    <3>1. g = "first_mile"
      BY <2>1, <2>4, ScoringAssumption
    <3>2. r.frozen[g] = met[g] /\ Cardinality(met[g]) < Threshold
      BY <2>1, <2>4, <3>1 DEF Frozen, Fires
    <3> QED
      BY <2>4, <3>2 DEF Fits
  <2> QED
    BY <2>2, <2>3, <2>4
<1>11. JobOK(r)
  BY <1>3, <1>9, <1>10 DEF JobOK
<1>12. \A i \in WeekJob \ {j} : r.awards \cap job[i].awards = {}
  BY <1>9
<1> QED
  BY <1>7, <1>8, <1>11, <1>12, JobGoesOn

LEMMA UpdateCleanStreakKeeps ==
  ASSUME ScoringIInv, NEW j \in WeekJob, UpdateCleanStreak(j)
  PROVE  ScoringIInv'
<1> DEFINE o == job[j]
           days == 7 * (o.ran - cleanSince)
           ms == {m \in DOMAIN Milestone : days >= Milestone[m].days}
           clean == IF o.picked = {} /\ cleanSince = Never THEN {o.ran}
                    ELSE IF o.picked # {} /\ cleanSince # Never THEN {Never} ELSE {}
           due == IF o.picked = {} /\ cleanSince # Never THEN ms \X Member ELSE {}
           r == [o EXCEPT !.phase = "pay", !.clean = clean, !.due = due]
<1>1. o \in JobRow(o) /\ JobOK(o) /\ o.phase = "insert"
  BY DEF UpdateCleanStreak, ScoringIInv, ScoringRows
<1>2. ms \subseteq DOMAIN Milestone
  OBVIOUS
<1>3. \A i \in WeekJob \ {j} : o.awards \cap job[i].awards = {}
  BY DEF ScoringIInv, AwardLocks
<1>4. job' = [job EXCEPT ![j] = r] /\ UNCHANGED <<goods, met, quest, unlocked, write, week, silent, questPaid, milestonePaid>>
  BY DEF UpdateCleanStreak, history, clock
<1> HIDE DEF o, clean, ms
<1>5. due \in SUBSET ((DOMAIN Milestone) \X Member)
  BY <1>2
<1> HIDE DEF due
<1>6. r \in JobRow(r)
  BY <1>1, <1>5 DEF JobRow
<1>7. r.phase = "pay" /\ r.ran = o.ran /\ r.awards = o.awards /\ r.picked = o.picked /\ r.frozen = o.frozen
  BY <1>1 DEF JobRow
<1> HIDE DEF r
<1>8. JobOK(r)
  BY <1>1, <1>7 DEF JobOK, Fits
<1>9. \A i \in WeekJob \ {j} : r.awards \cap job[i].awards = {}
  BY <1>3, <1>7
<1> QED
  BY <1>4, <1>6, <1>8, <1>9, JobGoesOn

(* The insert of an achievement waits for another transaction's, and the second finds it
   there. *)
LEMMA PayMilestoneKeeps ==
  ASSUME ScoringIInv, NEW j \in WeekJob, NEW m \in DOMAIN Milestone, NEW u \in Member, PayMilestone(j, m, u)
  PROVE  ScoringIInv'
<1> DEFINE o == job[j]
           a == <<m, u>>
           rest == o.due \ {a}
           more == o.awards \cup {a}
           b == BumpProgress(o.xp, u, Milestone[m].xp)
           old == [o EXCEPT !.due = rest]
           new == [o EXCEPT !.due = rest, !.awards = more, !.xp = b]
<1>1. o \in JobRow(o) /\ JobOK(o) /\ o.phase = "pay"
  BY DEF PayMilestone, ScoringIInv, ScoringRows
<1>2. \A i \in WeekJob \ {j} : o.awards \cap job[i].awards = {}
  BY DEF ScoringIInv, AwardLocks
<1>3. UNCHANGED <<goods, met, quest, unlocked, write, week, silent, questPaid, milestonePaid>>
  BY DEF PayMilestone, history, clock
<1>4. /\ \A i \in WeekJob \ {j} : a \notin job[i].awards
      /\ (a \in unlocked /\ job' = [job EXCEPT ![j] = old]) \/ (a \notin unlocked /\ job' = [job EXCEPT ![j] = new])
  BY DEF PayMilestone
<1>5. a \in (DOMAIN Milestone) \X Member
  OBVIOUS
<1> HIDE DEF o, a, b
<1>6. rest \in SUBSET ((DOMAIN Milestone) \X Member) /\ more \in SUBSET ((DOMAIN Milestone) \X Member)
  BY <1>1, <1>5 DEF JobRow
<1>7. more = o.awards \cup {a}
  OBVIOUS
<1> HIDE DEF rest, more
<1>8. CASE a \in unlocked /\ job' = [job EXCEPT ![j] = old]
  <2>1. old \in JobRow(old)
    BY <1>1, <1>6 DEF JobRow
  <2>2. old.phase = "pay" /\ old.ran = o.ran /\ old.awards = o.awards /\ old.picked = o.picked /\ old.frozen = o.frozen
    BY <1>1 DEF JobRow
  <2> HIDE DEF old
  <2>3. JobOK(old)
    BY <1>1, <2>2 DEF JobOK, Fits
  <2>4. \A i \in WeekJob \ {j} : old.awards \cap job[i].awards = {}
    BY <1>2, <2>2
  <2> QED
    BY <1>3, <1>8, <2>1, <2>3, <2>4, JobGoesOn
<1>9. CASE a \notin unlocked /\ job' = [job EXCEPT ![j] = new]
  <2>1. new \in JobRow(new)
    BY <1>1, <1>6 DEF JobRow
  <2>2. new.phase = "pay" /\ new.ran = o.ran /\ new.awards = more /\ new.picked = o.picked /\ new.frozen = o.frozen
    BY <1>1 DEF JobRow
  <2> HIDE DEF new
  <2>3. JobOK(new)
    BY <1>1, <1>7, <1>9, <2>2 DEF JobOK, Fits
  <2>4. \A i \in WeekJob \ {j} : new.awards \cap job[i].awards = {}
    BY <1>2, <1>4, <1>7, <2>2
  <2> QED
    BY <1>3, <1>9, <2>1, <2>3, <2>4, JobGoesOn
<1> QED
  BY <1>4, <1>8, <1>9

LEMMA WeekFailsKeeps ==
  ASSUME ScoringIInv, NEW j \in WeekJob, WeekFails(j)
  PROVE  ScoringIInv'
<1> DEFINE n == job[j].ran
<1>1. n \in 0..MaxWeek /\ n <= week
  BY DEF ScoringIInv, ScoringRows, JobRow, JobOK
<1>2. job' = [job EXCEPT ![j] = NoJob(n)] /\ UNCHANGED <<goods, met, quest, unlocked, write, week, silent, questPaid, milestonePaid>>
  BY DEF WeekFails, history, clock
<1> HIDE DEF n
<1>3. NoJob(n) \in JobRow(NoJob(n)) /\ JobOK(NoJob(n)) /\ NoJob(n).awards = {}
  BY <1>1, NoJobOK
<1>4. \A i \in WeekJob \ {j} : NoJob(n).awards \cap job[i].awards = {}
  BY <1>3
<1> QED
  BY <1>2, <1>3, <1>4, JobGoesOn

-----------------------------------------------------------------------------
(* What is committed *)

\* A write whose quests nobody else touches.
LEMMA RowStays ==
  ASSUME NEW v, WriteOK(write[v]), write'[v] = write[v],
         \A k \in write[v].held : quest'[k] = quest[k], Short(write[v])'
  PROVE  WriteOK(write[v])'
<1>1. Holds(write[v]) /\ LooksAt(write[v])
  BY DEF WriteOK
<1>2. Holds(write[v])'
  <2>1. write[v].ends \subseteq write[v].held
    BY <1>1 DEF Holds
  <2> QED
    BY <1>1, <2>1 DEF Holds, Active, PaidBy, Paying
<1>3. LooksAt(write[v])'
  BY <1>1 DEF LooksAt
<1> QED
  BY <1>2, <1>3 DEF WriteOK

(* The commit.  A condition the write satisfies is one whose quest it holds, or one whose
   quest it did not see, which is put on record where it matters. *)
LEMMA CommitWriteKeeps ==
  ASSUME ScoringIInv, NEW w \in Writer, CommitWrite(w)
  PROVE  ScoringIInv'
<1> DEFINE r == write[w]
           Marked == {k \in Unseen(r) : JobActive \/ Active(k)}
<1>1. /\ r \in WriteRow(r) /\ Holds(r) /\ LooksAt(r) /\ Short(r) /\ r.phase = "quests" /\ r.gens = <<>>
      /\ week \in Week /\ quest \in [QuestKey -> QuestRow] /\ met \in [Generator -> SUBSET Good]
      /\ silent \subseteq QuestKey /\ goods \subseteq Good
      /\ questPaid \in [QuestKey \X Member -> Nat] /\ milestonePaid \in [(DOMAIN Milestone) \X Member -> Nat]
  BY DEF CommitWrite, ScoringIInv, ScoringRows, WriteOK
<1>2. /\ met' = [g \in Generator |-> SeenBy(r, g)]
      /\ silent' = silent \cup Marked
      /\ write' = [write EXCEPT ![w] = NoWrite]
      /\ UNCHANGED <<goods, unlocked, job, week, milestonePaid>>
      /\ questPaid' = [i \in QuestKey \X Member |-> questPaid[i] + IF i \in r.pay THEN 1 ELSE 0]
  BY DEF CommitWrite, clock, Seen, SeenBy
<1>3. quest' = [k \in QuestKey |-> [quest[k] EXCEPT
                        !.completed = quest[k].completed \/ k \in r.ends,
                        !.helpers = IF k \in r.helps THEN quest[k].helpers \cup {r.user} ELSE quest[k].helpers]]
  BY DEF CommitWrite
<1>4. \A v \in Writer \ {w} : r.held \cap write[v].held = {}
  BY DEF ScoringIInv, QuestLocks
<1>5. write'[w] = NoWrite /\ DOMAIN write' = Writer /\ \A v \in Writer \ {w} : write'[v] = write[v]
  BY <1>2 DEF ScoringIInv, ScoringRows
<1>6. /\ r.user \in Member /\ r.good \in Good /\ r.meets \subseteq Generator
      /\ r.ends \subseteq r.helps /\ r.helps \subseteq r.held /\ r.held \subseteq QuestKey
      /\ \A k \in r.held : Active(k)
      /\ \A i \in r.pay : i[1] \in r.ends
      /\ \A k \in r.ends : PaidBy(r, k) = quest[k].helpers \cup {r.user}
  BY <1>1 DEF Holds, WriteRow, Paying
<1>7. Marked \subseteq QuestKey
  BY <1>1, <1>6 DEF Unseen, QuestKey
<1>8. \A g \in r.meets : \E i \in r.held \cup r.missed : i[2] = g
  <2>1. DOMAIN r.gens = {}
    BY <1>1
  <2> QED
    BY <1>1, <2>1 DEF LooksAt
<1>9. ASSUME NEW g \in Generator
      PROVE  /\ met'[g] = SeenBy(r, g) /\ met'[g] \in SUBSET Good
             /\ met'[g] = met[g] \/ <<week, g>> \in r.held \/ <<week, g>> \in Unseen(r)
  <2>1. met'[g] = SeenBy(r, g)
    BY <1>2
  <2>2. met'[g] \in SUBSET Good
    BY <1>1, <1>6, <2>1 DEF SeenBy
  <2>3. met'[g] = met[g] \/ g \in r.meets
    BY <2>1 DEF SeenBy
  <2>4. ASSUME g \in r.meets, <<week, g>> \notin r.held
        PROVE  <<week, g>> \in Unseen(r)
    <3> DEFINE k == <<week, g>>
    <3>1. k \in {week} \X r.meets /\ k[2] = g
      BY <2>4
    <3>2. r.held \ {k} = r.held
      BY <2>4
    <3>3. \E i \in r.missed \cup (r.held \ {k}) : i[2] = k[2]
      BY <1>8, <2>4, <3>1, <3>2
    <3> HIDE DEF k
    <3>4. k \in Unseen(r)
      BY <3>1, <3>3 DEF Unseen
    <3> QED
      BY <3>4 DEF k
  <2> QED
    BY <2>1, <2>2, <2>3, <2>4
<1>10. ASSUME NEW k \in QuestKey
       PROVE  /\ quest'[k] \in QuestRow /\ quest'[k].live = quest[k].live
              /\ quest'[k].frozen = quest[k].frozen /\ quest'[k].target = quest[k].target
              /\ quest'[k].completed = (quest[k].completed \/ k \in r.ends)
              /\ quest'[k].helpers = IF k \in r.helps THEN quest[k].helpers \cup {r.user} ELSE quest[k].helpers
              /\ k \notin r.held => quest'[k] = quest[k]
  <2> DEFINE c == quest[k].completed \/ k \in r.ends
             h == IF k \in r.helps THEN quest[k].helpers \cup {r.user} ELSE quest[k].helpers
  <2>1. quest[k] \in QuestRow
    BY <1>1
  <2>2. quest'[k] = [quest[k] EXCEPT !.completed = c, !.helpers = h]
    BY <1>3
  <2>3. c \in BOOLEAN /\ h \in SUBSET Member
    BY <1>6, <2>1 DEF QuestRow
  <2>4. k \notin r.held => c = quest[k].completed /\ h = quest[k].helpers
    BY <1>6, <2>1 DEF QuestRow
  <2> DEFINE q == quest[k]
             qq == quest'[k]
  <2>5. q \in QuestRow /\ qq = [q EXCEPT !.completed = c, !.helpers = h]
    BY <2>1, <2>2
  <2> HIDE DEF c, h, q, qq
  <2>6. /\ qq \in QuestRow /\ qq.live = q.live /\ qq.frozen = q.frozen /\ qq.target = q.target
        /\ qq.completed = c /\ qq.helpers = h
    BY <2>3, <2>5 DEF QuestRow
  <2>7. c = q.completed /\ h = q.helpers => qq = q
    BY <2>3, <2>5 DEF QuestRow
  <2> QED
    BY <2>4, <2>6, <2>7 DEF c, h, q, qq
<1>11. ScoringRows'
  <2>1. met' \in [Generator -> SUBSET Good]
    BY <1>2, <1>9
  <2>2. quest' \in [QuestKey -> QuestRow]
    BY <1>3, <1>10
  <2>3. questPaid' \in [QuestKey \X Member -> Nat]
    BY <1>1, <1>2
  <2>4. \A v \in Writer : write'[v] \in WriteRow(write'[v])
    BY <1>5, NoWriteOK DEF ScoringIInv, ScoringRows
  <2>5. silent' \subseteq QuestKey
    BY <1>1, <1>2, <1>7
  <2> HIDE DEF Marked
  <2> QED
    BY <1>1, <1>2, <1>5, <2>1, <2>2, <2>3, <2>4, <2>5 DEF ScoringIInv, ScoringRows, JobRow
<1>12. QuestShape'
  <2> SUFFICES ASSUME NEW k \in QuestKey
               PROVE  /\ ~quest'[k].live => ~quest'[k].completed /\ quest'[k].helpers = {}
                      /\ quest'[k].live => k[1] <= week'
    BY DEF QuestShape
  <2>1. k \in r.held => quest[k].live
    BY <1>6 DEF Active
  <2>2. /\ ~quest[k].live => ~quest[k].completed /\ quest[k].helpers = {}
        /\ quest[k].live => k[1] <= week
    BY DEF ScoringIInv, QuestShape
  <2> QED
    BY <1>2, <1>10, <2>1, <2>2
<1>13. ASSUME NEW g \in Generator, Active(<<week, g>>), <<week, g>> \notin silent', <<week, g>> \notin r.held
       PROVE  met'[g] = met[g]
  BY <1>2, <1>9, <1>13
<1>14. ASSUME NEW v \in Writer
       PROVE  WriteOK(write[v])'
  <2>1. CASE v = w
    <3>1. write'[v] = NoWrite
      BY <1>5, <2>1
    <3>2. /\ write'[v].phase = "idle" /\ write'[v].held = {} /\ write'[v].meets = {} /\ write'[v].helps = {}
          /\ write'[v].ends = {} /\ write'[v].pay = {}
      BY <3>1 DEF NoWrite
    <3> QED
      BY <3>2 DEF WriteOK, Holds, LooksAt, Short
  <2>2. CASE v # w
    <3>1. WriteOK(write[v]) /\ write'[v] = write[v] /\ r.held \cap write[v].held = {}
          /\ write[v].held \subseteq QuestKey
      BY <1>4, <1>5, <2>2 DEF ScoringIInv, ScoringRows, WriteRow
    <3>2. \A k \in write[v].held : quest'[k] = quest[k] /\ Active(k)
      BY <1>10, <3>1 DEF WriteOK, Holds
    <3>3. Short(write[v])'
      <4> SUFFICES ASSUME NEW k \in write[v].held \ write[v].ends, k[1] = week, k \notin silent'
                   PROVE  Progress(quest'[k], k[2], SeenBy(write[v], k[2])') < quest'[k].target
        BY <1>2, <3>1 DEF Short, Progress
      <4>1. k = <<week, k[2]>> /\ k[2] \in Generator /\ k \notin r.held /\ k \notin silent
        BY <1>2, <3>1 DEF QuestKey
      <4>2. met'[k[2]] = met[k[2]]
        BY <1>13, <3>2, <4>1
      <4>3. SeenBy(write[v], k[2])' = SeenBy(write[v], k[2])
        BY <1>2, <3>1, <4>2 DEF SeenBy
      <4>4. Progress(quest[k], k[2], SeenBy(write[v], k[2])) < quest[k].target
        BY <3>1, <4>1 DEF WriteOK, Short
      <4> QED
        BY <3>2, <4>3, <4>4
    <3> QED
      BY <3>1, <3>2, <3>3, RowStays
  <2> QED
    BY <2>1, <2>2
<1>15. QuestLocks'
  BY <1>5, NoWriteOK DEF ScoringIInv, QuestLocks
<1>16. ASSUME NEW j \in WeekJob
       PROVE  JobOK(job[j])'
  <2>1. JobOK(job[j]) /\ job'[j] = job[j] /\ job[j].picked \subseteq Generator
    BY <1>2 DEF ScoringIInv, ScoringRows, JobRow
  <2>2. ASSUME job[j].phase # "idle", job[j].ran = week, NEW g \in job[j].picked
        PROVE  <<week, g>> \in silent' \/ quest'[<<week, g>>].live \/ Fits(job[j], g)'
    <3>1. <<week, g>> \in QuestKey /\ g \in Generator
      BY <1>1, <2>1 DEF QuestKey
    <3>2. CASE <<week, g>> \in r.held
      BY <1>6, <1>10, <3>1, <3>2 DEF Active
    <3>3. CASE <<week, g>> \in Unseen(r)
      <4>1. JobActive
        BY <2>2 DEF JobActive
      <4> QED
        BY <1>2, <3>3, <4>1
    <3>4. CASE met'[g] = met[g]
      <4>1. <<week, g>> \in silent \/ quest[<<week, g>>].live \/ Fits(job[j], g)
        BY <2>1, <2>2 DEF JobOK
      <4>2. Fits(job[j], g) => Fits(job[j], g)'
        BY <2>1, <3>4 DEF Fits
      <4> QED
        BY <1>2, <1>10, <3>1, <4>1, <4>2
    <3> QED
      BY <1>9, <3>1, <3>2, <3>3, <3>4
  <2> QED
    BY <1>2, <2>1, <2>2 DEF JobOK
<1>17. AwardLocks' /\ MilestonesPaid'
  BY <1>2 DEF ScoringIInv, AwardLocks, MilestonesPaid
<1>18. QuestsPaid'
  <2> SUFFICES ASSUME NEW k \in QuestKey, NEW u \in Member
               PROVE  questPaid'[<<k, u>>] = IF quest'[k].completed /\ u \in quest'[k].helpers THEN 1 ELSE 0
    BY DEF QuestsPaid
  <2>1. questPaid[<<k, u>>] = IF quest[k].completed /\ u \in quest[k].helpers THEN 1 ELSE 0
    BY DEF ScoringIInv, QuestsPaid
  <2>2. questPaid'[<<k, u>>] = questPaid[<<k, u>>] + IF <<k, u>> \in r.pay THEN 1 ELSE 0
    BY <1>2
  <2>3. CASE k \in r.ends
    <3>1. ~quest[k].completed /\ quest'[k].completed /\ quest'[k].helpers = quest[k].helpers \cup {r.user}
      BY <1>6, <1>10, <2>3 DEF Active
    <3>2. <<k, u>> \in r.pay <=> u \in quest[k].helpers \cup {r.user}
      BY <1>6, <2>3 DEF PaidBy
    <3> QED
      BY <2>1, <2>2, <3>1, <3>2
  <2>4. CASE k \notin r.ends
    <3>1. <<k, u>> \notin r.pay
      BY <1>6, <2>4
    <3>2. quest[k].completed => k \notin r.helps
      BY <1>6 DEF Active
    <3>3. quest[k].completed \in BOOLEAN
      BY <1>1 DEF QuestRow
    <3>4. questPaid'[<<k, u>>] = questPaid[<<k, u>>]
      BY <1>1, <2>2, <3>1
    <3>5. quest'[k].completed = quest[k].completed
      BY <1>10, <2>4, <3>3
    <3>6. quest[k].completed => quest'[k].helpers = quest[k].helpers
      BY <1>10, <3>2
    <3> QED
      BY <2>1, <3>4, <3>5, <3>6
  <2> QED
    BY <2>3, <2>4
<1>19. ASSUME NEW g \in Generator
       PROVE  Watched(g)'
  <2> DEFINE k == <<week, g>>
  <2> SUFFICES ASSUME Active(k)', k \notin silent'
               PROVE  Progress(quest'[k], g, met'[g]) < quest'[k].target
    BY <1>2 DEF Watched, Progress
  <2>1. k \in QuestKey /\ k[1] = week /\ k[2] = g
    BY <1>1 DEF QuestKey
  <2>2. Active(k) /\ k \notin r.ends /\ k \notin silent
    <3>1. quest[k].completed \in BOOLEAN
      BY <1>1, <2>1 DEF QuestRow
    <3> QED
      BY <1>2, <1>10, <2>1, <3>1 DEF Active
  <2>3. quest'[k].frozen = quest[k].frozen /\ quest'[k].target = quest[k].target
    BY <1>10, <2>1
  <2>4. Progress(quest'[k], g, met'[g]) = Progress(quest[k], g, met'[g])
    BY <2>3, SameQuest
  <2>5. CASE k \in r.held
    <3>1. Progress(quest[k], g, SeenBy(r, g)) < quest[k].target
      BY <1>1, <2>1, <2>2, <2>5 DEF Short
    <3> QED
      BY <1>9, <2>3, <2>4, <3>1
  <2>6. CASE k \notin r.held
    <3>1. met'[g] = met[g]
      BY <1>13, <2>2, <2>6
    <3>2. Progress(quest[k], g, met[g]) < quest[k].target
      BY <2>2 DEF ScoringIInv, Watched
    <3> QED
      BY <2>3, <2>4, <3>1, <3>2
  <2> QED
    BY <2>5, <2>6
<1> QED
  BY <1>11, <1>12, <1>14, <1>15, <1>16, <1>17, <1>18, <1>19 DEF ScoringIInv

\* A condition that comes true without credit is on record.
LEMMA MeetQuietlyKeeps ==
  ASSUME ScoringIInv, NEW f \in Generator, NEW p \in Good, MeetQuietly(f, p)
  PROVE  ScoringIInv'
<1>1. /\ week \in Week /\ met \in [Generator -> SUBSET Good] /\ silent \subseteq QuestKey
  BY DEF ScoringIInv, ScoringRows
<1>2. /\ met' = [met EXCEPT ![f] = met[f] \cup {p}] /\ silent' = silent \cup {<<week, f>>}
      /\ UNCHANGED <<goods, quest, unlocked, write, job, week, questPaid, milestonePaid>>
  BY DEF MeetQuietly, clock, history
<1>3. \A g \in Generator : g # f => met'[g] = met[g]
  BY <1>1, <1>2
<1>4. ScoringRows'
  <2>1. met' \in [Generator -> SUBSET Good] /\ silent' \subseteq QuestKey
    BY <1>1, <1>2 DEF QuestKey
  <2> QED
    BY <1>2, <2>1 DEF ScoringIInv, ScoringRows, WriteRow, JobRow
<1>5. QuestShape' /\ QuestsPaid' /\ MilestonesPaid' /\ QuestLocks' /\ AwardLocks'
  BY <1>2 DEF ScoringIInv, QuestShape, QuestsPaid, MilestonesPaid, QuestLocks, AwardLocks
<1>6. ASSUME NEW v \in Writer
      PROVE  WriteOK(write[v])'
  <2>1. WriteOK(write[v]) /\ write'[v] = write[v] /\ write[v].held \subseteq QuestKey
    BY <1>2 DEF ScoringIInv, ScoringRows, WriteRow
  <2>2. Short(write[v])'
    <3> SUFFICES ASSUME NEW k \in write[v].held \ write[v].ends, k[1] = week, k \notin silent'
                 PROVE  Progress(quest[k], k[2], SeenBy(write[v], k[2])') < quest[k].target
      BY <1>2, <2>1 DEF Short, Progress
    <3>1. k = <<week, k[2]>> /\ k[2] \in Generator
      BY <2>1 DEF QuestKey
    <3>2. k[2] # f /\ k \notin silent
      BY <1>2, <3>1
    <3>3. SeenBy(write[v], k[2])' = SeenBy(write[v], k[2])
      BY <1>2, <1>3, <3>1, <3>2 DEF SeenBy
    <3> QED
      BY <2>1, <3>2, <3>3 DEF WriteOK, Short
  <2> QED
    BY <1>2, <2>1, <2>2, RowStays
<1>7. ASSUME NEW j \in WeekJob
      PROVE  JobOK(job[j])'
  <2>1. JobOK(job[j]) /\ job'[j] = job[j] /\ job[j].picked \subseteq Generator
    BY <1>2 DEF ScoringIInv, ScoringRows, JobRow
  <2>2. ASSUME job[j].phase # "idle", job[j].ran = week, NEW g \in job[j].picked
        PROVE  <<week, g>> \in silent' \/ quest'[<<week, g>>].live \/ Fits(job[j], g)'
    <3>1. CASE g = f
      BY <1>2, <3>1
    <3>2. CASE g # f
      BY <1>2, <1>3, <2>1, <2>2, <3>2 DEF JobOK, Fits
    <3> QED
      BY <3>1, <3>2
  <2> QED
    BY <1>2, <2>1, <2>2 DEF JobOK
<1>8. ASSUME NEW g \in Generator
      PROVE  Watched(g)'
  <2>1. CASE g = f
    BY <1>2, <2>1 DEF Watched
  <2>2. CASE g # f
    BY <1>2, <1>3, <2>2 DEF ScoringIInv, Watched, Active
  <2> QED
    BY <2>1, <2>2
<1> QED
  BY <1>4, <1>5, <1>6, <1>7, <1>8 DEF ScoringIInv

\* A product that goes brings no quest closer to its target.
LEMMA DropProductKeeps ==
  ASSUME ScoringIInv, NEW p \in Good, DropProduct(p)
  PROVE  ScoringIInv'
<1>1. /\ week \in Week /\ met \in [Generator -> SUBSET Good] /\ quest \in [QuestKey -> QuestRow]
  BY DEF ScoringIInv, ScoringRows
<1>2. /\ met' = [g \in Generator |-> met[g] \ {p}] /\ goods' = goods \ {p}
      /\ UNCHANGED <<silent, quest, unlocked, write, job, week, questPaid, milestonePaid>>
  BY DEF DropProduct, clock, history
<1>3. \A g \in Generator : met'[g] \subseteq met[g] /\ met'[g] \in SUBSET Good
  BY <1>1, <1>2
<1>4. ScoringRows'
  <2>1. met' \in [Generator -> SUBSET Good]
    BY <1>1, <1>2
  <2> QED
    BY <1>2, <2>1 DEF ScoringIInv, ScoringRows, WriteRow, JobRow
<1>5. QuestShape' /\ QuestsPaid' /\ MilestonesPaid' /\ QuestLocks' /\ AwardLocks'
  BY <1>2 DEF ScoringIInv, QuestShape, QuestsPaid, MilestonesPaid, QuestLocks, AwardLocks
<1>6. ASSUME NEW v \in Writer
      PROVE  WriteOK(write[v])'
  <2>1. WriteOK(write[v]) /\ write'[v] = write[v] /\ write[v].held \subseteq QuestKey
    BY <1>2 DEF ScoringIInv, ScoringRows, WriteRow
  <2>2. Short(write[v])'
    <3> SUFFICES ASSUME NEW k \in write[v].held \ write[v].ends, k[1] = week, k \notin silent
                 PROVE  Progress(quest[k], k[2], SeenBy(write[v], k[2])') < quest[k].target
      BY <1>2, <2>1 DEF Short, Progress
    <3>1. k \in QuestKey /\ k[2] \in Generator /\ quest[k] \in QuestRow
      BY <1>1, <2>1 DEF QuestKey
    <3>2. write[v].good \in Good
      BY <2>1 DEF WriteOK, Holds
    <3>3. /\ SeenBy(write[v], k[2])' \in SUBSET Good /\ SeenBy(write[v], k[2]) \in SUBSET Good
          /\ SeenBy(write[v], k[2])' \subseteq SeenBy(write[v], k[2])
      BY <1>1, <1>2, <1>3, <3>1, <3>2 DEF SeenBy
    <3>4. Progress(quest[k], k[2], SeenBy(write[v], k[2])) < quest[k].target
      BY <2>1 DEF WriteOK, Short
    <3> DEFINE ps == SeenBy(write[v], k[2])'
               qs == SeenBy(write[v], k[2])
    <3>5. ps \in SUBSET Good /\ qs \in SUBSET Good /\ ps \subseteq qs /\ Progress(quest[k], k[2], qs) < quest[k].target
      BY <3>3, <3>4
    <3> HIDE DEF ps, qs
    <3>6. Progress(quest[k], k[2], ps) < quest[k].target
      BY <3>1, <3>5, FewerIsLess
    <3> QED
      BY <3>6 DEF ps
  <2> QED
    BY <1>2, <2>1, <2>2, RowStays
<1>7. ASSUME NEW j \in WeekJob
      PROVE  JobOK(job[j])'
  <2>1. JobOK(job[j]) /\ job'[j] = job[j] /\ job[j].picked \subseteq Generator
    BY <1>2 DEF ScoringIInv, ScoringRows, JobRow
  <2>2. ASSUME NEW g \in Generator, Fits(job[j], g)
        PROVE  Fits(job[j], g)'
    BY <1>3, <2>1, <2>2 DEF Fits
  <2> QED
    BY <1>2, <2>1, <2>2 DEF JobOK
<1>8. ASSUME NEW g \in Generator
      PROVE  Watched(g)'
  <2> DEFINE k == <<week, g>>
             ps == met'[g]
             qs == met[g]
  <2> SUFFICES ASSUME Active(k), k \notin silent
               PROVE  Progress(quest[k], g, ps) < quest[k].target
    BY <1>2 DEF Watched, Progress, Active
  <2>1. k \in QuestKey /\ quest[k] \in QuestRow
    BY <1>1 DEF QuestKey
  <2>2. Progress(quest[k], g, qs) < quest[k].target
    BY DEF ScoringIInv, Watched
  <2>3. ps \in SUBSET Good /\ qs \in SUBSET Good /\ ps \subseteq qs
    BY <1>1, <1>3
  <2> HIDE DEF ps, qs
  <2> QED
    BY <2>1, <2>2, <2>3, FewerIsLess
<1> QED
  BY <1>4, <1>5, <1>6, <1>7, <1>8 DEF ScoringIInv

(* The commit of a weekly job: its quests are new where the week has none of the
   generator, and what a write holds is there already. *)
LEMMA GenerateWeeklyQuestsKeeps ==
  ASSUME ScoringIInv, NEW j \in WeekJob, GenerateWeeklyQuests(j)
  PROVE  ScoringIInv'
<1> DEFINE r == job[j]
           New(k) == k[1] = r.ran /\ k[2] \in r.picked /\ ~quest[k].live
           n == NoJob(r.ran)
<1>1. /\ r \in JobRow(r) /\ JobOK(r) /\ r.phase = "pay"
      /\ week \in Week /\ quest \in [QuestKey -> QuestRow] /\ met \in [Generator -> SUBSET Good]
      /\ milestonePaid \in [(DOMAIN Milestone) \X Member -> Nat]
  BY DEF GenerateWeeklyQuests, ScoringIInv, ScoringRows
<1>2. /\ quest' = [k \in QuestKey |-> IF ~New(k) THEN quest[k] ELSE
                       [NoQuest EXCEPT !.live = TRUE, !.frozen = r.frozen[k[2]],
                                       !.target = TargetCount(k[2], r.frozen[k[2]])]]
      /\ unlocked' = unlocked \cup r.awards
      /\ job' = [job EXCEPT ![j] = n]
      /\ UNCHANGED <<goods, met, write, week, silent, questPaid>>
  BY DEF GenerateWeeklyQuests, clock
<1>3. milestonePaid' = [i \in DOMAIN milestonePaid |-> milestonePaid[i] + IF i \in r.awards THEN 1 ELSE 0]
  BY DEF GenerateWeeklyQuests
<1>4. r.ran \in 0..MaxWeek /\ r.ran <= week /\ r.awards \in SUBSET ((DOMAIN Milestone) \X Member)
      /\ r.frozen \in [Generator -> SUBSET Good] /\ r.picked \subseteq Generator
  BY <1>1 DEF JobRow, JobOK
<1>5. n \in JobRow(n) /\ n.awards = {} /\ n.phase = "idle" /\ n.ran = r.ran
  BY <1>4, NoJobOK DEF NoJob
<1>6. job'[j] = n /\ DOMAIN job' = WeekJob /\ \A i \in WeekJob \ {j} : job'[i] = job[i]
  BY <1>2 DEF ScoringIInv, ScoringRows
<1>7. ASSUME NEW k \in QuestKey
      PROVE  /\ ~New(k) => quest'[k] = quest[k]
             /\ New(k) => /\ quest'[k].live /\ ~quest'[k].completed /\ quest'[k].helpers = {}
                          /\ quest'[k].frozen = r.frozen[k[2]]
                          /\ quest'[k].target = TargetCount(k[2], r.frozen[k[2]])
             /\ quest'[k] \in QuestRow
  <2>1. CASE ~New(k)
    BY <1>1, <1>2, <2>1
  <2>2. CASE New(k)
    <3> DEFINE fs == r.frozen[k[2]]
               t == TargetCount(k[2], fs)
               q == quest'[k]
    <3>1. q = [NoQuest EXCEPT !.live = TRUE, !.frozen = fs, !.target = t]
      BY <1>2, <2>2
    <3>2. fs \in SUBSET Good
      BY <1>4, <2>2
    <3>3. Cardinality(fs) \in Nat /\ Threshold \in Nat
      BY <3>2, GoodsFinite, ScoringAssumption
    <3> HIDE DEF fs
    <3>4. t \in Int
      BY <3>3 DEF TargetCount
    <3> HIDE DEF t, q
    <3>5. q = [live |-> TRUE, frozen |-> fs, target |-> t, completed |-> FALSE, helpers |-> {}]
      BY <3>1 DEF NoQuest
    <3>6. q.live /\ ~q.completed /\ q.helpers = {} /\ q.frozen = fs /\ q.target = t /\ q \in QuestRow
      BY <3>2, <3>4, <3>5 DEF QuestRow
    <3> QED
      BY <2>2, <3>6 DEF q, t, fs
  <2> QED
    BY <2>1, <2>2
<1>8. ASSUME NEW k \in QuestKey, quest[k].live
      PROVE  quest'[k] = quest[k]
  BY <1>7, <1>8
<1> HIDE DEF n
<1>9. ScoringRows'
  <2>1. quest' \in [QuestKey -> QuestRow]
    BY <1>2, <1>7
  <2>2. milestonePaid' \in [(DOMAIN Milestone) \X Member -> Nat]
    BY <1>1, <1>3
  <2>3. \A i \in WeekJob : job'[i] \in JobRow(job'[i])
    BY <1>5, <1>6 DEF ScoringIInv, ScoringRows
  <2> QED
    BY <1>2, <1>6, <2>1, <2>2, <2>3 DEF ScoringIInv, ScoringRows, WriteRow
<1>10. QuestShape'
  <2> SUFFICES ASSUME NEW k \in QuestKey
               PROVE  /\ ~quest'[k].live => ~quest'[k].completed /\ quest'[k].helpers = {}
                      /\ quest'[k].live => k[1] <= week
    BY <1>2 DEF QuestShape
  <2>1. CASE New(k)
    BY <1>4, <1>7, <2>1
  <2>2. CASE ~New(k)
    BY <1>7, <2>2 DEF ScoringIInv, QuestShape
  <2> QED
    BY <2>1, <2>2
<1>11. ASSUME NEW v \in Writer
       PROVE  WriteOK(write[v])'
  <2>1. WriteOK(write[v]) /\ write'[v] = write[v] /\ write[v].held \subseteq QuestKey
    BY <1>2 DEF ScoringIInv, ScoringRows, WriteRow
  <2>2. \A k \in write[v].held : quest'[k] = quest[k]
    BY <1>8, <2>1 DEF WriteOK, Holds, Active
  <2>3. Short(write[v])'
    BY <1>2, <2>1, <2>2 DEF WriteOK, Short, SeenBy, Progress
  <2> QED
    BY <2>1, <2>2, <2>3, RowStays
<1>12. QuestLocks'
  BY <1>2 DEF ScoringIInv, QuestLocks
<1>13. ASSUME NEW i \in WeekJob
       PROVE  JobOK(job[i])'
  <2>1. CASE i = j
    <3>1. job'[i].phase = "idle" /\ job'[i].ran = r.ran /\ job'[i].awards = {}
      BY <1>5, <1>6, <2>1
    <3> QED
      BY <1>2, <1>4, <3>1 DEF JobOK
  <2>2. CASE i # j
    <3>1. JobOK(job[i]) /\ job'[i] = job[i] /\ job[i].picked \subseteq Generator
          /\ job[i].awards \cap r.awards = {}
      BY <1>6, <2>2 DEF ScoringIInv, ScoringRows, JobRow, AwardLocks
    <3>2. job[i].awards \cap unlocked' = {}
      BY <1>2, <3>1 DEF JobOK
    <3>3. ASSUME job[i].phase # "idle", job[i].ran = week, NEW g \in job[i].picked
          PROVE  <<week, g>> \in silent' \/ quest'[<<week, g>>].live \/ Fits(job[i], g)'
      <4>1. <<week, g>> \in QuestKey
        BY <1>1, <3>1 DEF QuestKey
      <4>2. <<week, g>> \in silent \/ quest[<<week, g>>].live \/ Fits(job[i], g)
        BY <3>1, <3>3 DEF JobOK
      <4>3. Fits(job[i], g) => Fits(job[i], g)'
        BY <1>2, <3>1 DEF Fits
      <4> QED
        BY <1>2, <1>8, <4>1, <4>2, <4>3
    <3> QED
      BY <1>2, <3>1, <3>2, <3>3 DEF JobOK
  <2> QED
    BY <2>1, <2>2
<1>14. AwardLocks'
  BY <1>5, <1>6 DEF ScoringIInv, AwardLocks
<1>15. QuestsPaid'
  <2> SUFFICES ASSUME NEW k \in QuestKey, NEW u \in Member
               PROVE  questPaid[<<k, u>>] = IF quest'[k].completed /\ u \in quest'[k].helpers THEN 1 ELSE 0
    BY <1>2 DEF QuestsPaid
  <2>1. questPaid[<<k, u>>] = IF quest[k].completed /\ u \in quest[k].helpers THEN 1 ELSE 0
    BY DEF ScoringIInv, QuestsPaid
  <2>2. CASE New(k)
    <3>1. ~quest[k].completed
      BY <2>2 DEF ScoringIInv, QuestShape
    <3> QED
      BY <1>7, <2>1, <2>2, <3>1
  <2>3. CASE ~New(k)
    BY <1>7, <2>1, <2>3
  <2> QED
    BY <2>2, <2>3
<1>16. MilestonesPaid'
  <2> SUFFICES ASSUME NEW m \in DOMAIN Milestone, NEW u \in Member
               PROVE  milestonePaid'[<<m, u>>] = IF <<m, u>> \in unlocked' THEN 1 ELSE 0
    BY DEF MilestonesPaid
  <2>1. milestonePaid[<<m, u>>] = IF <<m, u>> \in unlocked THEN 1 ELSE 0
    BY DEF ScoringIInv, MilestonesPaid
  <2>2. milestonePaid'[<<m, u>>] = milestonePaid[<<m, u>>] + IF <<m, u>> \in r.awards THEN 1 ELSE 0
    BY <1>1, <1>3
  <2>3. <<m, u>> \in r.awards => <<m, u>> \notin unlocked
    BY <1>1 DEF JobOK
  <2>4. <<m, u>> \in unlocked' <=> <<m, u>> \in unlocked \/ <<m, u>> \in r.awards
    BY <1>2
  <2> DEFINE i == <<m, u>>
  <2> HIDE DEF i, r
  <2>5. milestonePaid'[i] = IF i \in unlocked' THEN 1 ELSE 0
    BY <2>1, <2>2, <2>3, <2>4 DEF i
  <2> QED
    BY <2>5 DEF i
<1>17. ASSUME NEW g \in Generator
       PROVE  Watched(g)'
  <2> DEFINE k == <<week, g>>
             q == quest'[k]
  <2> SUFFICES ASSUME Active(k)', k \notin silent
               PROVE  Progress(q, g, met[g]) < q.target
    BY <1>2 DEF Watched, Progress
  <2>1. k \in QuestKey /\ k[1] = week /\ k[2] = g
    BY <1>1 DEF QuestKey
  <2>2. CASE New(k)
    <3>1. Fits(r, g)
      BY <1>1, <2>1, <2>2 DEF JobOK
    <3>2. q \in QuestRow /\ q.frozen = r.frozen[g] /\ q.target = TargetCount(g, r.frozen[g])
      BY <1>7, <2>1, <2>2
    <3>3. ScoringRows
      BY DEF ScoringIInv
    <3> HIDE DEF q, r
    <3> QED
      BY <1>1, <3>1, <3>2, <3>3, NewQuestIsShort
  <2>3. CASE ~New(k)
    <3>1. quest'[k] = quest[k]
      BY <1>7, <2>1, <2>3
    <3>2. Active(k)
      BY <1>2, <3>1 DEF Active
    <3>3. Progress(quest[k], g, met[g]) < quest[k].target
      BY <3>2 DEF ScoringIInv, Watched
    <3> QED
      BY <3>1, <3>3
  <2> QED
    BY <2>2, <2>3
<1> QED
  BY <1>9, <1>10, <1>11, <1>12, <1>13, <1>14, <1>15, <1>16, <1>17 DEF ScoringIInv

\* The other achievements pay nothing, and are none of the milestones.
LEMMA AwardToEveryMemberKeeps ==
  ASSUME ScoringIInv, NEW a \in StorageAchievement, AwardToEveryMember(a)
  PROVE  ScoringIInv'
<1>1. /\ unlocked' = unlocked \cup ({a} \X Member)
      /\ UNCHANGED <<goods, met, quest, write, job, week, silent, questPaid, milestonePaid>>
  BY DEF AwardToEveryMember, clock, history
<1>2. a \notin DOMAIN Milestone
  BY ScoringAssumption
<1>3. \A i \in (DOMAIN Milestone) \X Member : i \in unlocked' <=> i \in unlocked
  BY <1>1, <1>2
<1>4. ScoringRows'
  BY <1>1 DEF ScoringIInv, ScoringRows, WriteRow, JobRow
<1>5. QuestShape' /\ QuestsPaid' /\ QuestLocks' /\ AwardLocks'
  BY <1>1 DEF ScoringIInv, QuestShape, QuestsPaid, QuestLocks, AwardLocks
<1>6. MilestonesPaid'
  BY <1>1, <1>3 DEF ScoringIInv, MilestonesPaid
<1>7. ASSUME NEW v \in Writer
      PROVE  WriteOK(write[v])'
  <2>1. WriteOK(write[v]) /\ write'[v] = write[v]
    BY <1>1 DEF ScoringIInv
  <2> QED
    BY <1>1, <2>1, RowIs
<1>8. ASSUME NEW j \in WeekJob
      PROVE  JobOK(job[j])'
  <2>1. JobOK(job[j]) /\ job'[j] = job[j] /\ job[j].awards \in SUBSET ((DOMAIN Milestone) \X Member)
    BY <1>1 DEF ScoringIInv, ScoringRows, JobRow
  <2>2. job[j].awards \cap unlocked' = {}
    BY <1>3, <2>1 DEF JobOK
  <2> QED
    BY <1>1, <2>1, <2>2 DEF JobOK, Fits
<1>9. ASSUME NEW g \in Generator
      PROVE  Watched(g)'
  BY <1>1 DEF ScoringIInv, Watched, Active
<1> QED
  BY <1>4, <1>5, <1>6, <1>7, <1>8, <1>9 DEF ScoringIInv

\* Last week's quests are nobody's concern, and this week has none yet.
LEMMA NewWeekKeeps ==
  ASSUME ScoringIInv, NewWeek
  PROVE  ScoringIInv'
<1>1. /\ week \in Week /\ met \in [Generator -> SUBSET Good] /\ week < MaxWeek
  BY DEF NewWeek, ScoringIInv, ScoringRows
<1>2. /\ week' = week + 1 /\ met' = [g \in Generator |-> IF Weekly(g) THEN {} ELSE met[g]]
      /\ UNCHANGED <<goods, silent, quest, unlocked, write, job, questPaid, milestonePaid>>
  BY DEF NewWeek, history
<1>3. week' \in Week /\ week \in Nat /\ week' > week
  BY <1>1, <1>2, ScoringAssumption DEF Week
<1>4. ScoringRows'
  <2>1. met' \in [Generator -> SUBSET Good]
    BY <1>1, <1>2
  <2> QED
    BY <1>2, <1>3, <2>1 DEF ScoringIInv, ScoringRows, WriteRow, JobRow
<1>5. ASSUME NEW k \in QuestKey, quest[k].live
      PROVE  k[1] <= week /\ k[1] # week' /\ k[1] <= week'
  <2>1. k[1] \in Nat /\ k[1] <= week
    BY <1>5, ScoringAssumption DEF QuestKey, Week, ScoringIInv, QuestShape
  <2> QED
    BY <1>2, <1>3, <2>1
<1>6. QuestShape'
  <2>1. \A k \in QuestKey : ~quest[k].live => ~quest[k].completed /\ quest[k].helpers = {}
    BY DEF ScoringIInv, QuestShape
  <2> QED
    BY <1>2, <1>5, <2>1 DEF QuestShape
<1>7. QuestsPaid' /\ MilestonesPaid' /\ QuestLocks' /\ AwardLocks'
  BY <1>2 DEF ScoringIInv, QuestsPaid, MilestonesPaid, QuestLocks, AwardLocks
<1>8. ASSUME NEW v \in Writer
      PROVE  WriteOK(write[v])'
  <2>1. WriteOK(write[v]) /\ write'[v] = write[v] /\ write[v].held \subseteq QuestKey
    BY <1>2 DEF ScoringIInv, ScoringRows, WriteRow
  <2>2. \A k \in write[v].held : k[1] # week'
    BY <1>5, <2>1 DEF WriteOK, Holds, Active
  <2>3. Short(write[v])'
    BY <2>1, <2>2 DEF Short
  <2> QED
    BY <1>2, <2>1, <2>3, RowStays
<1>9. ASSUME NEW j \in WeekJob
      PROVE  JobOK(job[j])'
  <2>1. JobOK(job[j]) /\ job'[j] = job[j] /\ job[j].ran \in 0..MaxWeek
    BY <1>2 DEF ScoringIInv, ScoringRows, JobRow
  <2>2. job[j].ran \in Nat /\ job[j].ran <= week' /\ job[j].ran # week'
    BY <1>2, <1>3, <2>1, ScoringAssumption DEF JobOK
  <2> QED
    BY <1>2, <2>1, <2>2 DEF JobOK
<1>10. ASSUME NEW g \in Generator
       PROVE  Watched(g)'
  <2>1. <<week', g>> \in QuestKey /\ <<week', g>>[1] = week'
    BY <1>3 DEF QuestKey
  <2>2. ~quest[<<week', g>>].live
    BY <1>5, <2>1
  <2> QED
    BY <1>2, <2>2 DEF Watched, Active
<1> QED
  BY <1>4, <1>6, <1>7, <1>8, <1>9, <1>10 DEF ScoringIInv

-----------------------------------------------------------------------------
LEMMA ScoringStarts == ScoringInit => ScoringIInv
<1> SUFFICES ASSUME ScoringInit
             PROVE  ScoringIInv
  OBVIOUS
<1>1. 1 \in Week /\ week = 1 /\ 0 \in 0..MaxWeek
  BY ScoringAssumption DEF ScoringInit, Week
<1>2. NoQuest \in QuestRow /\ ~NoQuest.live /\ ~NoQuest.completed /\ NoQuest.helpers = {}
  BY DEF NoQuest, QuestRow
<1>3. /\ NoJob(0) \in JobRow(NoJob(0)) /\ JobOK(NoJob(0)) /\ NoJob(0).awards = {}
  BY <1>1, NoJobOK
<1>4. /\ \A k \in QuestKey : quest[k] = NoQuest
      /\ \A w \in Writer : write[w] = NoWrite
      /\ \A j \in WeekJob : job[j] = NoJob(0)
      /\ unlocked = {} /\ silent = {} /\ goods = Good
      /\ DOMAIN write = Writer /\ DOMAIN job = WeekJob
  BY DEF ScoringInit
<1>5. ScoringRows
  <2>1. met \in [Generator -> SUBSET Good]
    BY DEF ScoringInit
  <2>2. quest \in [QuestKey -> QuestRow]
    BY <1>2 DEF ScoringInit
  <2>3. questPaid \in [QuestKey \X Member -> Nat] /\ milestonePaid \in [(DOMAIN Milestone) \X Member -> Nat]
    BY DEF ScoringInit
  <2> QED
    BY <1>1, <1>3, <1>4, <2>1, <2>2, <2>3, NoWriteOK DEF ScoringRows
<1>6. QuestShape
  BY <1>2, <1>4 DEF QuestShape
<1>7. \A w \in Writer : WriteOK(write[w])
  BY <1>4, NoWriteOK
<1>8. QuestLocks /\ AwardLocks
  BY <1>3, <1>4, NoWriteOK DEF QuestLocks, AwardLocks
<1>9. \A j \in WeekJob : JobOK(job[j])
  BY <1>3, <1>4
<1>10. QuestsPaid
  <2>1. \A k \in QuestKey, u \in Member : questPaid[<<k, u>>] = 0
    BY DEF ScoringInit
  <2> QED
    BY <1>2, <1>4, <2>1 DEF QuestsPaid
<1>11. MilestonesPaid
  <2>1. \A m \in DOMAIN Milestone, u \in Member : milestonePaid[<<m, u>>] = 0
    BY DEF ScoringInit
  <2> QED
    BY <1>4, <2>1 DEF MilestonesPaid
<1>12. ASSUME NEW g \in Generator
       PROVE  Watched(g)
  <2>1. <<week, g>> \in QuestKey
    BY <1>1 DEF QuestKey
  <2> QED
    BY <1>2, <1>4, <2>1 DEF Watched, Active
<1> QED
  BY <1>5, <1>6, <1>7, <1>8, <1>9, <1>10, <1>11, <1>12 DEF ScoringIInv

LEMMA ScoringSteps == ScoringIInv /\ [ScoringNext]_scoringVars => ScoringIInv'
<1> SUFFICES ASSUME ScoringIInv, [ScoringNext]_scoringVars
             PROVE  ScoringIInv'
  OBVIOUS
<1>1. ASSUME WritesNext(Good, Deed)
      PROVE  ScoringIInv'
  <2>1. ASSUME NEW w \in Writer, NEW u \in Member, NEW p \in Good, NEW g \in Generator, FillIn(w, u, g, p)
        PROVE  ScoringIInv'
    BY <2>1, FillInKeeps
  <2>2. ASSUME NEW w \in Writer, NEW u \in Member, NEW p \in Good, NEW k \in Deed, NEW e \in BOOLEAN,
               Score(w, u, k, p, e)
        PROVE  ScoringIInv'
    BY <2>2, ScoreKeeps
  <2>3. ASSUME NEW w \in Writer, Bump(w) \/ AdvanceOneQuest(w) \/ CommitWrite(w) \/ RollBack(w)
        PROVE  ScoringIInv'
    BY <2>3, BumpKeeps, AdvanceOneQuestKeeps, CommitWriteKeeps, RollBackKeeps
  <2>4. ASSUME NEW w \in Writer, NEW u \in Member, PayContributor(w, u)
        PROVE  ScoringIInv'
    BY <2>4, PayContributorKeeps
  <2> QED
    BY <1>1, <2>1, <2>2, <2>3, <2>4 DEF WritesNext
<1>2. ASSUME GoodsNext
      PROVE  ScoringIInv'
  BY <1>2, MeetQuietlyKeeps, DropProductKeeps DEF GoodsNext
<1>3. ASSUME RunWeeklyGamificationJobs(WeekJob)
      PROVE  ScoringIInv'
  <2>1. ASSUME NEW j \in WeekJob, NEW quiet \in SUBSET Generator, GatherQuestCandidates(j, quiet)
        PROVE  ScoringIInv'
    BY <2>1, GatherQuestCandidatesKeeps
  <2>2. ASSUME NEW j \in WeekJob, UpdateCleanStreak(j) \/ GenerateWeeklyQuests(j) \/ WeekFails(j)
        PROVE  ScoringIInv'
    BY <2>2, UpdateCleanStreakKeeps, GenerateWeeklyQuestsKeeps, WeekFailsKeeps
  <2>3. ASSUME NEW j \in WeekJob, NEW m \in DOMAIN Milestone, NEW u \in Member, PayMilestone(j, m, u)
        PROVE  ScoringIInv'
    BY <2>3, PayMilestoneKeeps
  <2> QED
    BY <1>3, <2>1, <2>2, <2>3 DEF RunWeeklyGamificationJobs
<1>4. ASSUME RecomputeAllProgress
      PROVE  ScoringIInv'
  <2>1. UNCHANGED <<goods, met, quest, unlocked, write, job, week, silent, questPaid, milestonePaid>>
    BY <1>4 DEF RecomputeAllProgress, LoadRecomputeSnapshot, RecomputeOnePair, RecomputeFails, clock, history
  <2> QED
    BY <2>1, NothingHappens
<1>5. ASSUME RunNightlyStorageAchievements
      PROVE  ScoringIInv'
  BY <1>5, AwardToEveryMemberKeeps DEF RunNightlyStorageAchievements
<1>6. ASSUME PassHour
      PROVE  ScoringIInv'
  <2>1. UNCHANGED <<goods, met, quest, unlocked, write, job, week, silent, questPaid, milestonePaid>>
    BY <1>6 DEF PassHour, history
  <2> QED
    BY <2>1, NothingHappens
<1>7. ASSUME UNCHANGED scoringVars
      PROVE  ScoringIInv'
  <2>1. UNCHANGED <<goods, met, quest, unlocked, write, job, week, silent, questPaid, milestonePaid>>
    BY <1>7 DEF scoringVars
  <2> QED
    BY <2>1, NothingHappens
<1> QED
  BY <1>1, <1>2, <1>3, <1>4, <1>5, <1>6, <1>7, NewWeekKeeps DEF ScoringNext

(* The inductive invariant of the scoring of one storage: what transactions and weekly
   jobs under way hold, have looked at and are going to pay. *)
THEOREM ScoringInvariant == ScoringSpec => []ScoringIInv
BY ScoringStarts, ScoringSteps, PTL DEF ScoringSpec

(* Rewards are paid once: whatever writes, jobs, rebuilds and rollbacks interleave, every
   contributor of a completed quest has its reward exactly once and everybody else none,
   a milestone is paid to a member exactly when it is unlocked, and a quest whose last
   target was met in sight of it is completed (advanceOneQuest, updateCleanStreak). *)
THEOREM RewardsPaidOnce == ScoringSpec => []QuestsPayOnce
<1>1. ScoringIInv => QuestsPayOnce
  <2> SUFFICES ASSUME ScoringIInv
               PROVE  QuestsPayOnce
    OBVIOUS
  <2>1. \A k \in QuestKey, u \in Member :
          questPaid[<<k, u>>] = IF quest[k].completed /\ u \in quest[k].helpers THEN 1 ELSE 0
    BY DEF ScoringIInv, QuestsPaid
  <2>2. \A m \in DOMAIN Milestone, u \in Member :
          milestonePaid[<<m, u>>] = IF <<m, u>> \in unlocked THEN 1 ELSE 0
    BY DEF ScoringIInv, MilestonesPaid
  <2>3. ASSUME NEW g \in Generator, Active(<<week, g>>), <<week, g>> \notin silent
        PROVE  QuestProgress(<<week, g>>, met[g]) < quest[<<week, g>>].target
    <3>1. <<week, g>>[2] = g
      OBVIOUS
    <3>2. QuestProgress(<<week, g>>, met[g]) = Progress(quest[<<week, g>>], g, met[g])
      BY <3>1 DEF QuestProgress, Progress
    <3> QED
      BY <2>3, <3>2 DEF ScoringIInv, Watched
  <2> QED
    BY <2>1, <2>2, <2>3 DEF QuestsPayOnce
<1> QED
  BY <1>1, ScoringInvariant, PTL

-----------------------------------------------------------------------------
(* What events are worth.  WindowsXP and Coalesce, with their parts named. *)

Times(G) == {e.at : e \in G}
Starts(G) == {t \in Times(G) : \A s \in Times(G) : s < t => t - s >= ScoreWindow}
Window(G, t) == {e \in G : e.at >= t /\ \A s \in Starts(G) : s > t => e.at < s}
BestOf(G) == [t \in Starts(G) |-> Max({XPForDeed(e.kind) : e \in Window(G, t)})]

KeyOf(e) == <<e.ref, CoalesceGroup(e.kind)>>
KeysOf(E) == {KeyOf(e) : e \in E}
GroupOf(E, k) == {e \in E : KeyOf(e) = k}
WorthOf(E) == [k \in KeysOf(E) |-> WindowsXP(GroupOf(E, k))]

\* Sets of events.
Timed(G) == IsFiniteSet(G) /\ \A e \in G : e.at \in Nat

(* What a function makes of a finite set is finite. *)
LEMMA ImageFinite ==
  ASSUME NEW S, IsFiniteSet(S), NEW f
  PROVE  IsFiniteSet({f[x] : x \in S})
<1> DEFINE T == {f[x] : x \in S}
           g == [x \in S |-> f[x]]
<1>1. g \in Surjection(S, T)
  BY DEF Surjection
<1> HIDE DEF g, T
<1>2. IsFiniteSet(T)
  BY <1>1, FS_Surjection
<1> QED
  BY <1>2 DEF T

(* The operators are sums over their parts. *)
LEMMA PartsAre ==
  ASSUME NEW G
  PROVE  WindowsXP(G) = SumOf(BestOf(G), Starts(G)) /\ Coalesce(G) = SumOf(WorthOf(G), KeysOf(G))
<1>1. WindowsXP(G) = SumOf(BestOf(G), Starts(G))
  BY DEF WindowsXP, SumOf, BestOf, Starts, Window, Times
<1>2. Coalesce(G) = SumOf(WorthOf(G), KeysOf(G))
  BY DEF Coalesce, SumOf, WorthOf, KeysOf, GroupOf, KeyOf
<1> QED
  BY <1>1, <1>2

(* A deed is worth a few points. *)
LEMMA DeedsAreWorth ==
  ASSUME NEW k
  PROVE  XPForDeed(k) \in 2..5
BY DEF XPForDeed

(* Numbers below a bound have a greatest one. *)
LEMMA GreatestNat ==
  ASSUME NEW n \in Nat, NEW T, T \subseteq 0..n, T # {}
  PROVE  Max(T) \in T /\ \A y \in T : y <= Max(T)
<1> DEFINE D == {m \in Nat : n - m \in T}
<1>1. D \subseteq Nat /\ D # {}
  <2>1. PICK x \in T : TRUE
    OBVIOUS
  <2>2. n - x \in Nat /\ n - (n - x) = x
    BY <2>1
  <2> QED
    BY <2>2
<1>2. PICK m \in D : \A y \in D : ~(y < m)
  <2> HIDE DEF D
  <2> QED
    BY <1>1, LeastNat
<1>3. n - m \in T
  BY <1>2
<1>4. ASSUME NEW y \in T
      PROVE  y <= n - m
  <2>1. n - y \in Nat /\ n - (n - y) = y
    OBVIOUS
  <2>2. n - y \in D
    BY <2>1
  <2>3. ~(n - y < m)
    BY <1>2, <2>2
  <2> QED
    BY <1>2, <2>1, <2>3
<1> QED
  BY <1>3, <1>4 DEF Max

(* The best event of a window is one of it. *)
LEMMA BestIsOne ==
  ASSUME NEW F, F # {}
  PROVE  LET m == Max({XPForDeed(e.kind) : e \in F})
         IN  /\ m \in Nat /\ \A e \in F : XPForDeed(e.kind) <= m
             /\ \E e \in F : m = XPForDeed(e.kind)
<1> DEFINE T == {XPForDeed(e.kind) : e \in F}
<1>1. T # {} /\ \A e \in F : XPForDeed(e.kind) \in T
  OBVIOUS
<1>2. T \subseteq 0..5
  BY DeedsAreWorth
<1>3. \A y \in T : \E e \in F : y = XPForDeed(e.kind)
  OBVIOUS
<1> HIDE DEF T
<1>4. Max(T) \in T /\ \A y \in T : y <= Max(T)
  BY <1>1, <1>2, GreatestNat
<1>5. Max(T) \in Nat
  <2>1. T \subseteq Nat
    BY <1>2
  <2> QED
    BY <1>4, <2>1
<1>6. /\ Max(T) \in Nat /\ \A e \in F : XPForDeed(e.kind) <= Max(T)
      /\ \E e \in F : Max(T) = XPForDeed(e.kind)
  BY <1>1, <1>3, <1>4, <1>5
<1> QED
  BY <1>6 DEF T

(* Every event is in a window, and in one only. *)
LEMMA WindowsPartition ==
  ASSUME NEW G, Timed(G)
  PROVE  /\ \A e \in G : \E t \in Starts(G) : e \in Window(G, t)
         /\ \A e \in G : \A s, t \in Starts(G) : e \in Window(G, s) /\ e \in Window(G, t) => s = t
         /\ \A t \in Starts(G) : Window(G, t) # {}
<1>1. Times(G) \subseteq Nat /\ \A e \in G : e.at \in Times(G)
  BY DEF Times, Timed
<1>2. Starts(G) \subseteq Times(G) /\ Starts(G) \subseteq Nat
  BY <1>1 DEF Starts
<1>3. ASSUME NEW e \in G
      PROVE  \E t \in Starts(G) : t <= e.at
  <2>1. PICK t \in Times(G) : \A y \in Times(G) : ~(y < t)
    BY <1>1, LeastNat
  <2>2. t \in Starts(G)
    BY <2>1 DEF Starts
  <2>3. ~(e.at < t)
    BY <1>1, <2>1
  <2>4. t \in Nat /\ e.at \in Nat
    BY <1>1
  <2> QED
    BY <2>2, <2>3, <2>4
<1>4. ASSUME NEW e \in G
      PROVE  \E t \in Starts(G) : e \in Window(G, t)
  <2> DEFINE T == {t \in Starts(G) : t <= e.at}
  <2>1. T # {} /\ T \subseteq 0..e.at /\ e.at \in Nat
    BY <1>1, <1>2, <1>3
  <2>2. Max(T) \in T /\ \A y \in T : y <= Max(T)
    <3> HIDE DEF T
    <3> QED
      BY <2>1, GreatestNat
  <2>3. Max(T) \in Starts(G) /\ Max(T) <= e.at /\ Max(T) \in Nat
    BY <1>2, <2>2
  <2>4. ASSUME NEW s \in Starts(G), s > Max(T)
        PROVE  e.at < s
    <3>1. s \notin T
      <4>1. s \in Nat
        BY <1>2
      <4> HIDE DEF T
      <4> QED
        BY <2>2, <2>3, <2>4, <4>1
    <3>2. ~(s <= e.at) /\ s \in Nat
      BY <1>2, <3>1
    <3> QED
      BY <2>1, <3>2
  <2> HIDE DEF T
  <2>5. e \in Window(G, Max(T))
    BY <2>1, <2>3, <2>4 DEF Window
  <2> QED
    BY <2>3, <2>5
<1>5. ASSUME NEW e \in G, NEW s \in Starts(G), NEW t \in Starts(G), e \in Window(G, s), e \in Window(G, t)
      PROVE  s = t
  <2>1. e.at \in Nat /\ s \in Nat /\ t \in Nat
    BY <1>1, <1>2
  <2>2. e.at >= s /\ e.at >= t /\ (t > s => e.at < t) /\ (s > t => e.at < s)
    BY <1>5 DEF Window
  <2> QED
    BY <2>1, <2>2
<1>6. ASSUME NEW t \in Starts(G)
      PROVE  Window(G, t) # {}
  <2>1. PICK e \in G : e.at = t
    BY <1>2 DEF Times
  <2>2. e \in Window(G, t)
    BY <1>1, <2>1 DEF Window
  <2> QED
    BY <2>2
<1> QED
  BY <1>4, <1>5, <1>6

(* No window that starts with more events cuts one there was. *)
LEMMA NoCut ==
  ASSUME NEW G, NEW H, Timed(H), G \subseteq H, NEW t \in Starts(G), NEW x \in Window(G, t),
         NEW y \in Window(G, t), NEW s \in Starts(H), x.at < s
  PROVE  y.at < s
<1>1. /\ Times(H) \subseteq Nat /\ Times(G) \subseteq Times(H) /\ Starts(G) \subseteq Times(G)
      /\ Starts(H) \subseteq Times(H)
  BY DEF Times, Timed, Starts
<1>2. /\ x.at \in Times(G) /\ y.at \in Times(G) /\ t <= x.at
  <2>1. x \in G /\ y \in G /\ x.at >= t
    BY DEF Window
  <2>2. x.at \in Nat /\ t \in Nat
    BY <1>1, <2>1 DEF Times
  <2> QED
    BY <2>1, <2>2 DEF Times
<1>3. SUFFICES ASSUME ~(y.at < s)
               PROVE  FALSE
  OBVIOUS
<1> DEFINE T == {a \in Times(G) : a >= s}
<1>4. s \in Nat /\ y.at \in Nat /\ x.at \in Nat /\ t \in Nat
  BY <1>1, <1>2
<1>5. y.at \in T /\ T \subseteq Nat /\ T \subseteq Times(G)
  BY <1>1, <1>2, <1>3, <1>4
<1>6. PICK m \in T : \A a \in T : ~(a < m)
  <2> HIDE DEF T
  <2> QED
    BY <1>5, LeastNat
<1>7. m \in Times(G) /\ m >= s /\ m \in Nat /\ m <= y.at
  <2>1. ~(y.at < m) /\ m \in Nat
    BY <1>5, <1>6
  <2> QED
    BY <1>4, <1>6, <2>1
<1>8. ASSUME NEW a \in Times(G), a < m
      PROVE  m - a >= ScoreWindow
  <2>1. a \notin T /\ a \in Nat
    BY <1>1, <1>6, <1>8
  <2>2. a < s
    BY <1>4, <2>1
  <2>3. s - a >= ScoreWindow
    BY <1>1, <2>2 DEF Starts
  <2>4. ScoreWindow \in Nat
    BY PointsAssumption
  <2> QED
    BY <1>4, <1>7, <2>1, <2>3, <2>4
<1>9. m \in Starts(G)
  BY <1>7, <1>8 DEF Starts
<1>10. m > t
  BY <1>2, <1>4, <1>7
<1>11. y.at < m
  BY <1>9, <1>10 DEF Window
<1> QED
  BY <1>4, <1>7, <1>11

(* Events that are scored together stay together when there are more. *)
LEMMA WindowsCoarsen ==
  ASSUME NEW G, NEW H, Timed(H), G \subseteq H, NEW t \in Starts(G), NEW x \in Window(G, t),
         NEW y \in Window(G, t), NEW s \in Starts(H), x \in Window(H, s)
  PROVE  y \in Window(H, s)
<1>1. /\ x.at >= s /\ \A z \in Starts(H) : z > s => x.at < z
  BY DEF Window
<1>2. y \in H /\ x.at \in Nat /\ y.at \in Nat /\ s \in Nat
  BY DEF Window, Timed, Starts, Times
<1>3. ~(y.at < s)
  <2> SUFFICES ASSUME y.at < s
               PROVE  FALSE
    OBVIOUS
  <2>1. x.at < s
    BY NoCut
  <2> QED
    BY <1>1, <1>2, <2>1
<1>4. \A z \in Starts(H) : z > s => y.at < z
  BY <1>1, NoCut
<1> QED
  BY <1>2, <1>3, <1>4 DEF Window

(* One event more is worth no more than its own points. *)
LEMMA WindowsSubadditive ==
  ASSUME NEW G, Timed(G), NEW e, e.at \in Nat
  PROVE  /\ WindowsXP(G) \in Nat /\ WindowsXP(G \cup {e}) \in Nat
         /\ WindowsXP(G \cup {e}) <= WindowsXP(G) + XPForDeed(e.kind)
<1> DEFINE H == G \cup {e}
           A == Starts(H)
           S == Starts(G)
           B == S \cup {-1}
           f == BestOf(H)
           g == [b \in B |-> IF b = -1 THEN XPForDeed(e.kind) ELSE BestOf(G)[b]]
           Top(t) == CHOOSE x \in Window(H, t) : f[t] = XPForDeed(x.kind)
           Home(x) == CHOOSE s \in S : x \in Window(G, s)
           h == [t \in A |-> IF Top(t) = e THEN -1 ELSE Home(Top(t))]
<1>1. Timed(H)
  BY FS_AddElement DEF Timed
<1>2. \A F : Timed(F) => /\ IsFiniteSet(Starts(F)) /\ Starts(F) \subseteq Nat
  <2> SUFFICES ASSUME NEW F, Timed(F)
               PROVE  /\ IsFiniteSet(Starts(F)) /\ Starts(F) \subseteq Nat
    OBVIOUS
  <2>1. IsFiniteSet(Times(F))
    <3> DEFINE at == [x \in F |-> x.at]
    <3>1. Times(F) = {at[x] : x \in F}
      BY DEF Times
    <3> HIDE DEF at
    <3> QED
      BY <3>1, ImageFinite DEF Timed
  <2>2. Starts(F) \subseteq Times(F) /\ Times(F) \subseteq Nat
    BY DEF Starts, Times, Timed
  <2> QED
    BY <2>1, <2>2, FS_Subset
<1>3. ASSUME NEW F, Timed(F), NEW t \in Starts(F)
      PROVE  /\ BestOf(F)[t] \in Nat
             /\ \A x \in Window(F, t) : XPForDeed(x.kind) <= BestOf(F)[t]
             /\ \E x \in Window(F, t) : BestOf(F)[t] = XPForDeed(x.kind)
  <2>1. BestOf(F)[t] = Max({XPForDeed(x.kind) : x \in Window(F, t)})
    BY DEF BestOf
  <2>2. Window(F, t) # {}
    BY <1>3, WindowsPartition
  <2> QED
    BY <2>1, <2>2, BestIsOne
<1>4. WindowsXP(G) = SumOf(BestOf(G), S) /\ WindowsXP(H) = SumOf(f, A)
  BY PartsAre
<1>5. ASSUME NEW t \in A
      PROVE  Top(t) \in Window(H, t) /\ f[t] = XPForDeed(Top(t).kind) /\ f[t] \in Nat
  BY <1>1, <1>3
<1>6. ASSUME NEW x \in G
      PROVE  Home(x) \in S /\ x \in Window(G, Home(x))
  BY WindowsPartition
<1>7. /\ IsFiniteSet(A) /\ IsFiniteSet(S) /\ IsFiniteSet(B) /\ S \subseteq Nat /\ -1 \notin S
  <2>1. IsFiniteSet(A) /\ IsFiniteSet(S) /\ S \subseteq Nat
    BY <1>1, <1>2
  <2>2. IsFiniteSet(B)
    BY <2>1, FS_AddElement
  <2> QED
    BY <2>1, <2>2
<1>8. \A s \in S : BestOf(G)[s] \in Nat /\ g[s] = BestOf(G)[s]
  BY <1>3, <1>7
<1>9. g[-1] = XPForDeed(e.kind) /\ XPForDeed(e.kind) \in Nat
  BY DeedsAreWorth
<1>10. \A y \in B : g[y] \in Nat
  BY <1>8, <1>9
<1>11. ASSUME NEW t \in A
       PROVE  /\ f[t] \in Nat /\ h[t] \in B /\ f[t] <= g[h[t]]
              /\ h[t] = -1 => e \in Window(H, t)
              /\ h[t] # -1 => h[t] \in S /\ \E x \in Window(G, h[t]) : x \in Window(H, t)
  <2>1. Top(t) \in Window(H, t) /\ f[t] = XPForDeed(Top(t).kind) /\ f[t] \in Nat
    BY <1>5
  <2>2. h[t] = IF Top(t) = e THEN -1 ELSE Home(Top(t))
    OBVIOUS
  <2>3. CASE Top(t) = e
    <3>1. h[t] = -1
      BY <2>2, <2>3
    <3> HIDE DEF h, f, g, Top
    <3> QED
      BY <1>9, <2>1, <2>3, <3>1
  <2>4. CASE Top(t) # e
    <3>1. Top(t) \in G
      BY <2>1, <2>4 DEF Window
    <3>2. h[t] = Home(Top(t))
      BY <2>2, <2>4
    <3>3. h[t] \in S /\ Top(t) \in Window(G, h[t])
      BY <1>6, <3>1, <3>2
    <3>4. XPForDeed(Top(t).kind) <= BestOf(G)[h[t]]
      BY <1>3, <3>3
    <3>5. g[h[t]] = BestOf(G)[h[t]]
      BY <1>8, <3>3
    <3> HIDE DEF h, f, g, Top, Home
    <3> QED
      BY <1>7, <2>1, <3>3, <3>4, <3>5
  <2> QED
    BY <2>3, <2>4
<1>12. ASSUME NEW s \in A, NEW t \in A, h[s] = h[t]
       PROVE  s = t
  <2> HIDE DEF h, f, g
  <2>1. CASE h[s] = -1
    <3>1. e \in Window(H, s) /\ e \in Window(H, t) /\ e \in H
      BY <1>11, <1>12, <2>1
    <3> QED
      BY <1>1, <3>1, WindowsPartition
  <2>2. CASE h[s] # -1
    <3>1. PICK x \in Window(G, h[s]) : x \in Window(H, s)
      BY <1>11, <2>2
    <3>2. PICK y \in Window(G, h[s]) : y \in Window(H, t)
      BY <1>11, <1>12, <2>2
    <3>3. h[s] \in S /\ G \subseteq H
      BY <1>11, <2>2
    <3>4. y \in Window(H, s)
      BY <1>1, <3>1, <3>2, <3>3, WindowsCoarsen
    <3>5. y \in H
      BY <3>4 DEF Window
    <3> QED
      BY <1>1, <3>2, <3>4, <3>5, WindowsPartition
  <2> QED
    BY <2>1, <2>2
<1> HIDE DEF f, g, h, A, B, S
<1>13. SumOf(f, A) <= SumOf(g, B)
  BY <1>7, <1>10, <1>11, <1>12, SumInject
<1>14. SumOf(g, B) = g[-1] + SumOf(g, S)
  <2>1. B = S \cup {-1} /\ \A x \in S \cup {-1} : g[x] \in Int
    BY <1>10 DEF B
  <2> QED
    BY <1>7, <2>1, SumAdd
<1>15. SumOf(g, S) = SumOf(BestOf(G), S)
  <2>1. \A x \in S : BestOf(G)[x] \in Int /\ g[x] = BestOf(G)[x]
    BY <1>8
  <2> QED
    BY <1>7, <2>1, SumSame
<1>16. SumOf(f, A) \in Nat /\ SumOf(BestOf(G), S) \in Nat
  <2>1. \A x \in A : f[x] \in Nat
    BY <1>11
  <2>2. \A x \in S : BestOf(G)[x] \in Nat
    BY <1>8
  <2> QED
    BY <1>7, <2>1, <2>2, SumNat
<1> QED
  BY <1>4, <1>9, <1>13, <1>14, <1>15, <1>16

(* No events, no points. *)
LEMMA NoEventsNoPoints == WindowsXP({}) = 0
<1>1. Starts({}) = {}
  BY DEF Starts, Times
<1>2. WindowsXP({}) = SumOf(BestOf({}), Starts({}))
  BY PartsAre
<1> QED
  BY <1>1, <1>2, SumEmpty

(* The groups of finitely many events are finitely many, and each is worth something. *)
LEMMA GroupsAre ==
  ASSUME NEW E, Timed(E)
  PROVE  /\ IsFiniteSet(KeysOf(E))
         /\ \A k : Timed(GroupOf(E, k))
         /\ \A k \in KeysOf(E) : WorthOf(E)[k] = WindowsXP(GroupOf(E, k)) /\ WorthOf(E)[k] \in Nat
         /\ Coalesce(E) = SumOf(WorthOf(E), KeysOf(E)) /\ Coalesce(E) \in Nat
<1>1. IsFiniteSet(KeysOf(E))
  <2> DEFINE key == [x \in E |-> KeyOf(x)]
  <2>1. KeysOf(E) = {key[x] : x \in E}
    BY DEF KeysOf
  <2> HIDE DEF key
  <2> QED
    BY <2>1, ImageFinite DEF Timed
<1>2. ASSUME NEW k
      PROVE  Timed(GroupOf(E, k))
  <2>1. GroupOf(E, k) \in SUBSET E
    BY DEF GroupOf
  <2> QED
    BY <2>1, FS_Subset DEF Timed
<1>3. ASSUME NEW k \in KeysOf(E)
      PROVE  WorthOf(E)[k] = WindowsXP(GroupOf(E, k)) /\ WorthOf(E)[k] \in Nat
  <2>1. WorthOf(E)[k] = WindowsXP(GroupOf(E, k))
    BY DEF WorthOf
  <2>2. PICK e \in E : TRUE
    BY DEF KeysOf
  <2>3. e.at \in Nat
    BY DEF Timed
  <2>4. WindowsXP(GroupOf(E, k)) \in Nat
    BY <1>2, <2>3, WindowsSubadditive
  <2> QED
    BY <2>1, <2>4
<1>4. Coalesce(E) = SumOf(WorthOf(E), KeysOf(E))
  BY PartsAre
<1>5. Coalesce(E) \in Nat
  BY <1>1, <1>3, <1>4, SumNat
<1> QED
  BY <1>1, <1>2, <1>3, <1>4, <1>5

(* An event adds no more than its own points (bumpProgress against Coalesce). *)
LEMMA CoalesceSubadditive ==
  ASSUME NEW E, Timed(E), NEW e, e.at \in Nat
  PROVE  /\ Coalesce(E) \in Nat /\ Coalesce(E \cup {e}) \in Nat /\ XPForDeed(e.kind) \in Nat
         /\ Coalesce(E \cup {e}) <= Coalesce(E) + XPForDeed(e.kind)
<1> DEFINE F == E \cup {e}
           k == KeyOf(e)
           K == KeysOf(E)
           f == WorthOf(E)
           g == WorthOf(F)
<1>1. Timed(F)
  BY FS_AddElement DEF Timed
<1>2. KeysOf(F) = K \cup {k} /\ GroupOf(F, k) = GroupOf(E, k) \cup {e}
      /\ \A i : i # k => GroupOf(F, i) = GroupOf(E, i)
  BY DEF KeysOf, GroupOf
<1>3. /\ IsFiniteSet(K) /\ IsFiniteSet(K \cup {k}) /\ Timed(GroupOf(E, k))
      /\ \A i \in K : f[i] = WindowsXP(GroupOf(E, i)) /\ f[i] \in Nat
      /\ \A i \in K \cup {k} : g[i] = WindowsXP(GroupOf(F, i)) /\ g[i] \in Nat
      /\ Coalesce(E) = SumOf(f, K) /\ Coalesce(E) \in Nat
      /\ Coalesce(F) = SumOf(g, K \cup {k}) /\ Coalesce(F) \in Nat
  <2>1. /\ IsFiniteSet(K) /\ Timed(GroupOf(E, k))
        /\ \A i \in K : f[i] = WindowsXP(GroupOf(E, i)) /\ f[i] \in Nat
        /\ Coalesce(E) = SumOf(f, K) /\ Coalesce(E) \in Nat
    BY GroupsAre
  <2> HIDE DEF F
  <2>2. /\ IsFiniteSet(KeysOf(F))
        /\ \A i \in KeysOf(F) : g[i] = WindowsXP(GroupOf(F, i)) /\ g[i] \in Nat
        /\ Coalesce(F) = SumOf(g, KeysOf(F)) /\ Coalesce(F) \in Nat
    BY <1>1, GroupsAre
  <2> QED
    BY <1>2, <2>1, <2>2
<1>4. XPForDeed(e.kind) \in Nat
  BY DeedsAreWorth
<1>5. /\ WindowsXP(GroupOf(E, k)) \in Nat
      /\ WindowsXP(GroupOf(F, k)) <= WindowsXP(GroupOf(E, k)) + XPForDeed(e.kind)
  BY <1>2, <1>3, WindowsSubadditive
<1>6. \A i \in K : i # k => g[i] = f[i]
  BY <1>2, <1>3
<1> HIDE DEF f, g, K, k, F
<1>7. CASE k \in K
  <2>1. K \cup {k} = K /\ \A i \in K : f[i] \in Int /\ g[i] \in Int
    BY <1>3, <1>7
  <2>2. SumOf(g, K) = SumOf(f, K) + (g[k] - f[k])
    <3>1. IsFiniteSet(K) /\ \A i \in K : f[i] \in Int /\ g[i] \in Int
      BY <1>3, <2>1
    <3> QED
      BY <1>6, <1>7, <3>1, SumChange
  <2>3. g[k] <= f[k] + XPForDeed(e.kind) /\ g[k] \in Nat /\ f[k] \in Nat
    BY <1>3, <1>5, <1>7
  <2>4. Coalesce(F) = SumOf(g, K)
    BY <1>3, <2>1
  <2>5. Coalesce(F) <= Coalesce(E) + XPForDeed(e.kind)
    BY <1>3, <1>4, <2>2, <2>3, <2>4
  <2> QED
    BY <1>3, <1>4, <2>5 DEF F
<1>8. CASE k \notin K
  <2>1. SumOf(g, K \cup {k}) = g[k] + SumOf(g, K) /\ SumOf(g, K) \in Int
    <3>1. \A i \in K \cup {k} : g[i] \in Int
      BY <1>3
    <3> QED
      BY <1>3, <1>8, <3>1, SumAdd
  <2>2. SumOf(g, K) = SumOf(f, K)
    <3>1. \A i \in K : f[i] \in Int /\ g[i] = f[i]
      BY <1>3, <1>6, <1>8
    <3> QED
      BY <1>3, <3>1, SumSame
  <2>3. GroupOf(E, k) = {}
    BY <1>8 DEF GroupOf, K, KeysOf
  <2>4. g[k] <= XPForDeed(e.kind) /\ g[k] \in Nat
    BY <1>3, <1>4, <1>5, <2>3, NoEventsNoPoints
  <2>5. Coalesce(F) <= Coalesce(E) + XPForDeed(e.kind)
    BY <1>3, <1>4, <2>1, <2>2, <2>4
  <2> QED
    BY <1>3, <1>4, <2>5 DEF F
<1> QED
  BY <1>7, <1>8

(* Events of which whole groups have gone are worth no more (Coalesce). *)
LEMMA CoalesceFewer ==
  ASSUME NEW E, Timed(E), NEW F, F \subseteq E,
         \A e \in F : GroupOf(F, KeyOf(e)) = GroupOf(E, KeyOf(e))
  PROVE  Coalesce(F) <= Coalesce(E)
<1> DEFINE id == [k \in KeysOf(F) |-> k]
<1>1. Timed(F)
  BY FS_Subset DEF Timed
<1>2. KeysOf(F) \subseteq KeysOf(E) /\ \A k \in KeysOf(F) : GroupOf(F, k) = GroupOf(E, k)
  BY DEF KeysOf
<1>3. /\ IsFiniteSet(KeysOf(E)) /\ Coalesce(E) = SumOf(WorthOf(E), KeysOf(E))
      /\ \A k \in KeysOf(E) : WorthOf(E)[k] = WindowsXP(GroupOf(E, k)) /\ WorthOf(E)[k] \in Nat
  BY GroupsAre
<1>4. /\ IsFiniteSet(KeysOf(F)) /\ Coalesce(F) = SumOf(WorthOf(F), KeysOf(F))
      /\ \A k \in KeysOf(F) : WorthOf(F)[k] = WindowsXP(GroupOf(F, k)) /\ WorthOf(F)[k] \in Nat
  BY <1>1, GroupsAre
<1>5. \A k \in KeysOf(F) : /\ WorthOf(F)[k] \in Nat /\ id[k] \in KeysOf(E)
                            /\ WorthOf(F)[k] <= WorthOf(E)[id[k]]
  BY <1>2, <1>3, <1>4
<1>6. \A k, l \in KeysOf(F) : id[k] = id[l] => k = l
  OBVIOUS
<1> HIDE DEF id
<1>7. SumOf(WorthOf(F), KeysOf(F)) <= SumOf(WorthOf(E), KeysOf(E))
  BY <1>3, <1>4, <1>5, <1>6, SumInject
<1> QED
  BY <1>3, <1>4, <1>7

-----------------------------------------------------------------------------
(* Cached points.  Whoever has raised a row of points holds it, alone, and has raised it
   from what is committed, by at least what its own event is worth (Scored, Awarded,
   PointLocks).  A member a rebuild has yet to come to has lost, since the snapshot, whole
   groups of events only, of products that are no more (Fresh). *)

EventRow == [user : Member, ref : Good, kind : Deed, at : 0..MaxHour]

By(es, u) == {e \in es : e.user = u}

\* Rows of points in a transaction, raised from those in `points'.
Raised(mine, points) ==
    /\ mine \in [Member -> Nat \cup {Never}]
    /\ \A u \in Member : mine[u] # Never => mine[u] >= points[u]

Scored(r, points, products) ==
    /\ Raised(r.xp, points)
    /\ r.phase \in {"idle", "bump"} => \A u \in Member : r.xp[u] = Never
    /\ r.phase # "idle" => r.user \in Member /\ r.good \in products /\ r.kind \in Deed /\ r.at \in 0..MaxHour
    /\ r.phase \in {"quests", "pay"} =>
         r.xp[r.user] # Never /\ r.xp[r.user] >= points[r.user] + XPForDeed(r.kind)

Awarded(r, points) ==
    /\ Raised(r.xp, points)
    /\ r.clean \subseteq Week \cup {Never}
    /\ r.phase # "idle" => r.ran \in Week

PointLocks(ws, js) ==
    \A u \in Member :
        /\ \A v, w \in Writer : ws[v].xp[u] # Never /\ ws[w].xp[u] # Never => v = w
        /\ \A i, j \in WeekJob : js[i].xp[u] # Never /\ js[j].xp[u] # Never => i = j
        /\ \A w \in Writer, j \in WeekJob : ws[w].xp[u] = Never \/ js[j].xp[u] = Never

Fresh(mine, es, products) ==
    \A e \in mine : \/ GroupOf(mine, KeyOf(e)) \subseteq es
                    \/ e.ref \notin products /\ GroupOf(es, KeyOf(e)) = {}

PointRows ==
    /\ events \subseteq EventRow /\ IsFiniteSet(events)
    /\ xp \in [Member -> Nat] /\ raced \subseteq Member /\ hour \in 0..MaxHour
    /\ recompute.phase \in {"idle", "write"} /\ recompute.todo \subseteq Member
    /\ recompute = [phase |-> recompute.phase, snapshot |-> recompute.snapshot, todo |-> recompute.todo]
    /\ recompute.snapshot \subseteq EventRow /\ IsFiniteSet(recompute.snapshot)
    /\ unlocked \subseteq (DOMAIN Milestone \cup StorageAchievement) \X Member
    /\ cleanSince \in Week \cup {Never}

PointsIInv ==
    /\ PointRows
    /\ \A w \in Writer : Scored(write[w], xp, goods)
    /\ \A j \in WeekJob : Awarded(job[j], xp)
    /\ PointLocks(write, job)
    /\ \A u \in recompute.todo \ raced : Fresh(By(recompute.snapshot, u), By(events, u), goods)
    /\ NoXPLost

(* The events of the members are finite sets of moments. *)
LEMMA EventsTimed ==
  ASSUME NEW es, es \subseteq EventRow, IsFiniteSet(es), NEW u
  PROVE  Timed(By(es, u)) /\ Timed(es)
<1>1. By(es, u) \in SUBSET es
  BY DEF By
<1>2. \A e \in es : e.at \in Nat
  <2>0. MaxHour \in Nat
    BY Zenon, PointsAssumption
  <2>1. 0..MaxHour \subseteq Nat
    BY <2>0
  <2> QED
    BY <2>1 DEF EventRow
<1> QED
  BY <1>1, <1>2, FS_Subset DEF Timed

(* A transaction of one write goes on, with rows it held or can lock. *)
LEMMA WriteScores ==
  ASSUME ScoringIInv, PointsIInv, NEW w \in Writer, NEW r, write' = [write EXCEPT ![w] = r],
         UNCHANGED <<goods, events, xp, unlocked, cleanSince, job, recompute, hour, raced>>,
         Scored(r, xp, goods),
         \A u \in Member : r.xp[u] # Never => write[w].xp[u] # Never \/ LockProgress(w, u)
  PROVE  PointsIInv'
<1>1. DOMAIN write = Writer
  BY DEF ScoringIInv, ScoringRows
<1>2. write'[w] = r /\ \A v \in Writer \ {w} : write'[v] = write[v]
  BY <1>1
<1>3. PointRows'
  BY DEF PointsIInv, PointRows
<1>4. \A v \in Writer : Scored(write'[v], xp', goods')
  BY <1>2 DEF PointsIInv
<1>5. \A j \in WeekJob : Awarded(job'[j], xp')
  BY DEF PointsIInv
<1>6. \A u \in recompute'.todo \ raced' : Fresh(By(recompute'.snapshot, u), By(events', u), goods')
  BY DEF PointsIInv
<1>7. NoXPLost'
  BY DEF PointsIInv, NoXPLost, EventsOf
<1>8. PointLocks(write', job')
  <2> SUFFICES ASSUME NEW u \in Member
               PROVE  /\ \A v, x \in Writer : write'[v].xp[u] # Never /\ write'[x].xp[u] # Never => v = x
                      /\ \A i, j \in WeekJob : job'[i].xp[u] # Never /\ job'[j].xp[u] # Never => i = j
                      /\ \A v \in Writer, j \in WeekJob : write'[v].xp[u] = Never \/ job'[j].xp[u] = Never
    BY DEF PointLocks
  <2>1. /\ \A v, x \in Writer : write[v].xp[u] # Never /\ write[x].xp[u] # Never => v = x
        /\ \A i, j \in WeekJob : job[i].xp[u] # Never /\ job[j].xp[u] # Never => i = j
        /\ \A v \in Writer, j \in WeekJob : write[v].xp[u] = Never \/ job[j].xp[u] = Never
    BY DEF PointsIInv, PointLocks
  <2>2. ASSUME r.xp[u] # Never
        PROVE  /\ \A v \in Writer \ {w} : write[v].xp[u] = Never
               /\ \A j \in WeekJob : job[j].xp[u] = Never
    <3>1. CASE write[w].xp[u] # Never
      BY <2>1, <3>1
    <3>2. CASE LockProgress(w, u)
      <4>1. w \notin WeekJob
        BY PointsAssumption
      <4> QED
        BY <3>2, <4>1 DEF LockProgress, Holders
    <3> QED
      BY <2>2, <3>1, <3>2
  <2> QED
    BY <1>2, <2>1, <2>2
<1> QED
  BY <1>3, <1>4, <1>5, <1>6, <1>7, <1>8 DEF PointsIInv

(* The same for a weekly job. *)
LEMMA JobScores ==
  ASSUME ScoringIInv, PointsIInv, NEW j \in WeekJob, NEW r, job' = [job EXCEPT ![j] = r],
         UNCHANGED <<goods, events, xp, unlocked, cleanSince, write, recompute, hour, raced>>,
         Awarded(r, xp),
         \A u \in Member : r.xp[u] # Never => job[j].xp[u] # Never \/ LockProgress(j, u)
  PROVE  PointsIInv'
<1>1. DOMAIN job = WeekJob
  BY DEF ScoringIInv, ScoringRows
<1>2. job'[j] = r /\ \A i \in WeekJob \ {j} : job'[i] = job[i]
  BY <1>1
<1>3. PointRows'
  BY DEF PointsIInv, PointRows
<1>4. \A v \in Writer : Scored(write'[v], xp', goods')
  BY DEF PointsIInv
<1>5. \A i \in WeekJob : Awarded(job'[i], xp')
  BY <1>2 DEF PointsIInv
<1>6. \A u \in recompute'.todo \ raced' : Fresh(By(recompute'.snapshot, u), By(events', u), goods')
  BY DEF PointsIInv
<1>7. NoXPLost'
  BY DEF PointsIInv, NoXPLost, EventsOf
<1>8. PointLocks(write', job')
  <2> SUFFICES ASSUME NEW u \in Member
               PROVE  /\ \A v, x \in Writer : write'[v].xp[u] # Never /\ write'[x].xp[u] # Never => v = x
                      /\ \A i, k \in WeekJob : job'[i].xp[u] # Never /\ job'[k].xp[u] # Never => i = k
                      /\ \A v \in Writer, k \in WeekJob : write'[v].xp[u] = Never \/ job'[k].xp[u] = Never
    BY DEF PointLocks
  <2>1. /\ \A v, x \in Writer : write[v].xp[u] # Never /\ write[x].xp[u] # Never => v = x
        /\ \A i, k \in WeekJob : job[i].xp[u] # Never /\ job[k].xp[u] # Never => i = k
        /\ \A v \in Writer, k \in WeekJob : write[v].xp[u] = Never \/ job[k].xp[u] = Never
    BY DEF PointsIInv, PointLocks
  <2>2. ASSUME r.xp[u] # Never
        PROVE  /\ \A i \in WeekJob \ {j} : job[i].xp[u] = Never
               /\ \A v \in Writer : write[v].xp[u] = Never
    <3>1. CASE job[j].xp[u] # Never
      BY <2>1, <3>1
    <3>2. CASE LockProgress(j, u)
      <4>1. j \notin Writer
        BY PointsAssumption
      <4> QED
        BY <3>2, <4>1 DEF LockProgress, Holders
    <3> QED
      BY <2>2, <3>1, <3>2
  <2> QED
    BY <1>2, <2>1, <2>2
<1> QED
  BY <1>3, <1>4, <1>5, <1>6, <1>7, <1>8 DEF PointsIInv

-----------------------------------------------------------------------------
(* Writes *)

(* A transaction that has touched no row of points. *)
LEMMA NoPoints ==
  ASSUME xp \in [Member -> Nat]
  PROVE  /\ Scored(NoWrite, xp, goods) /\ \A u \in Member : NoWrite.xp[u] = Never
         /\ \A n : Awarded(NoJob(n), xp) /\ \A u \in Member : NoJob(n).xp[u] = Never
<1> DEFINE none == [u \in Member |-> Never]
<1>1. NoWrite.xp = none /\ NoWrite.phase = "idle"
  BY DEF NoWrite
<1>2. \A n : NoJob(n).xp = none /\ NoJob(n).phase = "idle" /\ NoJob(n).clean = {}
  BY DEF NoJob
<1>3. none \in [Member -> Nat \cup {Never}] /\ \A u \in Member : none[u] = Never
  OBVIOUS
<1> HIDE DEF none
<1>4. Raised(none, xp)
  BY <1>3 DEF Raised
<1> QED
  BY <1>1, <1>2, <1>3, <1>4 DEF Scored, Awarded

(* A write begins. *)
LEMMA BeginScores ==
  ASSUME ScoringIInv, PointsIInv, NEW w \in Writer, NEW u \in Member, NEW k \in Deed, NEW p, NEW gens,
         NEW meets, Begin(w, u, k, p, gens, meets)
  PROVE  PointsIInv'
<1> DEFINE r == [NoWrite EXCEPT !.phase = "bump", !.user = u, !.kind = k, !.good = p, !.at = hour,
                                !.week = week, !.gens = gens, !.meets = meets]
<1>1. r.phase = "bump" /\ r.user = u /\ r.kind = k /\ r.good = p /\ r.at = hour /\ r.xp = NoWrite.xp
  BY DEF NoWrite
<1>2. xp \in [Member -> Nat] /\ hour \in 0..MaxHour
  BY DEF PointsIInv, PointRows
<1>3. /\ write' = [write EXCEPT ![w] = r] /\ p \in goods
      /\ UNCHANGED <<goods, events, xp, unlocked, cleanSince, job, recompute, hour, raced>>
  BY DEF Begin, clock
<1> HIDE DEF r
<1>4. \A v \in Member : r.xp[v] = Never
  BY <1>1, <1>2, NoPoints
<1>5. Raised(r.xp, xp)
  BY <1>1, <1>2, NoPoints DEF Scored
<1>6. Scored(r, xp, goods)
  BY <1>1, <1>2, <1>3, <1>4, <1>5 DEF Scored
<1>7. \A v \in Member : r.xp[v] # Never => write[w].xp[v] # Never \/ LockProgress(w, v)
  BY <1>4
<1> QED
  BY <1>3, <1>6, <1>7, WriteScores

(* bumpProgress, in a transaction with the rows `mine'. *)
LEMMA BumpRaises ==
  ASSUME NEW mine, xp \in [Member -> Nat], Raised(mine, xp), NEW u \in Member, NEW d \in Nat
  PROVE  LET b == BumpProgress(mine, u, d)
         IN  /\ Raised(b, xp) /\ b[u] # Never /\ b[u] >= xp[u] + d
             /\ mine[u] # Never => b[u] >= mine[u]
             /\ \A v \in Member \ {u} : b[v] = mine[v]
<1> DEFINE b == BumpProgress(mine, u, d)
           n == IF mine[u] # Never THEN mine[u] ELSE xp[u]
<1>1. mine \in [Member -> Nat \cup {Never}] /\ \A v \in Member : mine[v] # Never => mine[v] >= xp[v]
  BY DEF Raised
<1>2. xp[u] \in Nat /\ n \in Nat /\ n >= xp[u] /\ (mine[u] # Never => n = mine[u])
  BY <1>1
<1>3. b = [mine EXCEPT ![u] = n + d]
  BY DEF BumpProgress
<1> HIDE DEF n, b
<1>4. n + d \in Nat /\ n + d >= xp[u] + d /\ n + d >= xp[u] /\ n + d >= n
  BY <1>2
<1>5. b[u] = n + d /\ \A v \in Member \ {u} : b[v] = mine[v]
  BY <1>1, <1>3
<1>6. b \in [Member -> Nat \cup {Never}]
  BY <1>1, <1>3, <1>4
<1>7. Raised(b, xp)
  BY <1>1, <1>4, <1>5, <1>6 DEF Raised
<1>8. b[u] # Never
  BY <1>4, <1>5, PointsAssumption
<1>9. /\ Raised(b, xp) /\ b[u] # Never /\ b[u] >= xp[u] + d
      /\ mine[u] # Never => b[u] >= mine[u]
      /\ \A v \in Member \ {u} : b[v] = mine[v]
  BY <1>2, <1>4, <1>5, <1>7, <1>8
<1> QED
  BY <1>9 DEF b

(* The row of points of the write's own user (Bump). *)
LEMMA BumpScores ==
  ASSUME ScoringIInv, PointsIInv, NEW w \in Writer, Bump(w)
  PROVE  PointsIInv'
<1> DEFINE o == write[w]
           b == BumpProgress(o.xp, o.user, XPForDeed(o.kind))
           r == [o EXCEPT !.phase = "quests", !.xp = b]
<1>1. o \in WriteRow(o) /\ o.phase = "bump" /\ DOMAIN write = Writer /\ LockProgress(w, o.user)
  BY DEF Bump, ScoringIInv, ScoringRows
<1>2. Scored(o, xp, goods) /\ xp \in [Member -> Nat]
  BY DEF PointsIInv, PointRows
<1>3. o.user \in Member /\ o.good \in goods /\ o.kind \in Deed /\ o.at \in 0..MaxHour /\ Raised(o.xp, xp)
  BY <1>1, <1>2 DEF Scored
<1>4. XPForDeed(o.kind) \in Nat
  BY DeedsAreWorth
<1>5. /\ Raised(b, xp) /\ b[o.user] # Never /\ b[o.user] >= xp[o.user] + XPForDeed(o.kind)
      /\ \A v \in Member \ {o.user} : b[v] = o.xp[v]
  <2> HIDE DEF o
  <2>1. xp \in [Member -> Nat] /\ Raised(o.xp, xp) /\ o.user \in Member
    BY <1>2, <1>3
  <2> QED
    BY <1>4, <2>1, BumpRaises
<1> HIDE DEF b
<1>6. /\ write' = [write EXCEPT ![w] = r]
      /\ UNCHANGED <<goods, events, xp, unlocked, cleanSince, job, recompute, hour, raced>>
  BY <1>1 DEF Bump, clock, b, WriteRow
<1>7. r.phase = "quests" /\ r.user = o.user /\ r.good = o.good /\ r.kind = o.kind /\ r.at = o.at /\ r.xp = b
  <2> HIDE DEF o
  <2> QED
    BY <1>1 DEF WriteRow
<1> HIDE DEF o, r
<1>8. Scored(r, xp, goods)
  BY <1>3, <1>5, <1>7 DEF Scored
<1>9. \A u \in Member : r.xp[u] # Never => o.xp[u] # Never \/ LockProgress(w, u)
  BY <1>1, <1>5, <1>7
<1> QED
  BY <1>6, <1>8, <1>9, WriteScores DEF o

(* A quest is asked about, and its row locked: no points are touched (AdvanceOneQuest). *)
LEMMA AdvanceScores ==
  ASSUME ScoringIInv, PointsIInv, NEW w \in Writer, AdvanceOneQuest(w)
  PROVE  PointsIInv'
<1> DEFINE o == write[w]
<1>1. o \in WriteRow(o) /\ DOMAIN write = Writer /\ o.phase = "quests"
  BY DEF AdvanceOneQuest, ScoringIInv, ScoringRows
<1>2. Scored(o, xp, goods)
  BY DEF PointsIInv
<1>3. UNCHANGED <<goods, events, xp, unlocked, cleanSince, job, recompute, hour, raced>>
  BY DEF AdvanceOneQuest, clock
<1>4. \E r : /\ write' = [write EXCEPT ![w] = r] /\ r.phase \in {"quests", "pay"} /\ r.user = o.user
              /\ r.good = o.good /\ r.kind = o.kind /\ r.at = o.at /\ r.xp = o.xp
  <2> DEFINE k == <<week, Head(o.gens)>>
             held == [o EXCEPT !.held = o.held \cup {k}]
             helped == [held EXCEPT !.helps = o.helps \cup {k}]
             missed == [o EXCEPT !.missed = o.missed \cup ({k} \cap QuestKey)]
             r1 == NextGenerator(missed)
             r2 == NextGenerator(held)
             r3 == NextGenerator(helped)
             r4 == [helped EXCEPT !.phase = "pay", !.ends = o.ends \cup {k}, !.paying = k,
                                  !.pays = quest[k].helpers \cup {o.user}]
  <2>1. \/ write' = [write EXCEPT ![w] = r1] \/ write' = [write EXCEPT ![w] = r2]
        \/ write' = [write EXCEPT ![w] = r3] \/ write' = [write EXCEPT ![w] = r4]
    BY DEF AdvanceOneQuest
  <2> HIDE DEF k, o
  <2>2. /\ r1.phase = o.phase /\ r1.user = o.user /\ r1.good = o.good /\ r1.kind = o.kind /\ r1.at = o.at
        /\ r1.xp = o.xp
    BY <1>1 DEF WriteRow, NextGenerator
  <2>3. /\ r2.phase = o.phase /\ r2.user = o.user /\ r2.good = o.good /\ r2.kind = o.kind /\ r2.at = o.at
        /\ r2.xp = o.xp
    BY <1>1 DEF WriteRow, NextGenerator
  <2>4. /\ r3.phase = o.phase /\ r3.user = o.user /\ r3.good = o.good /\ r3.kind = o.kind /\ r3.at = o.at
        /\ r3.xp = o.xp
    BY <1>1 DEF WriteRow, NextGenerator
  <2>5. /\ r4.phase = "pay" /\ r4.user = o.user /\ r4.good = o.good /\ r4.kind = o.kind /\ r4.at = o.at
        /\ r4.xp = o.xp
    BY <1>1 DEF WriteRow
  <2> HIDE DEF r1, r2, r3, r4
  <2> QED
    BY <1>1, <2>1, <2>2, <2>3, <2>4, <2>5
<1>5. PICK r : /\ write' = [write EXCEPT ![w] = r] /\ r.phase \in {"quests", "pay"} /\ r.user = o.user
               /\ r.good = o.good /\ r.kind = o.kind /\ r.at = o.at /\ r.xp = o.xp
  BY <1>4
<1> HIDE DEF o
<1>6. Scored(r, xp, goods)
  BY <1>1, <1>2, <1>5 DEF Scored
<1>7. \A u \in Member : r.xp[u] # Never => o.xp[u] # Never \/ LockProgress(w, u)
  BY <1>5
<1> QED
  BY <1>3, <1>5, <1>6, <1>7, WriteScores DEF o

(* A contributor is paid on top of what the transaction has given already
   (PayContributor). *)
LEMMA PayScores ==
  ASSUME ScoringIInv, PointsIInv, NEW w \in Writer, NEW u \in Member, PayContributor(w, u)
  PROVE  PointsIInv'
<1> DEFINE o == write[w]
           d == XPForGenerator(o.paying[2])
           b == BumpProgress(o.xp, u, d)
           paid == [o EXCEPT !.xp = b, !.pays = o.pays \ {u}, !.pay = o.pay \cup {<<o.paying, u>>}]
           last == [NextGenerator(paid) EXCEPT !.phase = "quests", !.paying = Never]
<1>1. o \in WriteRow(o) /\ DOMAIN write = Writer /\ o.phase = "pay" /\ LockProgress(w, u)
  BY DEF PayContributor, ScoringIInv, ScoringRows
<1>2. Scored(o, xp, goods) /\ xp \in [Member -> Nat]
  BY DEF PointsIInv, PointRows
<1>3. /\ o.user \in Member /\ o.good \in goods /\ o.kind \in Deed /\ o.at \in 0..MaxHour
      /\ Raised(o.xp, xp) /\ o.xp[o.user] # Never /\ o.xp[o.user] >= xp[o.user] + XPForDeed(o.kind)
  BY <1>1, <1>2 DEF Scored
<1>4. d \in Nat
  BY DEF XPForGenerator
<1>5. /\ UNCHANGED <<goods, events, xp, unlocked, cleanSince, job, recompute, hour, raced>>
      /\ write' = [write EXCEPT ![w] = paid] \/ write' = [write EXCEPT ![w] = last]
  BY DEF PayContributor, clock
<1> HIDE DEF d, o
<1>6. /\ Raised(b, xp) /\ b[u] # Never /\ b[u] >= xp[u] + d /\ (o.xp[u] # Never => b[u] >= o.xp[u])
      /\ \A v \in Member \ {u} : b[v] = o.xp[v]
  <2>1. xp \in [Member -> Nat] /\ Raised(o.xp, xp)
    BY <1>2, <1>3
  <2> QED
    BY <1>4, <2>1, BumpRaises
<1> HIDE DEF b
<1>7. /\ paid.phase = "pay" /\ paid.user = o.user /\ paid.good = o.good /\ paid.kind = o.kind
      /\ paid.at = o.at /\ paid.xp = b
  BY <1>1 DEF WriteRow
<1>8. /\ last.phase = "quests" /\ last.user = o.user /\ last.good = o.good /\ last.kind = o.kind
      /\ last.at = o.at /\ last.xp = b
  BY <1>1 DEF WriteRow, NextGenerator
<1> HIDE DEF paid, last
<1>9. PICK r : /\ write' = [write EXCEPT ![w] = r] /\ r.phase \in {"quests", "pay"} /\ r.user = o.user
               /\ r.good = o.good /\ r.kind = o.kind /\ r.at = o.at /\ r.xp = b
  BY <1>5, <1>7, <1>8
<1>10. b[o.user] # Never /\ b[o.user] >= xp[o.user] + XPForDeed(o.kind)
  <2>1. CASE u = o.user
    <3>1. b[u] \in Nat /\ o.xp[u] \in Nat /\ xp[u] \in Nat /\ XPForDeed(o.kind) \in Nat
      BY <1>2, <1>3, <1>6, <2>1, DeedsAreWorth DEF Raised
    <3> QED
      BY <1>3, <1>6, <2>1, <3>1
  <2>2. CASE u # o.user
    BY <1>3, <1>6, <2>2
  <2> QED
    BY <2>1, <2>2
<1>11. Scored(r, xp, goods)
  BY <1>3, <1>6, <1>9, <1>10 DEF Scored
<1>12. \A v \in Member : r.xp[v] # Never => o.xp[v] # Never \/ LockProgress(w, v)
  BY <1>1, <1>6, <1>9
<1> QED
  BY <1>5, <1>9, <1>11, <1>12, WriteScores DEF o

(* A transaction that ends without a commit (RollBack). *)
LEMMA RollBackScores ==
  ASSUME ScoringIInv, PointsIInv, NEW w \in Writer, RollBack(w)
  PROVE  PointsIInv'
<1>1. /\ write' = [write EXCEPT ![w] = NoWrite]
      /\ UNCHANGED <<goods, events, xp, unlocked, cleanSince, job, recompute, hour, raced>>
  BY DEF RollBack, clock
<1>2. xp \in [Member -> Nat]
  BY DEF PointsIInv, PointRows
<1> DEFINE r == NoWrite
<1>3. Scored(r, xp, goods) /\ \A u \in Member : r.xp[u] # Never => write[w].xp[u] # Never \/ LockProgress(w, u)
  BY <1>2, NoPoints
<1>4. write' = [write EXCEPT ![w] = r]
  BY <1>1
<1> HIDE DEF r
<1> QED
  BY <1>1, <1>3, <1>4, WriteScores

(* recordContribution and bumpForLedgerReason (FillIn, Score). *)
LEMMA EventScores ==
  ASSUME ScoringIInv, PointsIInv, NEW w \in Writer, NEW u \in Member, NEW p
  PROVE  /\ \A g : "metadata_filled" \in Deed /\ FillIn(w, u, g, p) => PointsIInv'
         /\ \A e : \A k \in Deed : Score(w, u, k, p, e) => PointsIInv'
<1>1. ASSUME NEW g, "metadata_filled" \in Deed, FillIn(w, u, g, p)
      PROVE  PointsIInv'
  <2>1. Begin(w, u, "metadata_filled", p, <<g>>, {g})
    BY <1>1 DEF FillIn
  <2> QED
    BY <1>1, <2>1, BeginScores
<1>2. ASSUME NEW k \in Deed, NEW e, Score(w, u, k, p, e)
      PROVE  PointsIInv'
  <2>1. \E gens, meets : Begin(w, u, k, p, gens, meets)
    BY <1>2 DEF Score
  <2> QED
    BY <2>1, BeginScores
<1> QED
  BY <1>1, <1>2

-----------------------------------------------------------------------------
(* The weekly job *)

LEMMA GatherScores ==
  ASSUME ScoringIInv, PointsIInv, NEW j \in WeekJob, NEW quiet, GatherQuestCandidates(j, quiet)
  PROVE  PointsIInv'
<1>1. PICK s : job' = [job EXCEPT ![j] = [NoJob(week) EXCEPT !.phase = "insert", !.picked = s,
                                            !.frozen = [g \in Generator |-> Frozen(g)]]]
  BY DEF GatherQuestCandidates
<1> DEFINE r == [NoJob(week) EXCEPT !.phase = "insert", !.picked = s,
                                    !.frozen = [g \in Generator |-> Frozen(g)]]
<1>2. r.xp = NoJob(week).xp /\ r.clean = {} /\ r.ran = week
  BY DEF NoJob
<1>3. UNCHANGED <<goods, events, xp, unlocked, cleanSince, write, recompute, hour, raced>>
  BY DEF GatherQuestCandidates, clock
<1>4. week \in Week /\ xp \in [Member -> Nat]
  BY DEF ScoringIInv, ScoringRows, PointsIInv, PointRows
<1>5. job' = [job EXCEPT ![j] = r]
  BY <1>1
<1> HIDE DEF r
<1>6. Raised(r.xp, xp) /\ \A u \in Member : r.xp[u] = Never
  BY <1>2, <1>4, NoPoints DEF Awarded
<1>7. Awarded(r, xp)
  BY <1>2, <1>4, <1>6 DEF Awarded
<1>8. \A u \in Member : r.xp[u] # Never => job[j].xp[u] # Never \/ LockProgress(j, u)
  BY <1>6
<1> QED
  BY <1>3, <1>5, <1>7, <1>8, JobScores

LEMMA StreakScores ==
  ASSUME ScoringIInv, PointsIInv, NEW j \in WeekJob, UpdateCleanStreak(j)
  PROVE  PointsIInv'
<1> DEFINE o == job[j]
<1>1. o \in JobRow(o) /\ DOMAIN job = WeekJob /\ o.phase = "insert"
  BY DEF UpdateCleanStreak, ScoringIInv, ScoringRows
<1>2. Awarded(o, xp)
  BY DEF PointsIInv
<1>3. UNCHANGED <<goods, events, xp, unlocked, cleanSince, write, recompute, hour, raced>>
  BY DEF UpdateCleanStreak, clock
<1> DEFINE clear == o.picked = {}
           days == 7 * (o.ran - cleanSince)
           c == IF clear /\ cleanSince = Never THEN {o.ran}
                ELSE IF ~clear /\ cleanSince # Never THEN {Never} ELSE {}
           d == IF clear /\ cleanSince # Never
                THEN {m \in DOMAIN Milestone : days >= Milestone[m].days} \X Member ELSE {}
<1>4. job' = [job EXCEPT ![j].phase = "pay", ![j].clean = c, ![j].due = d] /\ c \subseteq {o.ran, Never}
  BY DEF UpdateCleanStreak
<1> HIDE DEF c, d
<1> DEFINE r == [o EXCEPT !.phase = "pay", !.clean = c, !.due = d]
<1>5. job' = [job EXCEPT ![j] = r]
  BY <1>1, <1>4 DEF JobRow
<1> HIDE DEF o
<1>6. r.xp = o.xp /\ r.clean = c /\ r.ran = o.ran
  BY <1>1 DEF JobRow
<1> HIDE DEF r
<1>7. Awarded(r, xp)
  BY <1>1, <1>2, <1>4, <1>6 DEF Awarded
<1>8. \A u \in Member : r.xp[u] # Never => o.xp[u] # Never \/ LockProgress(j, u)
  BY <1>6
<1> QED
  BY <1>3, <1>5, <1>7, <1>8, JobScores DEF o

LEMMA MilestoneScores ==
  ASSUME ScoringIInv, PointsIInv, NEW j \in WeekJob, NEW m \in DOMAIN Milestone, NEW u \in Member,
         PayMilestone(j, m, u)
  PROVE  PointsIInv'
<1> DEFINE o == job[j]
           d == Milestone[m].xp
           b == BumpProgress(o.xp, u, d)
           r1 == [o EXCEPT !.due = o.due \ {<<m, u>>}]
           r2 == [o EXCEPT !.due = o.due \ {<<m, u>>}, !.awards = o.awards \cup {<<m, u>>}, !.xp = b]
<1>1. o \in JobRow(o) /\ DOMAIN job = WeekJob
  BY DEF ScoringIInv, ScoringRows
<1>2. Awarded(o, xp) /\ xp \in [Member -> Nat]
  BY DEF PointsIInv, PointRows
<1>3. UNCHANGED <<goods, events, xp, unlocked, cleanSince, write, recompute, hour, raced>>
  BY DEF PayMilestone, clock
<1>4. d \in Nat
  BY Zenon, PointsAssumption
<1>5. Raised(o.xp, xp)
  BY <1>2 DEF Awarded
<1>6. \/ job' = [job EXCEPT ![j] = r1]
      \/ job' = [job EXCEPT ![j] = r2] /\ LockProgress(j, u)
  BY <1>1 DEF PayMilestone, JobRow
<1> HIDE DEF d
<1>7. Raised(b, xp) /\ \A v \in Member \ {u} : b[v] = o.xp[v]
  BY <1>2, <1>4, <1>5, BumpRaises
<1> HIDE DEF b, o
<1>8. /\ r1.xp = o.xp /\ r1.clean = o.clean /\ r1.ran = o.ran /\ r1.phase = o.phase
      /\ r2.xp = b /\ r2.clean = o.clean /\ r2.ran = o.ran /\ r2.phase = o.phase
  BY <1>1 DEF JobRow
<1> HIDE DEF r1, r2
<1>9. CASE job' = [job EXCEPT ![j] = r1]
  <2>1. Awarded(r1, xp)
    BY <1>2, <1>8 DEF Awarded
  <2>2. \A v \in Member : r1.xp[v] # Never => o.xp[v] # Never \/ LockProgress(j, v)
    BY <1>8
  <2> QED
    BY <1>3, <1>9, <2>1, <2>2, JobScores DEF o
<1>10. CASE job' = [job EXCEPT ![j] = r2] /\ LockProgress(j, u)
  <2>1. Awarded(r2, xp)
    BY <1>2, <1>7, <1>8 DEF Awarded
  <2>2. \A v \in Member : r2.xp[v] # Never => o.xp[v] # Never \/ LockProgress(j, v)
    BY <1>7, <1>8, <1>10
  <2> QED
    BY <1>3, <1>10, <2>1, <2>2, JobScores DEF o
<1> QED
  BY <1>6, <1>9, <1>10

LEMMA FailedWeekScores ==
  ASSUME ScoringIInv, PointsIInv, NEW j \in WeekJob, WeekFails(j)
  PROVE  PointsIInv'
<1> DEFINE r == NoJob(job[j].ran)
<1>1. /\ job' = [job EXCEPT ![j] = r]
      /\ UNCHANGED <<goods, events, xp, unlocked, cleanSince, write, recompute, hour, raced>>
  BY DEF WeekFails, clock
<1>2. xp \in [Member -> Nat]
  BY DEF PointsIInv, PointRows
<1>3. Awarded(r, xp) /\ \A u \in Member : r.xp[u] # Never => job[j].xp[u] # Never \/ LockProgress(j, u)
  BY <1>2, NoPoints
<1> HIDE DEF r
<1> QED
  BY <1>1, <1>3, JobScores

-----------------------------------------------------------------------------
(* Commits *)

(* What a commit makes of the cache: no row falls, and a row nobody but the transaction
   holds is the same to everybody else. *)
LEMMA CommitRaises ==
  ASSUME NEW mine, xp \in [Member -> Nat], Raised(mine, xp)
  PROVE  LET c == Committed(mine)
         IN  /\ c \in [Member -> Nat]
             /\ \A u \in Member : c[u] >= xp[u] /\ c[u] = IF mine[u] # Never THEN mine[u] ELSE xp[u]
             /\ \A yours : Raised(yours, xp) /\ (\A u \in Member : mine[u] = Never \/ yours[u] = Never)
                           => Raised(yours, c)
<1> DEFINE c == Committed(mine)
<1>1. mine \in [Member -> Nat \cup {Never}] /\ \A v \in Member : mine[v] # Never => mine[v] >= xp[v]
  BY DEF Raised
<1>2. /\ c \in [Member -> Nat]
      /\ \A u \in Member : c[u] = IF mine[u] # Never THEN mine[u] ELSE xp[u]
  BY <1>1 DEF Committed
<1> HIDE DEF c
<1>3. \A u \in Member : c[u] >= xp[u]
  <2> SUFFICES ASSUME NEW u \in Member PROVE c[u] >= xp[u]
    OBVIOUS
  <2>1. xp[u] \in Nat
    OBVIOUS
  <2> QED
    BY <1>1, <1>2, <2>1
<1>4. ASSUME NEW yours, Raised(yours, xp), \A u \in Member : mine[u] = Never \/ yours[u] = Never
      PROVE  Raised(yours, c)
  BY <1>2, <1>4 DEF Raised
<1>5. /\ c \in [Member -> Nat]
      /\ \A u \in Member : c[u] >= xp[u] /\ c[u] = IF mine[u] # Never THEN mine[u] ELSE xp[u]
      /\ \A yours : Raised(yours, xp) /\ (\A u \in Member : mine[u] = Never \/ yours[u] = Never)
                    => Raised(yours, c)
  BY <1>2, <1>3, <1>4
<1> QED
  BY <1>5 DEF c

(* The other transactions, after a commit. *)
LEMMA OthersScore ==
  ASSUME NEW mine, xp \in [Member -> Nat], Raised(mine, xp), NEW r, NEW products,
         \A u \in Member : mine[u] = Never \/ r.xp[u] = Never
  PROVE  /\ Scored(r, xp, products) => Scored(r, Committed(mine), products)
         /\ Awarded(r, xp) => Awarded(r, Committed(mine))
<1> DEFINE c == Committed(mine)
<1>1. /\ \A u \in Member : c[u] = IF mine[u] # Never THEN mine[u] ELSE xp[u]
      /\ Raised(r.xp, xp) => Raised(r.xp, c)
  BY CommitRaises
<1> HIDE DEF c
<1>2. ASSUME Scored(r, xp, products)
      PROVE  Scored(r, c, products)
  <2>1. /\ Raised(r.xp, c)
        /\ r.phase \in {"idle", "bump"} => \A u \in Member : r.xp[u] = Never
        /\ r.phase # "idle" => r.user \in Member /\ r.good \in products /\ r.kind \in Deed /\ r.at \in 0..MaxHour
    BY <1>1, <1>2 DEF Scored
  <2>2. ASSUME r.phase \in {"quests", "pay"}
        PROVE  r.xp[r.user] # Never /\ r.xp[r.user] >= c[r.user] + XPForDeed(r.kind)
    <3>1. r.xp[r.user] # Never /\ r.xp[r.user] >= xp[r.user] + XPForDeed(r.kind) /\ r.user \in Member
      BY <1>2, <2>2 DEF Scored
    <3>2. c[r.user] = xp[r.user]
      BY <1>1, <3>1
    <3> QED
      BY <3>1, <3>2
  <2> QED
    BY <2>1, <2>2 DEF Scored
<1>3. ASSUME Awarded(r, xp)
      PROVE  Awarded(r, c)
  BY <1>1, <1>3 DEF Awarded
<1> QED
  BY <1>2, <1>3 DEF c

(* One more event is worth no more than its own points, and the user's row has them
   (CommitWrite). *)
LEMMA CommitScores ==
  ASSUME ScoringIInv, PointsIInv, NEW w \in Writer, CommitWrite(w)
  PROVE  PointsIInv'
<1> DEFINE o == write[w]
           e == [user |-> o.user, ref |-> o.good, kind |-> o.kind, at |-> o.at]
           c == Committed(o.xp)
<1>1. /\ DOMAIN write = Writer /\ o.phase = "quests" /\ events' = events \cup {e} /\ xp' = c
      /\ write' = [write EXCEPT ![w] = NoWrite]
      /\ UNCHANGED <<goods, unlocked, cleanSince, job, recompute, hour, raced>>
  BY DEF CommitWrite, clock, ScoringIInv, ScoringRows
<1>2. Scored(o, xp, goods) /\ xp \in [Member -> Nat]
  BY DEF PointsIInv, PointRows
<1>3. /\ Raised(o.xp, xp) /\ o.user \in Member /\ o.good \in goods /\ o.kind \in Deed /\ o.at \in 0..MaxHour
      /\ o.xp[o.user] # Never /\ o.xp[o.user] >= xp[o.user] + XPForDeed(o.kind)
  BY <1>1, <1>2 DEF Scored
<1>4. write'[w] = NoWrite /\ \A v \in Writer \ {w} : write'[v] = write[v]
  BY <1>1
<1>5. /\ c \in [Member -> Nat]
      /\ \A u \in Member : c[u] >= xp[u] /\ c[u] = IF o.xp[u] # Never THEN o.xp[u] ELSE xp[u]
  BY <1>2, <1>3, CommitRaises
<1>6. e \in EventRow /\ e.user = o.user /\ e.ref = o.good /\ e.kind = o.kind /\ e.at = o.at
  <2>1. goods \subseteq Good
    BY DEF ScoringIInv, ScoringRows
  <2> HIDE DEF o
  <2> QED
    BY <1>3, <2>1 DEF EventRow
<1>7. PointLocks(write, job)
  BY DEF PointsIInv
<1> HIDE DEF e
<1>8. PointRows'
  <2>1. events' \subseteq EventRow /\ IsFiniteSet(events')
    BY <1>1, <1>6, FS_AddElement DEF PointsIInv, PointRows
  <2> HIDE DEF c
  <2> QED
    BY <1>1, <1>5, <2>1 DEF PointsIInv, PointRows
<1>9. \A v \in Writer : Scored(write'[v], xp', goods')
  <2>1. ASSUME NEW v \in Writer, v # w
        PROVE  Scored(write[v], c, goods)
    <3>1. \A u \in Member : o.xp[u] = Never \/ write[v].xp[u] = Never
      BY <1>7, <2>1 DEF PointLocks
    <3>2. Scored(write[v], xp, goods)
      BY DEF PointsIInv
    <3> QED
      BY <1>2, <1>3, <3>1, <3>2, OthersScore
  <2>2. Scored(NoWrite, c, goods)
    <3>1. \A u \in Member : o.xp[u] = Never \/ NoWrite.xp[u] = Never
      BY <1>2, NoPoints
    <3>2. Scored(NoWrite, xp, goods)
      BY <1>2, NoPoints
    <3> QED
      BY <1>2, <1>3, <3>1, <3>2, OthersScore
  <2> QED
    BY <1>1, <1>4, <2>1, <2>2
<1>10. \A j \in WeekJob : Awarded(job'[j], xp')
  <2> SUFFICES ASSUME NEW j \in WeekJob
               PROVE  Awarded(job[j], c)
    BY <1>1
  <2>1. \A u \in Member : o.xp[u] = Never \/ job[j].xp[u] = Never
    BY <1>7 DEF PointLocks
  <2>2. Awarded(job[j], xp)
    BY DEF PointsIInv
  <2> QED
    BY <1>2, <1>3, <2>1, <2>2, OthersScore
<1>11. PointLocks(write', job')
  <2>1. \A u \in Member : write'[w].xp[u] = Never
    BY <1>2, <1>4, NoPoints
  <2> QED
    BY <1>1, <1>4, <1>7, <2>1 DEF PointLocks
<1>12. ASSUME NEW u \in recompute'.todo \ raced'
       PROVE  Fresh(By(recompute'.snapshot, u), By(events', u), goods')
  <2> DEFINE mine == By(recompute.snapshot, u)
  <2>1. Fresh(mine, By(events, u), goods)
    BY <1>1, <1>12 DEF PointsIInv
  <2>2. By(events, u) \subseteq By(events', u) /\ By(events', u) \subseteq By(events, u) \cup {e}
    BY <1>1 DEF By
  <2> SUFFICES ASSUME NEW x \in mine
               PROVE  \/ GroupOf(mine, KeyOf(x)) \subseteq By(events', u)
                      \/ x.ref \notin goods /\ GroupOf(By(events', u), KeyOf(x)) = {}
    BY <1>1 DEF Fresh
  <2> HIDE DEF mine
  <2>3. CASE GroupOf(mine, KeyOf(x)) \subseteq By(events, u)
    BY <2>2, <2>3
  <2>4. CASE x.ref \notin goods /\ GroupOf(By(events, u), KeyOf(x)) = {}
    <3>1. KeyOf(e) # KeyOf(x)
      BY <1>3, <1>6, <2>4 DEF KeyOf
    <3> QED
      BY <2>2, <2>4, <3>1 DEF GroupOf
  <2> QED
    BY <2>1, <2>3, <2>4 DEF Fresh
<1>13. NoXPLost'
  <2> SUFFICES ASSUME NEW u \in Member \ raced
               PROVE  c[u] >= Coalesce(By(events', u))
    BY <1>1 DEF NoXPLost, EventsOf, By
  <2>1. xp[u] >= Coalesce(By(events, u))
    BY DEF PointsIInv, NoXPLost, EventsOf, By
  <2>2. Timed(By(events, u))
    BY EventsTimed DEF PointsIInv, PointRows
  <2>3. xp[u] \in Nat /\ c[u] \in Nat /\ c[u] >= xp[u] /\ Coalesce(By(events, u)) \in Nat
    BY <1>2, <1>5, <2>2, GroupsAre
  <2>4. CASE u # o.user
    <3>1. By(events', u) = By(events, u)
      BY <1>1, <1>6, <2>4 DEF By
    <3> QED
      BY <2>1, <2>3, <3>1
  <2>5. CASE u = o.user
    <3>1. By(events', u) = By(events, u) \cup {e}
      BY <1>1, <1>6, <2>5 DEF By
    <3>2. e.at \in Nat
      <4>1. MaxHour \in Nat
        BY Zenon, PointsAssumption
      <4> QED
        BY <1>3, <1>6, <4>1
    <3>3. /\ Coalesce(By(events', u)) \in Nat /\ XPForDeed(e.kind) \in Nat
          /\ Coalesce(By(events', u)) <= Coalesce(By(events, u)) + XPForDeed(e.kind)
      BY <2>2, <3>1, <3>2, CoalesceSubadditive
    <3>4. c[u] >= xp[u] + XPForDeed(e.kind)
      BY <1>3, <1>5, <1>6, <2>5
    <3> HIDE DEF c
    <3> QED
      BY <2>1, <2>3, <3>3, <3>4
  <2> QED
    BY <2>4, <2>5
<1> QED
  BY <1>8, <1>9, <1>10, <1>11, <1>12, <1>13 DEF PointsIInv

(* GenerateWeeklyQuests commits the milestones' points. *)
LEMMA GenerateScores ==
  ASSUME ScoringIInv, PointsIInv, NEW j \in WeekJob, GenerateWeeklyQuests(j)
  PROVE  PointsIInv'
<1> DEFINE o == job[j]
           c == Committed(o.xp)
           n == NoJob(o.ran)
<1>1. /\ DOMAIN job = WeekJob /\ o.phase = "pay" /\ xp' = c /\ job' = [job EXCEPT ![j] = n]
      /\ unlocked' = unlocked \cup o.awards
      /\ cleanSince' = IF o.clean = {} THEN cleanSince ELSE CHOOSE x \in o.clean : TRUE
      /\ UNCHANGED <<goods, events, write, recompute, hour, raced>>
  BY DEF GenerateWeeklyQuests, clock, ScoringIInv, ScoringRows
<1>2. Awarded(o, xp) /\ xp \in [Member -> Nat]
  BY DEF PointsIInv, PointRows
<1>3. Raised(o.xp, xp) /\ o.clean \subseteq Week \cup {Never} /\ o.awards \subseteq (DOMAIN Milestone) \X Member
  <2>1. o \in JobRow(o)
    BY DEF ScoringIInv, ScoringRows
  <2>2. o.awards \subseteq (DOMAIN Milestone) \X Member
    <3> HIDE DEF o
    <3> QED
      BY <2>1 DEF JobRow
  <2> QED
    BY <1>2, <2>2 DEF Awarded
<1>4. job'[j] = n /\ \A i \in WeekJob \ {j} : job'[i] = job[i]
  BY <1>1
<1>5. /\ c \in [Member -> Nat] /\ \A u \in Member : c[u] >= xp[u]
  BY <1>2, <1>3, CommitRaises
<1>6. PointLocks(write, job)
  BY DEF PointsIInv
<1>7. Awarded(n, xp) /\ \A u \in Member : n.xp[u] = Never
  BY <1>2, NoPoints
<1> HIDE DEF n
<1>8. PointRows'
  <2>1. unlocked' \subseteq (DOMAIN Milestone \cup StorageAchievement) \X Member
    BY <1>1, <1>3 DEF PointsIInv, PointRows
  <2>2. cleanSince' \in Week \cup {Never}
    BY <1>1, <1>3 DEF PointsIInv, PointRows
  <2> HIDE DEF c
  <2> QED
    BY <1>1, <1>5, <2>1, <2>2 DEF PointsIInv, PointRows
<1>9. \A v \in Writer : Scored(write'[v], xp', goods')
  <2> SUFFICES ASSUME NEW v \in Writer
               PROVE  Scored(write[v], c, goods)
    BY <1>1
  <2>1. \A u \in Member : o.xp[u] = Never \/ write[v].xp[u] = Never
    BY <1>6 DEF PointLocks
  <2>2. Scored(write[v], xp, goods)
    BY DEF PointsIInv
  <2> QED
    BY <1>2, <1>3, <2>1, <2>2, OthersScore
<1>10. \A i \in WeekJob : Awarded(job'[i], xp')
  <2>1. ASSUME NEW i \in WeekJob, i # j
        PROVE  Awarded(job[i], c)
    <3>1. \A u \in Member : o.xp[u] = Never \/ job[i].xp[u] = Never
      BY <1>6, <2>1 DEF PointLocks
    <3>2. Awarded(job[i], xp)
      BY DEF PointsIInv
    <3> QED
      BY <1>2, <1>3, <3>1, <3>2, OthersScore
  <2>2. Awarded(n, c)
    <3>1. \A u \in Member : o.xp[u] = Never \/ n.xp[u] = Never
      BY <1>7
    <3> QED
      BY <1>2, <1>3, <1>7, <3>1, OthersScore
  <2> QED
    BY <1>1, <1>4, <2>1, <2>2
<1>11. PointLocks(write', job')
  BY <1>1, <1>4, <1>6, <1>7 DEF PointLocks
<1>12. \A u \in recompute'.todo \ raced' : Fresh(By(recompute'.snapshot, u), By(events', u), goods')
  BY <1>1 DEF PointsIInv
<1>13. NoXPLost'
  <2> SUFFICES ASSUME NEW u \in Member \ raced
               PROVE  c[u] >= Coalesce(By(events, u))
    BY <1>1 DEF NoXPLost, EventsOf, By
  <2>1. xp[u] >= Coalesce(By(events, u))
    BY DEF PointsIInv, NoXPLost, EventsOf, By
  <2>2. Timed(By(events, u))
    BY EventsTimed DEF PointsIInv, PointRows
  <2>3. xp[u] \in Nat /\ c[u] \in Nat /\ c[u] >= xp[u] /\ Coalesce(By(events, u)) \in Nat
    BY <1>2, <1>5, <2>2, GroupsAre
  <2> QED
    BY <2>1, <2>3
<1> QED
  BY <1>8, <1>9, <1>10, <1>11, <1>12, <1>13 DEF PointsIInv

-----------------------------------------------------------------------------
(* The catalogue, the clock, and the rebuild *)

(* No points, no events and no transaction change. *)
LEMMA PointsStay ==
  ASSUME PointsIInv, UNCHANGED <<goods, events, xp, cleanSince, write, job, recompute, raced>>,
         unlocked' \subseteq (DOMAIN Milestone \cup StorageAchievement) \X Member, hour' \in 0..MaxHour
  PROVE  PointsIInv'
<1>1. PointRows'
  BY DEF PointsIInv, PointRows
<1>2. \A v \in Writer : Scored(write'[v], xp', goods')
  BY DEF PointsIInv
<1>3. \A j \in WeekJob : Awarded(job'[j], xp')
  BY DEF PointsIInv
<1>4. \A u \in recompute'.todo \ raced' : Fresh(By(recompute'.snapshot, u), By(events', u), goods')
  BY DEF PointsIInv
<1>5. NoXPLost'
  BY DEF PointsIInv, NoXPLost, EventsOf
<1>6. PointLocks(write', job')
  BY DEF PointsIInv
<1> QED
  BY <1>1, <1>2, <1>3, <1>4, <1>5, <1>6 DEF PointsIInv

(* The log of a product goes with it.  Unless corrections of it were scored together with
   detections, a group stays as it is, or goes altogether. *)
LEMMA WholeGroups ==
  ASSUME events \subseteq EventRow, NEW p, NEW u \in Member \ Severed(p), NEW k
  PROVE  LET E == By(events, u)
             F == By({e \in events : e.ref = p => e.kind \notin Ledger}, u)
         IN  \/ GroupOf(F, k) = GroupOf(E, k)
             \/ k[1] = p /\ GroupOf(F, k) = {}
<1> DEFINE E == By(events, u)
           F == By({e \in events : e.ref = p => e.kind \notin Ledger}, u)
<1>1. F \subseteq E /\ \A e \in E : e \notin F => e.ref = p /\ e.kind \in Ledger
  BY DEF By
<1>2. \A e \in F : e.ref = p => e.kind \notin Ledger
  BY DEF By
<1>3. \A e \in E : e.kind \in Deed /\ e.kind # "confirm action"
  <2>1. "confirm action" \notin Deed
    BY Zenon, PointsAssumption
  <2> QED
    BY <2>1 DEF By, EventRow
<1>4. ~\E x, y \in E : x.ref = p /\ y.ref = p /\ x.kind = "vision_ingestion" /\ y.kind = "ai_correction"
  BY DEF Severed, EventsOf, By
<1> HIDE DEF E, F
<1>5. GroupOf(F, k) = {e \in F : KeyOf(e) = k} /\ GroupOf(E, k) = {e \in E : KeyOf(e) = k}
  BY DEF GroupOf
<1>6. \A e : KeyOf(e) = k => k[1] = e.ref /\ k[2] = CoalesceGroup(e.kind)
  BY DEF KeyOf
<1>7. ASSUME NEW x \in E, KeyOf(x) = k, x \notin F, NEW y \in F, KeyOf(y) = k
      PROVE  FALSE
  <2>1. x.ref = p /\ x.kind \in Ledger /\ y.ref = p /\ y.kind \notin Ledger /\ y \in E
    BY <1>1, <1>2, <1>6, <1>7
  <2>2. CoalesceGroup(x.kind) = CoalesceGroup(y.kind)
    BY <1>6, <1>7
  <2>3. x.kind = "vision_ingestion" /\ y.kind = "ai_correction"
    BY <1>3, <2>1, <2>2 DEF CoalesceGroup, Ledger
  <2> QED
    BY <1>4, <2>1, <2>3
<1>8. \/ GroupOf(F, k) = GroupOf(E, k)
      \/ k[1] = p /\ GroupOf(F, k) = {}
  BY <1>1, <1>5, <1>6, <1>7
<1> QED
  BY <1>8 DEF E, F

(* DropProduct *)
LEMMA DropScores ==
  ASSUME ScoringIInv, PointsIInv, NEW p \in Good, DropProduct(p)
  PROVE  PointsIInv'
<1>1. /\ p \in goods /\ goods' = goods \ {p} /\ events' = {e \in events : e.ref = p => e.kind \notin Ledger}
      /\ raced' = raced \cup Severed(p)
      /\ \A w \in Writer : write[w].phase # "idle" => write[w].good # p
      /\ UNCHANGED <<xp, unlocked, cleanSince, write, job, recompute, hour>>
  BY DEF DropProduct, clock
<1>2. events \subseteq EventRow /\ IsFiniteSet(events) /\ xp \in [Member -> Nat]
  BY DEF PointsIInv, PointRows
<1>3. ASSUME NEW u \in Member \ Severed(p), NEW k
      PROVE  \/ GroupOf(By(events', u), k) = GroupOf(By(events, u), k)
             \/ k[1] = p /\ GroupOf(By(events', u), k) = {}
  BY <1>1, <1>2, WholeGroups
<1>4. PointRows'
  <2>1. events' \in SUBSET events
    BY <1>1
  <2>2. IsFiniteSet(events') /\ events' \subseteq EventRow
    BY <1>2, <2>1, FS_Subset
  <2>3. raced' \subseteq Member
    BY <1>1 DEF PointsIInv, PointRows, Severed
  <2> QED
    BY <1>1, <2>2, <2>3 DEF PointsIInv, PointRows
<1>5. \A v \in Writer : Scored(write'[v], xp', goods')
  BY <1>1 DEF PointsIInv, Scored
<1>6. \A j \in WeekJob : Awarded(job'[j], xp')
  BY <1>1 DEF PointsIInv
<1>7. PointLocks(write', job')
  BY <1>1 DEF PointsIInv
<1>8. ASSUME NEW u \in recompute'.todo \ raced'
      PROVE  Fresh(By(recompute'.snapshot, u), By(events', u), goods')
  <2> DEFINE mine == By(recompute.snapshot, u)
  <2>1. Fresh(mine, By(events, u), goods) /\ u \in Member \ Severed(p)
    BY <1>1, <1>8 DEF PointsIInv, PointRows
  <2> SUFFICES ASSUME NEW x \in mine
               PROVE  \/ GroupOf(mine, KeyOf(x)) \subseteq By(events', u)
                      \/ x.ref \notin goods' /\ GroupOf(By(events', u), KeyOf(x)) = {}
    BY <1>1 DEF Fresh
  <2> HIDE DEF mine
  <2>2. \/ GroupOf(By(events', u), KeyOf(x)) = GroupOf(By(events, u), KeyOf(x))
        \/ KeyOf(x)[1] = p /\ GroupOf(By(events', u), KeyOf(x)) = {}
    BY <1>3, <2>1
  <2>3. CASE GroupOf(By(events', u), KeyOf(x)) = GroupOf(By(events, u), KeyOf(x))
    <3>1. CASE GroupOf(mine, KeyOf(x)) \subseteq By(events, u)
      <4>1. GroupOf(mine, KeyOf(x)) \subseteq GroupOf(By(events, u), KeyOf(x))
        BY <3>1 DEF GroupOf
      <4>2. GroupOf(By(events', u), KeyOf(x)) \subseteq By(events', u)
        BY DEF GroupOf
      <4> QED
        BY <2>3, <4>1, <4>2
    <3>2. CASE x.ref \notin goods /\ GroupOf(By(events, u), KeyOf(x)) = {}
      BY <1>1, <2>3, <3>2
    <3> QED
      BY <2>1, <3>1, <3>2 DEF Fresh
  <2>4. CASE KeyOf(x)[1] = p /\ GroupOf(By(events', u), KeyOf(x)) = {}
    <3>1. x.ref = p
      BY <2>4 DEF KeyOf
    <3> QED
      BY <1>1, <2>4, <3>1
  <2> QED
    BY <2>2, <2>3, <2>4
<1>9. NoXPLost'
  <2> SUFFICES ASSUME NEW u \in Member \ raced'
               PROVE  xp[u] >= Coalesce(By(events', u))
    BY <1>1 DEF NoXPLost, EventsOf, By
  <2> DEFINE E == By(events, u)
             F == By(events', u)
  <2>1. xp[u] >= Coalesce(E) /\ u \in Member \ Severed(p)
    BY <1>1 DEF PointsIInv, NoXPLost, EventsOf, By
  <2>2. Timed(E)
    BY <1>2, EventsTimed
  <2>3. F \subseteq E
    BY <1>1 DEF By
  <2>4. Timed(F)
    BY <2>2, <2>3, FS_Subset DEF Timed
  <2>5. \A k : GroupOf(F, k) = GroupOf(E, k) \/ GroupOf(F, k) = {}
    BY <1>3, <2>1
  <2> HIDE DEF E, F
  <2>6. \A x \in F : GroupOf(F, KeyOf(x)) = GroupOf(E, KeyOf(x))
    <3> SUFFICES ASSUME NEW x \in F
                 PROVE  GroupOf(F, KeyOf(x)) = GroupOf(E, KeyOf(x))
      OBVIOUS
    <3>1. x \in GroupOf(F, KeyOf(x))
      BY DEF GroupOf
    <3> QED
      BY <2>5, <3>1
  <2>7. Coalesce(F) <= Coalesce(E)
    BY <2>2, <2>3, <2>6, CoalesceFewer
  <2>8. Coalesce(F) \in Nat /\ Coalesce(E) \in Nat /\ xp[u] \in Nat
    BY <1>2, <2>2, <2>4, GroupsAre
  <2>9. xp[u] >= Coalesce(F)
    BY <2>1, <2>7, <2>8
  <2> QED
    BY <2>9 DEF F
<1> QED
  BY <1>4, <1>5, <1>6, <1>7, <1>8, <1>9 DEF PointsIInv

(* A snapshot has everything there is (LoadRecomputeSnapshot). *)
LEMMA LoadScores ==
  ASSUME PointsIInv, LoadRecomputeSnapshot
  PROVE  PointsIInv'
<1> DEFINE r == [phase |-> "write", snapshot |-> events, todo |-> Member]
<1>1. recompute' = r /\ UNCHANGED <<goods, events, xp, unlocked, cleanSince, write, job, hour, raced>>
  BY DEF LoadRecomputeSnapshot, clock
<1>2. r.phase = "write" /\ r.snapshot = events /\ r.todo = Member
      /\ r = [phase |-> r.phase, snapshot |-> r.snapshot, todo |-> r.todo]
  OBVIOUS
<1> HIDE DEF r
<1>3. PointRows'
  BY <1>1, <1>2 DEF PointsIInv, PointRows
<1>4. \A u \in recompute'.todo \ raced' : Fresh(By(recompute'.snapshot, u), By(events', u), goods')
  BY <1>1, <1>2 DEF Fresh, GroupOf
<1>5. NoXPLost'
  BY <1>1 DEF PointsIInv, NoXPLost, EventsOf
<1> QED
  BY <1>1, <1>3, <1>4, <1>5 DEF PointsIInv

(* The rebuild gives up (RecomputeFails). *)
LEMMA FailedRebuildScores ==
  ASSUME PointsIInv, RecomputeFails
  PROVE  PointsIInv'
<1> DEFINE r == [phase |-> "idle", snapshot |-> {}, todo |-> {}]
<1>1. recompute' = r /\ UNCHANGED <<goods, events, xp, unlocked, cleanSince, write, job, hour, raced>>
  BY DEF RecomputeFails, clock
<1>2. r.phase = "idle" /\ r.snapshot = {} /\ r.todo = {}
      /\ r = [phase |-> r.phase, snapshot |-> r.snapshot, todo |-> r.todo]
  OBVIOUS
<1> HIDE DEF r
<1>3. PointRows'
  BY <1>1, <1>2, FS_EmptySet DEF PointsIInv, PointRows
<1>4. \A u \in recompute'.todo \ raced' : Fresh(By(recompute'.snapshot, u), By(events', u), goods')
  BY <1>1, <1>2
<1>5. NoXPLost'
  BY <1>1 DEF PointsIInv, NoXPLost, EventsOf
<1> QED
  BY <1>1, <1>3, <1>4, <1>5 DEF PointsIInv

(* A member's row is overwritten by what the snapshot is worth, while nobody holds it
   (RecomputeOnePair). *)
LEMMA RebuildScores ==
  ASSUME PointsIInv, NEW u \in Member, RecomputeOnePair(u)
  PROVE  PointsIInv'
<1> DEFINE mine == By(recompute.snapshot, u)
           n == Coalesce(mine)
<1>1. /\ u \in recompute.todo /\ Holders(u) = {} /\ xp' = [xp EXCEPT ![u] = n]
      /\ UNCHANGED <<goods, events, unlocked, cleanSince, write, job, hour>>
  BY DEF RecomputeOnePair, clock, By
<1>2. raced' = IF By(events, u) = mine THEN raced \ {u}
               ELSE IF By(events, u) \subseteq mine THEN raced ELSE raced \cup {u}
  BY DEF RecomputeOnePair, By, EventsOf
<1>3. /\ xp \in [Member -> Nat] /\ recompute.snapshot \subseteq EventRow /\ IsFiniteSet(recompute.snapshot)
      /\ events \subseteq EventRow /\ IsFiniteSet(events) /\ raced \subseteq Member
  BY DEF PointsIInv, PointRows
<1>4. Timed(mine) /\ \A v : Timed(By(events, v))
  BY <1>3, EventsTimed
<1>5. n \in Nat
  BY <1>4, GroupsAre
<1>6. /\ \A w \in Writer : write[w].xp[u] = Never
      /\ \A j \in WeekJob : job[j].xp[u] = Never
  BY <1>1 DEF Holders
<1>7. /\ PointRows'
      /\ recompute'.todo \subseteq recompute.todo \ {u}
      /\ recompute'.todo # {} => recompute'.snapshot = recompute.snapshot
  <2> DEFINE r1 == [phase |-> "idle", snapshot |-> {}, todo |-> {}]
             r2 == [recompute EXCEPT !.todo = @ \ {u}]
  <2>1. recompute' = IF recompute.todo = {u} THEN r1 ELSE r2
    BY DEF RecomputeOnePair
  <2>2. /\ recompute.phase \in {"idle", "write"} /\ recompute.todo \subseteq Member
        /\ recompute = [phase |-> recompute.phase, snapshot |-> recompute.snapshot, todo |-> recompute.todo]
    BY DEF PointsIInv, PointRows
  <2>3. /\ r1.phase = "idle" /\ r1.snapshot = {} /\ r1.todo = {}
        /\ r1 = [phase |-> r1.phase, snapshot |-> r1.snapshot, todo |-> r1.todo]
    OBVIOUS
  <2>4. r2 = [phase |-> recompute.phase, snapshot |-> recompute.snapshot, todo |-> recompute.todo \ {u}]
    BY <2>2
  <2>5. /\ r2.phase = recompute.phase /\ r2.snapshot = recompute.snapshot /\ r2.todo = recompute.todo \ {u}
        /\ r2 = [phase |-> r2.phase, snapshot |-> r2.snapshot, todo |-> r2.todo]
    BY <2>4
  <2> HIDE DEF r1, r2
  <2>6. recompute' = r1 \/ recompute' = r2
    BY <2>1
  <2>7. /\ recompute'.phase \in {"idle", "write"} /\ recompute'.todo \subseteq Member
        /\ recompute' = [phase |-> recompute'.phase, snapshot |-> recompute'.snapshot, todo |-> recompute'.todo]
        /\ recompute'.snapshot \subseteq EventRow /\ IsFiniteSet(recompute'.snapshot)
    <3>1. CASE recompute' = r1
      BY <2>3, <3>1, FS_EmptySet
    <3>2. CASE recompute' = r2
      BY <1>3, <2>2, <2>5, <3>2
    <3> QED
      BY <2>6, <3>1, <3>2
  <2>8. xp' \in [Member -> Nat] /\ raced' \subseteq Member
    <3> HIDE DEF n, mine
    <3> QED
      BY <1>1, <1>2, <1>3, <1>5
  <2>9. /\ recompute'.todo \subseteq recompute.todo \ {u}
        /\ recompute'.todo # {} => recompute'.snapshot = recompute.snapshot
    BY <2>3, <2>5, <2>6
  <2> QED
    BY <1>1, <2>7, <2>8, <2>9 DEF PointsIInv, PointRows
<1>8. xp'[u] = n /\ \A v \in Member \ {u} : xp'[v] = xp[v]
  <2> HIDE DEF n
  <2> QED
    BY <1>1, <1>3
<1>9. \A w \in Writer : Scored(write'[w], xp', goods')
  <2> SUFFICES ASSUME NEW w \in Writer
               PROVE  Scored(write[w], xp', goods)
    BY <1>1
  <2>1. Scored(write[w], xp, goods) /\ write[w].xp[u] = Never
    BY <1>6 DEF PointsIInv
  <2>2. Raised(write[w].xp, xp')
    BY <1>8, <2>1 DEF Scored, Raised
  <2>3. write[w].phase \in {"quests", "pay"} => write[w].user # u
    BY <2>1 DEF Scored
  <2>4. write[w].phase \in {"quests", "pay"} => xp'[write[w].user] = xp[write[w].user]
    BY <1>8, <2>1, <2>3 DEF Scored
  <2> QED
    BY <2>1, <2>2, <2>4 DEF Scored
<1>10. \A j \in WeekJob : Awarded(job'[j], xp')
  <2> SUFFICES ASSUME NEW j \in WeekJob
               PROVE  Awarded(job[j], xp')
    BY <1>1
  <2>1. Awarded(job[j], xp) /\ job[j].xp[u] = Never
    BY <1>6 DEF PointsIInv
  <2>2. Raised(job[j].xp, xp')
    BY <1>8, <2>1 DEF Awarded, Raised
  <2> QED
    BY <2>1, <2>2 DEF Awarded
<1>11. PointLocks(write', job')
  BY <1>1 DEF PointsIInv
<1>12. ASSUME NEW v \in recompute'.todo \ raced'
       PROVE  Fresh(By(recompute'.snapshot, v), By(events', v), goods')
  <2>1. v # u /\ v \in recompute.todo \ raced /\ recompute'.snapshot = recompute.snapshot
    BY <1>2, <1>7, <1>12
  <2> QED
    BY <1>1, <2>1 DEF PointsIInv
<1>13. NoXPLost'
  <2> SUFFICES ASSUME NEW v \in Member \ raced'
               PROVE  xp'[v] >= Coalesce(By(events, v))
    BY <1>1 DEF NoXPLost, EventsOf, By
  <2>1. CASE v # u
    BY <1>2, <1>8, <2>1 DEF PointsIInv, NoXPLost, EventsOf, By
  <2>2. CASE v = u /\ By(events, u) = mine
    <3>1. xp'[v] = Coalesce(By(events, v))
      BY <1>8, <2>2
    <3> QED
      BY <1>5, <1>8, <2>2, <3>1
  <2>3. CASE v = u /\ By(events, u) # mine
    <3> DEFINE E == By(events, u)
    <3>1. E \subseteq mine /\ u \notin raced
      BY <1>2, <2>3
    <3>2. Fresh(mine, E, goods)
      BY <1>1, <3>1 DEF PointsIInv
    <3>3. Timed(mine)
      BY <1>4
    <3> HIDE DEF mine, E
    <3>4. \A x \in E : GroupOf(E, KeyOf(x)) = GroupOf(mine, KeyOf(x))
      <4> SUFFICES ASSUME NEW x \in E
                   PROVE  GroupOf(E, KeyOf(x)) = GroupOf(mine, KeyOf(x))
        OBVIOUS
      <4>1. x \in GroupOf(E, KeyOf(x)) /\ x \in mine
        BY <3>1 DEF GroupOf
      <4>2. GroupOf(mine, KeyOf(x)) \subseteq E
        BY <3>2, <4>1 DEF Fresh
      <4> QED
        BY <3>1, <4>2 DEF GroupOf
    <3>5. Coalesce(E) <= Coalesce(mine)
      BY <3>1, <3>3, <3>4, CoalesceFewer
    <3>6. Coalesce(E) \in Nat /\ Coalesce(mine) \in Nat
      BY <1>4, <3>3, GroupsAre DEF E
    <3>7. Coalesce(mine) >= Coalesce(E)
      BY <3>5, <3>6
    <3> QED
      BY <1>8, <2>3, <3>7 DEF E
  <2> QED
    BY <2>1, <2>2, <2>3
<1> QED
  BY <1>7, <1>9, <1>10, <1>11, <1>12, <1>13 DEF PointsIInv

-----------------------------------------------------------------------------
LEMMA PointsStart == ScoringInit => PointsIInv
<1> SUFFICES ASSUME ScoringInit
             PROVE  PointsIInv
  OBVIOUS
<1>1. /\ events = {} /\ xp = [u \in Member |-> 0] /\ unlocked = {} /\ cleanSince = Never /\ hour = 0 /\ raced = {}
      /\ write = [w \in Writer |-> NoWrite] /\ job = [j \in WeekJob |-> NoJob(0)]
      /\ recompute = [phase |-> "idle", snapshot |-> {}, todo |-> {}]
  BY DEF ScoringInit
<1>2. xp \in [Member -> Nat] /\ \A u \in Member : xp[u] = 0
  BY <1>1
<1>3. PointRows
  <2>1. hour \in 0..MaxHour
    <3>1. MaxHour \in Nat
      BY Zenon, PointsAssumption
    <3> QED
      BY <1>1, <3>1
  <2>2. /\ recompute.phase \in {"idle", "write"} /\ recompute.todo = {} /\ recompute.snapshot = {}
        /\ recompute = [phase |-> recompute.phase, snapshot |-> recompute.snapshot, todo |-> recompute.todo]
    BY <1>1
  <2> QED
    BY <1>1, <1>2, <2>1, <2>2, FS_EmptySet DEF PointRows
<1>4. (\A w \in Writer : write[w] = NoWrite) /\ \A j \in WeekJob : job[j] = NoJob(0)
  BY <1>1
<1>5. /\ Scored(NoWrite, xp, goods) /\ \A u \in Member : NoWrite.xp[u] = Never
      /\ Awarded(NoJob(0), xp) /\ \A u \in Member : NoJob(0).xp[u] = Never
  BY <1>2, NoPoints
<1>6. PointLocks(write, job)
  BY <1>4, <1>5 DEF PointLocks
<1>7. recompute.todo = {}
  BY <1>1
<1>8. NoXPLost
  <2> SUFFICES ASSUME NEW u \in Member
               PROVE  xp[u] >= Coalesce(By(events, u))
    BY DEF NoXPLost, EventsOf, By
  <2>1. By(events, u) = {} /\ KeysOf({}) = {}
    BY <1>1 DEF By, KeysOf
  <2>2. Timed({})
    BY FS_EmptySet DEF Timed
  <2>3. Coalesce({}) = SumOf(WorthOf({}), KeysOf({}))
    BY <2>2, GroupsAre
  <2>4. Coalesce({}) = 0
    BY <2>1, <2>3, SumEmpty
  <2> QED
    BY <1>2, <2>1, <2>4
<1> QED
  BY <1>3, <1>4, <1>5, <1>6, <1>7, <1>8 DEF PointsIInv

LEMMA PointsSteps == ScoringIInv /\ PointsIInv /\ [ScoringNext]_scoringVars => PointsIInv'
<1> SUFFICES ASSUME ScoringIInv, PointsIInv, [ScoringNext]_scoringVars
             PROVE  PointsIInv'
  OBVIOUS
<1>1. ASSUME WritesNext(Good, Deed)
      PROVE  PointsIInv'
  <2>1. ASSUME NEW w \in Writer, NEW u \in Member, NEW p \in Good, NEW g \in Generator,
               "metadata_filled" \in Deed, FillIn(w, u, g, p)
        PROVE  PointsIInv'
    BY <2>1, EventScores
  <2>2. ASSUME NEW w \in Writer, NEW u \in Member, NEW p \in Good, NEW k \in Deed, NEW e \in BOOLEAN,
               Score(w, u, k, p, e)
        PROVE  PointsIInv'
    BY <2>2, EventScores
  <2>3. ASSUME NEW w \in Writer, Bump(w) \/ AdvanceOneQuest(w) \/ CommitWrite(w) \/ RollBack(w)
        PROVE  PointsIInv'
    BY <2>3, BumpScores, AdvanceScores, CommitScores, RollBackScores
  <2>4. ASSUME NEW w \in Writer, NEW u \in Member, PayContributor(w, u)
        PROVE  PointsIInv'
    BY <2>4, PayScores
  <2> QED
    BY <1>1, <2>1, <2>2, <2>3, <2>4 DEF WritesNext
<1>2. /\ unlocked \subseteq (DOMAIN Milestone \cup StorageAchievement) \X Member
      /\ hour \in 0..MaxHour
  BY DEF PointsIInv, PointRows
<1>3. ASSUME GoodsNext
      PROVE  PointsIInv'
  <2>1. ASSUME NEW g \in Generator, NEW p \in Good, MeetQuietly(g, p)
        PROVE  PointsIInv'
    <3>1. UNCHANGED <<goods, events, xp, unlocked, cleanSince, write, job, recompute, raced, hour>>
      BY <2>1 DEF MeetQuietly, clock
    <3> QED
      BY <1>2, <3>1, PointsStay
  <2> QED
    BY <1>3, <2>1, DropScores DEF GoodsNext
<1>4. ASSUME RunWeeklyGamificationJobs(WeekJob)
      PROVE  PointsIInv'
  <2>1. ASSUME NEW j \in WeekJob, NEW quiet \in SUBSET Generator, GatherQuestCandidates(j, quiet)
        PROVE  PointsIInv'
    BY <2>1, GatherScores
  <2>2. ASSUME NEW j \in WeekJob, UpdateCleanStreak(j) \/ GenerateWeeklyQuests(j) \/ WeekFails(j)
        PROVE  PointsIInv'
    BY <2>2, StreakScores, GenerateScores, FailedWeekScores
  <2>3. ASSUME NEW j \in WeekJob, NEW m \in DOMAIN Milestone, NEW u \in Member, PayMilestone(j, m, u)
        PROVE  PointsIInv'
    BY <2>3, MilestoneScores
  <2> QED
    BY <1>4, <2>1, <2>2, <2>3 DEF RunWeeklyGamificationJobs
<1>5. ASSUME RecomputeAllProgress
      PROVE  PointsIInv'
  BY <1>5, LoadScores, RebuildScores, FailedRebuildScores DEF RecomputeAllProgress
<1>6. ASSUME RunNightlyStorageAchievements
      PROVE  PointsIInv'
  <2>1. PICK a \in StorageAchievement : AwardToEveryMember(a)
    BY <1>6 DEF RunNightlyStorageAchievements
  <2>2. /\ UNCHANGED <<goods, events, xp, cleanSince, write, job, recompute, raced, hour>>
        /\ unlocked' = unlocked \cup ({a} \X Member)
    BY <2>1 DEF AwardToEveryMember, clock
  <2>3. unlocked' \subseteq (DOMAIN Milestone \cup StorageAchievement) \X Member
    BY <1>2, <2>2
  <2> QED
    BY <1>2, <2>2, <2>3, PointsStay
<1>7. ASSUME PassHour
      PROVE  PointsIInv'
  <2>1. UNCHANGED <<goods, events, xp, unlocked, cleanSince, write, job, recompute, raced>>
    BY <1>7 DEF PassHour
  <2>2. hour' \in 0..MaxHour
    <3>1. MaxHour \in Nat
      BY Zenon, PointsAssumption
    <3>2. hour < MaxHour /\ hour' = hour + 1
      BY <1>7 DEF PassHour
    <3> QED
      BY <1>2, <3>1, <3>2
  <2> QED
    BY <1>2, <2>1, <2>2, PointsStay
<1>8. ASSUME NewWeek \/ UNCHANGED scoringVars
      PROVE  PointsIInv'
  <2>1. UNCHANGED <<goods, events, xp, unlocked, cleanSince, write, job, recompute, raced, hour>>
    BY <1>8 DEF NewWeek, scoringVars
  <2> QED
    BY <1>2, <2>1, PointsStay
<1> QED
  BY <1>1, <1>3, <1>4, <1>5, <1>6, <1>7, <1>8 DEF ScoringNext

(* The inductive invariant of the points: who has raised a row holds it, from what is
   committed, and what has gone since a rebuild's snapshot has gone in whole groups. *)
THEOREM PointsInvariant == ScoringSpec => []PointsIInv
BY ScoringInvariant, PointsStart, PointsSteps, PTL DEF ScoringSpec

(* No points are lost: with any number of writers, weekly jobs and a rebuild, a member's
   cached points are at least what the committed events are worth, whatever is bumped,
   paid, rolled back or deleted in between, until a rebuild overwrites them from a snapshot
   that events have been added to, or a deletion cuts a window (bumpProgress,
   recomputeOnePair, CoalesceXP). *)
THEOREM NoPointsLost == ScoringSpec => []NoXPLost
<1>1. PointsIInv => NoXPLost
  BY DEF PointsIInv
<1> QED
  BY <1>1, PointsInvariant, PTL

(* Type correctness of the scoring of one storage: in every reachable state rows hold
   values of their columns. *)
THEOREM ScoringTypeCorrect == ScoringSpec => []ScoringTypeOK
<1>1. ScoringIInv /\ PointsIInv => ScoringTypeOK
  <2> SUFFICES ASSUME ScoringIInv, PointsIInv
               PROVE  ScoringTypeOK
    OBVIOUS
  <2>1. \A k \in QuestKey : quest[k].helpers \subseteq Member /\ quest[k].frozen \subseteq Good
    <3> SUFFICES ASSUME NEW k \in QuestKey
                 PROVE  quest[k].helpers \subseteq Member /\ quest[k].frozen \subseteq Good
      OBVIOUS
    <3>1. quest[k] \in QuestRow
      BY DEF ScoringIInv, ScoringRows
    <3> QED
      BY <3>1 DEF QuestRow
  <2>2. \A w \in Writer : write[w].held \subseteq QuestKey /\ write[w].pays \subseteq Member
    <3> SUFFICES ASSUME NEW w \in Writer
                 PROVE  write[w].held \subseteq QuestKey /\ write[w].pays \subseteq Member
      OBVIOUS
    <3> DEFINE r == write[w]
    <3>1. r \in WriteRow(r)
      BY DEF ScoringIInv, ScoringRows
    <3> HIDE DEF r
    <3>2. r.held \subseteq QuestKey /\ r.pays \subseteq Member
      BY <3>1 DEF WriteRow
    <3> QED
      BY <3>2 DEF r
  <2>3. goods \subseteq Good /\ silent \subseteq QuestKey
    BY DEF ScoringIInv, ScoringRows
  <2>4. /\ events \subseteq [user : Member, ref : Good, kind : Deed, at : 0..MaxHour]
        /\ xp \in [Member -> Nat] /\ raced \subseteq Member
        /\ unlocked \subseteq (DOMAIN Milestone \cup StorageAchievement) \X Member
        /\ cleanSince \in Week \cup {Never}
    BY DEF PointsIInv, PointRows, EventRow
  <2> QED
    BY <2>1, <2>2, <2>3, <2>4 DEF ScoringTypeOK
<1> QED
  BY <1>1, ScoringInvariant, PointsInvariant, PTL
=============================================================================
