SPECIFICATION HouseholdSpec
CONSTANTS
    p1 = p1
    p2 = p2
    k1 = k1
    Code = {c1, c2}
    Item = {p1, p2, p3}
    Lot = {1, 2, 3}
    Card = {k1}
    Scanner = {s1, s2}
    Reader = {r1}
    FirstItems <- MCFirstItems
    FirstLots <- MCFirstLots
    Quantity = {1, 2}
    MaxScans = 2
    MaxEdits = 2
    Nobody = Nobody
    Line = {1, 2}
    Ware = {1, 2, 3}
    Picture = {1, 2}
    Amount = {1, 2}
    Shopper = {s1, s2}
    PhotoJob = {photo1}
    ListJob = {photo2}
    MaxRequests = 3
    None = None
    j1 = j1
    Member = {u1, u2}
    Good = {1, 2}
    Generator = {"uncategorized", "consumption_hygiene"}
    Deed = {"metadata_filled", "consumption", "vision_ingestion", "ai_correction"}
    Writer = {w1, w2}
    WeekJob = {j1, j2}
    Threshold = 2
    QuestLimit = 1
    Milestone <- MCMilestone
    StorageAchievement = {"well_stocked"}
    ScoreWindow = 2
    MaxDeeds = 3
    MaxHour = 2
    MaxWeek = 2
    Never = Never
    h1 = h1
    h2 = h2
    b1 = b1
    b2 = b2
    House = {h1, h2}
    Crate = {b1, b2}
    FirstSettings <- MCFirstSettings
    FirstExpires <- MCFirstExpires
    HouseOf <- MCHouseOf
    ExpiryDay = {0, 4, 15}
    Ticker = {t1, t2}
    HourOfDay = {0, 1}
    CriticalWithinDays = 3
    SoonWithinDays = 14
    MaxDay = 2
    MaxChanges = 1
    Unset = Unset
SYMMETRY Alike
INVARIANTS HouseholdTypeOK ScansCountOnce ShoppingSettlesOnce   OneDigestPerDay
\* Every counter is bounded, and a household may stop using the program.
CHECK_DEADLOCK FALSE
