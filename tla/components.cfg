SPECIFICATION Spec
CONSTANTS
    a = a
    b = b
    f = f
    r = r
    Selected <- MCSelected
    Reserve <- MCReserve
    Days = 2
    Protected = {a}
    Pin <- MCPin
    Open <- MCOpen
    NoMeal <- MCNoMeal
    Apart <- MCApart
    Seatable <- MCSeatable
    Load = 3
    Value <- MCValue
    MaxRounds = 3
    MaxDaySolves = 5
    MaxReplacements = 1
    Quantum = 2
    DayStart = 2
    DayEnd = 26
    Cap = 20
    BreakLength = 4
    MealWindow <- MCMealWindow
    Required = {"lunch", "dinner"}
    Visit <- MCVisit
    Stay <- MCStay
    Hours <- MCHours
    Food = {"cafe"}
    Travel = {0, 1, 3}
    DayCounts <- MCDays
    CheckBudget = 3
    CheckCeiling = 4
    GuideBudget = 1
    ReelGoal = 2
    PoolPerDay = 1
    Batch = 2
    MaxSearches = 4
    ColdStartSearches = 4
    MaxLowYield = 3
    MaxDuplicates = 2
    MaxErrors = 2
    MaxAttempts = 2
    Platform = {"instagram", "rednote"}
    ReelPlatform = "instagram"
    Chinese = TRUE
    MaxNew = 2
    Stops = {"s1", "s2", "s3"}
    Near <- MCNear
    InRange <- MCInRange
    Departure = {"d1", "d2"}
    Chain <- MCChain
    MaxLocations <- MCLocations
    MaxArcs <- MCArcs
    MaxRequests = 2
    Account = {"lena", "ben", "cy"}
    Leader = "lena"
    Active = {"ben"}
    Invite = {"i1"}
    MaxUses <- MCMaxUses
    MaxRestarts = 1
    Link = {"l1", "l2"}
    Named = {"l2"}
    Covered = {"l1"}
    CityCount = 1
    MaxNames = 1
    State <- MCState
    NoState = "no state"
    Tool <- MCTool
    NoTool <- MCNoTool
    Window = 2
    StateRepeats = 2
    ToolRepeats = 2
    MaxSteps = 4
    MaxCost = 2
    CallCost = {1, 2}
    Request = {q1, q2}
    NoRequest = none
    MaxPasswords = 3
    MaxCodes = 2
    MaxNonces = 2
    Listing = {"f1", "f2", "s1", "s2", "x1"}
    Eatery = {"f1", "f2"}
    TripCity = {"c1", "c2"}
    NoCity = "no city"
    NearCity <- MCNearCity
    Inadmissible = {"x1"}
    Weak = {"s2"}
    Twin = {{"f1", "f2"}}
    Conflicting = {"f1"}
    Pasted = {"s1"}
    DaysIn <- MCDaysIn
    CardsPerDay = 2
    MealsPerDay = 1
    SightsPerDay = 1
    MaxLoss = 1
    Site <- MCSite
    SamePlace = {{"garden", "twin"}, {"bar", "pub"}}
    Outdoor = {"garden", "shrine", "twin"}
    Unfit = {"meat"}
    OpenIn <- MCOpenIn
    Length <- MCLength
    FirstPlan <- MCFirstPlan
    FirstPool = {"garden", "booked", "market", "shrine", "spare"}
    FoundByOthers = {"pub"}
    FirstHour = 1
    LastHour = 5
    MaxDelay = 1
    MaxAlternatives = 2
    MaxRescues = 2
    Companion = {"lena", "ben"}
    PlanKeys = {"place"}
    Title = {"t1", "t2"}
    MaxItems = 1
    MaxRows = 2
    MaxRevision = 2
    Hotel = {"h1", "h2"}
    Unlisted = {}
    NoHotel = "no hotel"
    MaxOptions = 1
    Voter = {"lena", "ben"}
    Card = {"p1", "y1", "t1", "o1", "o2", "o3", "x1"}
    Lane <- MCLane
    LanePriority <- MCLanePriority
    EvidenceRank <- MCRank
    NameRank <- MCRank
    HardConflict = {"x1"}
    Contested = {"t1", "o1"}
    MaxSwipes = 2
    Seats = 1
    FirstDeal <- MCFirstDeal
    Badged = {"t1"}
INVARIANTS
    EveryPlaceAccounted
    OneReplacementPerHole
    FactsHold
    MealBreaksAgree
    ChecksWithinCeiling
    DryOnEvidence
    EveryProviderTried
    LegsOfThisDeparture
    UsesAreJoins
    SharedWithConsent
    CallsAccounted
    NoneLeftPending
    SnapshotIsGroup
    NoSessionLeftBehind
    EveryCityCovered
    RescueSound
    PreparationAgrees
    BallotFair
PROPERTIES
    NoIdleChecks
    HarnessRunEnds
    CodeWorksOnce
    ActsOnTheMoment
CHECK_DEADLOCK FALSE
