-------------------------- MODULE SocialDiscovery --------------------------
(***************************************************************************)
(* The social half of discovery: which searches each city is given, when   *)
(* its search stops, and how the trip's ceiling of place checks is shared. *)
(*                                                                         *)
(* Cities are mined one after another.  A search's result decides the next *)
(* search.  After each one a bounded batch of the names found is checked   *)
(* against the places provider, Reel-backed names first; what a city does  *)
(* not spend of its ceiling is released to the next.                       *)
(*                                                                         *)
(* Names are counted by class, not named.  Among the questions a rule of   *)
(* plan_next_search allows the choice is free: its ranking of platforms    *)
(* and lanes reads yields only to order them.                              *)
(***************************************************************************)
EXTENDS Integers, Sequences, FiniteSets, FiniteSetsExt, SequencesExt

CONSTANTS
    DayCounts,        \* sequence: days of each city, in the order they are mined
    CheckBudget,      \* social_verify_budget
    CheckCeiling,     \* SOCIAL_VERIFY_BUDGET_MAX
    GuideBudget,      \* checks the guide baseline may spend; 0 unless Chinese
    ReelGoal,         \* reel_target of the trip
    PoolPerDay,       \* POOL_PER_DAY
    Batch,            \* SOCIAL_VERIFY_BATCH_MAX
    MaxSearches, ColdStartSearches, MaxLowYield, MaxDuplicates, MaxErrors,
    MaxAttempts,      \* MAX_ATTEMPTS_PER_SEMANTIC_INTENT
    Platform,         \* DISCOVERY_PLATFORMS
    ReelPlatform,     \* Instagram
    Chinese,          \* the trip's output locale
    MaxNew            \* bound: names one search adds

City == 1..Len(DayCounts)

ASSUME DiscoveryAssumption ==
    /\ DayCounts \in Seq(Nat \ {0}) /\ DayCounts # <<>>
    /\ GuideBudget <= CheckBudget /\ CheckBudget <= CheckCeiling
    /\ ReelPlatform \in Platform
    /\ {MaxSearches, ColdStartSearches, MaxLowYield, MaxDuplicates, MaxErrors,
        MaxAttempts, Batch, MaxNew, GuideBudget, CheckBudget, CheckCeiling, ReelGoal,
        PoolPerDay} \subseteq Nat
    /\ MaxAttempts > 0

VARIABLES
    city,        \* position of the city being mined, 0 during the guides
    mode,        \* "open", "plan", "check", "close", "account" or "done"
    asked,       \* questions put, as <<platform, intent, wording>>
    recent,      \* what the last searches of the city came to, newest last
    low, dups, errors,  \* consecutive low-yield, duplicate-heavy, failed searches
    pending,     \* names found and not checked, by class
    budget, ceiling,    \* CityVerification: current and largest allowance
    attempts,    \* names of this city checked
    reels,       \* accepted cards a Reel supports
    goal,        \* reels wanted of this city
    reason,      \* StopReason
    guided,      \* checks the guides spent
    spent,       \* checks of the cities before this one
    released,    \* what they left of their ceilings
    kept         \* Reels of earlier cities that survive the mix

search == <<asked, recent, low, dups, errors, reason>>
checks == <<pending, budget, ceiling, attempts, reels, goal>>
trip == <<guided, spent, released, kept>>
discoveryVars == <<city, mode, search, checks, trip>>

-----------------------------------------------------------------------------
\* Budgets

\* The sums of the first n numbers of a sequence.
Sums(s) == LET sum[n \in 0..Len(s)] == IF n = 0 THEN 0 ELSE sum[n - 1] + s[n] IN sum

Total(s) == Sums(s)[Len(s)]

\* allocate_city_budget: largest remainder with a floor of one.  A share below
\* one is raised to one first, and a negative remainder counts from the end of
\* the order, as a Python slice does.
Allocate(days, total) ==
    LET n == Len(days)
        all == Total(days)
        floors == [i \in 1..n |-> Max({1, (total * days[i]) \div all})]
        rest == [i \in 1..n |-> IF total * days[i] < all THEN 0 ELSE (total * days[i]) % all]
        left == total - Total(floors)
        more == IF left >= 0 THEN left ELSE Max({0, n + left})
        before(i, j) == rest[i] > rest[j] \/ (rest[i] = rest[j] /\ i < j)
    IN IF total <= n THEN [i \in 1..n |-> IF i <= total THEN 1 ELSE 0]
       ELSE [i \in 1..n |-> floors[i] +
                IF Cardinality({j \in 1..n : before(j, i)}) < more THEN 1 ELSE 0]

CityBudgets == Allocate(DayCounts, Max({0, CheckBudget - guided}))
\* Mutant of CityCeilings: the guides' checks are not counted.
CeilingsAlone == Allocate(DayCounts, CheckCeiling)

CityCeilings == Allocate(DayCounts, CheckCeiling - guided)
ReelTargets == Allocate(DayCounts, ReelGoal)

\* The Reels a city owes: what earlier ones lack and later ones cannot give.
CityGoal(c) ==
    Min({DayCounts[c] * PoolPerDay,
         Max({0, ReelGoal - kept - Total(SubSeq(ReelTargets, c + 1, Len(ReelTargets)))})})

-----------------------------------------------------------------------------
\* Questions

Intent == {"places", "food", "hidden_gems"}
Wording == {"specific", "normal", "broad"}
Question == Platform \X Intent \X Wording

Opening == <<"places", "food", "hidden_gems">>

Asked(p, i) == {q \in asked : q[1] = p /\ q[2] = i}

\* is_available: a wording not tried, of a question tried fewer than twice.
Available ==
    {q \in Question : q \notin asked /\ Cardinality(Asked(q[1], q[2])) < MaxAttempts}

Worded(ws) == {q \in Available : q[3] \in ws}

\* The first opening intent that nobody was asked, if it can be asked.
OpeningQuestions ==
    LET open == {k \in DOMAIN Opening : \A q \in asked : q[2] # Opening[k]}
        can == {k \in open : \E q \in Worded({"specific"}) : q[2] = Opening[k]}
    IN IF can = {} THEN {} ELSE {q \in Worded({"specific"}) : q[2] = Opening[Min(can)]}

\* While Reels are short: every intent of the Reel platform in its specific
\* wording, then in its normal one.
ReelQuestions ==
    LET of(w) == {q \in Worded({w}) : q[1] = ReelPlatform}
    IN IF of("specific") # {} THEN of("specific") ELSE of("normal")

Found == attempts + pending.reel + pending.gem + pending.other

Searches == Cardinality(asked)

\* Counts a failed search towards exhaustion.
LowAfter(result) == IF result \in {"error", "empty", "duplicate", "one"} THEN low + 1 ELSE 0

\* update_search_state: at most one new place is a low yield.
LowYieldAfter(result) ==
    CASE result = "error" -> low
      [] result \in {"empty", "duplicate", "one"} -> low + 1
      [] OTHER -> 0

Stop(why) == reason' = why /\ mode' = "close"

-----------------------------------------------------------------------------
\* select_social_candidates

\* Mutant of LaneSizes: a short lane keeps its slots.
LaneSizesFixed(n, gems, others) ==
    LET trending == (n * 7 + 9) \div 10
    IN <<Min({trending, others}), Min({n - trending, gems})>>

\* Seventy percent of the slots for trending, then a lane that cannot fill
\* its slots hands them to the other before either draws.
LaneSizes(n, gems, others) ==
    LET trending == (n * 7 + 9) \div 10
        given == trending + Max({0, n - trending - gems})
    IN <<Min({given, others}), n - Min({given, others})>>

\* The classes a batch may draw on: while Reels are short, searches keep the
\* checks for Reel-backed names.
Eligible(final) ==
    IF final \/ reels >= goal THEN pending ELSE [pending EXCEPT !.gem = 0, !.other = 0]

\* Reels found by a hidden-gem search are not told apart from the others.
BatchOf(final, allowed) ==
    LET names == Eligible(final)
        room == Max({0, allowed - attempts})
        limit == IF final THEN room ELSE Min({room, Batch})
        n == Min({limit, names.reel + names.gem + names.other})
        lanes == LaneSizes(n, names.gem, names.reel + names.other)
    IN {took \in [reel : 0..names.reel, gem : 0..names.gem, other : 0..names.other] :
           /\ took.gem = lanes[2]
           /\ took.reel + took.other = lanes[1]}

\* CityVerification.refresh: an allowance spent with Reels still missing grows
\* towards the ceiling, by what the yield so far says the rest will cost.
Grown(b, tried, got) ==
    IF tried >= b /\ got < goal
    THEN LET extra == ((goal - got) * tried + Max({1, got}) - 1) \div Max({1, got})
         IN Min({IF ceiling = 0 THEN b ELSE ceiling, b + Max({1, extra})})
    ELSE b

-----------------------------------------------------------------------------
\* discover_social_candidates, mine_city

NoNames == [reel |-> 0, gem |-> 0, other |-> 0]

DiscoveryInit ==
    /\ city = 0 /\ mode = "open"
    /\ asked = {} /\ recent = <<>> /\ low = 0 /\ dups = 0 /\ errors = 0 /\ reason = "none"
    /\ pending = NoNames /\ budget = 0 /\ ceiling = 0 /\ attempts = 0 /\ reels = 0 /\ goal = 0
    /\ guided \in 0..(IF Chinese THEN GuideBudget ELSE 0)
    /\ spent = 0 /\ released = 0 /\ kept = 0

\* The search state and the verification of a city end with it.
Forget ==
    /\ asked' = {} /\ recent' = <<>> /\ low' = 0 /\ dups' = 0 /\ errors' = 0 /\ reason' = "none"
    /\ pending' = NoNames /\ budget' = 0 /\ ceiling' = 0
    /\ attempts' = 0 /\ reels' = 0 /\ goal' = 0

\* The next city, with what the one before left of its ceiling, and the empty
\* update mine_city begins with.
OpenCity ==
    /\ mode = "open" /\ city < Len(DayCounts)
    /\ city' = city + 1
    /\ LET most == CityCeilings[city + 1] + released
           first == Min({most, CityBudgets[city + 1] + released})
           owed == CityGoal(city + 1)
       IN /\ ceiling' = most /\ goal' = owed
          /\ budget' = IF first = 0 /\ owed > 0 /\ most > 0 THEN 1 ELSE first
    /\ mode' = "plan"
    /\ UNCHANGED <<search, pending, attempts, reels, trip>>

\* plan_next_search, up to the opening sequence: the hard stops.
StopFirst ==
    /\ \/ Searches >= MaxSearches /\ Stop("search_budget")
       \/ Searches < MaxSearches /\ attempts >= budget /\ Stop("verification_budget")
       \/ Searches < MaxSearches /\ attempts < budget /\ reels >= goal /\ Stop("target")
       \/ Searches < MaxSearches /\ attempts < budget /\ errors >= MaxErrors /\ Stop("provider")
    /\ UNCHANGED <<asked, recent, low, dups, errors>>

MayGoOn == Searches < MaxSearches /\ attempts < budget /\ errors < MaxErrors

\* Reels are short and there is a question left for them.
ReelTurn == reels < goal /\ ReelQuestions # {}
ColdStart == Found = 0 /\ Searches < ColdStartSearches
PlatformExhausted == low >= MaxLowYield \/ dups >= MaxDuplicates

\* A wider wording, when the last search that answered found nothing.
RecoveryQuestions ==
    IF recent # <<>> /\ Last(recent) = "empty"
    THEN {q \in Worded({"normal", "broad"}) : Asked(q[1], q[2]) # {}} ELSE {}

\* What is left after the opening, the Reels and the cold start.
Remaining == RecoveryQuestions \cup Worded({"specific"})

\* The next question, from the first rule that has one.
NextQuestions ==
    IF OpeningQuestions # {} THEN OpeningQuestions
    ELSE (IF reels < goal /\ Chinese THEN {q \in Worded({"specific"}) : q[1] # ReelPlatform} ELSE {})
         \cup IF ReelTurn THEN ReelQuestions
              ELSE IF ColdStart THEN Worded({"normal", "broad"})
              ELSE IF PlatformExhausted THEN {} ELSE Remaining

\* No question is left: exhausted by its own evidence, or nothing to ask.
StopDry ==
    /\ MayGoOn /\ OpeningQuestions = {} /\ ~ReelTurn
    /\ \/ ColdStart /\ Worded({"normal", "broad"}) = {} /\ Stop("no_actions")
       \/ ~ColdStart /\ PlatformExhausted /\ Stop("low_yield")
       \/ ~ColdStart /\ ~PlatformExhausted /\ Remaining = {} /\ Stop("no_actions")
    /\ UNCHANGED <<asked, recent, low, dups, errors>>

Plan ==
    /\ mode = "plan"
    /\ StopFirst \/ StopDry
    /\ UNCHANGED <<city, checks, trip>>

\* What a search that added n names came to, by where it was put.
Adds(q, n) ==
    IF q[1] = ReelPlatform THEN [pending EXCEPT !.reel = @ + n]
    ELSE IF q[2] = "hidden_gems" THEN [pending EXCEPT !.gem = @ + n]
    ELSE [pending EXCEPT !.other = @ + n]

Yields == [error |-> 0, empty |-> 0, duplicate |-> 0, one |-> 1, many |-> MaxNew]

\* One search and update_search_state.  A duplicate may put a Reel behind a
\* place already checked.
Search ==
    /\ mode = "plan" /\ MayGoOn
    /\ \E q \in NextQuestions, result \in DOMAIN Yields :
          /\ asked' = asked \cup {q}
          /\ pending' = Adds(q, Yields[result])
          /\ low' = LowYieldAfter(result)
          /\ dups' = CASE result = "error" -> dups
                       [] result = "duplicate" -> dups + 1
                       [] OTHER -> 0
          /\ errors' = IF result = "error" THEN errors + 1 ELSE 0
          /\ recent' = IF result = "error" THEN recent
                       ELSE LET all == Append(recent, result)
                            IN SubSeq(all, Max({1, Len(all) - MaxLowYield + 1}), Len(all))
          /\ reels' \in IF result = "duplicate" /\ q[1] = ReelPlatform /\ reels < attempts
                        THEN {reels, reels + 1} ELSE {reels}
    /\ mode' = "check"
    /\ UNCHANGED <<city, reason, budget, ceiling, attempts, goal, trip>>

\* CityVerification.update: grow, check a batch, grow.  A checked name is
\* accepted or rejected, and two names may be one place.
CheckBatch(final, took, accepted) ==
    LET allowed == Grown(budget, attempts, reels)
        tried == attempts + took.reel + took.gem + took.other
    IN /\ took \in BatchOf(final, allowed) /\ accepted <= took.reel
       /\ attempts' = tried
       /\ reels' = reels + accepted
       /\ pending' = [c \in DOMAIN pending |-> pending[c] - took[c]]
       /\ budget' = Grown(allowed, tried, reels + accepted)

Batches == [reel : 0..pending.reel, gem : 0..pending.gem, other : 0..pending.other]

Check ==
    /\ mode = "check"
    /\ \E took \in Batches, accepted \in 0..pending.reel : CheckBatch(FALSE, took, accepted)
    /\ mode' = "plan"
    /\ UNCHANGED <<city, search, ceiling, goal, trip>>

\* The last update of a city.
CheckRest ==
    /\ mode = "close"
    /\ \E took \in Batches, accepted \in 0..pending.reel : CheckBatch(TRUE, took, accepted)
    /\ mode' = "account"
    /\ UNCHANGED <<city, search, ceiling, goal, trip>>

\* The city's account: some of its Reels survive the mix with food and sights,
\* and its unused checks go to the next city.
CloseCity ==
    /\ mode = "account"
    /\ \E k \in 0..Min({reels, DayCounts[city] * PoolPerDay}) : kept' = kept + k
    /\ spent' = spent + attempts
    /\ released' = Max({0, ceiling - attempts})
    /\ mode' = IF city = Len(DayCounts) THEN "done" ELSE "open"
    /\ Forget
    /\ UNCHANGED <<city, guided>>

DiscoveryNext == OpenCity \/ Plan \/ Search \/ Check \/ CheckRest \/ CloseCity

DiscoverySpec == DiscoveryInit /\ [][DiscoveryNext]_discoveryVars

-----------------------------------------------------------------------------
DiscoveryTypeOK ==
    /\ city \in 0..Len(DayCounts)
    /\ mode \in {"open", "plan", "check", "close", "account", "done"}
    /\ asked \subseteq Question
    /\ {low, dups, errors, budget, ceiling, attempts, reels, goal, spent, released, kept,
        pending.reel, pending.gem, pending.other} \subseteq Nat

\* However cities grow their allowance and hand on what they leave, the trip
\* never checks more places than its ceiling, guides included, when the shares
\* of the cities add up to it.  They may not: a share below one counts as one.
ChecksWithinCeiling ==
    Total(Allocate(DayCounts, CheckCeiling - guided)) <= CheckCeiling - guided =>
        guided + spent + attempts <= CheckCeiling

\* A city is called dry on evidence: that many answered searches in a row were
\* low, or only found known places, whatever failed in between; and only when
\* every opening question has been put.
DryOnEvidence ==
    LET lastAre(n, s) ==
            Len(recent) >= n /\ \A i \in (Len(recent) - n + 1)..Len(recent) : recent[i] \in s
    IN /\ reason = "low_yield" =>
             \/ lastAre(MaxLowYield, {"empty", "duplicate", "one"})
             \/ lastAre(MaxDuplicates, {"duplicate"})
       /\ reason \in {"low_yield", "no_actions"} =>
             \A i \in Intent : \E q \in asked : q[2] = i

\* No check is held back: a batch ends because it is full, because the city's
\* allowance is spent, or because no name it may check is left.
NoIdleChecks ==
    [][(mode = "check" \/ mode = "close") =>
          \/ mode = "check" /\ attempts' = attempts + Batch
          \/ attempts' >= budget
          \/ /\ pending'.reel = 0
             /\ (mode = "check" /\ reels < goal) \/ pending'.gem + pending'.other = 0]_discoveryVars
=============================================================================
