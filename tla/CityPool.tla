------------------------------- MODULE CityPool -------------------------------
(***************************************************************************)
(* How discovery builds the pool of one trip: places found in posts, by    *)
(* searches for each city, around clusters of sights and from profiles,    *)
(* one card a place; duplicates collapsed; each city's share picked by its *)
(* days; conflicts with a hard diet removed; the rest added to the cards   *)
(* travelers had pasted.  Lodging, and the wording of cards, are left out. *)
(*                                                                         *)
(* Geometry decides which place of a kind is picked: here any may be.      *)
(***************************************************************************)
EXTENDS Integers, FiniteSets

CONSTANTS
    Listing,
    Eatery,           \* the places that serve food; the others are sights
    TripCity, NoCity,
    NearCity,         \* [Listing -> nonempty sets of cities whose radius it is in]
    Inadmissible,     \* no place to visit: an area, a guide, an event, or closed
    Weak,             \* listings without hours, summary, site, phone or rating
    Twin,             \* pairs of listings of one place
    Conflicting,      \* food that a hard dietary constraint excludes
    Pasted,           \* places with a card somebody pasted
    DaysIn,           \* [TripCity -> days]
    CardsPerDay, MealsPerDay, SightsPerDay,
    MaxLoss           \* bound of the model: processes lost

ASSUME CityPoolAssumption ==
    /\ IsFiniteSet(Listing) /\ Eatery \subseteq Listing /\ NoCity \notin TripCity
    /\ NearCity \in [Listing -> (SUBSET TripCity) \ {{}}]
    /\ Inadmissible \subseteq Listing /\ Weak \subseteq Listing
    /\ \A t \in Twin : t \subseteq Listing /\ Cardinality(t) = 2
    /\ DaysIn \in [TripCity -> Nat \ {0}]
    /\ {CardsPerDay, MealsPerDay, SightsPerDay, MaxLoss} \subseteq Nat
    /\ MealsPerDay + SightsPerDay <= CardsPerDay

VARIABLES
    stage,      \* what gather_node does next
    cards,      \* [Listing -> set of sources]: by_place_id, {} where absent
    cityOf,     \* [Listing -> TripCity or NoCity]: the card's city
    searched,   \* the searches behind it: <<city, kind>>
    chosen,     \* selected
    rows,       \* [Listing -> set of sources]: the trip's cards in the database
    losses

poolVars == <<stage, cards, cityOf, searched, chosen, rows, losses>>

Kind == {"meal", "sight"}
OfKind(S, k) == IF k = "meal" THEN S \cap Eatery ELSE S \ Eatery
Held == {p \in Listing : cards[p] # {}}
From(source) == {p \in Held : source \in cards[p]}
AtLeast0(n) == IF n > 0 THEN n ELSE 0
Least(m, n) == IF m < n THEN m ELSE n

PoolInit ==
    /\ stage = "start"
    /\ cards = [p \in Listing |-> {}] /\ cityOf = [p \in Listing |-> NoCity]
    /\ searched = {} /\ chosen = {} /\ losses = 0
    /\ rows = [p \in Listing |-> IF p \in Pasted THEN {"attached"} ELSE {}]

-----------------------------------------------------------------------------
\* Discovery

\* _pool_already_discovered: pasted cards do not count.
Discovered == \E p \in Listing : rows[p] \ {"attached", "profile"} # {}

Start ==
    /\ stage = "start"
    /\ stage' = IF Discovered THEN "done" ELSE "social"
    /\ UNCHANGED <<cards, cityOf, searched, chosen, rows, losses>>

\* One card a place: a place found again gains a source and keeps its city.
Find(S, source, citiesFor) ==
    /\ cards' = [p \in Listing |-> IF p \in S THEN cards[p] \cup {source} ELSE cards[p]]
    /\ \E g \in [S \ Held -> TripCity] :
          /\ \A p \in S \ Held : g[p] \in citiesFor[p]
          /\ cityOf' = [p \in Listing |-> IF p \in S \ Held THEN g[p] ELSE cityOf[p]]

\* _belongs_to_destination and admit_place: a listing inside the city's radius
\* that is a place to visit, on Google's own evidence or on a post's.
WithinRadius(p, c) == c \in NearCity[p]
Admitted(p, c, social) ==
    WithinRadius(p, c) /\ p \notin Inadmissible /\ (social \/ p \notin Weak)
Admissible(C, social) == {p \in Listing : \E c \in C : Admitted(p, c, social)}

SocialFinds ==
    /\ stage = "social"
    /\ \E S \in SUBSET Admissible(TripCity, TRUE) : Find(S, "buzz", NearCity)
    /\ stage' = "search"
    /\ UNCHANGED <<searched, chosen, rows, losses>>

Quota(c, k) == DaysIn[c] * (IF k = "meal" THEN MealsPerDay ELSE SightsPerDay)
Target(c) == DaysIn[c] * CardsPerDay
In(c) == {p \in Held : cityOf[p] = c}

\* Posts have already filled the city, and this kind in it.
Enough(c, k) ==
    /\ From("buzz") # {}
    /\ Cardinality(In(c)) >= Target(c) /\ Cardinality(OfKind(In(c), k)) >= Quota(c, k)

\* A search for one kind may answer with the other.
SearchCity(c, k) ==
    /\ stage = "search" /\ <<c, k>> \notin searched
    /\ searched' = searched \cup {<<c, k>>}
    /\ IF Enough(c, k) THEN UNCHANGED <<cards, cityOf>>
       ELSE \E S \in SUBSET Admissible({c}, FALSE) :
                Find(S, "google", [p \in Listing |-> {c}])
    /\ UNCHANGED <<stage, chosen, rows, losses>>

\* Searches for food around the clusters of sights may answer with sights; only
\* places not held are added.
SearchAround ==
    /\ stage = "search" /\ searched = TripCity \X Kind
    /\ \E S \in SUBSET (Admissible(TripCity, FALSE) \ Held) :
          Find(S, "google", NearCity)
    /\ stage' = "profile"
    /\ UNCHANGED <<searched, chosen, rows, losses>>

ProfileFinds ==
    /\ stage = "profile"
    /\ \E S \in SUBSET Admissible(TripCity, FALSE) : Find(S, "profile", NearCity)
    /\ stage' = "dedup"
    /\ UNCHANGED <<searched, chosen, rows, losses>>

\* Cards found in posts come first, and the first of two twins is kept: with
\* the sources of both.
Dedup ==
    /\ stage = "dedup" /\ stage' = "select"
    /\ \E drop \in SUBSET Held :
          /\ \A p \in drop : \E k \in Held \ drop :
                {p, k} \in Twin /\ ("buzz" \in cards[p] => "buzz" \in cards[k])
          /\ \A t \in Twin : ~(t \subseteq Held \ drop)
          /\ cards' = [p \in Listing |->
                IF p \in drop THEN {}
                ELSE cards[p] \cup UNION {cards[d] : d \in {e \in drop : {p, e} \in Twin}}]
    /\ UNCHANGED <<cityOf, searched, chosen, rows, losses>>

-----------------------------------------------------------------------------
\* select_city_pool

Own(c) == In(c) \cap From("profile")
Automatic(c) == (In(c) \cap From("buzz")) \ Own(c)
Fallback(c) == In(c) \ (Own(c) \cup Automatic(c))

\* Mutant of Needed: what the city holds is taken for what is picked.
NeededOfAll(c, k) == AtLeast0(Quota(c, k) - Cardinality(OfKind(In(c), k)))

\* What posts and profiles leave short of a kind, and how much of it there is.
Needed(c, k) == AtLeast0(Quota(c, k) - Cardinality(OfKind(Own(c) \cup Automatic(c), k)))
Options(c, k) == Least(Cardinality(OfKind(Fallback(c), k)), Needed(c, k))

\* Posts' cards that are picked before the rest of them.
Essential(c, k) == Least(Cardinality(OfKind(Automatic(c), k)), Quota(c, k))

Reserved(c) == Options(c, "meal") + Options(c, "sight")
             + Essential(c, "meal") + Essential(c, "sight")

AutomaticPicked(c) ==
    LET ess == Essential(c, "meal") + Essential(c, "sight")
    IN  ess + Least(Cardinality(Automatic(c)) - ess, AtLeast0(Target(c) - Reserved(c)))

FallbackPicked(c) ==
    LET opt == Options(c, "meal") + Options(c, "sight")
    IN  opt + Least(Cardinality(Fallback(c)) - opt,
                    AtLeast0(Target(c) - AutomaticPicked(c) - opt))

IsCityPool(S, c) ==
    /\ Own(c) \subseteq S
    /\ Cardinality(S \cap Automatic(c)) = AutomaticPicked(c)
    /\ Cardinality(S \cap Fallback(c)) = FallbackPicked(c)
    /\ \A k \in Kind : /\ Cardinality(OfKind(S \cap Automatic(c), k)) >= Essential(c, k)
                       /\ Cardinality(OfKind(S \cap Fallback(c), k)) >= Options(c, k)

\* select_trip_pool.  A pool of nothing fails the run.
Select ==
    /\ stage = "select"
    /\ \E S \in SUBSET Held :
          /\ \A c \in TripCity : IsCityPool(S \cap In(c), c)
          /\ chosen' = S /\ stage' = IF S = {} THEN "failed" ELSE "save"
    /\ UNCHANGED <<cards, cityOf, searched, rows, losses>>

-----------------------------------------------------------------------------
\* gather_node

\* A place with a pasted card adds its sources to that card.
Save ==
    /\ stage = "save" /\ stage' = "done"
    /\ rows' = [p \in Listing |->
          IF ~Discovered /\ p \in chosen \ Conflicting THEN rows[p] \cup cards[p] ELSE rows[p]]
    /\ UNCHANGED <<cards, cityOf, searched, chosen, losses>>

\* The process goes, or a provider fails: what was found is found again.
Lose ==
    /\ stage # "start" /\ losses < MaxLoss
    /\ losses' = losses + 1 /\ stage' = "start"
    /\ cards' = [p \in Listing |-> {}] /\ cityOf' = [p \in Listing |-> NoCity]
    /\ searched' = {} /\ chosen' = {}
    /\ UNCHANGED rows

PoolNext ==
    \/ Start \/ SocialFinds \/ SearchAround \/ ProfileFinds \/ Dedup \/ Select \/ Save \/ Lose
    \/ \E c \in TripCity, k \in Kind : SearchCity(c, k)

PoolSpec == PoolInit /\ [][PoolNext]_poolVars

-----------------------------------------------------------------------------
\* Properties

PoolTypeOK ==
    /\ stage \in {"start", "social", "search", "profile", "dedup", "select", "save",
                  "failed", "done"}
    /\ {cards, rows} \subseteq [Listing -> SUBSET {"buzz", "google", "profile", "attached"}]
    /\ cityOf \in [Listing -> TripCity \cup {NoCity}]
    /\ searched \subseteq TripCity \X Kind /\ chosen \subseteq Listing /\ losses \in 0..MaxLoss

\* "Preserve meal and lane coverage inside a city's day-based allocation": the
\* pool of each city holds the meals and the sights its days need whenever
\* they were found, wherever they were found, and every card from a profile,
\* while what else is in it stays within the city's own share.
EveryCityCovered ==
    stage = "save" =>
        \A c \in TripCity :
           LET picked == chosen \cap In(c)
           IN  /\ \A k \in Kind : Cardinality(OfKind(picked, k))
                                    >= Least(Cardinality(OfKind(In(c), k)), Quota(c, k))
               /\ Own(c) \subseteq picked
               /\ Cardinality(picked \ Own(c)) <= Target(c)

===============================================================================
