------------------------------ MODULE DayRescue ------------------------------
(***************************************************************************)
(* What a rescue writes into its proposal: which stops of the active       *)
(* itinerary the disruption hits, what stays before the cutoff, which      *)
(* places may fill the rest of the day, and the diff the group is shown    *)
(* (agents/rescue.py, agents/rescue_alternatives.py,                       *)
(* diff/itinerary_diff.py).  Who may decide a proposal and when is the     *)
(* subject of ReplanGate; here one rescue is followed, a failure of any kind *)
(* ends it, and of the requests that run beside it (rescues, pasted links) *)
(* the model has the candidate rows they store.  Times are slots of the    *)
(* day.  Every place is near enough and in the day's city; lodging is left *)
(* out.                                                                    *)
(***************************************************************************)
EXTENDS Integers, FiniteSets

CONSTANTS
    Site,             \* rows (listings of places) the pool or a search may hold
    SamePlace,        \* pairs of listings of one place
    Outdoor,          \* weather_dependent places
    Unfit,            \* food a hard dietary constraint excludes
    OpenIn,           \* [Site -> SUBSET slots]: when each is open
    Length,           \* [Site -> slots]: duration_estimate_min
    FirstPlan,        \* the stops of the first active itinerary
    FirstPool,        \* the places discovery stored
    FoundByOthers,    \* rows that a request beside the rescue may store
    FirstHour,        \* DEFAULT_DAY_START_HOUR
    LastHour,         \* DEFAULT_DAY_END_HOUR
    MaxDelay,         \* bound: the longest delay reported
    MaxAlternatives,  \* REPLAN_ALTERNATIVE_LIMIT
    MaxRescues        \* bound: proposals made

VARIABLES
    itinerary,  \* the active version's nodes
    pooled,     \* the trip's candidate rows
    leftOut,    \* the active version's wishlist
    rescue,     \* the rescue under way and its proposal
    rescues     \* how many proposals were made

rescueVars == <<itinerary, pooled, leftOut, rescue, rescues>>

Node == [place : Site, day : {1, 2}, from : 0..LastHour, to : 0..LastHour, fixed : BOOLEAN]

PlacesOf(nodes) == {n.place : n \in nodes}

Earliest(nodes) == CHOOSE h \in {n.from : n \in nodes} : \A n \in nodes : h <= n.from

SameSite(p, q) == p = q \/ {p, q} \in SamePlace

OneThingAtATime(nodes) ==
    \A m, n \in nodes :
        m = n \/ m.day # n.day \/ m.to <= n.from \/ n.to <= m.from

NothingTwice(nodes) == \A m, n \in nodes : m = n \/ m.place # n.place

\* The first plan is the solver's, over the pool that discovery left: a stop
\* takes what its place takes, no two stops of a day meet, and no row is planned
\* twice.  Two rows may be one place: cards and overlapping requests are stored
\* without a comparison of all listings.
ASSUME RescueAssumption ==
    /\ {FirstHour, LastHour, MaxDelay} \subseteq Nat /\ Length \in [Site -> Nat]
    /\ FirstPool \cup FoundByOthers \subseteq Site
    /\ FirstPlan \subseteq Node /\ PlacesOf(FirstPlan) \subseteq FirstPool
    /\ \A n \in FirstPlan : n.to = n.from + Length[n.place]
    /\ OneThingAtATime(FirstPlan) /\ NothingTwice(FirstPlan)

NoRescue == [stage |-> "none", kind |-> "none", day |-> 1, cutoff |-> 0, hit |-> {},
             known |-> {}, offers |-> {}, plan |-> {}, notPlaced |-> {}]

RescueInit ==
    /\ itinerary = FirstPlan
    /\ pooled = FirstPool
    /\ leftOut = {}
    /\ rescue = NoRescue
    /\ rescues = 0

-----------------------------------------------------------------------------
(* A report, and what it says of the day. *)

OfDay(d) == {n \in itinerary : n.day = d}

Report(kind, d, hit, cutoff) == [kind |-> kind, day |-> d, hit |-> hit, cutoff |-> cutoff]

\* Every report a traveler can make: the stops it hits and the time from
\* which the day is solved again.
Reports ==
    (UNION {{Report("place_closed", n.day, {n}, n.from)}
              \cup {Report("transit_delay", n.day, {n}, n.from + late) : late \in 1..MaxDelay} :
            n \in itinerary})
    \cup
    (UNION {{Report("overslept", d, {n \in OfDay(d) : n.from < at}, at) : at \in 0..LastHour}
              \cup {Report("user_request", d, OfDay(d), FirstHour),
                    Report("weather", d, {n \in OfDay(d) : n.place \in Outdoor}, FirstHour)}
              \cup {Report("other", d, hit, Earliest(hit)) : hit \in (SUBSET OfDay(d)) \ {{}}} :
            d \in {1, 2}})

Unavailable(e) ==
    IF e.kind \in {"place_closed", "weather", "other"} THEN PlacesOf(e.hit) ELSE {}

\* A plausible bug: the stops begun by the cutoff are taken as behind.
PrefixOfStarted(e) == {n \in OfDay(e.day) : n.from <= e.cutoff /\ n \notin e.hit}

\* The stops already behind the travelers.
Prefix(e) == {n \in OfDay(e.day) : n.to <= e.cutoff /\ n \notin e.hit}

Suffix(e) == OfDay(e.day) \ Prefix(e)

Reconsidered(e) == PlacesOf(Suffix(e)) \ Unavailable(e)

Bound(e) == {n \in Suffix(e) : n.fixed /\ n.place \notin Unavailable(e)}

\* A place that can take over at the cutoff.
Suits(p, e) ==
    /\ e.cutoff \in OpenIn[p]
    /\ p \notin Unfit
    /\ e.kind = "weather" => p \notin Outdoor

\* Of the rows read with the report (existing_alternatives).
Existing(e) == {p \in e.known \ (PlacesOf(itinerary) \cup Unavailable(e)) : Suits(p, e)}

-----------------------------------------------------------------------------
(* The three transactions of a rescue, and the decision. *)

\* The first transaction reads the pool (all_candidates) once for the whole
\* rescue.
Disrupt ==
    /\ rescue.stage = "none" /\ rescues < MaxRescues
    /\ \E e \in Reports :
        /\ e.hit # {}
        /\ e.cutoff < LastHour
        /\ rescue' = [NoRescue EXCEPT !.stage = "searching", !.kind = e.kind, !.day = e.day,
                                      !.cutoff = e.cutoff, !.hit = e.hit,
                                      !.known = pooled]
    /\ UNCHANGED <<itinerary, pooled, leftOut, rescues>>

\* A discovered row survives only when no row that was read is the same place.
Fresh(found, known) ==
    \A p \in found : \A q \in known \cup (found \ {p}) : ~SameSite(p, q)

\* The rows found are committed with the rescue still to be solved; the best
\* scored of them and of the pool's unscheduled places are tried.
SearchNearby ==
    /\ rescue.stage = "searching"
    /\ \E found \in SUBSET {p \in Site \ pooled : Suits(p, rescue)} :
        /\ Cardinality(found) <= MaxAlternatives
        /\ Fresh(found, rescue.known)
        /\ pooled' = pooled \cup found
        /\ LET all == Existing(rescue) \cup found
               limit == IF Cardinality(all) < MaxAlternatives THEN Cardinality(all)
                                                              ELSE MaxAlternatives
           IN  \E best \in SUBSET all :
                /\ Cardinality(best) = limit
                /\ rescue' = [rescue EXCEPT !.stage = "solving", !.offers = best]
    /\ UNCHANGED <<itinerary, leftOut, rescues>>

\* What the routing of one day may return for these places: none before the
\* cutoff, each within its hours, no two at once, the booked ones when booked.
Routed(e, places, nodes) ==
    /\ PlacesOf(nodes) \subseteq places
    /\ \A n \in nodes : /\ n.to = n.from + Length[n.place] /\ n.to <= LastHour
                        /\ n.from..(n.to - 1) \subseteq OpenIn[n.place]
    /\ \A m, n \in nodes : m = n \/ (m.place # n.place /\ (m.to <= n.from \/ n.to <= m.from))
    /\ \A n \in Bound(e) : \E m \in nodes : m.place = n.place /\ m.from = n.from

RoutesOf(e, places) ==
    LET bound == PlacesOf(Bound(e))
        seat(p, h) == [place |-> p, day |-> e.day, from |-> h, to |-> h + Length[p],
                       fixed |-> p \in bound]
        order == [places -> e.cutoff..LastHour]   \* LastHour: not placed
    IN  {nodes \in {{seat(p, at[p]) : p \in {q \in places : at[q] < LastHour}} : at \in order} :
            Routed(e, places, nodes)}

Propose ==
    /\ rescue.stage = "solving"
    /\ LET places == Reconsidered(rescue) \cup rescue.offers
       IN  \E route \in RoutesOf(rescue, places) :
            LET plan == (itinerary \ Suffix(rescue)) \cup route
            IN  rescue' = [rescue EXCEPT
                    !.stage = "proposed", !.plan = plan,
                    !.notPlaced = (leftOut \ PlacesOf(plan)) \cup (places \ PlacesOf(route))]
    /\ rescues' = rescues + 1
    /\ UNCHANGED <<itinerary, pooled, leftOut>>

\* The search, the routing or a version changed meanwhile ends the rescue;
\* what it discovered stays in the pool.
GiveUp ==
    /\ rescue.stage \in {"searching", "solving"}
    /\ rescue' = NoRescue
    /\ UNCHANGED <<itinerary, pooled, leftOut, rescues>>

Decide(approve) ==
    /\ rescue.stage = "proposed"
    /\ itinerary' = IF approve THEN rescue.plan ELSE itinerary
    /\ leftOut' = IF approve THEN rescue.notPlaced ELSE leftOut
    /\ rescue' = NoRescue
    /\ UNCHANGED <<pooled, rescues>>

\* A rescue beside this one, or a link pasted meanwhile, stores the row of a
\* place whatever rows the pool has by now.
OthersStore(p) ==
    /\ p \notin pooled
    /\ pooled' = pooled \cup {p}
    /\ UNCHANGED <<itinerary, leftOut, rescue, rescues>>

RescueNext ==
    \/ Disrupt \/ SearchNearby \/ Propose \/ GiveUp
    \/ \E approve \in BOOLEAN : Decide(approve)
    \/ \E p \in FoundByOthers : OthersStore(p)

RescueSpec == RescueInit /\ [][RescueNext]_rescueVars

-----------------------------------------------------------------------------
(* The diff the group decides on, by place. *)

StopAt(nodes, p) == CHOOSE n \in nodes : n.place = p

Diff(old, new) ==
    LET both == PlacesOf(old) \cap PlacesOf(new)
        moved == {p \in both : StopAt(old, p).day # StopAt(new, p).day}
    IN  [removed |-> PlacesOf(old) \ both,
         added   |-> {n \in new : n.place \notin both},
         moved   |-> moved,
         retimed |-> {n \in new : /\ n.place \in both \ moved
                                  /\ \/ n.from # StopAt(old, n.place).from
                                     \/ n.to # StopAt(old, n.place).to}]

When(nodes) == {[place |-> n.place, day |-> n.day, from |-> n.from, to |-> n.to] : n \in nodes}

RescueTypeOK ==
    /\ itinerary \subseteq Node
    /\ pooled \subseteq Site /\ leftOut \subseteq pooled
    /\ rescue.stage \in {"none", "searching", "solving", "proposed"}
    /\ rescue.plan \subseteq Node
    /\ rescue.known \cup rescue.offers \cup rescue.notPlaced \subseteq pooled

\* A rescue's proposal is an itinerary the group could walk: no two stops
\* of a day at once and no row twice; nothing that was reported closed or
\* rained out comes back, and what the search found is no other listing of
\* that or of another stop, though rows are stored beside the rescue after it
\* read the pool: only two rows that were both read may be one place; no food
\* the group cannot eat is added; a booking that was not itself cancelled keeps
\* its hour; only the disrupted day changes, and before the cutoff only the
\* stops that were hit; every place the group had, planned or left out, is in
\* the proposal, on its wishlist or reported unavailable; and the diff the
\* group decides on, replayed over the active version, gives the proposal
\* (agents/rescue.py, _build_replan_proposal; itinerary_diff).
RescueSound ==
    rescue.stage = "proposed" =>
        LET plan == rescue.plan
            diff == Diff(itinerary, plan)
            out  == Unavailable(rescue)
        IN  /\ OneThingAtATime(plan)
            /\ NothingTwice(plan)
            /\ PlacesOf(plan) \cap out = {}
            /\ \A p \in PlacesOf(plan) : \A q \in PlacesOf(plan) \cup out :
                p # q /\ SameSite(p, q) => {p, q} \subseteq rescue.known
            /\ PlacesOf(diff.added) \cap Unfit = {}
            /\ \A n \in itinerary : n.fixed /\ n.place \notin out => n \in plan
            /\ \A n \in itinerary \ plan :
                n.day = rescue.day /\ (n \in rescue.hit \/ n.to > rescue.cutoff)
            /\ \A n \in plan \ itinerary : n.day = rescue.day /\ n.from >= rescue.cutoff
            /\ PlacesOf(plan) \cap rescue.notPlaced = {}
            /\ PlacesOf(itinerary) \cup leftOut
                \subseteq PlacesOf(plan) \cup rescue.notPlaced \cup out
            /\ diff.moved = {}
            /\ When(plan) =
                When({n \in itinerary : n.place \notin diff.removed \cup PlacesOf(diff.retimed)}
                        \cup diff.added \cup diff.retimed)
===============================================================================
