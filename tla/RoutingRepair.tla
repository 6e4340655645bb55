--------------------------- MODULE RoutingRepair ---------------------------
(***************************************************************************)
(* The two-stage solver's repair loop, solve_full_routes.  Stage 1 gives   *)
(* every place a day or the wishlist; Stage 2 routes each day and refuses  *)
(* what does not fit; the refusals become facts for the next Stage 1.      *)
(*                                                                         *)
(* Both stages are CP-SAT searches under a work limit, so either returns   *)
(* any answer its hard constraints allow.  Which sets of places a day's    *)
(* clock can hold is a constant: it is what opening hours, travel times,   *)
(* meal breaks and fixed starts come to.  A day that holds a set need not  *)
(* hold its subsets, because a meal nobody serves reserves an hour.        *)
(***************************************************************************)
EXTENDS Integers, FiniteSets, Sequences, FiniteSetsExt

CONSTANTS
    Selected,         \* the shortlisted places
    Reserve,          \* sequence: places below the shortlist line, best first
    Days,             \* the trip has days 1..Days
    Protected,        \* must-go, pinned or with a fixed start
    Pin,              \* [Place -> 0..Days], 0 if neither pinned nor dated
    Open,             \* [Place -> SUBSET Day]: city days on which it is open
    NoMeal,           \* <<p, d>>: a restaurant whose hours on d meet no meal
    Apart,            \* {p, q}: no leg between them in either direction
    Seatable,         \* [Day -> sets of places the day's clock can hold]
    Load,             \* places a day holds by fatigue, walking and meals
    Value,            \* [Place -> Nat]: candidate_value of its score
    MaxRounds, MaxDaySolves, MaxReplacements

Day == 1..Days
ReserveSet == {Reserve[i] : i \in DOMAIN Reserve}
Place == Selected \cup ReserveSet

ASSUME RepairAssumption ==
    /\ Days \in Nat \ {0}
    /\ IsFiniteSet(Selected) /\ Reserve \in Seq(ReserveSet)
    /\ Selected \cap ReserveSet = {}
    /\ Protected \subseteq Selected
    /\ Pin \in [Place -> 0..Days]
    /\ Open \in [Place -> SUBSET Day]
    /\ NoMeal \subseteq Place \X Day
    /\ Apart \subseteq SUBSET Place
    /\ Seatable \in [Day -> SUBSET SUBSET Place]
    /\ \A d \in Day : {} \in Seatable[d]
    /\ Load \in Nat /\ Value \in [Place -> Nat]
    /\ MaxRounds \in Nat /\ MaxDaySolves \in Nat /\ MaxReplacements \in Nat

VARIABLES
    phase,       \* "assign", "route", "learn", "trial", "reroute", "done" or "failed"
    bucket,      \* [Day -> SUBSET Place]: the current Stage 1 assignment
    leftover,    \* the places it leaves without a day
    seated,      \* [Day -> SUBSET Place]: what Stage 2 placed of a day's bucket
    refused,     \* [Day -> SUBSET Place]: what Stage 2 reported it could not place
    admitted,    \* how many reserves the current pool holds
    blocks,      \* learned <<p, d>>: not this place on that day
    conflicts,   \* learned {p, q}: not on any one day
    capacities,  \* learned [day, members, limit]
    stale,       \* days whose membership the trial changed
    best,        \* the best plan so far: [bucket, leftover, seated, refused, admitted]
    rounds, daySolves

facts == <<blocks, conflicts, capacities>>
assignment == <<bucket, leftover>>
routes == <<seated, refused>>
repairVars == <<phase, assignment, routes, admitted, facts, stale, best, rounds, daySolves>>

-----------------------------------------------------------------------------
\* Stage 1: assign_days

\* The pool the group's places and the first n reserves make.
Pool(n) == Selected \cup {Reserve[i] : i \in 1..n}

\* A block never narrows a place somebody else already decided on.
Feasible(p) ==
    IF p \in Protected \/ Pin[p] # 0 THEN Open[p]
    ELSE {d \in Open[p] : <<p, d>> \notin blocks}

\* The limit a capacity sets is dropped when pins alone exceed it, or when a
\* member is not in the pool.
Binds(c, n) ==
    /\ c.members \subseteq Pool(n)
    /\ Cardinality({p \in c.members : Pin[p] = c.day}) <= c.limit

MayShare(p, q) == Pin[p] # 0 /\ Pin[p] = Pin[q]

\* The buckets of a choice of days; 0 is the wishlist.
BucketsOf(dayOf) == [d \in Day |-> {p \in DOMAIN dayOf : dayOf[p] = d}]

LeftBy(dayOf) == {p \in DOMAIN dayOf : dayOf[p] = 0}

\* Every answer the hard constraints allow; the objective only picks one.
Assignments(n) ==
    {dayOf \in [Pool(n) -> 0..Days] :
        /\ \A p \in Pool(n) : dayOf[p] # 0 => dayOf[p] \in Feasible(p)
        /\ \A p \in Protected : dayOf[p] # 0
        /\ \A p \in Pool(n) : Pin[p] # 0 => dayOf[p] = Pin[p]
        /\ \A d \in Day : Cardinality({p \in Pool(n) : dayOf[p] = d}) <= Load
        /\ \A c \in capacities : Binds(c, n) =>
              Cardinality({p \in c.members : dayOf[p] = c.day}) <= c.limit
        /\ \A p, q \in Pool(n) :
              {p, q} \in conflicts /\ p # q /\ dayOf[p] # 0 /\ ~MayShare(p, q)
                  => dayOf[p] # dayOf[q]}

-----------------------------------------------------------------------------
\* Stage 2: solve_day

\* Mutant of Routable: a restaurant needs no meal.
RoutableAnytime(d, b) == {p \in b : d \in Open[p]}

Routable(d, b) == {p \in b : d \in Open[p] /\ <<p, d>> \notin NoMeal}

\* What one search may seat: the protected places of the day, or it raises.
SeatChoices(d, b) ==
    {s \in Seatable[d] : s \subseteq Routable(d, b) /\ Protected \cap b \subseteq s}

\* Mutant of Refusals: a restaurant no meal meets is passed over in silence.
RefusalsOfSearch(d, b, s) ==
    {p \in b : d \notin Open[p]} \cup (Routable(d, b) \ s)

\* What the day reports: the places that are closed, then the restaurants no meal
\* meets, then those of the rest the search did not seat.
Refusals(d, b, s) ==
    {p \in b : d \notin Open[p]}
    \cup {p \in b : d \in Open[p] /\ <<p, d>> \in NoMeal}
    \cup (Routable(d, b) \ s)

\* A refusal about the whole day: the clock ran out (no_day_fit).
Crowded(d) == refused[d] \cap Routable(d, bucket[d]) # {}

UnroutablePairs(d) == {pair \in Apart : pair \subseteq Routable(d, bucket[d])}

-----------------------------------------------------------------------------
\* repair.py

Placed(seats) == UNION {seats[d] : d \in Day}

\* plan_value: what the seated places are worth to the group.
Worth(seats) == FoldFunctionOnSet(+, 0, Value, Placed(seats))

\* Retained value first, stop count second.
MoreValue(new, old) ==
    \/ Worth(new) > Worth(old)
    \/ /\ Worth(new) = Worth(old)
       /\ Cardinality(Placed(new)) > Cardinality(Placed(old))

\* learn_incompatible_pairs
PairsLearned == conflicts \cup UNION {UnroutablePairs(d) : d \in Day}

\* Mutant of BlocksLearned: a full day blocks the place it refused.
BlocksFromAnyRefusal(pairs) ==
    blocks \cup {b \in Place \X Day : b[1] \in refused[b[2]] \ (Protected \cup UNION pairs)}

\* learn_day_blocks: only what is about the place and the date alone, and
\* never for one of two places that exclude each other.
BlocksLearned(pairs) ==
    blocks \cup {b \in NoMeal : b[1] \in refused[b[2]] \ (Protected \cup UNION pairs)}

\* Mutant of SeatsAtOnce: the plan's own count, which is what the objective
\* seated and not what could sit.
SeatsAsPlanned(d) == Cardinality(seated[d])

\* A proven probe: the most of this bucket that can share the day.
SeatsAtOnce(d) == Max({Cardinality(s) : s \in SeatChoices(d, bucket[d])})

\* Days asked how many of their places fit at once.
Probed == {d \in Day : Crowded(d) /\ Cardinality(bucket[d]) > 1}

\* merge_day_capacities over the probes whose search was proven.
CapacitiesLearned(proven) ==
    LET found == {[day |-> d, members |-> bucket[d], limit |-> SeatsAtOnce(d)] :
                     d \in {e \in proven : SeatsAtOnce(e) < Cardinality(bucket[e])}}
        Same(c, f) == c.day = f.day /\ c.members = f.members
    IN {c \in capacities : \A f \in found : Same(c, f) => c.limit <= f.limit}
       \cup {f \in found : \A c \in capacities : Same(c, f) => f.limit < c.limit}

\* Places no day can hold: refused on as many days as the trip has, or left
\* over by Stage 1 with no day to feasibly put them on.
Exhausted(newBlocks) ==
    {p \in Selected \ Protected : Cardinality({d \in Day : <<p, d>> \in newBlocks}) >= Days}
    \cup {p \in leftover : Feasible(p) = {}}

\* Mutant of ReplacementLimit: the reserves already admitted are not counted.
ReplacementLimitEachRound(holes) == MaxReplacements - admitted

ReplacementLimit(holes) ==
    Min({Cardinality(holes) - admitted, MaxReplacements - admitted})

\* select_replacements: the next reserves in rank order.
Replacements(holes) ==
    Max({0, Min({ReplacementLimit(holes), Len(Reserve) - admitted})})

-----------------------------------------------------------------------------
\* solve_full_routes

NoDay == [d \in Day |-> {}]

RepairInit ==
    /\ phase = "assign"
    /\ bucket = NoDay /\ leftover = {} /\ seated = NoDay /\ refused = NoDay /\ admitted = 0
    /\ blocks = {} /\ conflicts = {} /\ capacities = {} /\ stale = {}
    /\ best = [bucket |-> NoDay, leftover |-> {}, seated |-> NoDay, refused |-> NoDay, admitted |-> 0]
    /\ rounds = 0 /\ daySolves = 0

\* The first Stage 1 pass, over the selected places alone.
Assign ==
    /\ phase = "assign"
    /\ \E dayOf \in Assignments(0) : bucket' = BucketsOf(dayOf) /\ leftover' = LeftBy(dayOf)
    /\ phase' = "route"
    /\ UNCHANGED <<routes, admitted, facts, stale, best, rounds, daySolves>>

\* The first plan: every day is routed.
RouteAll ==
    /\ phase = "route"
    /\ \E seats \in [Day -> SUBSET Place] :
          /\ \A d \in Day : seats[d] \in SeatChoices(d, bucket[d])
          /\ seated' = seats
          /\ refused' = [d \in Day |-> Refusals(d, bucket[d], seats[d])]
    /\ best' = [bucket |-> bucket, leftover |-> leftover, seated |-> seated', refused |-> refused',
                admitted |-> 0]
    /\ phase' = "learn"
    /\ UNCHANGED <<assignment, admitted, facts, stale, rounds, daySolves>>

\* Refusals become facts, crowded days are probed, holes earn reserves; a
\* round that learns nothing and fills no hole ends the loop.
Learn ==
    /\ phase = "learn" /\ rounds < MaxRounds
    /\ \E proven \in SUBSET Probed :
          LET pairs == PairsLearned
              limits == CapacitiesLearned(proven)
              more == Replacements(Exhausted(BlocksLearned(pairs)))
          IN /\ \A d \in proven : SeatChoices(d, bucket[d]) # {}
             /\ conflicts' = pairs /\ blocks' = BlocksLearned(pairs) /\ capacities' = limits
             /\ admitted' = admitted + more
             /\ phase' = IF <<pairs, blocks', limits, more>> = <<conflicts, blocks, capacities, 0>>
                         THEN "done" ELSE "trial"
    /\ UNCHANGED <<assignment, routes, stale, best, rounds, daySolves>>

\* The trial Stage 1 pass over what was learned. It ends the loop when it
\* moves nobody, or when re-routing would exceed the day-solve budget.
Reassign ==
    /\ phase = "trial"
    /\ \E dayOf \in Assignments(admitted) :
          LET trial == BucketsOf(dayOf)
              changed == {d \in Day : trial[d] # bucket[d]}
          IN IF changed = {} \/ daySolves + Cardinality(changed) > MaxDaySolves
             THEN phase' = "done" /\ UNCHANGED <<assignment, stale>>
             ELSE phase' = "reroute" /\ bucket' = trial /\ leftover' = LeftBy(dayOf) /\ stale' = changed
    /\ UNCHANGED <<routes, admitted, facts, best, rounds, daySolves>>

\* The trial is worth as much as the best plan, or more.
TrialKept(seats) == ~MoreValue(best.seated, seats)

\* The changed days are routed; the trial replaces the best plan when it is
\* worth more, and is carried on from either way.
Reroute ==
    /\ phase = "reroute"
    /\ \E seats \in [Day -> SUBSET Place] :
          /\ \A d \in stale : seats[d] \in SeatChoices(d, bucket[d])
          /\ \A d \in Day \ stale : seats[d] = seated[d]
          /\ seated' = seats
          /\ refused' = [d \in Day |-> IF d \in stale THEN Refusals(d, bucket[d], seats[d])
                                      ELSE refused[d]]
          /\ \/ /\ TrialKept(seats)   \* better, or even and less transit
                /\ best' = [bucket |-> bucket, leftover |-> leftover, seated |-> seats,
                            refused |-> refused', admitted |-> admitted]
             \/ /\ ~MoreValue(seats, best.seated)
                /\ UNCHANGED best
    /\ daySolves' = daySolves + Cardinality(stale)
    /\ stale' = {} /\ rounds' = rounds + 1 /\ phase' = "learn"
    /\ UNCHANGED <<assignment, admitted, facts>>

OutOfRounds ==
    /\ phase = "learn" /\ rounds = MaxRounds
    /\ phase' = "done"
    /\ UNCHANGED <<assignment, routes, admitted, facts, stale, best, rounds, daySolves>>

\* RuntimeError: Stage 1 has no answer, or a day cannot be shown to hold its
\* protected places. Either search may also just run out of time.
RepairRaise ==
    /\ \/ phase \in {"assign", "trial"}
       \/ phase = "route" /\ \E d \in Day : Protected \cap bucket[d] # {}
       \/ phase = "reroute" /\ \E d \in stale : Protected \cap bucket[d] # {}
       \/ phase = "learn" /\ rounds < MaxRounds
          /\ \E d \in Probed : Protected \cap bucket[d] # {}
    /\ phase' = "failed"
    /\ UNCHANGED <<assignment, routes, admitted, facts, stale, best, rounds, daySolves>>

RepairEnded == phase \in {"done", "failed"} /\ UNCHANGED repairVars

RepairNext ==
    \/ Assign \/ RouteAll \/ Learn \/ Reassign \/ Reroute
    \/ OutOfRounds \/ RepairRaise \/ RepairEnded

RepairSpec == RepairInit /\ [][RepairNext]_repairVars

-----------------------------------------------------------------------------
\* The answer: SolverResult, from the best plan and every fact learned

Result == Placed(best.seated)

\* Stage 1's leftovers and Stage 2's refusals of the plan that is kept, without
\* the reserves it had been offered.
Wishlist ==
    (best.leftover \cup ((UNION {best.refused[d] : d \in Day}) \ Result))
        \ {Reserve[i] : i \in 1..best.admitted}

-----------------------------------------------------------------------------
\* Properties

PlanType == [bucket : [Day -> SUBSET Place], leftover : SUBSET Place, seated : [Day -> SUBSET Place],
             refused : [Day -> SUBSET Place], admitted : 0..Len(Reserve)]

RepairTypeOK ==
    /\ phase \in {"assign", "route", "learn", "trial", "reroute", "done", "failed"}
    /\ bucket \in [Day -> SUBSET Place] /\ leftover \subseteq Place
    /\ seated \in [Day -> SUBSET Place] /\ refused \in [Day -> SUBSET Place]
    /\ admitted \in 0..Len(Reserve)
    /\ blocks \subseteq Place \X Day
    /\ conflicts \subseteq SUBSET Place
    /\ capacities \subseteq [day : Day, members : SUBSET Place, limit : Int]
    /\ stale \subseteq Day
    /\ best \in PlanType
    /\ rounds \in Nat /\ daySolves \in Nat

Answered == phase = "done"

\* Every shortlisted place is either on one day of the plan or on the wishlist,
\* which is collected from what both stages reported of the plan that is kept:
\* also when that is not the one the last round was working on, or when some of
\* its days were routed rounds before the others.  And every must-go or pinned
\* place is in the plan, on its own day when it has one.
EveryPlaceAccounted ==
    Answered =>
        /\ Selected = (Result \cap Selected) \cup Wishlist
        /\ Result \cap Wishlist = {}
        /\ \A d, e \in Day : d # e => best.seated[d] \cap best.seated[e] = {}
        /\ \A d \in Day : best.seated[d] \in Seatable[d]
        /\ \A p \in Protected :
              \E d \in Day : p \in best.seated[d] /\ Pin[p] \in {0, d}

\* One hole, one replacement: the plan holds no more reserves than there are
\* shortlisted places that no day is left for.
OneReplacementPerHole ==
    Answered =>
        Cardinality(Result \cap ReserveSet) <=
            Cardinality({p \in Selected \ Result :
                           \A d \in Open[p] : <<p, d>> \in blocks})

\* What Stage 1 is told is true of the day: no set the day can hold seats a
\* blocked place, and none that keeps the day's protected places seats more of
\* a bucket than its capacity says.
FactsHold ==
    /\ \A b \in blocks : \A s \in SeatChoices(b[2], Place \ Protected) : b[1] \notin s
    /\ \A c \in capacities : \A s \in SeatChoices(c.day, c.members) : Cardinality(s) <= c.limit

=============================================================================
