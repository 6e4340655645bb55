---------------------------- MODULE PlanningProofs ----------------------------
(***************************************************************************)
(* Proofs about what the solver rests on: the transit chain, for any       *)
(* stops, providers and number of days; the repair loop; the rescue of a   *)
(* day; and the meal breaks found in the saved stops of a day.             *)
(***************************************************************************)
EXTENDS RoutingRepair, TransitChain, DayRescue, DaySchedule, FiniteSetTheorems, TLAPS

(***************************************************************************)
(* The transit chain                                                       *)
(***************************************************************************)

\* A provider has said no, or could not say.
Asked(p, arc) == <<p, arc>> \in declined \/ p \in failed

\* While the chain is walked nothing is estimated, and every provider behind the
\* turn was asked about every arc that is still open.
Walked ==
    turn # 0 =>
        /\ unroutable = {} /\ \A leg \in legs : leg.by # "estimate"
        /\ \A arc \in Outstanding : \A i \in 1..(turn - 1) : Asked(Chain[i], arc)

\* A leg is cached under the departure it is for.
CacheHonest ==
    /\ turn # 0 => departure \in Departure
    /\ \A entry \in cache :
          entry.at \in Departure /\ \E p \in Provider, arc \in Arc : entry.key = <<p, arc, entry.at>>

ChainInv == TransitTypeOK /\ CacheHonest /\ Walked /\ EveryProviderTried /\ LegsOfThisDeparture

LEMMA ChainInit == TransitInit => ChainInv
  BY TransitAssumption
  DEF TransitInit, ChainInv, TransitTypeOK, CacheHonest, Walked, EveryProviderTried,
      LegsOfThisDeparture

\* What a provider's cache hands back: legs for askable arcs, by it, for this
\* departure, and one for an arc.
LEMMA HitsSound ==
    ASSUME CacheHonest, NEW p \in Provider, NEW arcs, NEW leg \in Hits(p, arcs)
    PROVE  leg = [arc |-> leg.arc, by |-> p, at |-> departure] /\ leg.arc \in arcs
  <1>1. PICK pair \in arcs \X cache :
            /\ pair[2].key = CacheKey(p, pair[1])
            /\ leg = [arc |-> pair[1], by |-> p, at |-> pair[2].at]
    BY DEF Hits
  <1>2. pair[2].at = departure
    BY <1>1 DEF CacheHonest, CacheKey
  <1>3. QED
    BY <1>1, <1>2

\* The place a turn points at is a provider.
LEMMA TurnsAreProviders ==
    ASSUME TransitTypeOK, turn \in DOMAIN Chain
    PROVE  /\ turn \in 1..Len(Chain) /\ turn + 1 \in 0..(Len(Chain) + 1)
           /\ turn # 0 /\ turn + 1 # 0
           /\ Chain[turn] \in Provider /\ Chain[turn] # "estimate"
  <1>1. Len(Chain) \in Nat /\ DOMAIN Chain = 1..Len(Chain)
    BY TransitAssumption
  <1>2. turn \in 1..Len(Chain)
    BY <1>1
  <1>3. Chain[turn] \in Provider /\ Chain[turn] # "estimate"
    BY TransitAssumption DEF Provider
  <1>4. QED
    BY <1>1, <1>2, <1>3

\* A provider that answers, from its cache or not, leaves a leg or a refusal for
\* whatever it could be asked.
LEMMA AnswersKept ==
    ASSUME ChainInv, ProviderAnswers
    PROVE  ChainInv'
  <1> DEFINE p == Chain[turn]
             hits == Hits(p, Askable(p))
             asked == Askable(p) \ {leg.arc : leg \in hits}
  <1>1. /\ turn \in 1..Len(Chain) /\ turn + 1 \in 0..(Len(Chain) + 1)
        /\ turn # 0 /\ turn + 1 # 0 /\ p \in Provider /\ p # "estimate"
    BY TurnsAreProviders DEF ChainInv, ProviderAnswers
  <1>2. PICK found \in SUBSET asked :
            /\ legs' = legs \cup hits
                   \cup {[arc |-> arc, by |-> p, at |-> departure] : arc \in found}
            /\ cache' = cache
                   \cup {[key |-> CacheKey(p, arc), at |-> departure] : arc \in found}
            /\ declined' = declined \cup ({p} \X (asked \ found))
    BY DEF ProviderAnswers
  <1>3. /\ turn' = turn + 1 /\ departure' = departure /\ visited' = visited
        /\ unroutable' = unroutable /\ failed' = failed /\ requests' = requests
    BY DEF ProviderAnswers
  <1>4. /\ \A arc \in Askable(p) : arc \in Outstanding /\ <<p, arc>> \notin declined
        /\ Outstanding \subseteq Arc /\ asked \subseteq Askable(p)
        /\ \A leg \in legs : leg.arc \notin Outstanding
    BY DEF Askable, Outstanding, RequiredArcs
  <1>5. \A leg \in hits :
            leg = [arc |-> leg.arc, by |-> p, at |-> departure] /\ leg.arc \in Askable(p)
    BY <1>1, HitsSound DEF ChainInv
  <1>6. /\ departure \in Departure
        /\ unroutable = {} /\ \A leg \in legs : leg.by # "estimate"
    BY <1>1 DEF ChainInv, CacheHonest, Walked
  <1>7. \A leg \in legs' :
            \/ leg \in legs
            \/ leg \in hits
            \/ leg.arc \in found /\ leg = [arc |-> leg.arc, by |-> p, at |-> departure]
    BY <1>2
  <1>8. TransitTypeOK'
    <2>1. legs' \subseteq [arc : Arc, by : Provider \cup {"estimate"}, at : Departure]
      <3>1. legs \subseteq [arc : Arc, by : Provider \cup {"estimate"}, at : Departure]
        BY DEF ChainInv, TransitTypeOK
      <3>2. \A arc \in Askable(p) :
               [arc |-> arc, by |-> p, at |-> departure]
                   \in [arc : Arc, by : Provider \cup {"estimate"}, at : Departure]
        BY <1>1, <1>4, <1>6
      <3>3. QED
        BY <1>4, <1>5, <1>7, <3>1, <3>2
    <2>2. declined' \subseteq Provider \X Arc
      BY <1>1, <1>2, <1>4 DEF ChainInv, TransitTypeOK
    <2>3. \A entry \in cache' : entry.at \in Departure
      BY <1>2, <1>6 DEF ChainInv, TransitTypeOK
    <2>4. QED
      BY <1>1, <1>3, <2>1, <2>2, <2>3 DEF ChainInv, TransitTypeOK
  <1>9. CacheHonest'
    <2>1. \A entry \in cache' :
             entry.at \in Departure /\ \E q \in Provider, arc \in Arc : entry.key = <<q, arc, entry.at>>
      <3>1. \A arc \in found : arc \in Arc
        BY <1>4
      <3>2. QED
        BY <1>1, <1>2, <1>6, <3>1 DEF ChainInv, CacheHonest, CacheKey
    <2>2. QED
      BY <1>3, <1>6, <2>1 DEF CacheHonest
  <1>10. Walked'
    <2>1. \A leg \in legs' : leg.by # "estimate"
      BY <1>1, <1>5, <1>6, <1>7
    <2>2. ASSUME NEW arc \in Outstanding', NEW i \in 1..turn
          PROVE  Asked(Chain[i], arc)'
      <3>1. arc \in Outstanding /\ \A leg \in legs' : leg.arc # arc
        BY <1>2, <1>3 DEF Outstanding, RequiredArcs
      <3>2. CASE i \in 1..(turn - 1)
        BY <1>1, <1>2, <1>3, <3>1, <3>2 DEF ChainInv, Walked, Asked
      <3>3. CASE i = turn
        <4>1. CASE <<p, arc>> \in declined
          BY <1>2, <3>3, <4>1 DEF Asked
        <4>2. CASE <<p, arc>> \notin declined
          <5>1. arc \in asked
            BY <1>2, <3>1, <4>2 DEF Askable
          <5>2. arc \notin found
            <6>1. SUFFICES ASSUME arc \in found PROVE FALSE
              OBVIOUS
            <6>2. [arc |-> arc, by |-> p, at |-> departure] \in legs'
              BY <1>2, <6>1
            <6>3. QED
              BY <3>1, <6>2
          <5>3. QED
            BY <1>2, <3>3, <5>1, <5>2 DEF Asked
        <4>3. QED
          BY <4>1, <4>2
      <3>4. QED
        BY <1>1, <3>2, <3>3
    <2>3. turn' - 1 = turn
      BY <1>1, <1>3
    <2>4. unroutable' = {}
      BY <1>3, <1>6
    <2>5. \A arc \in Outstanding' : \A i \in 1..(turn' - 1) : Asked(Chain[i], arc)'
      BY <2>2, <2>3
    <2>6. QED
      BY <2>1, <2>4, <2>5 DEF Walked, Asked
  <1>11. EveryProviderTried'
    BY <1>3, <1>6, <1>10, <1>1 DEF EveryProviderTried, Walked
  <1>12. LegsOfThisDeparture'
    <2>1. \A leg \in legs' : leg.at = departure'
      BY <1>3, <1>5, <1>7 DEF ChainInv, LegsOfThisDeparture
    <2>2. ASSUME NEW leg \in legs', NEW other \in legs', leg.arc = other.arc
          PROVE  leg = other
      <3>1. \A arc \in found : arc \in Outstanding /\ \A hit \in hits : hit.arc # arc
        BY <1>4
      <3>2. QED
        BY <1>4, <1>5, <1>7, <2>2, <3>1 DEF ChainInv, LegsOfThisDeparture
    <2>3. unroutable' = {}
      BY <1>3, <1>6
    <2>4. QED
      BY <2>1, <2>2, <2>3 DEF LegsOfThisDeparture
  <1>13. QED
    BY <1>8, <1>9, <1>10, <1>11, <1>12 DEF ChainInv

\* What is left at the end of the chain was refused, or not answered, by all.
LEMMA EstimatesKept ==
    ASSUME ChainInv, Estimate
    PROVE  ChainInv'
  <1>1. /\ Len(Chain) \in Nat /\ DOMAIN Chain = 1..Len(Chain)
        /\ turn = Len(Chain) + 1 /\ turn # 0 /\ turn - 1 = Len(Chain)
        /\ turn' = 0
    BY TransitAssumption DEF Estimate
  <1>2. /\ departure' = departure /\ visited' = visited /\ declined' = declined
        /\ cache' = cache /\ failed' = failed /\ requests' = requests
        /\ unroutable' = Outstanding \ InRange
    BY DEF Estimate
  <1>3. /\ departure \in Departure
        /\ \A leg \in legs : leg.by # "estimate"
        /\ \A arc \in Outstanding : \A i \in 1..Len(Chain) : Asked(Chain[i], arc)
    BY <1>1 DEF ChainInv, CacheHonest, Walked
  <1>4. /\ \A leg \in legs : leg.arc \notin Outstanding
        /\ Outstanding \subseteq Arc
    BY DEF Outstanding, RequiredArcs
  <1>5. \A leg \in legs' :
            \/ leg \in legs
            \/ /\ leg.arc \in Outstanding \cap InRange
               /\ leg = [arc |-> leg.arc, by |-> "estimate", at |-> departure]
    BY DEF Estimate
  <1>6. TransitTypeOK'
    <2>1. legs' \subseteq [arc : Arc, by : Provider \cup {"estimate"}, at : Departure]
      BY <1>3, <1>4, <1>5 DEF ChainInv, TransitTypeOK
    <2>2. QED
      BY <1>1, <1>2, <1>4, <2>1 DEF ChainInv, TransitTypeOK
  <1>7. CacheHonest' /\ Walked'
    BY <1>1, <1>2 DEF ChainInv, CacheHonest, Walked
  <1>8. EveryProviderTried'
    <2>1. ASSUME NEW arc \in Outstanding, NEW p \in Provider
          PROVE  <<p, arc>> \in declined' \/ p \in failed'
      <3>1. PICK i \in DOMAIN Chain : p = Chain[i]
        BY DEF Provider
      <3>2. QED
        BY <1>1, <1>2, <1>3, <3>1 DEF Asked
    <2>2. \A leg \in legs' : leg.by = "estimate" => leg.arc \in Outstanding
      BY <1>3, <1>5
    <2>3. \A arc \in unroutable' : arc \in Outstanding
      BY <1>2
    <2>4. QED
      BY <2>1, <2>2, <2>3 DEF EveryProviderTried
  <1>9. LegsOfThisDeparture'
    <2>1. \A leg \in legs' : leg.at = departure'
      BY <1>2, <1>5 DEF ChainInv, LegsOfThisDeparture
    <2>2. \A leg, other \in legs' : leg.arc = other.arc => leg = other
      BY <1>4, <1>5 DEF ChainInv, LegsOfThisDeparture
    <2>3. unroutable' \cap {leg.arc : leg \in legs'} = {}
      BY <1>2, <1>4, <1>5
    <2>4. QED
      BY <2>1, <2>2, <2>3 DEF LegsOfThisDeparture
  <1>10. QED
    BY <1>6, <1>7, <1>8, <1>9 DEF ChainInv

LEMMA ChainStep == ChainInv /\ [TransitNext]_transitVars => ChainInv'
  <1> SUFFICES ASSUME ChainInv, [TransitNext]_transitVars
               PROVE  ChainInv'
    OBVIOUS
  <1>1. CASE UNCHANGED transitVars
    BY <1>1 DEF transitVars, ChainInv, TransitTypeOK, CacheHonest, Walked, Asked, Outstanding,
               RequiredArcs, EveryProviderTried, LegsOfThisDeparture
  <1>2. ASSUME NEW w \in Departure, NEW places \in SUBSET Stops, RequestDay(w, places)
        PROVE  ChainInv'
    <2>1. Len(Chain) \in Nat /\ MaxRequests \in Nat
      BY TransitAssumption
    <2>2. TransitTypeOK'
      BY <1>2, <2>1 DEF ChainInv, RequestDay, TransitTypeOK
    <2>3. CacheHonest' /\ EveryProviderTried' /\ LegsOfThisDeparture'
      BY <1>2 DEF ChainInv, RequestDay, CacheHonest, EveryProviderTried, LegsOfThisDeparture
    <2>4. Walked'
      BY <1>2 DEF RequestDay, Walked
    <2>5. QED
      BY <2>2, <2>3, <2>4 DEF ChainInv
  <1>3. CASE PassOver
    <2>1. /\ turn \in 1..Len(Chain) /\ turn + 1 \in 0..(Len(Chain) + 1)
          /\ turn # 0 /\ turn + 1 # 0 /\ Chain[turn] \in Provider
      BY <1>3, TurnsAreProviders DEF ChainInv, PassOver
    <2>2. TransitTypeOK' /\ CacheHonest' /\ EveryProviderTried' /\ LegsOfThisDeparture'
      BY <1>3, <2>1 DEF ChainInv, PassOver, TransitTypeOK, CacheHonest, EveryProviderTried,
                       LegsOfThisDeparture
    <2>3. ASSUME NEW arc \in Outstanding, NEW i \in 1..turn
          PROVE  Asked(Chain[i], arc)
      BY <1>3, <2>1 DEF ChainInv, Walked, PassOver, Askable, Asked
    <2>4. Walked'
      BY <1>3, <2>1, <2>3 DEF ChainInv, PassOver, Walked, Asked, Outstanding, RequiredArcs
    <2>5. QED
      BY <2>2, <2>4 DEF ChainInv
  <1>4. CASE ProviderFails
    <2>1. /\ turn \in 1..Len(Chain) /\ turn + 1 \in 0..(Len(Chain) + 1)
          /\ turn # 0 /\ turn + 1 # 0 /\ Chain[turn] \in Provider
      BY <1>4, TurnsAreProviders DEF ChainInv, ProviderFails
    <2>2. TransitTypeOK' /\ CacheHonest' /\ EveryProviderTried' /\ LegsOfThisDeparture'
      BY <1>4, <2>1 DEF ChainInv, ProviderFails, AfterFailure, TransitTypeOK, CacheHonest,
                       EveryProviderTried, LegsOfThisDeparture
    <2>3. Walked'
      BY <1>4, <2>1 DEF ChainInv, ProviderFails, AfterFailure, Walked, Asked, Outstanding,
                       RequiredArcs
    <2>4. QED
      BY <2>2, <2>3 DEF ChainInv
  <1>5. CASE CacheExpires
    BY <1>5 DEF CacheExpires, ChainInv, TransitTypeOK, CacheHonest, Walked, Asked, Outstanding,
               RequiredArcs, EveryProviderTried, LegsOfThisDeparture
  <1>6. QED
    BY <1>1, <1>2, <1>3, <1>4, <1>5, AnswersKept, EstimatesKept DEF TransitNext

LEMMA ChainInvariant == TransitSpec => []ChainInv
  BY ChainInit, ChainStep, PTL DEF TransitSpec

\* The request in progress, its legs and the memory of the chain keep their types.
THEOREM TransitTypeCorrect == TransitSpec => []TransitTypeOK
  <1>1. ChainInv => TransitTypeOK
    BY DEF ChainInv
  <1>2. QED
    BY <1>1, ChainInvariant, PTL

\* No provider is skipped because of how another one answered, failed or was
\* cached: an arc reaches the estimate only past all of them.
THEOREM EveryProviderTriedHolds == TransitSpec => []EveryProviderTried
  <1>1. ChainInv => EveryProviderTried
    BY DEF ChainInv
  <1>2. QED
    BY <1>1, ChainInvariant, PTL

\* The legs of a day are its own, one for an arc, whatever the cache kept from
\* the other days.
THEOREM LegsOfThisDepartureHolds == TransitSpec => []LegsOfThisDeparture
  <1>1. ChainInv => LegsOfThisDeparture
    BY DEF ChainInv
  <1>2. QED
    BY <1>1, ChainInvariant, PTL

(***************************************************************************)
(* The repair loop                                                         *)
(***************************************************************************)

\* An assignment over the first n reserves: nobody is on two days, and every
\* protected place is on a day, its own if it has one.  The rest, of the selected
\* places all that have no day, is left over.
Kept(days, rest, n) ==
    /\ \A d \in Day : days[d] \subseteq Pool(n) /\ days[d] \cap rest = {}
    /\ rest \subseteq Pool(n) /\ Selected \subseteq rest \cup UNION {days[d] : d \in Day}
    /\ \A d, e \in Day : d # e => days[d] \cap days[e] = {}
    /\ \A p \in Protected : \E d \in Day : p \in days[d] /\ Pin[p] \in {0, d}

\* Those days are seated as one search may seat them, and report the others.
Fitting(days, seats, others, these) ==
    \A d \in these : /\ seats[d] \in SeatChoices(d, days[d])
                     /\ others[d] = Refusals(d, days[d], seats[d])

\* Places of the pool that the known blocks leave no day.
Holes(known, n) == {p \in Pool(n) : \A d \in Open[p] : <<p, d>> \in known}

PlansStand ==
    /\ phase \in {"assign", "route"} => admitted = 0
    /\ phase \notin {"assign", "failed"} => Kept(bucket, leftover, admitted)
    /\ phase \in {"learn", "trial"} => Fitting(bucket, seated, refused, Day)
    /\ phase = "reroute" => Fitting(bucket, seated, refused, Day \ stale)
    /\ phase \in {"learn", "trial", "reroute", "done"} =>
          /\ Kept(best.bucket, best.leftover, best.admitted)
          /\ Fitting(best.bucket, best.seated, best.refused, Day)
          /\ best.admitted <= admitted

\* A block is a fact about the place's own hours, a capacity one about the day's
\* clock.
FactsSound ==
    /\ blocks \subseteq NoMeal
    /\ \A c \in capacities : \A s \in SeatChoices(c.day, c.members) : Cardinality(s) <= c.limit

\* Every reserve was admitted for a place that has no day, or for a reserve that
\* turned out to have none.
HolesPaid == admitted <= Cardinality(Holes(blocks, admitted))

RepairInv == RepairTypeOK /\ PlansStand /\ FactsSound /\ HolesPaid

\* A bounded set of naturals has a largest member: the smallest 0..m that covers
\* it ends in one.
LEMMA Largest ==
    ASSUME NEW S \in SUBSET Nat, S # {}, NEW n \in Nat, \A x \in S : x <= n
    PROVE  Max(S) \in S /\ \A y \in S : Max(S) >= y
  <1> DEFINE T == {0..m : m \in {k \in 0..n : \A x \in S : x <= k}}
  <1>1. T \subseteq FiniteSubsetsOf(Nat)
    <2>1. ASSUME NEW m \in 0..n PROVE IsFiniteSet(0..m) /\ 0..m \subseteq Nat
      BY FS_Interval
    <2>2. QED
      BY <2>1 DEF FiniteSubsetsOf
  <1>2. 0..n \in T
    OBVIOUS
  <1>3. PICK U \in T : \A V \in T : <<V, U>> \notin StrictSubsetOrdering(Nat)
    BY <1>1, <1>2, FS_StrictSubsetOrderingWellFounded, WFMin
  <1>4. PICK m \in 0..n : U = 0..m /\ \A x \in S : x <= m
    BY <1>3
  <1>5. m \in S
    <2>1. SUFFICES ASSUME m \notin S PROVE FALSE
      OBVIOUS
    <2>2. PICK x \in S : TRUE
      OBVIOUS
    <2>3. m - 1 \in 0..n /\ \A y \in S : y <= m - 1
      <3>1. \A y \in S : y \in Nat /\ y <= m /\ y # m
        BY <1>4, <2>1
      <3>2. QED
        BY <2>2, <3>1
    <2>4. 0..(m - 1) \in T
      BY <2>3
    <2>5. 0..(m - 1) \subseteq 0..m /\ m \in 0..m /\ m \notin 0..(m - 1)
      OBVIOUS
    <2>6. 0..(m - 1) \in SUBSET Nat /\ 0..m \in SUBSET Nat
      OBVIOUS
    <2>7. <<0..(m - 1), 0..m>> \in StrictSubsetOrdering(Nat)
      BY <2>5, <2>6, Zenon DEF StrictSubsetOrdering
    <2>8. QED
      BY <1>3, <1>4, <2>4, <2>7
  <1>6. \E x \in S : \A y \in S : x >= y
    BY <1>4, <1>5
  <1>7. QED
    BY <1>6 DEF Max

\* The smaller and the larger of two numbers.
LEMMA OfTwo ==
    ASSUME NEW x \in Int, NEW y \in Int
    PROVE  /\ Min({x, y}) \in Int /\ Min({x, y}) <= x /\ Min({x, y}) <= y
           /\ Max({x, y}) \in {x, y} /\ Max({x, y}) >= x /\ Max({x, y}) >= y
  <1>1. \E z \in {x, y} : \A w \in {x, y} : z =< w
    OBVIOUS
  <1>2. \E z \in {x, y} : \A w \in {x, y} : z >= w
    OBVIOUS
  <1>3. Min({x, y}) \in {x, y} /\ \A w \in {x, y} : Min({x, y}) =< w
    BY <1>1 DEF Min
  <1>4. Max({x, y}) \in {x, y} /\ \A w \in {x, y} : Max({x, y}) >= w
    BY <1>2 DEF Max
  <1>5. QED
    BY <1>3, <1>4

\* The reserves admitted are reserves, no more than were counted.
LEMMA Admitted ==
    ASSUME NEW n \in 0..Len(Reserve)
    PROVE  /\ {Reserve[i] : i \in 1..n} \subseteq ReserveSet
           /\ IsFiniteSet({Reserve[i] : i \in 1..n})
           /\ Cardinality({Reserve[i] : i \in 1..n}) \in Nat
           /\ Cardinality({Reserve[i] : i \in 1..n}) <= n
  <1> DEFINE S == {Reserve[i] : i \in 1..n}
             rank == [i \in 1..n |-> Reserve[i]]
  <1>1. Len(Reserve) \in Nat /\ DOMAIN Reserve = 1..Len(Reserve)
    BY RepairAssumption
  <1>2. S \subseteq ReserveSet
    BY <1>1 DEF ReserveSet
  <1>3. rank \in Surjection(1..n, S)
    BY DEF Surjection
  <1>4. IsFiniteSet(1..n) /\ Cardinality(1..n) = n
    BY <1>1, FS_Interval
  <1>5. IsFiniteSet(S) /\ Cardinality(S) <= n
    BY <1>3, <1>4, FS_Surjection
  <1>6. QED
    BY <1>2, <1>5, FS_CardinalityType

LEMMA Pools ==
    ASSUME NEW n \in 0..Len(Reserve)
    PROVE  /\ Selected \subseteq Pool(n) /\ Pool(n) \subseteq Place
           /\ IsFiniteSet(Pool(n))
           /\ Pool(n) \ Selected \subseteq {Reserve[i] : i \in 1..n}
           /\ \A m \in n..Len(Reserve) : Pool(n) \subseteq Pool(m)
  <1>1. Len(Reserve) \in Nat /\ IsFiniteSet(Selected)
    BY RepairAssumption
  <1>2. IsFiniteSet(Pool(n))
    BY <1>1, Admitted, FS_Union DEF Pool
  <1>3. \A m \in n..Len(Reserve) : 1..n \subseteq 1..m
    BY <1>1
  <1>4. QED
    BY <1>2, <1>3, Admitted DEF Pool, Place

LEMMA PlacesFinite == IsFiniteSet(Place) /\ Cardinality(Place) \in Nat
  <1>1. Len(Reserve) \in 0..Len(Reserve) /\ DOMAIN Reserve = 1..Len(Reserve)
    BY RepairAssumption
  <1>2. Pool(Len(Reserve)) = Place
    BY <1>1 DEF Pool, Place, ReserveSet
  <1>3. QED
    BY <1>1, <1>2, Pools, FS_CardinalityType

LEMMA HolesFinite ==
    ASSUME NEW n \in 0..Len(Reserve), NEW known
    PROVE  /\ Holes(known, n) \subseteq Pool(n) /\ IsFiniteSet(Holes(known, n))
           /\ Cardinality(Holes(known, n)) \in Nat
  BY Pools, FS_Subset, FS_CardinalityType DEF Holes

\* A search seats places of the bucket it was given, on a day they are open and
\* can be served, and none of the protected ones is left out.
LEMMA SeatsAreRouted ==
    ASSUME NEW d \in Day, NEW b, NEW s \in SeatChoices(d, b)
    PROVE  /\ s \in Seatable[d] /\ s \subseteq b /\ Protected \cap b \subseteq s
           /\ \A p \in s : d \in Open[p] /\ <<p, d>> \notin NoMeal
  BY DEF SeatChoices, Routable

\* Of a bucket, what is not seated is reported.
LEMMA RefusalsTold ==
    ASSUME NEW d \in Day, NEW b, NEW s, s \subseteq b
    PROVE  Refusals(d, b, s) \subseteq b /\ b \subseteq s \cup Refusals(d, b, s)
  BY DEF Refusals, Routable

\* What Stage 1 answers keeps everybody on one day and every promise on its own.
LEMMA AssignmentsKept ==
    ASSUME NEW n \in 0..Len(Reserve), NEW dayOf \in Assignments(n)
    PROVE  /\ Kept(BucketsOf(dayOf), LeftBy(dayOf), n)
           /\ BucketsOf(dayOf) \in [Day -> SUBSET Place] /\ LeftBy(dayOf) \subseteq Place
  <1>1. /\ dayOf \in [Pool(n) -> 0..Days]
        /\ \A p \in Protected : dayOf[p] # 0
        /\ \A p \in Pool(n) : Pin[p] # 0 => dayOf[p] = Pin[p]
    BY DEF Assignments
  <1>2. \A d \in Day : BucketsOf(dayOf)[d] = {p \in Pool(n) : dayOf[p] = d}
    BY <1>1 DEF BucketsOf
  <1>3. ASSUME NEW p \in Protected
        PROVE  \E d \in Day : p \in BucketsOf(dayOf)[d] /\ Pin[p] \in {0, d}
    <2>1. p \in Selected /\ p \in Pool(n) /\ Days \in Nat
      BY RepairAssumption, Pools
    <2>2. dayOf[p] \in Day
      BY <1>1, <2>1 DEF Day
    <2>3. QED
      BY <1>1, <1>2, <2>1, <2>2
  <1>4. /\ LeftBy(dayOf) = {p \in Pool(n) : dayOf[p] = 0}
        /\ Selected \subseteq Pool(n) /\ Pool(n) \subseteq Place /\ Days \in Nat /\ 0 \notin Day
    BY <1>1, RepairAssumption, Pools DEF LeftBy, Day
  <1>5. ASSUME NEW p \in Selected
        PROVE  p \in LeftBy(dayOf) \cup UNION {BucketsOf(dayOf)[d] : d \in Day}
    <2>1. dayOf[p] = 0 \/ dayOf[p] \in Day
      BY <1>1, <1>4 DEF Day
    <2>2. QED
      BY <1>2, <1>4, <2>1
  <1>6. QED
    BY <1>1, <1>2, <1>3, <1>4, <1>5 DEF Kept, BucketsOf

\* A probe tells how many of a bucket the day can hold.
LEMMA ProbesTell ==
    ASSUME NEW d \in Day, bucket \in [Day -> SUBSET Place],
           SeatChoices(d, bucket[d]) # {}
    PROVE  /\ SeatsAtOnce(d) \in Nat
           /\ \A s \in SeatChoices(d, bucket[d]) : Cardinality(s) <= SeatsAtOnce(d)
  <1> DEFINE S == {Cardinality(s) : s \in SeatChoices(d, bucket[d])}
  <1>1. ASSUME NEW s \in SeatChoices(d, bucket[d])
        PROVE  Cardinality(s) \in Nat /\ Cardinality(s) <= Cardinality(Place)
    <2>1. s \in SUBSET Place
      BY SeatsAreRouted
    <2>2. QED
      BY <2>1, PlacesFinite, FS_Subset, FS_CardinalityType
  <1>2. Max(S) \in S /\ \A y \in S : Max(S) >= y
    BY <1>1, PlacesFinite, Largest
  <1>3. \A s \in SeatChoices(d, bucket[d]) : Cardinality(s) \in S
    OBVIOUS
  <1>4. QED
    BY <1>1, <1>2, <1>3 DEF SeatsAtOnce

LEMMA RepairStarts == RepairInit => RepairInv
  <1> SUFFICES ASSUME RepairInit PROVE RepairInv
    OBVIOUS
  <1>1. Len(Reserve) \in Nat
    BY RepairAssumption
  <1>2. RepairTypeOK
    BY <1>1 DEF RepairInit, RepairTypeOK, PlanType, NoDay
  <1>3. PlansStand /\ FactsSound
    BY DEF RepairInit, PlansStand, FactsSound
  <1>4. HolesPaid
    BY <1>1, HolesFinite DEF RepairInit, HolesPaid
  <1>5. QED
    BY <1>2, <1>3, <1>4 DEF RepairInv

\* An exhausted place is a hole once its blocks are learned.
LEMMA ExhaustedAreHoles ==
    ASSUME RepairTypeOK, leftover \subseteq Pool(admitted), NEW known, blocks \subseteq known
    PROVE  Exhausted(known) \subseteq Holes(known, admitted)
  <1>0. admitted \in 0..Len(Reserve)
    BY DEF RepairTypeOK
  <1>1. ASSUME NEW p \in Selected \ Protected,
               Cardinality({d \in Day : <<p, d>> \in known}) >= Days
        PROVE  \A d \in Open[p] : <<p, d>> \in known
    <2> DEFINE D == {d \in Day : <<p, d>> \in known}
    <2>1. IsFiniteSet(Day) /\ Cardinality(Day) = Days /\ Days \in Nat
      BY RepairAssumption, FS_Interval DEF Day
    <2>2. IsFiniteSet(D) /\ Cardinality(D) <= Days /\ (Cardinality(D) = Days => D = Day)
      BY <2>1, FS_Subset
    <2>3. D = Day
      BY <1>1, <2>1, <2>2, FS_CardinalityType
    <2>4. Open[p] \subseteq Day
      BY RepairAssumption DEF Place
    <2>5. QED
      BY <2>3, <2>4
  <1>2. ASSUME NEW p \in Pool(admitted), Feasible(p) = {}
        PROVE  \A d \in Open[p] : <<p, d>> \in known
    BY <1>2 DEF Feasible
  <1>3. Selected \subseteq Pool(admitted)
    BY <1>0, Pools
  <1>4. \A p \in Exhausted(known) :
            p \in Pool(admitted) /\ \A d \in Open[p] : <<p, d>> \in known
    BY <1>1, <1>2, <1>3 DEF Exhausted
  <1>5. QED
    BY <1>4 DEF Holes

\* Reserves are admitted up to one for a hole, and no more than there are.
LEMMA ReplacementsPaid ==
    ASSUME RepairTypeOK, NEW holes, IsFiniteSet(holes)
    PROVE  /\ admitted + Replacements(holes) \in admitted..Len(Reserve)
           /\ Replacements(holes) = 0 \/ admitted + Replacements(holes) <= Cardinality(holes)
  <1>1. /\ Len(Reserve) \in Nat /\ MaxReplacements \in Nat /\ Cardinality(holes) \in Nat
        /\ admitted \in 0..Len(Reserve)
    BY RepairAssumption, FS_CardinalityType DEF RepairTypeOK
  <1> DEFINE open == Cardinality(holes) - admitted
             spare == MaxReplacements - admitted
             left == Len(Reserve) - admitted
             none == 0
             limit == ReplacementLimit(holes)
             most == Min({limit, left})
  <1>2. /\ limit = Min({open, spare}) /\ most = Min({limit, left})
        /\ Replacements(holes) = Max({none, most})
    BY DEF ReplacementLimit, Replacements
  <1>3. open \in Int /\ spare \in Int /\ left \in Nat /\ none = 0 /\ none \in Int
    BY <1>1
  <1> HIDE DEF open, spare, left, none, limit, most
  <1>4. limit \in Int /\ limit <= open
    BY <1>2, <1>3, OfTwo
  <1>5. most \in Int /\ most <= limit /\ most <= left
    BY <1>2, <1>3, <1>4, OfTwo
  <1>6. Replacements(holes) \in {none, most} /\ Replacements(holes) >= none
    BY <1>2, <1>3, <1>5, OfTwo
  <1>7. QED
    BY <1>1, <1>3, <1>4, <1>5, <1>6 DEF open, left

\* What the probes add, and what they replace, is true of the days.
LEMMA LimitsSound ==
    ASSUME RepairTypeOK, FactsSound, NEW proven \in SUBSET Day,
           \A d \in proven : SeatChoices(d, bucket[d]) # {}
    PROVE  /\ CapacitiesLearned(proven)
                  \subseteq [day : Day, members : SUBSET Place, limit : Int]
           /\ \A c \in CapacitiesLearned(proven) :
                  \A s \in SeatChoices(c.day, c.members) : Cardinality(s) <= c.limit
  <1>1. \A c \in CapacitiesLearned(proven) :
            c \in capacities
            \/ \E d \in proven : c = [day |-> d, members |-> bucket[d], limit |-> SeatsAtOnce(d)]
    BY DEF CapacitiesLearned
  <1>2. ASSUME NEW d \in proven
        PROVE  /\ bucket[d] \in SUBSET Place /\ SeatsAtOnce(d) \in Int
               /\ \A s \in SeatChoices(d, bucket[d]) : Cardinality(s) <= SeatsAtOnce(d)
    BY <1>2, ProbesTell DEF RepairTypeOK
  <1>3. \A c \in capacities : \A s \in SeatChoices(c.day, c.members) : Cardinality(s) <= c.limit
    BY DEF FactsSound
  <1>4. capacities \subseteq [day : Day, members : SUBSET Place, limit : Int]
    BY DEF RepairTypeOK
  <1>5. ASSUME NEW c \in CapacitiesLearned(proven)
        PROVE  /\ c \in [day : Day, members : SUBSET Place, limit : Int]
               /\ \A s \in SeatChoices(c.day, c.members) : Cardinality(s) <= c.limit
    <2>1. CASE c \in capacities
      BY <1>3, <1>4, <2>1
    <2>2. ASSUME NEW d \in proven,
                 c = [day |-> d, members |-> bucket[d], limit |-> SeatsAtOnce(d)]
          PROVE  /\ c \in [day : Day, members : SUBSET Place, limit : Int]
                 /\ \A s \in SeatChoices(c.day, c.members) : Cardinality(s) <= c.limit
      BY <1>2, <2>2
    <2>3. QED
      BY <1>1, <2>1, <2>2
  <1>6. QED
    BY <1>5

LEMMA LearnKept ==
    ASSUME RepairInv, Learn
    PROVE  RepairInv'
  <1>1. PICK proven \in SUBSET Probed :
            /\ \A d \in proven : SeatChoices(d, bucket[d]) # {}
            /\ conflicts' = PairsLearned /\ blocks' = BlocksLearned(PairsLearned)
            /\ capacities' = CapacitiesLearned(proven)
            /\ admitted' = admitted + Replacements(Exhausted(BlocksLearned(PairsLearned)))
            /\ phase' \in {"done", "trial"}
    BY DEF Learn
  <1>2. /\ phase = "learn"
        /\ UNCHANGED <<bucket, leftover, seated, refused>> /\ stale' = stale /\ best' = best
        /\ rounds' = rounds /\ daySolves' = daySolves
    BY DEF Learn, assignment, routes
  <1>3. /\ Len(Reserve) \in Nat /\ NoMeal \subseteq Place \X Day /\ Apart \subseteq SUBSET Place
        /\ admitted \in 0..Len(Reserve) /\ best.admitted \in 0..Len(Reserve)
    BY RepairAssumption DEF RepairInv, RepairTypeOK, PlanType
  <1>4. blocks \subseteq blocks' /\ blocks' \subseteq NoMeal
    BY <1>1 DEF BlocksLearned, RepairInv, FactsSound
  <1> DEFINE holes == Exhausted(blocks')
  <1>5. /\ holes \subseteq Holes(blocks', admitted)
        /\ IsFiniteSet(Holes(blocks', admitted)) /\ IsFiniteSet(holes)
        /\ Cardinality(holes) <= Cardinality(Holes(blocks', admitted))
    <2>1. holes \subseteq Holes(blocks', admitted)
      BY <1>2, <1>4, ExhaustedAreHoles DEF RepairInv, PlansStand, Kept
    <2>2. QED
      BY <1>3, <2>1, HolesFinite, FS_Subset
  <1>6. /\ admitted' \in admitted..Len(Reserve)
        /\ admitted' = admitted \/ admitted' <= Cardinality(holes)
    BY <1>1, <1>3, <1>5, ReplacementsPaid DEF RepairInv
  <1>7. RepairTypeOK'
    <2>1. conflicts' \subseteq SUBSET Place
      BY <1>1, <1>3 DEF PairsLearned, UnroutablePairs, RepairInv, RepairTypeOK
    <2>2. capacities' \subseteq [day : Day, members : SUBSET Place, limit : Int]
      BY <1>1, LimitsSound DEF Probed, RepairInv
    <2>3. admitted' \in 0..Len(Reserve) /\ blocks' \subseteq Place \X Day
      BY <1>3, <1>4, <1>6
    <2>4. QED
      BY <1>1, <1>2, <2>1, <2>2, <2>3 DEF RepairInv, RepairTypeOK
  <1>8. PlansStand'
    <2>1. Kept(bucket, leftover, admitted) /\ Fitting(bucket, seated, refused, Day)
          /\ Kept(best.bucket, best.leftover, best.admitted)
          /\ Fitting(best.bucket, best.seated, best.refused, Day)
          /\ best.admitted <= admitted
      BY <1>2 DEF RepairInv, PlansStand
    <2>2. Pool(admitted) \subseteq Pool(admitted')
      BY <1>3, <1>6, Pools
    <2>3. Kept(bucket, leftover, admitted')
      BY <2>1, <2>2 DEF Kept
    <2>4. best.admitted <= admitted'
      BY <1>3, <1>6, <2>1
    <2>5. QED
      BY <1>1, <1>2, <2>1, <2>3, <2>4 DEF PlansStand
  <1>9. FactsSound'
    BY <1>1, <1>4, LimitsSound DEF Probed, RepairInv, FactsSound
  <1>10. HolesPaid'
    <2>1. Holes(blocks, admitted) \subseteq Holes(blocks', admitted')
          /\ Holes(blocks', admitted) \subseteq Holes(blocks', admitted')
      BY <1>3, <1>4, <1>6, Pools DEF Holes
    <2>2. /\ admitted' \in 0..Len(Reserve) /\ IsFiniteSet(Holes(blocks', admitted'))
          /\ Cardinality(Holes(blocks', admitted')) \in Nat
      BY <1>3, <1>6, HolesFinite
    <2>3. /\ Cardinality(Holes(blocks, admitted)) <= Cardinality(Holes(blocks', admitted'))
          /\ Cardinality(Holes(blocks', admitted)) <= Cardinality(Holes(blocks', admitted'))
      BY <2>1, <2>2, FS_Subset
    <2>4. /\ Cardinality(Holes(blocks, admitted)) \in Nat
          /\ Cardinality(Holes(blocks', admitted)) \in Nat /\ Cardinality(holes) \in Nat
      BY <1>3, <1>5, HolesFinite, FS_CardinalityType
    <2>5. admitted <= Cardinality(Holes(blocks, admitted))
      BY DEF RepairInv, HolesPaid
    <2>6. admitted' <= Cardinality(Holes(blocks', admitted'))
      BY <1>3, <1>5, <1>6, <2>2, <2>3, <2>4, <2>5
    <2>7. QED
      BY <2>6 DEF HolesPaid
  <1>11. QED
    BY <1>7, <1>8, <1>9, <1>10 DEF RepairInv

LEMMA RepairStep == RepairInv /\ [RepairNext]_repairVars => RepairInv'
  <1> SUFFICES ASSUME RepairInv, [RepairNext]_repairVars
               PROVE  RepairInv'
    OBVIOUS
  <1>0. /\ Len(Reserve) \in Nat /\ admitted \in 0..Len(Reserve)
        /\ RepairTypeOK /\ PlansStand /\ FactsSound /\ HolesPaid
    BY RepairAssumption DEF RepairInv, RepairTypeOK
  <1>1. CASE UNCHANGED repairVars
    BY <1>1 DEF repairVars, facts, assignment, routes, RepairInv, RepairTypeOK, PlansStand, FactsSound, HolesPaid
  <1>2. CASE Assign
    <2>1. PICK dayOf \in Assignments(0) : bucket' = BucketsOf(dayOf) /\ leftover' = LeftBy(dayOf)
      BY <1>2 DEF Assign
    <2>2. Kept(bucket', leftover', 0) /\ bucket' \in [Day -> SUBSET Place] /\ leftover' \subseteq Place
      BY <1>0, <2>1, AssignmentsKept
    <2>3. RepairTypeOK' /\ FactsSound' /\ HolesPaid'
      BY <1>0, <1>2, <2>2 DEF Assign, facts, routes, RepairTypeOK, FactsSound, HolesPaid
    <2>4. PlansStand'
      BY <1>0, <1>2, <2>2 DEF Assign, PlansStand
    <2>5. QED
      BY <2>3, <2>4 DEF RepairInv
  <1>3. CASE RouteAll
    <2>1. PICK seats \in [Day -> SUBSET Place] :
              /\ \A d \in Day : seats[d] \in SeatChoices(d, bucket[d])
              /\ seated' = seats
              /\ refused' = [d \in Day |-> Refusals(d, bucket[d], seats[d])]
      BY <1>3 DEF RouteAll
    <2>a. /\ best' = [bucket |-> bucket, leftover |-> leftover, seated |-> seated',
                      refused |-> refused', admitted |-> 0]
          /\ UNCHANGED <<bucket, leftover>>
      BY <1>3 DEF RouteAll, assignment
    <2>b. refused' \in [Day -> SUBSET Place]
      <3>1. \A d \in Day : Refusals(d, bucket[d], seats[d]) \subseteq bucket[d]
        BY <2>1, SeatsAreRouted, RefusalsTold
      <3>2. QED
        BY <1>0, <2>1, <3>1 DEF RepairTypeOK
    <2>2. best' \in PlanType
      BY <1>0, <2>1, <2>a, <2>b DEF PlanType, RepairTypeOK
    <2>3. RepairTypeOK' /\ FactsSound' /\ HolesPaid'
      BY <1>0, <1>3, <2>1, <2>2, <2>a, <2>b DEF RouteAll, facts, RepairTypeOK, FactsSound, HolesPaid
    <2>4. Kept(bucket, leftover, 0) /\ admitted = 0
      BY <1>0, <1>3 DEF RouteAll, PlansStand
    <2>5. PlansStand'
      BY <1>3, <2>1, <2>4, <2>a DEF RouteAll, facts, PlansStand, Fitting
    <2>6. QED
      BY <2>3, <2>5 DEF RepairInv
  <1>4. CASE Reassign
    <2>1. PICK dayOf \in Assignments(admitted) :
              \/ phase' = "done" /\ UNCHANGED <<bucket, leftover, stale>>
              \/ /\ phase' = "reroute" /\ bucket' = BucketsOf(dayOf) /\ leftover' = LeftBy(dayOf)
                 /\ stale' = {d \in Day : BucketsOf(dayOf)[d] # bucket[d]}
      BY <1>4 DEF Reassign, assignment
    <2>2. /\ Kept(BucketsOf(dayOf), LeftBy(dayOf), admitted)
          /\ BucketsOf(dayOf) \in [Day -> SUBSET Place] /\ LeftBy(dayOf) \subseteq Place
      BY <1>0, AssignmentsKept
    <2>3. RepairTypeOK' /\ FactsSound' /\ HolesPaid'
      BY <1>0, <1>4, <2>1, <2>2 DEF Reassign, facts, routes, RepairTypeOK, FactsSound, HolesPaid
    <2>4. PlansStand'
      <3>1. /\ phase = "trial" /\ UNCHANGED <<seated, refused>>
            /\ admitted' = admitted /\ best' = best
        BY <1>4 DEF Reassign, routes
      <3>2. CASE phase' = "done" /\ UNCHANGED <<bucket, leftover>>
        BY <1>0, <3>1, <3>2 DEF PlansStand
      <3>3. CASE /\ phase' = "reroute" /\ bucket' = BucketsOf(dayOf) /\ leftover' = LeftBy(dayOf)
                 /\ stale' = {d \in Day : BucketsOf(dayOf)[d] # bucket[d]}
        BY <1>0, <2>2, <3>1, <3>3 DEF PlansStand, Fitting
      <3>4. QED
        BY <2>1, <3>2, <3>3
    <2>5. QED
      BY <2>3, <2>4 DEF RepairInv
  <1>5. CASE Reroute
    <2>1. PICK seats \in [Day -> SUBSET Place] :
              /\ \A d \in stale : seats[d] \in SeatChoices(d, bucket[d])
              /\ \A d \in Day \ stale : seats[d] = seated[d]
              /\ seated' = seats
              /\ refused' = [d \in Day |-> IF d \in stale THEN Refusals(d, bucket[d], seats[d])
                                          ELSE refused[d]]
              /\ \/ best' = [bucket |-> bucket, leftover |-> leftover, seated |-> seats,
                             refused |-> refused', admitted |-> admitted]
                 \/ UNCHANGED best
      BY <1>5 DEF Reroute
    <2>a. refused' \in [Day -> SUBSET Place] /\ UNCHANGED <<bucket, leftover>>
      <3>1. \A d \in stale : Refusals(d, bucket[d], seats[d]) \subseteq bucket[d]
        BY <1>0, <2>1, SeatsAreRouted, RefusalsTold DEF RepairTypeOK
      <3>2. QED
        BY <1>0, <1>5, <2>1, <3>1 DEF Reroute, assignment, RepairTypeOK
    <2>2. best' \in PlanType
      BY <1>0, <2>1, <2>a DEF PlanType, RepairTypeOK
    <2>3. RepairTypeOK'
      <3>1. daySolves' \in Nat /\ rounds' \in Nat
        <4>1. IsFiniteSet(Day) /\ stale \subseteq Day
          BY <1>0, RepairAssumption, FS_Interval DEF Day, RepairTypeOK
        <4>2. Cardinality(stale) \in Nat
          BY <4>1, FS_Subset, FS_CardinalityType
        <4>3. QED
          BY <1>0, <1>5, <4>2 DEF Reroute, RepairTypeOK
      <3>2. QED
        BY <1>0, <1>5, <2>1, <2>2, <2>a, <3>1 DEF Reroute, facts, RepairTypeOK
    <2>4. FactsSound' /\ HolesPaid'
      BY <1>0, <1>5 DEF Reroute, facts, FactsSound, HolesPaid
    <2>5. Kept(bucket, leftover, admitted) /\ Fitting(bucket, seats, refused', Day)
      BY <1>0, <1>5, <2>1 DEF Reroute, PlansStand, Fitting
    <2>6. PlansStand'
      <3>1. /\ phase = "reroute" /\ phase' = "learn" /\ UNCHANGED <<bucket, leftover>>
            /\ admitted' = admitted
        BY <1>5, <2>a DEF Reroute
      <3>2. /\ Kept(best'.bucket, best'.leftover, best'.admitted) /\ Fitting(best'.bucket, best'.seated, best'.refused, Day)
            /\ best'.admitted <= admitted
        BY <1>0, <2>1, <2>5, <3>1 DEF PlansStand
      <3>3. QED
        BY <2>1, <2>5, <3>1, <3>2 DEF PlansStand
    <2>7. QED
      BY <2>3, <2>4, <2>6 DEF RepairInv
  <1>6. CASE OutOfRounds
    BY <1>0, <1>6 DEF OutOfRounds, facts, assignment, routes, RepairInv, RepairTypeOK, PlansStand,
                        FactsSound, HolesPaid
  <1>7. CASE RepairRaise
    BY <1>0, <1>7 DEF RepairRaise, facts, assignment, routes, RepairInv, RepairTypeOK, PlansStand,
                        FactsSound, HolesPaid
  <1>8. CASE RepairEnded
    BY <1>1, <1>8 DEF RepairEnded
  <1>9. QED
    BY <1>1, <1>2, <1>3, <1>4, <1>5, <1>6, <1>7, <1>8, LearnKept DEF RepairNext

LEMMA RepairInvariant == RepairSpec => []RepairInv
  BY RepairStarts, RepairStep, PTL DEF RepairSpec

LEMMA AccountsClose == RepairInv => EveryPlaceAccounted
  <1> SUFFICES ASSUME RepairInv, Answered
               PROVE  /\ Selected = (Result \cap Selected) \cup Wishlist
                      /\ Result \cap Wishlist = {}
                      /\ \A d, e \in Day : d # e => best.seated[d] \cap best.seated[e] = {}
                      /\ \A d \in Day : best.seated[d] \in Seatable[d]
                      /\ \A p \in Protected :
                            \E d \in Day : p \in best.seated[d] /\ Pin[p] \in {0, d}
    BY DEF EveryPlaceAccounted
  <1>1. /\ Kept(best.bucket, best.leftover, best.admitted)
        /\ Fitting(best.bucket, best.seated, best.refused, Day)
        /\ best.admitted \in 0..Len(Reserve)
    BY DEF RepairInv, RepairTypeOK, PlanType, PlansStand, Answered
  <1>2. \A d \in Day : /\ best.seated[d] \in Seatable[d]
                       /\ best.seated[d] \subseteq best.bucket[d]
                       /\ Protected \cap best.bucket[d] \subseteq best.seated[d]
    BY <1>1, SeatsAreRouted DEF Fitting
  <1> DEFINE fed == {Reserve[i] : i \in 1..best.admitted}
             held == UNION {best.bucket[d] : d \in Day}
             told == UNION {best.refused[d] : d \in Day}
  <1>3. /\ Selected \subseteq best.leftover \cup held /\ held \cap best.leftover = {}
        /\ best.leftover \cup held \subseteq Selected \cup fed /\ Selected \cap fed = {}
    <2>1. /\ Pool(best.admitted) \ Selected \subseteq fed /\ fed \subseteq ReserveSet
          /\ Selected \cap ReserveSet = {}
      BY <1>1, Pools, Admitted, RepairAssumption
    <2>2. QED
      BY <1>1, <2>1 DEF Kept
  <1>4. held \subseteq Result \cup told /\ told \subseteq held /\ Result \subseteq held
    <2>1. \A d \in Day : /\ best.bucket[d] \subseteq best.seated[d] \cup best.refused[d]
                         /\ best.refused[d] \subseteq best.bucket[d]
      BY <1>1, <1>2, RefusalsTold DEF Fitting
    <2>2. QED
      BY <1>2, <2>1 DEF Result, Placed
  <1>5. Wishlist = (best.leftover \cup (told \ Result)) \ fed
    BY Zenon DEF Wishlist
  <1>6. Selected = (Result \cap Selected) \cup Wishlist /\ Result \cap Wishlist = {}
    <2> HIDE DEF fed, held, told
    <2>1. QED
      BY <1>3, <1>4, <1>5
  <1>7. QED
    BY <1>1, <1>2, <1>6 DEF Kept

\* Nobody without a day is in the plan, so what it holds of the reserves is what
\* the reserves' own holes leave of the count.
LEMMA HolesOutnumber == RepairInv => OneReplacementPerHole
  <1> DEFINE gaps == {p \in Selected \ Result : \A d \in Open[p] : <<p, d>> \in blocks}
             idle == Holes(blocks, admitted) \ Selected
             called == {Reserve[i] : i \in 1..admitted}
  <1> SUFFICES ASSUME RepairInv, Answered
               PROVE  Cardinality(Result \cap ReserveSet) <= Cardinality(gaps)
    BY DEF OneReplacementPerHole
  <1>1. /\ Kept(best.bucket, best.leftover, best.admitted)
        /\ Fitting(best.bucket, best.seated, best.refused, Day)
        /\ best.admitted \in 0..Len(Reserve) /\ admitted \in 0..Len(Reserve)
        /\ best.admitted <= admitted /\ blocks \subseteq NoMeal
        /\ admitted <= Cardinality(Holes(blocks, admitted))
    BY DEF RepairInv, RepairTypeOK, PlanType, PlansStand, FactsSound, HolesPaid, Answered
  <1>2. Result \cap Holes(blocks, admitted) = {}
    <2>1. SUFFICES ASSUME NEW p \in Result, p \in Holes(blocks, admitted) PROVE FALSE
      OBVIOUS
    <2>2. PICK d \in Day : p \in best.seated[d]
      BY DEF Result, Placed
    <2>3. d \in Open[p] /\ <<p, d>> \notin NoMeal
      BY <1>1, <2>2, SeatsAreRouted DEF Fitting
    <2>4. QED
      BY <1>1, <2>1, <2>3 DEF Holes
  <1>3. /\ IsFiniteSet(called) /\ Cardinality(called) <= admitted
        /\ called \subseteq ReserveSet /\ Selected \cap ReserveSet = {}
        /\ Pool(admitted) \ Selected \subseteq called /\ IsFiniteSet(Pool(admitted))
    BY <1>1, Admitted, Pools, RepairAssumption
  <1>4. Result \cap ReserveSet \subseteq called \ idle
    <2>1. \A d \in Day : best.seated[d] \subseteq Pool(best.admitted)
      BY <1>1, SeatsAreRouted DEF Fitting, Kept
    <2>2. Pool(best.admitted) \subseteq Pool(admitted)
      BY <1>1, Pools
    <2>3. Result \subseteq Pool(admitted)
      BY <2>1, <2>2 DEF Result, Placed
    <2>4. QED
      BY <1>2, <1>3, <2>3
  <1>5. idle \subseteq called /\ Holes(blocks, admitted) \ idle \subseteq gaps
    BY <1>2, <1>3 DEF Holes
  <1>6. /\ IsFiniteSet(Holes(blocks, admitted)) /\ IsFiniteSet(gaps)
        /\ IsFiniteSet(idle) /\ IsFiniteSet(called \ idle)
    BY <1>1, <1>3, <1>5, HolesFinite, FS_Subset, RepairAssumption
  <1>7. Cardinality(Holes(blocks, admitted)) <= Cardinality(gaps) + Cardinality(idle)
    <2>1. /\ IsFiniteSet(gaps \cup idle)
          /\ Cardinality(gaps \cup idle) =
                Cardinality(gaps) + Cardinality(idle) - Cardinality(gaps \cap idle)
      BY <1>6, FS_Union
    <2>2. Holes(blocks, admitted) \subseteq gaps \cup idle
      BY <1>5
    <2>3. Cardinality(Holes(blocks, admitted)) <= Cardinality(gaps \cup idle)
      BY <2>1, <2>2, FS_Subset
    <2>4. /\ Cardinality(gaps \cap idle) \in Nat /\ Cardinality(gaps) \in Nat
          /\ Cardinality(idle) \in Nat /\ Cardinality(Holes(blocks, admitted)) \in Nat
      BY <1>6, FS_Intersection, FS_CardinalityType
    <2>5. QED
      BY <2>1, <2>3, <2>4
  <1>8. Cardinality(called) = Cardinality(called \ idle) + Cardinality(idle)
    <2>1. called = (called \ idle) \cup idle /\ (called \ idle) \cap idle = {}
      BY <1>5
    <2>2. /\ Cardinality(called) = Cardinality(called \ idle) + Cardinality(idle)
                                      - Cardinality((called \ idle) \cap idle)
      BY <1>6, <2>1, FS_Union
    <2>3. QED
      <3>1. Cardinality((called \ idle) \cap idle) = 0
        BY <2>1, FS_EmptySet
      <3>2. /\ Cardinality(called \ idle) \in Nat /\ Cardinality(idle) \in Nat
        BY <1>6, FS_CardinalityType
      <3>3. QED
        BY <2>2, <3>1, <3>2
  <1>9. Cardinality(Result \cap ReserveSet) <= Cardinality(called \ idle)
        /\ IsFiniteSet(Result \cap ReserveSet)
    BY <1>4, <1>6, FS_Subset
  <1>10. QED
    BY <1>1, <1>3, <1>6, <1>7, <1>8, <1>9, FS_CardinalityType

LEMMA FactsFollow == RepairInv => FactsHold
  <1> SUFFICES ASSUME RepairInv PROVE FactsHold
    OBVIOUS
  <1>1. ASSUME NEW b \in blocks, NEW s \in SeatChoices(b[2], Place \ Protected)
        PROVE  b[1] \notin s
    <2>1. b \in NoMeal /\ b \in Place \X Day
      BY RepairAssumption DEF RepairInv, FactsSound
    <2>2. b = <<b[1], b[2]>> /\ b[2] \in Day
      BY <2>1
    <2>3. QED
      BY <2>1, <2>2, SeatsAreRouted
  <1>2. QED
    BY <1>1 DEF FactsHold, RepairInv, FactsSound

\* The loop's assignment, its best plan and what it learned keep their types.
THEOREM RepairTypeCorrect == RepairSpec => []RepairTypeOK
  <1>1. RepairInv => RepairTypeOK
    BY DEF RepairInv
  <1>2. QED
    BY <1>1, RepairInvariant, PTL

\* Whatever Stage 1 and Stage 2 answer within their hard constraints, and
\* whichever round the best plan comes from, no shortlisted place is lost and
\* every must-go or pinned one is in the plan.
THEOREM EveryPlaceAccountedHolds == RepairSpec => []EveryPlaceAccounted
  BY AccountsClose, RepairInvariant, PTL

\* The plan never holds more reserves than there are shortlisted places with no
\* day left, also when reserves turn out to have no day themselves.
THEOREM OneReplacementPerHoleHolds == RepairSpec => []OneReplacementPerHole
  BY HolesOutnumber, RepairInvariant, PTL

\* Every block and every capacity Stage 1 is given is true of the day, however
\* many rounds ago it was learned and whatever was replaced since.
THEOREM FactsHoldAlways == RepairSpec => []FactsHold
  BY FactsFollow, RepairInvariant, PTL

(***************************************************************************)
(* A day's rescue                                                          *)
(***************************************************************************)

Kinds == {"none", "place_closed", "transit_delay", "overslept", "user_request", "weather", "other"}

RescueRecord ==
    [stage : {"none", "searching", "solving", "proposed"}, kind : Kinds, day : {1, 2},
     cutoff : Nat, hit : SUBSET Node, known : SUBSET Site, offers : SUBSET Site,
     plan : SUBSET Node, notPlaced : SUBSET Site]

\* Stops a group can walk, each as long as its place takes.
Walkable(nodes) ==
    /\ nodes \subseteq Node /\ OneThingAtATime(nodes)
    /\ \A m, n \in nodes : m = n \/ m.place # n.place
    /\ \A n \in nodes : n.to = n.from + Length[n.place]
    /\ PlacesOf(nodes) \subseteq pooled

\* Of two listings of one place among what a rescue may plan, both were read.
ListingsRead ==
    /\ rescue.known \subseteq pooled
    /\ rescue.stage # "none" => PlacesOf(itinerary) \subseteq rescue.known
    /\ \A p, q \in rescue.known \cup rescue.offers :
          p # q /\ SameSite(p, q) => {p, q} \subseteq rescue.known

\* What a rescue holds on its way: a report about its day, and offers that are
\* news to the itinerary and fit to eat.
UnderWay ==
    /\ rescue \in RescueRecord
    /\ rescue.stage # "none" => rescue.hit \subseteq OfDay(rescue.day)
    /\ rescue.offers \subseteq pooled \ (PlacesOf(itinerary) \cup Unfit)
    /\ leftOut \cup rescue.notPlaced \subseteq pooled
    /\ rescue.stage = "proposed" => Walkable(rescue.plan)

RescueInv ==
    Walkable(itinerary) /\ pooled \subseteq Site /\ ListingsRead /\ UnderWay /\ RescueSound

\* What a rescue routes again, and the plan it makes of a route.
Tried == Reconsidered(rescue) \cup rescue.offers
PlanWith(route) == (itinerary \ Suffix(rescue)) \cup route
LeftWith(route) == (leftOut \ PlacesOf(PlanWith(route))) \cup (Tried \ PlacesOf(route))

LEMMA RescueStarts == RescueInit => RescueInv
  <1> SUFFICES ASSUME RescueInit PROVE RescueInv
    OBVIOUS
  <1>1. itinerary = FirstPlan /\ pooled = FirstPool /\ leftOut = {} /\ rescue = NoRescue
    BY DEF RescueInit
  <1>2. Walkable(itinerary)
    BY <1>1, RescueAssumption DEF Walkable, NothingTwice, SameSite
  <1>3. pooled \subseteq Site /\ ListingsRead
    BY <1>1, RescueAssumption DEF ListingsRead, NoRescue
  <1>4. UnderWay
    BY <1>1 DEF UnderWay, NoRescue, RescueRecord, Kinds
  <1>5. RescueSound
    BY <1>1 DEF RescueSound, NoRescue
  <1>6. QED
    BY <1>2, <1>3, <1>4, <1>5 DEF RescueInv

\* A route is of the places tried, in the day from the cutoff on, one thing at a
\* time, and has the bookings where they were.
LEMMA RouteStands ==
    ASSUME NEW e, e.cutoff \in Nat, e.day \in {1, 2},
           NEW places \in SUBSET Site, NEW route \in RoutesOf(e, places)
    PROVE  /\ route \subseteq Node /\ PlacesOf(route) \subseteq places
           /\ \A n \in route : /\ n.day = e.day /\ n.from >= e.cutoff
                               /\ n.to = n.from + Length[n.place]
                               /\ n.fixed = (n.place \in PlacesOf(Bound(e)))
           /\ \A m, n \in route :
                 m = n \/ (m.place # n.place /\ (m.to <= n.from \/ n.to <= m.from))
           /\ \A n \in Bound(e) : \E m \in route : m.place = n.place /\ m.from = n.from
  <1> DEFINE seat(p, h) == [place |-> p, day |-> e.day, from |-> h, to |-> h + Length[p],
                            fixed |-> p \in PlacesOf(Bound(e))]
  <1>1. Routed(e, places, route)
    BY DEF RoutesOf
  <1>2. PICK at \in [places -> e.cutoff..LastHour] :
           route = {seat(p, at[p]) : p \in {q \in places : at[q] < LastHour}}
    BY DEF RoutesOf
  <1>3. ASSUME NEW n \in route
        PROVE  /\ n \in Node /\ n.day = e.day /\ n.from >= e.cutoff
               /\ n.to = n.from + Length[n.place]
               /\ n.fixed = (n.place \in PlacesOf(Bound(e)))
    <2>1. PICK p \in places : n = seat(p, at[p])
      BY <1>2
    <2>2. at[p] \in e.cutoff..LastHour /\ p \in Site /\ Length[p] \in Nat /\ LastHour \in Nat
      BY RescueAssumption
    <2>3. n.to = n.from + Length[n.place] /\ n.to <= LastHour
      BY <1>1 DEF Routed
    <2>4. n.place = p /\ n.from = at[p] /\ n.to = at[p] + Length[p] /\ n.day = e.day
      BY <2>1
    <2>5. n.fixed = (p \in PlacesOf(Bound(e)))
      BY <2>1
    <2>6. at[p] \in 0..LastHour /\ at[p] + Length[p] \in 0..LastHour
      BY <2>2, <2>3, <2>4
    <2>7. n \in Node
      BY <2>1, <2>2, <2>6 DEF Node
    <2>8. QED
      BY <2>2, <2>3, <2>4, <2>5, <2>7
  <1>4. QED
    BY <1>1, <1>3 DEF Routed

\* What the report makes unavailable is what it hit, and that is reconsidered
\* stops of its day.
LEMMA HitIsBehindNone ==
    ASSUME UnderWay, rescue.stage # "none"
    PROVE  /\ rescue.hit \subseteq Suffix(rescue) /\ Suffix(rescue) \subseteq OfDay(rescue.day)
           /\ Unavailable(rescue) \subseteq PlacesOf(Suffix(rescue))
           /\ OfDay(rescue.day) \subseteq itinerary
  <1>1. rescue.hit \subseteq Suffix(rescue) /\ Suffix(rescue) \subseteq OfDay(rescue.day)
    BY DEF UnderWay, Suffix, Prefix
  <1>2. Unavailable(rescue) \subseteq PlacesOf(Suffix(rescue))
    BY <1>1 DEF Unavailable, PlacesOf
  <1>3. QED
    BY <1>1, <1>2 DEF OfDay

\* The plan of a route: walkable, without anything unavailable, the same on the
\* other day and before the cutoff, and with every booking.
LEMMA PlanStands ==
    ASSUME RescueInv, rescue.stage = "solving", NEW route \in RoutesOf(rescue, Tried)
    PROVE  /\ Walkable(PlanWith(route))
           /\ PlacesOf(PlanWith(route)) \cap Unavailable(rescue) = {}
           /\ PlacesOf(PlanWith(route)) \cup Unavailable(rescue)
                \subseteq PlacesOf(itinerary) \cup rescue.offers
           /\ (PlacesOf(PlanWith(route)) \ PlacesOf(itinerary)) \cap Unfit = {}
           /\ \A n \in itinerary :
                 n.fixed /\ n.place \notin Unavailable(rescue) => n \in PlanWith(route)
           /\ \A n \in itinerary \ PlanWith(route) :
                 n.day = rescue.day /\ (n \in rescue.hit \/ n.to > rescue.cutoff)
           /\ \A n \in PlanWith(route) \ itinerary :
                 n.day = rescue.day /\ n.from >= rescue.cutoff
           /\ \A m \in itinerary, n \in PlanWith(route) : m.place = n.place => m.day = n.day
           /\ LeftWith(route) \subseteq pooled
           /\ PlacesOf(PlanWith(route)) \cap LeftWith(route) = {}
           /\ PlacesOf(itinerary) \cup leftOut \subseteq
                 PlacesOf(PlanWith(route)) \cup LeftWith(route) \cup Unavailable(rescue)
  <1> DEFINE plan == PlanWith(route)
             suffix == Suffix(rescue)
             out == Unavailable(rescue)
             kept == itinerary \ suffix
  <1>1. /\ Walkable(itinerary) /\ pooled \subseteq Site /\ UnderWay
        /\ rescue.offers \subseteq pooled \ (PlacesOf(itinerary) \cup Unfit)
        /\ rescue.cutoff \in Nat /\ rescue.day \in {1, 2} /\ leftOut \subseteq pooled
    BY DEF RescueInv, UnderWay, RescueRecord
  <1>2. /\ suffix \subseteq OfDay(rescue.day) /\ rescue.hit \subseteq suffix
        /\ out \subseteq PlacesOf(suffix) /\ OfDay(rescue.day) \subseteq itinerary
    BY <1>1, HitIsBehindNone
  <1>3. Tried = (PlacesOf(suffix) \ out) \cup rescue.offers
    BY DEF Tried, Reconsidered
  <1>4. /\ PlacesOf(itinerary) \subseteq pooled /\ PlacesOf(suffix) \subseteq PlacesOf(itinerary)
        /\ Tried \subseteq pooled /\ Tried \subseteq Site /\ Tried \cap out = {}
    <2>1. PlacesOf(itinerary) \subseteq pooled
      BY <1>1 DEF Walkable
    <2>2. PlacesOf(suffix) \subseteq PlacesOf(itinerary)
      BY <1>2 DEF PlacesOf
    <2>3. QED
      BY <1>1, <1>2, <1>3, <2>1, <2>2
  <1>5. /\ route \subseteq Node /\ PlacesOf(route) \subseteq Tried
        /\ \A n \in route : /\ n.day = rescue.day /\ n.from >= rescue.cutoff
                            /\ n.to = n.from + Length[n.place]
                            /\ n.fixed = (n.place \in PlacesOf(Bound(rescue)))
        /\ \A m, n \in route :
              m = n \/ (m.place # n.place /\ (m.to <= n.from \/ n.to <= m.from))
        /\ \A n \in Bound(rescue) : \E m \in route : m.place = n.place /\ m.from = n.from
    BY <1>1, <1>4, RouteStands
  <1>6. plan = kept \cup route /\ PlacesOf(plan) = PlacesOf(kept) \cup PlacesOf(route)
    BY DEF PlanWith, PlacesOf
  \* What is kept is of the other day or behind the cutoff, and its places are
  \* not routed again.
  <1>7. ASSUME NEW n \in kept
        PROVE  /\ n.day # rescue.day \/ n.to <= rescue.cutoff
               /\ n.place \notin PlacesOf(suffix) /\ n.place \notin Tried /\ n.place \notin out
    <2>1. n.day # rescue.day \/ n.to <= rescue.cutoff
      BY DEF Suffix, Prefix, OfDay
    <2>2. n.place \notin PlacesOf(suffix)
      <3>1. \A m \in suffix : m \in itinerary /\ m # n
        BY <1>2
      <3>2. \A m \in suffix : m.place # n.place
        BY <1>1, <3>1 DEF Walkable
      <3>3. QED
        BY <3>2 DEF PlacesOf
    <2>3. n.place \in PlacesOf(itinerary)
      BY DEF PlacesOf
    <2>4. QED
      BY <1>1, <1>2, <1>3, <2>1, <2>2, <2>3
  <1>8. PlacesOf(kept) \cap Tried = {} /\ PlacesOf(kept) \cap out = {}
    BY <1>7 DEF PlacesOf
  <1>9. \A n \in route : n \in Node /\ n.place \in Tried /\ n.from \in Nat /\ n.to \in Nat
    <2>1. \A n \in route : n.place \in PlacesOf(route)
      BY DEF PlacesOf
    <2>2. \A n \in Node : n.from \in Nat /\ n.to \in Nat
      BY RescueAssumption DEF Node
    <2>3. QED
      BY <1>5, <2>1, <2>2
  <1>10. Walkable(plan)
    <2>1. plan \subseteq Node /\ PlacesOf(plan) \subseteq pooled
      <3>1. PlacesOf(kept) \subseteq PlacesOf(itinerary)
        BY DEF PlacesOf
      <3>2. QED
        BY <1>1, <1>4, <1>5, <1>6, <3>1 DEF Walkable
    <2>2. \A n \in plan : n.to = n.from + Length[n.place]
      BY <1>1, <1>5, <1>6 DEF Walkable
    <2>3. \A m, n \in plan : m = n \/ m.place # n.place
      <3>1. \A m \in kept, n \in route : m.place # n.place
        BY <1>7, <1>9
      <3>2. QED
        BY <1>1, <1>5, <1>6, <3>1 DEF Walkable
    <2>4. OneThingAtATime(plan)
      <3>1. \A m \in kept, n \in route : m.day # n.day \/ m.to <= n.from
        <4>1. \A m \in kept : m.to \in Nat
          BY <1>1, RescueAssumption DEF Walkable, Node
        <4>2. QED
          BY <1>1, <1>5, <1>7, <1>9, <4>1
      <3>2. \A m, n \in kept : m = n \/ m.day # n.day \/ m.to <= n.from \/ n.to <= m.from
        BY <1>1 DEF Walkable, OneThingAtATime
      <3>3. QED
        BY <1>5, <1>6, <3>1, <3>2 DEF OneThingAtATime
    <2>5. QED
      BY <2>1, <2>2, <2>3, <2>4 DEF Walkable
  <1>11. PlacesOf(plan) \cap out = {}
    BY <1>4, <1>5, <1>6, <1>8
  <1>20. PlacesOf(plan) \cup out \subseteq PlacesOf(itinerary) \cup rescue.offers
    <2>1. PlacesOf(kept) \subseteq PlacesOf(itinerary)
      BY DEF PlacesOf
    <2>2. QED
      BY <1>2, <1>3, <1>4, <1>5, <1>6, <2>1
  <1>12. (PlacesOf(plan) \ PlacesOf(itinerary)) \cap Unfit = {}
    <2>1. PlacesOf(kept) \subseteq PlacesOf(itinerary)
      BY DEF PlacesOf
    <2>2. QED
      BY <1>1, <1>3, <1>4, <1>5, <1>6, <2>1
  <1>13. ASSUME NEW n \in itinerary, n.fixed, n.place \notin out PROVE n \in plan
    <2>1. CASE n \in kept
      BY <1>6, <2>1
    <2>2. CASE n \in suffix
      <3>1. n \in Bound(rescue)
        BY <1>13, <2>2 DEF Bound
      <3>2. PICK m \in route : m.place = n.place /\ m.from = n.from
        BY <1>5, <3>1
      <3>3. m.day = n.day
        BY <1>2, <1>5, <2>2 DEF OfDay
      <3>4. m.to = n.to
        BY <1>1, <1>5, <3>2 DEF Walkable
      <3>5. m.fixed /\ n.fixed /\ m.fixed \in BOOLEAN /\ n.fixed \in BOOLEAN
        <4>1. n.place \in PlacesOf(Bound(rescue))
          BY <3>1 DEF PlacesOf
        <4>2. m \in Node /\ n \in Node
          BY <1>1, <1>5 DEF Walkable
        <4>3. m.fixed = (m.place \in PlacesOf(Bound(rescue)))
          BY <1>5, Zenon
        <4>4. m.place \in PlacesOf(Bound(rescue))
          BY <3>2, <4>1
        <4>5. m.fixed
          BY <4>3, <4>4, Zenon
        <4>6. QED
          BY <1>13, <4>2, <4>5 DEF Node
      <3>6. m = n
        <4>1. m \in Node /\ n \in Node /\ m.fixed = n.fixed
          BY <1>1, <1>5, <3>5 DEF Walkable
        <4>2. QED
          BY <3>2, <3>3, <3>4, <4>1 DEF Node
      <3>7. QED
        BY <1>6, <3>6
    <2>3. QED
      BY <2>1, <2>2
  <1>14. ASSUME NEW n \in itinerary \ plan
         PROVE  n.day = rescue.day /\ (n \in rescue.hit \/ n.to > rescue.cutoff)
    <2>1. n \in suffix
      BY <1>6
    <2>2. n.to \in Nat
      BY <1>1, RescueAssumption DEF Walkable, Node
    <2>3. QED
      BY <1>1, <2>1, <2>2 DEF Suffix, Prefix, OfDay
  <1>15. \A n \in plan \ itinerary : n.day = rescue.day /\ n.from >= rescue.cutoff
    BY <1>5, <1>6
  <1>16. ASSUME NEW m \in itinerary, NEW n \in plan, m.place = n.place PROVE m.day = n.day
    <2>1. CASE n \in kept
      BY <1>1, <1>16, <2>1 DEF Walkable
    <2>2. CASE n \in route
      <3>1. m \in suffix
        BY <1>7, <1>9, <1>16, <2>2
      <3>2. QED
        BY <1>2, <1>5, <2>2, <3>1 DEF OfDay
    <2>3. QED
      BY <1>6, <2>1, <2>2
  <1>17. /\ LeftWith(route) \subseteq pooled /\ PlacesOf(plan) \cap LeftWith(route) = {}
    BY <1>1, <1>4, <1>6, <1>8 DEF LeftWith
  <1>18. PlacesOf(itinerary) \cup leftOut \subseteq PlacesOf(plan) \cup LeftWith(route) \cup out
    <2>1. PlacesOf(itinerary) \subseteq PlacesOf(kept) \cup PlacesOf(suffix)
      BY DEF PlacesOf
    <2>2. QED
      BY <1>3, <1>6, <2>1 DEF LeftWith
  <1> HIDE DEF plan, out
  <1>19. QED
    BY <1>10, <1>11, <1>12, <1>13, <1>14, <1>15, <1>16, <1>17, <1>18, <1>20 DEF plan, out

\* The diff of two plans that visit each place once, and on the same day, moves
\* nothing between days; it adds what is new, and replayed over the old plan it
\* gives the hours of the new one.
LEMMA DiffReplays ==
    ASSUME NEW old \in SUBSET Node, NEW new \in SUBSET Node,
           \A m, n \in old : m = n \/ m.place # n.place,
           \A m, n \in new : m = n \/ m.place # n.place,
           \A m \in old, n \in new : m.place = n.place => m.day = n.day
    PROVE  /\ Diff(old, new).moved = {}
           /\ PlacesOf(Diff(old, new).added) \subseteq PlacesOf(new) \ PlacesOf(old)
           /\ When(new) =
                When({n \in old : n.place \notin
                         Diff(old, new).removed \cup PlacesOf(Diff(old, new).retimed)}
                       \cup Diff(old, new).added \cup Diff(old, new).retimed)
  <1> DEFINE both == PlacesOf(old) \cap PlacesOf(new)
             moved == {p \in both : StopAt(old, p).day # StopAt(new, p).day}
             added == {n \in new : n.place \notin both}
             removed == PlacesOf(old) \ both
             retimed == {n \in new : /\ n.place \in both \ moved
                                     /\ \/ n.from # StopAt(old, n.place).from
                                        \/ n.to # StopAt(old, n.place).to}
             replayed == {n \in old : n.place \notin removed \cup PlacesOf(retimed)}
                           \cup added \cup retimed
  <1>1. /\ Diff(old, new).moved = moved /\ Diff(old, new).added = added
        /\ Diff(old, new).removed = removed /\ Diff(old, new).retimed = retimed
    BY DEF Diff
  <1>2. ASSUME NEW nodes, NEW n \in nodes, \A k, m \in nodes : k = m \/ k.place # m.place
        PROVE  StopAt(nodes, n.place) = n
    BY <1>2 DEF StopAt
  <1>3. \A p \in both : \E m \in old, n \in new :
           /\ m.place = p /\ n.place = p /\ StopAt(old, p) = m /\ StopAt(new, p) = n
    <2>1. ASSUME NEW p \in both
          PROVE  \E m \in old, n \in new :
                    m.place = p /\ n.place = p /\ StopAt(old, p) = m /\ StopAt(new, p) = n
      <3>1. PICK m \in old, n \in new : m.place = p /\ n.place = p
        BY DEF PlacesOf
      <3>2. StopAt(old, p) = m /\ StopAt(new, p) = n
        BY <1>2, <3>1
      <3>3. QED
        BY <3>1, <3>2
    <2>2. QED
      BY <2>1
  <1>4. moved = {}
    BY <1>3
  <1>5. PlacesOf(added) \subseteq PlacesOf(new) \ PlacesOf(old)
    BY DEF PlacesOf
  <1> DEFINE hours(n) == [place |-> n.place, day |-> n.day, from |-> n.from, to |-> n.to]
  \* A stop of both plans that is not retimed has its old hours.
  <1>6. ASSUME NEW m \in old, NEW n \in new, m.place = n.place, n \notin retimed
        PROVE  hours(m) = hours(n) /\ m \in replayed
    <2>1. n.place \in both
      BY <1>6 DEF PlacesOf
    <2>2. StopAt(old, n.place) = m
      BY <1>2, <1>6
    <2>3. m.from = n.from /\ m.to = n.to
      BY <1>4, <1>6, <2>1, <2>2
    <2>4. m.place \notin removed
      BY <1>6, <2>1
    <2>5. m.place \notin PlacesOf(retimed)
      BY <1>6 DEF PlacesOf
    <2>6. QED
      BY <1>6, <2>3, <2>4, <2>5
  <1>7. \A n \in new : \E k \in replayed : hours(k) = hours(n)
    <2>1. ASSUME NEW n \in new PROVE \E k \in replayed : hours(k) = hours(n)
      <3>1. CASE n \in added \cup retimed
        BY <3>1
      <3>2. CASE n \notin added \cup retimed
        <4>1. PICK m \in old : m.place = n.place
          BY <3>2 DEF PlacesOf
        <4>2. hours(m) = hours(n) /\ m \in replayed
          BY <1>6, <3>2, <4>1
        <4>3. QED
          BY <4>2
      <3>3. QED
        BY <3>1, <3>2
    <2>2. QED
      BY <2>1
  <1>8. \A k \in replayed : \E n \in new : hours(k) = hours(n)
    <2>1. ASSUME NEW k \in replayed PROVE \E n \in new : hours(k) = hours(n)
      <3>1. CASE k \in added \cup retimed
        BY <3>1
      <3>2. CASE k \in old /\ k.place \notin removed \cup PlacesOf(retimed)
        <4>1. PICK n \in new : n.place = k.place
          BY <3>2 DEF PlacesOf
        <4>2. n \notin retimed
          BY <3>2, <4>1 DEF PlacesOf
        <4>3. QED
          BY <1>6, <3>2, <4>1, <4>2
      <3>3. QED
        BY <3>1, <3>2
    <2>2. QED
      BY <2>1
  <1>9. When(new) = When(replayed)
    <2>1. When(new) = {hours(n) : n \in new} /\ When(replayed) = {hours(n) : n \in replayed}
      BY DEF When
    <2> HIDE DEF hours, replayed
    <2>2. QED
      BY <1>7, <1>8, <2>1
  <1>10. replayed = {n \in old : n.place \notin
                        Diff(old, new).removed \cup PlacesOf(Diff(old, new).retimed)}
                      \cup Diff(old, new).added \cup Diff(old, new).retimed
    BY <1>1
  <1>11. QED
    BY <1>1, <1>4, <1>5, <1>9, <1>10

\* The earliest of some stops: as far from the end of the day as the latest of
\* their distances.
LEMMA EarliestIsOne ==
    ASSUME NEW nodes \in SUBSET Node, nodes # {}
    PROVE  Earliest(nodes) \in Nat
  <1> DEFINE starts == {n.from : n \in nodes}
             left == {LastHour - h : h \in starts}
  <1>1. LastHour \in Nat /\ starts \subseteq Nat /\ (\A h \in starts : h <= LastHour) /\ starts # {}
    BY RescueAssumption DEF Node
  <1>2. left \subseteq Nat /\ left # {} /\ \A x \in left : x <= LastHour
    <2> HIDE DEF starts
    <2>1. \A h \in starts : LastHour - h \in Nat /\ LastHour - h <= LastHour
      BY <1>1
    <2>2. QED
      BY <1>1, <2>1
  <1>3. Max(left) \in left /\ \A y \in left : Max(left) >= y
    <2> HIDE DEF left
    <2>1. QED
      BY <1>1, <1>2, Largest
  <1>4. PICK h \in starts : Max(left) = LastHour - h
    BY <1>3
  <1>5. \A k \in starts : LastHour - h >= LastHour - k
    BY <1>3, <1>4
  <1>6. \A k \in starts : h <= k
    <2> HIDE DEF starts
    <2>1. QED
      BY <1>1, <1>5
  <1>7. \A n \in nodes : h <= n.from
    BY <1>6
  <1>8. Earliest(nodes) \in starts
    BY <1>7 DEF Earliest
  <1>9. QED
    BY <1>1, <1>8

\* A report: of a day, of stops that are on it, from a slot on.
LEMMA ReportsStand ==
    ASSUME Walkable(itinerary), NEW e \in Reports, e.hit # {}
    PROVE  /\ e.kind \in Kinds /\ e.day \in {1, 2} /\ e.cutoff \in Nat
           /\ e.hit \subseteq OfDay(e.day) /\ e.hit \subseteq Node
  <1>1. itinerary \subseteq Node /\ \A n \in Node : n.from \in 0..LastHour /\ n.day \in {1, 2}
    BY DEF Walkable, Node
  <1>2. LastHour \in Nat /\ FirstHour \in Nat /\ MaxDelay \in Nat /\ 0..LastHour \subseteq Nat
    BY RescueAssumption
  <1>3. \A d : OfDay(d) \subseteq itinerary
    BY DEF OfDay
  <1>4. CASE \E n \in itinerary : e = Report("place_closed", n.day, {n}, n.from)
    BY <1>1, <1>2, <1>4 DEF Report, OfDay, Kinds
  <1>5. CASE \E n \in itinerary, late \in 1..MaxDelay :
                e = Report("transit_delay", n.day, {n}, n.from + late)
    <2>1. PICK n \in itinerary, late \in 1..MaxDelay :
                e = Report("transit_delay", n.day, {n}, n.from + late)
      BY <1>5
    <2>2. n.from + late \in Nat /\ n.day \in {1, 2} /\ n \in OfDay(n.day)
      BY <1>1, <1>2 DEF OfDay
    <2>3. QED
      BY <1>1, <2>1, <2>2 DEF Report, Kinds
  <1>6. CASE \E d \in {1, 2}, at \in 0..LastHour :
                e = Report("overslept", d, {n \in OfDay(d) : n.from < at}, at)
    BY <1>1, <1>2, <1>3, <1>6 DEF Report, Kinds
  <1>7. CASE \E d \in {1, 2} : e = Report("user_request", d, OfDay(d), FirstHour)
    BY <1>1, <1>2, <1>3, <1>7 DEF Report, Kinds
  <1>8. CASE \E d \in {1, 2} :
                e = Report("weather", d, {n \in OfDay(d) : n.place \in Outdoor}, FirstHour)
    BY <1>1, <1>2, <1>3, <1>8 DEF Report, Kinds
  <1>9. CASE \E d \in {1, 2} : \E hit \in SUBSET OfDay(d) :
                hit # {} /\ e = Report("other", d, hit, Earliest(hit))
    <2>1. PICK d \in {1, 2} : \E hit \in SUBSET OfDay(d) :
                hit # {} /\ e = Report("other", d, hit, Earliest(hit))
      BY <1>9
    <2> PICK hit \in SUBSET OfDay(d) : hit # {} /\ e = Report("other", d, hit, Earliest(hit))
      BY <2>1
    <2>2. hit \subseteq Node /\ hit # {}
      BY <1>1, <1>3, <2>1
    <2>3. Earliest(hit) \in Nat
      BY <2>2, EarliestIsOne
    <2>4. QED
      BY <2>1, <2>2, <2>3 DEF Report, Kinds
  <1>10. CASE e \in UNION {{Report("place_closed", n.day, {n}, n.from)}
                     \cup {Report("transit_delay", n.day, {n}, n.from + late) : late \in 1..MaxDelay} :
                   n \in itinerary}
    BY <1>4, <1>5, <1>10
  <1>11. CASE e \in UNION {{Report("overslept", d, {n \in OfDay(d) : n.from < at}, at) : at \in 0..LastHour}
                     \cup {Report("user_request", d, OfDay(d), FirstHour),
                           Report("weather", d, {n \in OfDay(d) : n.place \in Outdoor}, FirstHour)}
                     \cup {Report("other", d, hit, Earliest(hit)) : hit \in (SUBSET OfDay(d)) \ {{}}} :
                   d \in {1, 2}}
    <2>1. PICK d \in {1, 2} :
             e \in {Report("overslept", d, {n \in OfDay(d) : n.from < at}, at) : at \in 0..LastHour}
                     \cup {Report("user_request", d, OfDay(d), FirstHour),
                           Report("weather", d, {n \in OfDay(d) : n.place \in Outdoor}, FirstHour)}
                     \cup {Report("other", d, hit, Earliest(hit)) : hit \in (SUBSET OfDay(d)) \ {{}}}
      BY <1>11
    <2>2. CASE e \in {Report("other", d, hit, Earliest(hit)) : hit \in (SUBSET OfDay(d)) \ {{}}}
      BY <1>9, <2>2
    <2>3. CASE e \in {Report("user_request", d, OfDay(d), FirstHour),
                      Report("weather", d, {n \in OfDay(d) : n.place \in Outdoor}, FirstHour)}
      BY <1>7, <1>8, <2>3
    <2>4. CASE e \in {Report("overslept", d, {n \in OfDay(d) : n.from < at}, at) : at \in 0..LastHour}
      BY <1>6, <2>4
    <2>5. QED
      BY <2>1, <2>2, <2>3, <2>4
  <1>12. QED
    BY <1>10, <1>11 DEF Reports

LEMMA DisruptKept == RescueInv /\ Disrupt => RescueInv'
  <1> SUFFICES ASSUME RescueInv, Disrupt PROVE RescueInv'
    OBVIOUS
  <1>1. PICK e \in Reports :
           /\ e.hit # {}
           /\ rescue' = [NoRescue EXCEPT !.stage = "searching", !.kind = e.kind, !.day = e.day,
                                         !.cutoff = e.cutoff, !.hit = e.hit,
                                         !.known = pooled]
    BY DEF Disrupt
  <1>2. itinerary' = itinerary /\ pooled' = pooled /\ leftOut' = leftOut
    BY DEF Disrupt
  <1>3. /\ e.kind \in Kinds /\ e.day \in {1, 2} /\ e.cutoff \in Nat
        /\ e.hit \subseteq OfDay(e.day) /\ e.hit \subseteq Node
    BY <1>1, ReportsStand DEF RescueInv
  <1>4. /\ rescue' = [stage |-> "searching", kind |-> e.kind, day |-> e.day,
                      cutoff |-> e.cutoff, hit |-> e.hit, known |-> pooled, offers |-> {},
                      plan |-> {}, notPlaced |-> {}]
    BY <1>1 DEF NoRescue
  <1>5. UnderWay'
    BY <1>2, <1>3, <1>4 DEF RescueInv, UnderWay, RescueRecord, OfDay
  <1>6. ListingsRead'
    BY <1>2, <1>4 DEF RescueInv, ListingsRead, Walkable
  <1>7. QED
    BY <1>2, <1>4, <1>5, <1>6 DEF RescueInv, Walkable, RescueSound

\* What a search finds is no listing of anything that was read.
LEMMA SearchKept == RescueInv /\ SearchNearby => RescueInv'
  <1> SUFFICES ASSUME RescueInv, SearchNearby PROVE RescueInv'
    OBVIOUS
  <1>1. PICK found \in SUBSET {p \in Site \ pooled : Suits(p, rescue)} :
           /\ Fresh(found, rescue.known) /\ pooled' = pooled \cup found
           /\ \E offered \in SUBSET (Existing(rescue) \cup found) :
                 rescue' = [rescue EXCEPT !.stage = "solving", !.offers = offered]
    BY DEF SearchNearby
  <1>2. PICK offered \in SUBSET (Existing(rescue) \cup found) :
           rescue' = [rescue EXCEPT !.stage = "solving", !.offers = offered]
    BY <1>1
  <1>3. rescue.stage = "searching" /\ itinerary' = itinerary /\ leftOut' = leftOut
    BY DEF SearchNearby
  <1>4. /\ rescue \in RescueRecord /\ pooled \subseteq Site /\ PlacesOf(itinerary) \subseteq pooled
        /\ rescue.hit \subseteq OfDay(rescue.day)
        /\ leftOut \cup rescue.notPlaced \subseteq pooled
    BY <1>3 DEF RescueInv, UnderWay, Walkable
  <1>5. /\ found \cap pooled = {} /\ found \cap Unfit = {} /\ found \subseteq Site
        /\ rescue.known \subseteq pooled
    BY <1>1 DEF RescueInv, ListingsRead, Suits
  <1>6. offered \subseteq Site /\ offered \subseteq pooled' \ (PlacesOf(itinerary) \cup Unfit)
    BY <1>1, <1>4, <1>5 DEF Existing, Suits
  <1>7. /\ rescue' \in RescueRecord /\ rescue'.stage = "solving" /\ rescue'.offers = offered
        /\ rescue'.hit = rescue.hit /\ rescue'.day = rescue.day
        /\ rescue'.notPlaced = rescue.notPlaced /\ rescue'.known = rescue.known
    BY <1>2, <1>4, <1>6 DEF RescueRecord
  <1>8. UnderWay'
    BY <1>1, <1>3, <1>4, <1>6, <1>7 DEF UnderWay, OfDay
  <1>9. ListingsRead'
    <2>1. \A p \in found, q \in rescue.known \cup found : p = q \/ ~SameSite(p, q)
      BY <1>1 DEF Fresh
    <2>2. \A p, q : SameSite(p, q) => SameSite(q, p)
      <3>1. \A p, q : {p, q} = {q, p}
        OBVIOUS
      <3>2. QED
        BY <3>1 DEF SameSite
    <2>3. rescue'.offers \subseteq rescue.known \cup found
      BY <1>2, <1>7 DEF Existing
    <2>4. \A p, q \in rescue'.known \cup rescue'.offers :
             p # q /\ SameSite(p, q) => {p, q} \subseteq rescue'.known
      BY <1>7, <2>1, <2>2, <2>3
    <2>5. PlacesOf(itinerary) \subseteq rescue.known
      BY <1>3 DEF RescueInv, ListingsRead
    <2>6. QED
      BY <1>1, <1>3, <1>5, <1>7, <2>4, <2>5 DEF ListingsRead
  <1>10. Walkable(itinerary)'
    BY <1>1, <1>3 DEF RescueInv, Walkable
  <1>11. RescueSound'
    BY <1>7 DEF RescueSound
  <1>12. pooled' \subseteq Site
    BY <1>1, <1>4, <1>5
  <1>13. QED
    BY <1>8, <1>9, <1>10, <1>11, <1>12 DEF RescueInv

LEMMA ProposeKept == RescueInv /\ Propose => RescueInv'
  <1> SUFFICES ASSUME RescueInv, Propose PROVE RescueInv'
    OBVIOUS
  <1>1. PICK route \in RoutesOf(rescue, Tried) :
           rescue' = [rescue EXCEPT !.stage = "proposed", !.plan = PlanWith(route),
                                    !.notPlaced = LeftWith(route)]
    BY DEF Propose, Tried, PlanWith, LeftWith
  <1>2. /\ rescue.stage = "solving" /\ itinerary' = itinerary /\ pooled' = pooled
        /\ leftOut' = leftOut
    BY DEF Propose
  <1> DEFINE plan == PlanWith(route)
             rest == LeftWith(route)
             out == Unavailable(rescue)
  <1>3. /\ Walkable(plan) /\ PlacesOf(plan) \cap out = {}
        /\ PlacesOf(plan) \cup out \subseteq PlacesOf(itinerary) \cup rescue.offers
        /\ (PlacesOf(plan) \ PlacesOf(itinerary)) \cap Unfit = {}
        /\ \A n \in itinerary : n.fixed /\ n.place \notin out => n \in plan
        /\ \A n \in itinerary \ plan :
              n.day = rescue.day /\ (n \in rescue.hit \/ n.to > rescue.cutoff)
        /\ \A n \in plan \ itinerary : n.day = rescue.day /\ n.from >= rescue.cutoff
        /\ \A m \in itinerary, n \in plan : m.place = n.place => m.day = n.day
        /\ rest \subseteq pooled /\ PlacesOf(plan) \cap rest = {}
        /\ PlacesOf(itinerary) \cup leftOut \subseteq PlacesOf(plan) \cup rest \cup out
    BY <1>2, PlanStands
  <1>4. /\ rescue \in RescueRecord /\ pooled \subseteq Site /\ Walkable(itinerary)
        /\ rescue.hit \subseteq OfDay(rescue.day) /\ UnderWay
        /\ ListingsRead
    BY <1>2 DEF RescueInv, UnderWay
  <1> HIDE DEF plan, rest, out
  <1>5. /\ rescue' \in RescueRecord /\ rescue'.stage = "proposed" /\ rescue'.plan = plan
        /\ rescue'.notPlaced = rest /\ rescue'.hit = rescue.hit /\ rescue'.day = rescue.day
        /\ rescue'.offers = rescue.offers /\ rescue'.kind = rescue.kind
        /\ rescue'.cutoff = rescue.cutoff /\ rescue'.known = rescue.known
    <2>1. rescue' = [rescue EXCEPT !.stage = "proposed", !.plan = plan, !.notPlaced = rest]
      BY <1>1 DEF plan, rest
    <2>2. plan \subseteq Node /\ rest \subseteq Site
      BY <1>3, <1>4 DEF Walkable
    <2>3. QED
      BY <1>4, <2>1, <2>2 DEF RescueRecord
  <1>6. UnderWay'
    BY <1>2, <1>3, <1>4, <1>5 DEF UnderWay, OfDay, Walkable
  <1>7. Unavailable(rescue') = out
    BY <1>5 DEF Unavailable, out
  <1>8. OneThingAtATime(plan) /\ NothingTwice(plan)
    BY <1>3 DEF Walkable, NothingTwice
  <1>9. \A p \in PlacesOf(plan) : \A q \in PlacesOf(plan) \cup out :
           p # q /\ SameSite(p, q) => {p, q} \subseteq rescue'.known
    <2>1. PlacesOf(itinerary) \subseteq rescue.known
      BY <1>2, <1>4 DEF ListingsRead
    <2>2. PlacesOf(plan) \cup out \subseteq rescue.known \cup rescue.offers
      BY <1>3, <2>1
    <2>3. QED
      BY <1>4, <1>5, <2>2 DEF ListingsRead
  <1>10. /\ Diff(itinerary, plan).moved = {}
         /\ PlacesOf(Diff(itinerary, plan).added) \subseteq PlacesOf(plan) \ PlacesOf(itinerary)
         /\ When(plan) =
              When({n \in itinerary : n.place \notin Diff(itinerary, plan).removed
                                        \cup PlacesOf(Diff(itinerary, plan).retimed)}
                     \cup Diff(itinerary, plan).added \cup Diff(itinerary, plan).retimed)
    <2>1. itinerary \in SUBSET Node /\ plan \in SUBSET Node
      BY <1>3, <1>4 DEF Walkable
    <2>2. /\ \A m, n \in itinerary : m = n \/ m.place # n.place
          /\ \A m, n \in plan : m = n \/ m.place # n.place
      BY <1>3, <1>4 DEF Walkable
    <2>3. QED
      BY <1>3, <2>1, <2>2, DiffReplays
  <1>11. RescueSound'
    BY <1>2, <1>3, <1>5, <1>7, <1>8, <1>9, <1>10 DEF RescueSound
  <1>12. ListingsRead'
    BY <1>2, <1>4, <1>5 DEF ListingsRead
  <1>13. QED
    BY <1>2, <1>4, <1>6, <1>11, <1>12 DEF RescueInv, Walkable

LEMMA RescueKept == RescueInv /\ [RescueNext]_rescueVars => RescueInv'
  <1> SUFFICES ASSUME RescueInv, [RescueNext]_rescueVars PROVE RescueInv'
    OBVIOUS
  <1>1. CASE UNCHANGED rescueVars
    BY <1>1 DEF rescueVars, RescueInv, Walkable, ListingsRead, UnderWay, OfDay, RescueSound
  <1>2. CASE GiveUp
    <2>1. rescue' = NoRescue /\ UNCHANGED <<itinerary, pooled, leftOut>>
      BY <1>2 DEF GiveUp
    <2>2. UnderWay' /\ ListingsRead' /\ RescueSound'
      BY <2>1 DEF RescueInv, UnderWay, ListingsRead, NoRescue, RescueRecord, Kinds, RescueSound
    <2>3. QED
      BY <2>1, <2>2 DEF RescueInv, Walkable
  <1>3. ASSUME NEW approve \in BOOLEAN, Decide(approve) PROVE RescueInv'
    <2>1. /\ rescue.stage = "proposed" /\ rescue' = NoRescue /\ pooled' = pooled
          /\ itinerary' \in {itinerary, rescue.plan} /\ leftOut' \in {leftOut, rescue.notPlaced}
      BY <1>3 DEF Decide
    <2>2. UnderWay' /\ ListingsRead' /\ RescueSound'
      BY <2>1 DEF RescueInv, UnderWay, ListingsRead, NoRescue, RescueRecord, Kinds, RescueSound
    <2>3. Walkable(itinerary)'
      BY <2>1 DEF RescueInv, UnderWay, Walkable
    <2>4. QED
      BY <2>1, <2>2, <2>3 DEF RescueInv
  <1>4. ASSUME NEW p \in FoundByOthers, OthersStore(p) PROVE RescueInv'
    <2>1. /\ pooled' = pooled \cup {p} /\ UNCHANGED <<itinerary, leftOut, rescue>>
          /\ p \in Site
      BY <1>4, RescueAssumption DEF OthersStore
    <2>2. UnderWay' /\ ListingsRead' /\ RescueSound'
      BY <2>1 DEF RescueInv, UnderWay, ListingsRead, OfDay, Walkable, RescueSound
    <2>3. QED
      BY <2>1, <2>2 DEF RescueInv, Walkable
  <1>5. QED
    BY <1>1, <1>2, <1>3, <1>4, DisruptKept, SearchKept, ProposeKept DEF RescueNext

\* The columns and the rescue under way keep their types, and what is offered or
\* left out is in the pool.
THEOREM RescueTypeCorrect == RescueSpec => []RescueTypeOK
  <1>1. RescueInv => RescueTypeOK
    BY DEF RescueInv, Walkable, ListingsRead, UnderWay, RescueRecord, RescueTypeOK
  <1>2. QED
    BY <1>1, RescueStarts, RescueKept, PTL DEF RescueSpec

\* For any places, plan and pool, whatever listings of one place it holds or gets
\* from others meanwhile, and any number of rescues one after the other on what the
\* group approved, every proposal is sound: walkable, no row twice or unavailable,
\* nothing found that is another listing of these, bookings at their hours,
\* nothing lost, and its diff replays.
THEOREM RescueSoundHolds == RescueSpec => []RescueSound
  <1>1. RescueInv => RescueSound
    BY DEF RescueInv
  <1>2. QED
    BY <1>1, RescueStarts, RescueKept, PTL DEF RescueSpec

(***************************************************************************)
(* The meal breaks of a day                                                *)
(***************************************************************************)

\* A time on the publication grid.
OnGrid(t) == t \in Int /\ t % Quantum = 0

\* A whole number of slots is on the grid, and slots of different number lie a
\* slot apart.
LEMMA Multiples ==
    ASSUME NEW k \in Int
    PROVE  /\ OnGrid(k * Quantum)
           /\ \A l \in Int : l < k => l * Quantum + Quantum <= k * Quantum
  <1>1. Quantum \in Nat /\ Quantum > 0
    BY ScheduleAssumption
  <1>2. ASSUME NEW l \in Int, l < k PROVE l * Quantum + Quantum <= k * Quantum
    <2>1. k - (l + 1) \in Nat
      BY <1>2
    <2>2. (k - (l + 1)) * Quantum \in Nat
      BY <1>1, <2>1
    <2>3. k * Quantum = l * Quantum + Quantum + (k - (l + 1)) * Quantum
      BY <1>1
    <2>4. l * Quantum \in Int /\ k * Quantum \in Int
      BY <1>1
    <2> DEFINE a == l * Quantum
               b == k * Quantum
               c == (k - (l + 1)) * Quantum
    <2>5. a \in Int /\ b \in Int /\ c \in Nat /\ b = a + Quantum + c
      BY <2>2, <2>3, <2>4
    <2> HIDE DEF a, b, c
    <2>6. a + Quantum <= b
      BY <1>1, <2>5
    <2>7. QED
      BY <2>6 DEF a, b
  <1>3. OnGrid(k * Quantum)
    <2> DEFINE t == k * Quantum
               q == t \div Quantum
               r == t % Quantum
    <2>1. t \in Int
      BY <1>1
    <2> HIDE DEF t
    <2>2. q \in Int /\ r \in 0..(Quantum - 1) /\ t = q * Quantum + r
      BY <1>1, <2>1
    <2> HIDE DEF q, r
    <2>3. ~(q < k)
      <3>1. SUFFICES ASSUME q < k PROVE FALSE
        OBVIOUS
      <3>2. q * Quantum + Quantum <= t
        BY <1>2, <2>2, <3>1 DEF t
      <3> DEFINE a == q * Quantum
      <3>3. a \in Int /\ t = a + r /\ a + Quantum <= t
        BY <1>1, <2>2, <3>2
      <3> HIDE DEF a
      <3>4. QED
        BY <1>1, <2>1, <2>2, <3>3
    <2>4. ~(k < q)
      <3>1. SUFFICES ASSUME k < q PROVE FALSE
        OBVIOUS
      <3> DEFINE a == q * Quantum
                 d == (q - (k + 1)) * Quantum
      <3>2. q - (k + 1) \in Nat
        BY <2>2, <3>1
      <3>3. d \in Nat /\ a \in Int
        BY <1>1, <2>2, <3>2
      <3>4. a = t + Quantum + d
        BY <1>1, <2>2 DEF t
      <3>5. t = a + r
        BY <2>2
      <3> HIDE DEF a, d
      <3>6. QED
        BY <1>1, <2>1, <2>2, <3>3, <3>4, <3>5
    <2>5. q = k
      BY <2>2, <2>3, <2>4
    <2>6. r = 0
      <3> DEFINE a == q * Quantum
      <3>1. t = a + r /\ t = a /\ a \in Int
        BY <1>1, <2>2, <2>5 DEF t
      <3> HIDE DEF a
      <3>2. QED
        BY <2>1, <2>2, <3>1
    <2>7. QED
      BY <2>1, <2>6 DEF OnGrid, r, t
  <1>4. QED
    BY <1>2, <1>3

LEMMA GridIsMultiples ==
    ASSUME NEW t \in Int, OnGrid(t)
    PROVE  \E k \in Int : t = k * Quantum
  <1>1. Quantum \in Nat /\ Quantum > 0
    BY ScheduleAssumption
  <1>2. t \div Quantum \in Int /\ t = (t \div Quantum) * Quantum + (t % Quantum)
    BY <1>1
  <1>3. t = (t \div Quantum) * Quantum + 0
    BY <1>2 DEF OnGrid
  <1>4. (t \div Quantum) * Quantum \in Int
    BY <1>1, <1>2
  <1>5. QED
    BY <1>2, <1>3, <1>4

LEMMA GridAdds ==
    ASSUME NEW t, NEW u, OnGrid(t), OnGrid(u)
    PROVE  OnGrid(t + u)
  <1>1. PICK k \in Int : t = k * Quantum
    BY GridIsMultiples DEF OnGrid
  <1>2. PICK l \in Int : u = l * Quantum
    BY GridIsMultiples DEF OnGrid
  <1>3. t + u = (k + l) * Quantum /\ k + l \in Int
    BY <1>1, <1>2, ScheduleAssumption
  <1>4. QED
    BY <1>3, Multiples

\* ceil_slot is the first time on the grid that is not earlier.
LEMMA CeilIsLeast ==
    ASSUME NEW t \in Int
    PROVE  /\ OnGrid(CeilSlot(t)) /\ CeilSlot(t) >= t
           /\ \A x : OnGrid(x) /\ x >= t => CeilSlot(t) <= x
  <1> DEFINE u == t + Quantum - 1
             q == u \div Quantum
             r == u % Quantum
             a == q * Quantum
  <1>1. Quantum \in Nat /\ Quantum > 0
    BY ScheduleAssumption
  <1>2. u \in Int
    BY <1>1
  <1> HIDE DEF u
  <1>3. q \in Int /\ r \in 0..(Quantum - 1) /\ u = q * Quantum + r
    BY <1>1, <1>2
  <1> HIDE DEF q, r
  <1>4. CeilSlot(t) = a
    BY DEF CeilSlot, u, q
  <1>5. OnGrid(a)
    BY <1>3, Multiples
  <1>6. a \in Int /\ u = a + r
    BY <1>1, <1>3
  <1>7. ASSUME NEW x, OnGrid(x), x >= t PROVE a <= x
    <2>1. x \in Int
      BY <1>7 DEF OnGrid
    <2>2. PICK k \in Int : x = k * Quantum
      BY <1>7, <2>1, GridIsMultiples
    <2>3. CASE k < q
      <3>1. x + Quantum <= a
        BY <1>3, <2>2, <2>3, Multiples
      <3> HIDE DEF a
      <3>2. QED
        BY <1>1, <1>3, <1>6, <1>7, <2>1, <3>1 DEF u
    <2>4. CASE k = q
      BY <1>6, <2>2, <2>4
    <2>5. CASE q < k
      <3>1. a + Quantum <= x
        BY <1>3, <2>2, <2>5, Multiples
      <3> HIDE DEF a
      <3>2. QED
        BY <1>1, <1>6, <2>1, <3>1
    <2>6. QED
      BY <1>3, <2>3, <2>4, <2>5
  <1> HIDE DEF a
  <1>8. a >= t
    BY <1>1, <1>3, <1>6 DEF u
  <1>9. QED
    BY <1>4, <1>5, <1>7, <1>8

LEMMA CeilOfGrid ==
    ASSUME NEW t, OnGrid(t)
    PROVE  CeilSlot(t) = t
  <1>1. t \in Int
    BY DEF OnGrid
  <1>2. CeilSlot(t) >= t /\ CeilSlot(t) <= t /\ OnGrid(CeilSlot(t))
    BY <1>1, CeilIsLeast
  <1>3. QED
    BY <1>1, <1>2 DEF OnGrid

\* Step by step one reaches every number up to n.
LEMMA Climb ==
    ASSUME NEW n \in Nat, NEW S, 0 \in S, \A i \in 0..n : i \in S /\ i < n => i + 1 \in S
    PROVE  \A i \in 0..n : i \in S
  <1> DEFINE T == {k \in 0..n : 0..k \subseteq S}
  <1>1. T \in SUBSET Nat /\ 0 \in T /\ \A k \in T : k <= n
    OBVIOUS
  <1>2. Max(T) \in T /\ \A k \in T : Max(T) >= k
    <2> HIDE DEF T
    <2>1. QED
      BY <1>1, Largest
  <1> DEFINE m == Max(T)
  <1> HIDE DEF m
  <1>3. m \in 0..n /\ 0..m \subseteq S /\ \A k \in T : m >= k
    BY <1>2 DEF m
  <1>4. m = n
    <2>1. SUFFICES ASSUME m < n PROVE FALSE
      BY <1>3
    <2>2. m + 1 \in S /\ m + 1 \in 0..n
      BY <1>3, <2>1
    <2>3. 0..(m + 1) \subseteq S
      BY <1>3, <2>2
    <2>4. m + 1 \in T
      BY <2>2, <2>3
    <2>5. QED
      BY <1>3, <2>4
  <1>5. QED
    BY <1>3, <1>4

\* A set of integers with a bound has a largest member, a set of naturals a
\* smallest one.
LEMMA LargestInt ==
    ASSUME NEW S \in SUBSET Int, S # {}, NEW n \in Int, \A x \in S : x <= n
    PROVE  Max(S) \in S /\ \A y \in S : Max(S) >= y
  <1>1. PICK low \in S : TRUE
    OBVIOUS
  <1> DEFINE T == {k \in 0..(n - low) : low + k \in S}
  <1>2. low \in Int /\ n - low \in Nat
    BY <1>1
  <1>3. T \in SUBSET Nat /\ 0 \in T /\ \A k \in T : k <= n - low
    BY <1>1, <1>2
  <1>4. Max(T) \in T /\ \A k \in T : Max(T) >= k
    <2> HIDE DEF T
    <2>1. QED
      BY <1>2, <1>3, Largest
  <1> DEFINE m == low + Max(T)
  <1>5. m \in S
    BY <1>4
  <1>6. ASSUME NEW y \in S PROVE m >= y
    <2>1. CASE y < low
      BY <1>2, <1>4, <2>1
    <2>2. CASE y >= low
      <3>1. y - low \in T
        BY <1>2, <2>2
      <3>2. Max(T) >= y - low /\ Max(T) \in Int
        BY <1>4, <3>1
      <3>3. QED
        BY <1>2, <3>2
    <2>3. QED
      BY <1>2, <2>1, <2>2
  <1>7. \E x \in S : \A y \in S : x >= y
    BY <1>5, <1>6
  <1>8. QED
    BY <1>7 DEF Max

LEMMA SmallestNat ==
    ASSUME NEW S \in SUBSET Nat, S # {}
    PROVE  Min(S) \in S /\ \A y \in S : Min(S) <= y
  <1> DEFINE T == {0 - x : x \in S}
  <1>1. T \in SUBSET Int /\ T # {} /\ \A x \in T : x <= 0
    <2>1. \A x \in S : 0 - x \in Int /\ 0 - x <= 0
      OBVIOUS
    <2>2. T # {}
      OBVIOUS
    <2>3. \A y \in T : \E x \in S : y = 0 - x
      OBVIOUS
    <2> HIDE DEF T
    <2>4. \A y \in T : y \in Int /\ y <= 0
      BY <2>1, <2>3
    <2>5. QED
      BY <2>2, <2>4
  <1>2. Max(T) \in T /\ \A y \in T : Max(T) >= y
    <2> HIDE DEF T
    <2>1. QED
      BY <1>1, LargestInt
  <1>3. PICK low \in S : Max(T) = 0 - low
    BY <1>2
  <1>4. \A y \in S : low =< y
    <2>1. ASSUME NEW y \in S PROVE low =< y
      <3>1. 0 - y \in T
        OBVIOUS
      <3>2. 0 - low >= 0 - y
        BY <1>2, <1>3, <3>1
      <3>3. QED
        BY <3>2
    <2>2. QED
      BY <2>1
  <1>5. QED
    BY <1>4 DEF Min

\* A stop as the search makes them, and a day of them: on the grid, one after the
\* other with the travel between, none of it before the first.
Stop == [visit : Visit, start : Int, end : Int, leg : Nat, meal : Meal \cup {NoSlot}]

DayInv ==
    /\ published \in BOOLEAN
    /\ stops \in Seq(Stop)
    /\ \A i \in DOMAIN stops :
          /\ OnGrid(stops[i].start) /\ OnGrid(stops[i].end)
          /\ DayStart <= stops[i].start /\ stops[i].start <= stops[i].end
          /\ stops[i].end <= DayEnd
    /\ stops # <<>> => stops[1].leg = 0
    /\ \A i, j \in DOMAIN stops : i < j => stops[i].end <= Left(stops[j])
    /\ published => WithinCap /\ Reservable

LEMMA StopTyped ==
    ASSUME DayInv, NEW i \in DOMAIN stops
    PROVE  /\ stops[i].start \in Nat /\ stops[i].end \in Nat /\ stops[i].leg \in Nat
           /\ Left(stops[i]) \in Nat /\ Left(stops[i]) <= stops[i].start
           /\ stops[i].start <= stops[i].end /\ DayStart <= Left(stops[i])
           /\ stops[i].end <= DayEnd
           /\ stops[1].start <= Left(stops[i]) /\ Left(stops[1]) = stops[1].start
           /\ 1 \in DOMAIN stops /\ OnGrid(stops[i].start) /\ OnGrid(stops[i].end)
  <1>1. DayStart \in Nat /\ DayEnd \in Nat
    BY ScheduleAssumption
  <1>2. /\ stops \in Seq(Stop) /\ DOMAIN stops = 1..Len(stops) /\ Len(stops) \in Nat
        /\ stops[i] \in Stop /\ i \in 1..Len(stops) /\ stops # <<>>
    BY DEF DayInv
  <1>3. 1 \in DOMAIN stops /\ stops[1] \in Stop
    BY <1>2
  <1>4. ASSUME NEW j \in DOMAIN stops
        PROVE  /\ DayStart <= stops[j].start /\ stops[j].start <= stops[j].end
               /\ stops[j].end <= DayEnd /\ OnGrid(stops[j].start) /\ OnGrid(stops[j].end)
    BY DEF DayInv
  <1>5. stops[i].start \in Nat /\ stops[i].end \in Nat /\ stops[i].leg \in Nat
    BY <1>1, <1>2, <1>4 DEF Stop
  <1>6. /\ stops[1].start \in Nat /\ stops[1].end \in Nat /\ stops[1].leg = 0
        /\ Left(stops[1]) = stops[1].start
    <2>1. stops[1].start \in Int /\ stops[1].end \in Int
      BY <1>3 DEF Stop
    <2>2. stops[1].leg = 0
      BY <1>2 DEF DayInv
    <2>3. stops[1].start \in Nat /\ stops[1].end \in Nat
      BY <1>1, <1>3, <1>4, <2>1
    <2>4. QED
      BY <2>2, <2>3 DEF Left
  <1>7. stops[1].start <= Left(stops[i])
    <2>1. CASE i = 1
      BY <1>6, <2>1
    <2>2. CASE i # 1
      <3>1. 1 < i
        BY <1>2, <2>2
      <3>2. stops[1].end <= Left(stops[i])
        BY <1>3, <3>1 DEF DayInv
      <3>3. stops[1].start <= stops[1].end
        BY <1>3, <1>4
      <3>4. QED
        BY <1>5, <1>6, <3>2, <3>3 DEF Left
    <2>3. QED
      BY <2>1, <2>2
  <1>8. Left(stops[i]) \in Int /\ Left(stops[i]) <= stops[i].start
    BY <1>5 DEF Left
  <1>9. Left(stops[i]) \in Nat /\ DayStart <= Left(stops[i])
    BY <1>1, <1>3, <1>4, <1>6, <1>7, <1>8
  <1>10. QED
    BY <1>3, <1>4, <1>5, <1>6, <1>7, <1>8, <1>9

\* The steps can be taken.
LEMMA Steppable ==
    ASSUME DayInv, NEW from \in Int
    PROVE  \E f : f = [i \in 0..Len(stops) |->
                          IF i = 0 THEN from ELSE Stepped(stops[i], f[i - 1])]
  <1> DEFINE N == Len(stops)
             Steps(f, n) == /\ f \in [0..n -> Int] /\ f[0] = from
                            /\ \A i \in 1..n : f[i] = Stepped(stops[i], f[i - 1])
             S == {n \in 0..N : \E f : Steps(f, n)}
  <1>1. N \in Nat /\ DOMAIN stops = 1..N
    BY DEF DayInv
  <1>2. \A i \in 1..N : \A c \in Int : Stepped(stops[i], c) \in Int
    <2> SUFFICES ASSUME NEW i \in 1..N, NEW c \in Int PROVE Stepped(stops[i], c) \in Int
      OBVIOUS
    <2>1. CeilSlot(stops[i].end) \in Int
      BY <1>1, StopTyped, CeilIsLeast DEF OnGrid
    <2>2. QED
      BY <2>1 DEF Stepped
  <1>3. 0 \in S
    <2> DEFINE z == [n \in 0..0 |-> from]
    <2>1. Steps(z, 0)
      OBVIOUS
    <2> HIDE DEF z
    <2>2. \E f : Steps(f, 0)
      BY <2>1
    <2>3. 0 \in 0..N
      BY <1>1
    <2>4. QED
      BY <2>2, <2>3
  <1>4. ASSUME NEW i \in 0..N, i \in S, i < N PROVE i + 1 \in S
    <2>1. PICK f : Steps(f, i)
      BY <1>4
    <2> DEFINE next == Stepped(stops[i + 1], f[i])
               g == [n \in 0..(i + 1) |-> IF n = i + 1 THEN next ELSE f[n]]
    <2>2. i \in Nat /\ i + 1 \in 1..N /\ f[i] \in Int /\ i \in 0..i
      BY <1>1, <1>4, <2>1
    <2>3. next \in Int
      BY <1>2, <2>2
    <2> HIDE DEF next
    <2>4. g \in [0..(i + 1) -> Int] /\ g[0] = from
      BY <2>1, <2>2, <2>3
    <2>5. ASSUME NEW k \in 1..(i + 1) PROVE g[k] = Stepped(stops[k], g[k - 1])
      <3>1. CASE k = i + 1
        <4>1. g[k] = next /\ g[k - 1] = f[i] /\ stops[k] = stops[i + 1]
          BY <2>2, <3>1
        <4>2. QED
          BY <4>1 DEF next
      <3>2. CASE k # i + 1
        <4>1. k \in 1..i /\ k \in 0..(i + 1) /\ k - 1 \in 0..(i + 1) /\ k - 1 # i + 1
          BY <2>2, <3>2
        <4>2. g[k] = f[k] /\ g[k - 1] = f[k - 1]
          BY <3>2, <4>1
        <4>3. QED
          BY <2>1, <4>1, <4>2
      <3>3. QED
        BY <3>1, <3>2
    <2> HIDE DEF g
    <2>6. Steps(g, i + 1)
      BY <2>4, <2>5
    <2>7. i + 1 \in 0..N
      BY <1>1, <2>2
    <2>8. QED
      BY <2>6, <2>7
  <1> HIDE DEF S, N
  <1>5. N \in S
    <2>1. \A i \in 0..N : i \in S
      BY <1>1, <1>3, <1>4, Climb
    <2>2. QED
      BY <1>1, <2>1
  <1>6. PICK f : Steps(f, N)
    BY <1>5 DEF S
  <1>7. f = [i \in 0..N |-> IF i = 0 THEN from ELSE Stepped(stops[i], f[i - 1])]
    <2>1. f = [i \in 0..N |-> f[i]]
      BY <1>6
    <2>2. \A i \in 0..N : i = 0 \/ i \in 1..N
      BY <1>1
    <2>3. \A i \in 0..N : f[i] = IF i = 0 THEN from ELSE Stepped(stops[i], f[i - 1])
      BY <1>6, <2>2
    <2>4. QED
      BY <2>1, <2>3
  <1>8. QED
    BY <1>7 DEF N

LEMMA CursorSteps ==
    ASSUME DayInv, NEW from \in Int
    PROVE  /\ Cursors(from)[0] = from
           /\ \A i \in 1..Len(stops) : Cursors(from)[i] = Stepped(stops[i], Cursors(from)[i - 1])
  <1> DEFINE f == Cursors(from)
             N == Len(stops)
  <1>1. N \in Nat
    BY DEF DayInv
  <1>2. f = [i \in 0..N |-> IF i = 0 THEN from ELSE Stepped(stops[i], f[i - 1])]
    BY Steppable DEF Cursors
  <1> HIDE DEF f
  <1>3. f[0] = from
    BY <1>1, <1>2
  <1>4. ASSUME NEW i \in 1..N PROVE f[i] = Stepped(stops[i], f[i - 1])
    <2>1. i \in 0..N /\ i # 0
      BY <1>1
    <2>2. QED
      BY <1>2, <2>1
  <1>5. QED
    BY <1>3, <1>4 DEF f

\* The hour found meets no stop and no travel, and no free hour is earlier.
LEMMA FirstFreeIsFirst ==
    ASSUME DayInv, NEW from, OnGrid(from)
    PROVE  /\ FirstFree(from) \in Int /\ FirstFree(from) >= from
           /\ \A i \in DOMAIN stops : ClearOf(FirstFree(from), stops[i])
           /\ \A x \in Int : x >= from /\ (\A i \in DOMAIN stops : ClearOf(x, stops[i]))
                                => FirstFree(from) <= x
  <1> DEFINE f == Cursors(from)
             N == Len(stops)
             S == {n \in 0..N :
                      /\ f[n] \in Int /\ f[n] >= from
                      /\ \A i \in 1..n : ClearOf(f[n], stops[i])
                      /\ \A x \in Int : x >= from /\ (\A i \in 1..N : ClearOf(x, stops[i]))
                                           => f[n] <= x}
  <1>1. N \in Nat /\ DOMAIN stops = 1..N /\ from \in Int /\ BreakLength \in Nat
    BY ScheduleAssumption DEF DayInv, OnGrid
  <1>2. f[0] = from /\ \A i \in 1..N : f[i] = Stepped(stops[i], f[i - 1])
    BY <1>1, CursorSteps
  <1> HIDE DEF f
  <1>3. 0 \in S
    BY <1>1, <1>2
  <1>4. ASSUME NEW n \in 0..N, n \in S, n < N PROVE n + 1 \in S
    <2> DEFINE s == stops[n + 1]
               c == f[n]
               d == f[n + 1]
    <2>1. n \in Nat /\ n + 1 \in 1..N /\ (n + 1) - 1 = n /\ n + 1 \in 0..N
      BY <1>1, <1>4
    <2>2. d = IF s.end > c /\ Left(s) < c + BreakLength THEN CeilSlot(s.end) ELSE c
      BY <1>2, <2>1 DEF Stepped
    <2>3. /\ s.start \in Nat /\ s.end \in Nat /\ s.leg \in Nat /\ Left(s) \in Nat
          /\ Left(s) <= s.start /\ s.start <= s.end /\ Left(s) = s.start - s.leg
      BY <1>1, <2>1, StopTyped DEF Left
    <2>4. CeilSlot(s.end) = s.end
      <3>1. OnGrid(s.end)
        BY <1>1, <2>1, StopTyped
      <3> HIDE DEF s
      <3>2. QED
        BY <3>1, CeilOfGrid
    <2>5. /\ c \in Int /\ c >= from /\ \A i \in 1..n : ClearOf(c, stops[i])
          /\ \A x \in Int : x >= from /\ (\A i \in 1..N : ClearOf(x, stops[i])) => c <= x
      BY <1>4
    <2>6. ASSUME NEW i \in 1..n
          PROVE  stops[i].end \in Nat /\ stops[i].start \in Nat /\ stops[i].end <= Left(s)
      <3>1. i \in 1..N /\ i < n + 1
        BY <1>1, <2>1
      <3>2. stops[i].end \in Nat /\ stops[i].start \in Nat
        BY <1>1, <3>1, StopTyped
      <3>3. stops[i].end <= Left(s)
        BY <1>1, <2>1, <3>1 DEF DayInv
      <3>4. QED
        BY <3>2, <3>3
    <2>7. \A i \in 1..(n + 1) : i \in 1..n \/ i = n + 1
      BY <2>1
    <2> HIDE DEF c, d, s
    <2>8. CASE s.end > c /\ Left(s) < c + BreakLength
      <3>1. d = s.end
        BY <2>2, <2>4, <2>8
      <3>2. ASSUME NEW i \in 1..n PROVE ClearOf(d, stops[i])
        <4>1. stops[i].end \in Nat /\ stops[i].end <= Left(s)
          BY <2>6
        <4> DEFINE e == stops[i].end
                   l == Left(s)
                   b == s.start
                   t == s.end
        <4>2. e \in Nat /\ l \in Nat /\ b \in Nat /\ t \in Nat /\ e <= l /\ l <= b /\ b <= t
          BY <2>3, <4>1
        <4>3. d = t
          BY <3>1
        <4> HIDE DEF e, l, b, t
        <4>4. e <= d
          BY <4>2, <4>3
        <4>5. QED
          BY <4>4 DEF ClearOf, e
      <3>3. ClearOf(d, s)
        BY <2>3, <3>1 DEF ClearOf
      <3>4. ASSUME NEW x \in Int, x >= from, \A i \in 1..N : ClearOf(x, stops[i])
            PROVE  d <= x
        <4>1. c <= x /\ ClearOf(x, s)
          BY <2>1, <2>5, <3>4 DEF s
        <4>2. QED
          BY <1>1, <2>3, <2>5, <2>8, <3>1, <4>1 DEF ClearOf
      <3>5. d \in Int /\ d >= from
        BY <1>1, <2>3, <2>5, <2>8, <3>1
      <3>6. \A i \in 1..(n + 1) : ClearOf(d, stops[i])
        BY <2>7, <3>2, <3>3 DEF s
      <3>7. QED
        BY <2>1, <3>4, <3>5, <3>6 DEF d
    <2>9. CASE ~(s.end > c /\ Left(s) < c + BreakLength)
      <3>1. d = c
        BY <2>2, <2>9
      <3>2. ClearOf(c, s)
        BY <1>1, <2>3, <2>5, <2>9 DEF ClearOf
      <3>3. \A i \in 1..(n + 1) : ClearOf(c, stops[i])
        BY <2>5, <2>7, <3>2 DEF s
      <3>4. QED
        BY <2>1, <2>5, <3>1, <3>3 DEF d
    <2>10. QED
      BY <2>8, <2>9
  <1> HIDE DEF S, N
  <1>5. N \in S
    <2>1. \A n \in 0..N : n \in S
      BY <1>1, <1>3, <1>4, Climb
    <2>2. QED
      BY <1>1, <2>1
  <1>6. FirstFree(from) = f[N]
    BY DEF FirstFree, f, N
  <1>7. QED
    BY <1>1, <1>5, <1>6 DEF S

\* What the search for a meal from a span on begins with, and the meals it finds
\* an hour for.
Begin(t, m) == CeilSlot(Max({t, MealWindow[m][1]}))
Hour(t, m) == FirstFree(Begin(t, m))
Limit(t, m) == Min({DayEnd, MealWindow[m][2], t + Cap})
Found(t) == {m \in Required : ~Serves(m) /\ Hour(t, m) + BreakLength <= Limit(t, m)}

LEMMA WindowTyped ==
    ASSUME NEW m \in Required
    PROVE  /\ MealWindow[m][1] \in Nat /\ MealWindow[m][2] \in Nat
           /\ DayStart \in Nat /\ DayEnd \in Nat /\ Cap \in Nat /\ BreakLength \in Nat
           /\ SlotStart(m) \in {DayStart, MealWindow[m][1]}
           /\ SlotStart(m) >= DayStart /\ SlotStart(m) >= MealWindow[m][1]
           /\ SlotEnd(m) \in Nat /\ SlotEnd(m) <= DayEnd /\ SlotEnd(m) <= MealWindow[m][2]
           /\ \A x \in Int : x <= DayEnd /\ x <= MealWindow[m][2] => x <= SlotEnd(m)
  <1> DEFINE opens == MealWindow[m][1]
             closes == MealWindow[m][2]
  <1>1. /\ opens \in Nat /\ closes \in Nat /\ DayStart \in Nat /\ DayEnd \in Nat /\ Cap \in Nat
        /\ BreakLength \in Nat
    BY ScheduleAssumption
  <1>2. SlotStart(m) = Max({DayStart, opens}) /\ SlotEnd(m) = Min({DayEnd, closes})
    BY DEF SlotStart, SlotEnd
  <1> HIDE DEF opens, closes
  <1>3. /\ SlotStart(m) \in {DayStart, opens} /\ SlotStart(m) >= DayStart
        /\ SlotStart(m) >= opens
    <2>1. DayStart \in Int /\ opens \in Int
      BY <1>1
    <2>2. /\ Max({DayStart, opens}) \in {DayStart, opens} /\ Max({DayStart, opens}) >= DayStart
          /\ Max({DayStart, opens}) >= opens
      BY <2>1, OfTwo, Zenon
    <2>3. QED
      BY <1>2, <2>2
  <1>4. Min({DayEnd, closes}) \in {DayEnd, closes} /\ \A y \in {DayEnd, closes} : Min({DayEnd, closes}) <= y
    <2>1. {DayEnd, closes} \in SUBSET Nat /\ {DayEnd, closes} # {}
      BY <1>1
    <2>2. QED
      BY <2>1, SmallestNat
  <1>5. /\ SlotEnd(m) \in {DayEnd, closes} /\ SlotEnd(m) <= DayEnd /\ SlotEnd(m) <= closes
    BY <1>2, <1>4
  <1>6. QED
    BY <1>1, <1>3, <1>5 DEF opens, closes

\* Where a meal's search begins and ends within a span.
LEMMA SpanOfMeal ==
    ASSUME NEW m \in Required, NEW t \in Nat
    PROVE  /\ OnGrid(Begin(t, m)) /\ Begin(t, m) >= t /\ Begin(t, m) >= MealWindow[m][1]
           /\ \A x : OnGrid(x) /\ x >= t /\ x >= MealWindow[m][1] => Begin(t, m) <= x
           /\ Limit(t, m) \in Nat /\ Limit(t, m) <= DayEnd /\ Limit(t, m) <= MealWindow[m][2]
           /\ Limit(t, m) <= t + Cap
           /\ \A x \in Int : x <= DayEnd /\ x <= MealWindow[m][2] /\ x <= t + Cap
                                => x <= Limit(t, m)
  <1> DEFINE opens == MealWindow[m][1]
             closes == MealWindow[m][2]
             last == t + Cap
             later == Max({t, opens})
  <1>1. /\ opens \in Nat /\ closes \in Nat /\ DayEnd \in Nat /\ last \in Nat
    BY WindowTyped
  <1>2. Begin(t, m) = CeilSlot(later) /\ Limit(t, m) = Min({DayEnd, closes, last})
    BY DEF Begin, Limit
  <1> HIDE DEF opens, closes, last
  <1>3. later \in {t, opens} /\ later >= t /\ later >= opens
    <2>1. t \in Int /\ opens \in Int
      BY <1>1
    <2>2. QED
      BY <2>1, OfTwo, Zenon
  <1>4. later \in Nat
    BY <1>1, <1>3
  <1> HIDE DEF later
  <1>5. /\ OnGrid(Begin(t, m)) /\ Begin(t, m) >= later
        /\ \A x : OnGrid(x) /\ x >= later => Begin(t, m) <= x
    BY <1>2, <1>4, CeilIsLeast
  <1>6. Begin(t, m) >= t /\ Begin(t, m) >= opens
    BY <1>1, <1>3, <1>4, <1>5 DEF OnGrid
  <1>7. ASSUME NEW x, OnGrid(x), x >= t, x >= opens PROVE Begin(t, m) <= x
    BY <1>3, <1>5, <1>7
  <1> DEFINE ends == {DayEnd, closes, last}
  <1>8. Min(ends) \in ends /\ \A y \in ends : Min(ends) <= y
    <2>1. ends \in SUBSET Nat /\ ends # {}
      BY <1>1
    <2> HIDE DEF ends
    <2>2. QED
      BY <2>1, SmallestNat
  <1>9. /\ Limit(t, m) \in {DayEnd, closes, last} /\ Limit(t, m) <= DayEnd
        /\ Limit(t, m) <= closes /\ Limit(t, m) <= last
    BY <1>2, <1>8
  <1>10. QED
    BY <1>1, <1>5, <1>6, <1>7, <1>9 DEF opens, closes, last

\* A span finds hours for meals nobody serves only, free ones, within the span.
LEMMA FoundAreFree ==
    ASSUME DayInv, NEW t \in Nat, DayStart <= t, NEW m \in Found(t)
    PROVE  /\ m \in Uncovered /\ Hour(t, m) \in Int /\ Hour(t, m) >= t
           /\ Hour(t, m) + BreakLength <= t + Cap
           /\ \A i \in DOMAIN stops : ClearOf(Hour(t, m), stops[i])
  <1>1. m \in Required /\ ~Serves(m) /\ Hour(t, m) + BreakLength <= Limit(t, m)
    BY DEF Found
  <1>2. /\ OnGrid(Begin(t, m)) /\ Begin(t, m) >= t /\ Begin(t, m) >= MealWindow[m][1]
        /\ Limit(t, m) \in Nat /\ Limit(t, m) <= DayEnd /\ Limit(t, m) <= MealWindow[m][2]
        /\ Limit(t, m) <= t + Cap
    BY <1>1, SpanOfMeal
  <1>3. /\ Hour(t, m) \in Int /\ Hour(t, m) >= Begin(t, m)
        /\ \A i \in DOMAIN stops : ClearOf(Hour(t, m), stops[i])
    BY <1>2, FirstFreeIsFirst DEF Hour
  <1>4. /\ MealWindow[m][1] \in Nat /\ BreakLength \in Nat /\ DayStart \in Nat
        /\ SlotStart(m) \in {DayStart, MealWindow[m][1]}
        /\ SlotEnd(m) \in Nat
        /\ \A x \in Int : x <= DayEnd /\ x <= MealWindow[m][2] => x <= SlotEnd(m)
    BY <1>1, WindowTyped
  <1>5. Begin(t, m) \in Int
    BY <1>2 DEF OnGrid
  <1>6. Hour(t, m) >= t /\ Hour(t, m) >= MealWindow[m][1] /\ Hour(t, m) >= SlotStart(m)
    BY <1>2, <1>3, <1>4, <1>5
  <1>7. /\ Hour(t, m) + BreakLength <= t + Cap /\ Hour(t, m) + BreakLength \in Int
        /\ Limit(t, m) <= SlotEnd(m)
    <2>1. Cap \in Nat
      BY ScheduleAssumption
    <2>2. QED
      BY <1>1, <1>2, <1>3, <1>4, <2>1
  <1>8. SlotEnd(m) - SlotStart(m) >= BreakLength
    <2>1. SlotStart(m) \in Nat
      BY <1>4
    <2>2. Hour(t, m) + BreakLength <= SlotEnd(m)
      BY <1>1, <1>2, <1>3, <1>4, <1>7
    <2>3. QED
      BY <1>3, <1>4, <1>6, <2>1, <2>2
  <1>9. QED
    BY <1>1, <1>3, <1>6, <1>7, <1>8 DEF Uncovered

\* One break for each meal found.
LEMMA BreaksCounted ==
    ASSUME DayInv, NEW t \in Nat, DayStart <= t
    PROVE  /\ BreaksFrom(t) = {[meal |-> m, start |-> Hour(t, m)] : m \in Found(t)}
           /\ Found(t) \subseteq Uncovered /\ IsFiniteSet(Uncovered)
           /\ Cardinality(Uncovered) \in Nat
           /\ Cardinality(BreaksFrom(t)) = Cardinality(Found(t))
           /\ Cardinality(BreaksFrom(t)) \in Nat
           /\ Cardinality(BreaksFrom(t)) <= Cardinality(Uncovered)
           /\ Cardinality(BreaksFrom(t)) = Cardinality(Uncovered) => Found(t) = Uncovered
  <1> DEFINE F == Found(t)
             B == BreaksFrom(t)
             g == [m \in F |-> [meal |-> m, start |-> Hour(t, m)]]
  <1>1. B = {[meal |-> m, start |-> Hour(t, m)] : m \in F}
    BY DEF BreaksFrom, Found, Hour, Begin, Limit
  <1>2. F \subseteq Uncovered
    BY FoundAreFree
  <1>3. IsFiniteSet(Uncovered) /\ Cardinality(Uncovered) \in Nat
    <2>1. Uncovered \in SUBSET Required
      BY DEF Uncovered
    <2>2. QED
      BY <2>1, ScheduleAssumption, FS_Subset, FS_CardinalityType
  <1> HIDE DEF F, B
  <1>4. /\ IsFiniteSet(F) /\ Cardinality(F) <= Cardinality(Uncovered)
        /\ Cardinality(Uncovered) = Cardinality(F) => Uncovered = F
    BY <1>2, <1>3, FS_Subset
  <1>5. g \in Surjection(F, B)
    <2>1. g \in [F -> B]
      BY <1>1
    <2>2. \A y \in B : \E m \in F : g[m] = y
      BY <1>1
    <2> HIDE DEF g
    <2>3. QED
      BY <2>1, <2>2 DEF Surjection
  <1>6. g \in Injection(F, B)
    <2>1. g \in [F -> B]
      BY <1>1
    <2>2. \A m, n \in F : g[m] = g[n] => m = n
      <3>1. \A m \in F : g[m].meal = m
        OBVIOUS
      <3> HIDE DEF g
      <3>2. QED
        BY <3>1
    <2> HIDE DEF g
    <2>3. QED
      BY <2>1, <2>2 DEF Injection, IsInjective
  <1> HIDE DEF g
  <1>7. Cardinality(B) = Cardinality(F)
    BY <1>4, <1>5, <1>6, FS_Surjection
  <1>8. Cardinality(F) \in Nat
    BY <1>4, FS_CardinalityType
  <1>9. QED
    BY <1>1, <1>2, <1>3, <1>4, <1>7, <1>8 DEF F, B

\* The spans of a day: slots from which the visits end within the cap, and that
\* begin no later than the first of them.
LEMMA SpansAre ==
    ASSUME DayInv
    PROVE  \A t \in Int : t \in Spans <=>
              /\ OnGrid(t) /\ DayStart <= t /\ t <= DayEnd
              /\ \A i \in DOMAIN stops : stops[i].end - Cap <= t /\ t <= Left(stops[i])
  <1> DEFINE heads == {DayStart} \cup {stops[i].end - Cap : i \in DOMAIN stops}
             tails == {DayEnd} \cup {Left(stops[i]) : i \in DOMAIN stops}
             earliest == Max(heads)
             latest == Min(tails)
  <1>1. DayStart \in Nat /\ DayEnd \in Nat /\ Cap \in Nat
    BY ScheduleAssumption
  <1>2. \A i \in DOMAIN stops : /\ stops[i].end \in Nat /\ stops[i].end <= DayEnd
                                /\ Left(stops[i]) \in Nat
    BY StopTyped
  <1>3. Spans = Slots(CeilSlot(earliest), latest)
    BY DEF Spans
  <1>4. earliest \in heads /\ \A y \in heads : earliest >= y
    <2>1. heads \in SUBSET Int /\ heads # {}
      BY <1>1, <1>2
    <2>2. \A y \in heads : y <= DayStart + DayEnd
      BY <1>1, <1>2
    <2> HIDE DEF heads
    <2>3. DayStart + DayEnd \in Int
      BY <1>1
    <2>4. QED
      BY <2>1, <2>2, <2>3, LargestInt
  <1>5. latest \in tails /\ \A y \in tails : latest <= y
    <2>1. tails \in SUBSET Nat /\ tails # {}
      BY <1>1, <1>2
    <2> HIDE DEF tails
    <2>2. QED
      BY <2>1, SmallestNat
  <1>6. earliest \in Int /\ latest \in Nat
    BY <1>1, <1>2, <1>4, <1>5
  <1> HIDE DEF earliest, latest
  <1>7. SUFFICES ASSUME NEW t \in Int
                 PROVE  t \in Spans <=>
                          /\ OnGrid(t) /\ DayStart <= t /\ t <= DayEnd
                          /\ \A i \in DOMAIN stops : stops[i].end - Cap <= t /\ t <= Left(stops[i])
    OBVIOUS
  <1>8. /\ OnGrid(CeilSlot(earliest)) /\ CeilSlot(earliest) >= earliest
        /\ OnGrid(t) /\ t >= earliest => CeilSlot(earliest) <= t
    BY <1>6, CeilIsLeast
  <1>9. t \in Spans <=> OnGrid(t) /\ earliest <= t /\ t <= latest
    <2>1. CeilSlot(earliest) \in Int
      BY <1>8 DEF OnGrid
    <2>2. t \in Spans <=> t \in CeilSlot(earliest)..latest /\ t % Quantum = 0
      BY <1>3 DEF Slots
    <2>3. QED
      BY <1>6, <1>8, <2>1, <2>2 DEF OnGrid
  <1>10. earliest <= t <=> DayStart <= t /\ \A i \in DOMAIN stops : stops[i].end - Cap <= t
    BY <1>1, <1>2, <1>4, <1>6
  <1>11. t <= latest <=> t <= DayEnd /\ \A i \in DOMAIN stops : t <= Left(stops[i])
    BY <1>1, <1>2, <1>5, <1>6
  <1>12. QED
    BY <1>9, <1>10, <1>11

\* Where hours could be reserved, one span holds them all: the one that begins
\* with the first stop or the first reserved hour, whichever is earlier.
LEMMA OneSpanHoldsAll ==
    ASSUME DayInv, WithinCap, Reservable, Uncovered # {}
    PROVE  \E t \in Spans : Found(t) = Uncovered
  <1>1. DayStart \in Nat /\ DayEnd \in Nat /\ Cap \in Nat /\ BreakLength \in Nat
    BY ScheduleAssumption
  <1>2. PICK b \in BreakStarts :
           /\ \A m \in Uncovered : \A i \in DOMAIN stops :
                 /\ ClearOf(b[m], stops[i])
                 /\ b[m] + BreakLength - stops[i].start <= Cap
                 /\ stops[i].end - b[m] <= Cap
           /\ \A m, n \in Uncovered : b[m] + BreakLength - b[n] <= Cap
    BY DEF Reservable
  <1>3. \A m \in Uncovered :
           /\ b[m] \in Nat /\ OnGrid(b[m]) /\ DayStart <= b[m] /\ b[m] <= DayEnd
           /\ b[m] >= SlotStart(m) /\ b[m] + BreakLength <= SlotEnd(m)
           /\ m \in Required /\ ~Serves(m)
    <2>1. \A m \in Uncovered : b[m] \in Slots(DayStart, DayEnd)
      BY <1>2 DEF BreakStarts
    <2>2. Slots(DayStart, DayEnd) \subseteq Nat
      BY <1>1 DEF Slots
    <2>3. \A x \in Slots(DayStart, DayEnd) : OnGrid(x) /\ DayStart <= x /\ x <= DayEnd
      BY <1>1 DEF Slots, OnGrid
    <2>4. QED
      BY <1>2, <2>1, <2>2, <2>3 DEF BreakStarts, Uncovered
  <1>4. \A i \in DOMAIN stops :
           /\ stops[i].start \in Nat /\ stops[i].end \in Nat /\ Left(stops[i]) \in Nat
           /\ stops[1].start <= Left(stops[i]) /\ 1 \in DOMAIN stops
           /\ DayStart <= Left(stops[i]) /\ OnGrid(stops[i].start)
           /\ Left(stops[i]) <= stops[i].start /\ stops[i].start <= DayEnd
    BY <1>1, StopTyped
  <1> DEFINE first == {stops[1].start : i \in DOMAIN stops}
             heads == {b[m] : m \in Uncovered} \cup first
             t == Min(heads)
  <1>5. heads \in SUBSET Nat /\ heads # {}
    BY <1>3, <1>4
  <1>6. t \in heads /\ \A y \in heads : t <= y
    <2> HIDE DEF heads
    <2>1. QED
      BY <1>5, SmallestNat
  <1> HIDE DEF t
  <1>7. /\ t \in Nat /\ OnGrid(t) /\ DayStart <= t /\ t <= DayEnd
    BY <1>3, <1>4, <1>5, <1>6
  <1>8. /\ \A m \in Uncovered : t <= b[m] /\ b[m] + BreakLength <= t + Cap
        /\ \A i \in DOMAIN stops : t <= stops[1].start /\ stops[i].end - Cap <= t
    <2>1. (\E n \in Uncovered : t = b[n]) \/ (1 \in DOMAIN stops /\ t = stops[1].start)
      BY <1>4, <1>6
    <2>2. \A m \in Uncovered : t <= b[m]
      BY <1>6
    <2>3. \A i \in DOMAIN stops : t <= stops[1].start
      BY <1>6
    <2>4. CASE \E n \in Uncovered : t = b[n]
      <3>1. PICK n \in Uncovered : t = b[n]
        BY <2>4
      <3>2. ASSUME NEW m \in Uncovered PROVE b[m] + BreakLength <= t + Cap
        <4>1. b[m] + BreakLength - b[n] <= Cap /\ b[m] \in Nat /\ b[n] \in Nat
          BY <1>2, <1>3
        <4>2. QED
          BY <1>1, <3>1, <4>1
      <3>3. ASSUME NEW i \in DOMAIN stops PROVE stops[i].end - Cap <= t
        <4>1. stops[i].end - b[n] <= Cap /\ stops[i].end \in Nat /\ b[n] \in Nat
          BY <1>2, <1>3, <1>4
        <4>2. QED
          BY <1>1, <3>1, <4>1
      <3>4. QED
        BY <2>2, <2>3, <3>2, <3>3
    <2>5. CASE 1 \in DOMAIN stops /\ t = stops[1].start
      <3>1. ASSUME NEW m \in Uncovered PROVE b[m] + BreakLength <= t + Cap
        <4>1. b[m] + BreakLength - stops[1].start <= Cap /\ b[m] \in Nat /\ stops[1].start \in Nat
          BY <1>2, <1>3, <1>4, <2>5
        <4>2. QED
          BY <1>1, <2>5, <4>1
      <3>2. ASSUME NEW i \in DOMAIN stops PROVE stops[i].end - Cap <= t
        <4>1. stops[i].end - stops[1].start <= Cap /\ stops[i].end \in Nat /\ stops[1].start \in Nat
          BY <1>4, <2>5 DEF WithinCap
        <4>2. QED
          BY <1>1, <2>5, <4>1
      <3>3. QED
        BY <2>2, <2>3, <3>1, <3>2
    <2>6. QED
      BY <2>1, <2>4, <2>5
  <1>9. t \in Spans
    <2>1. \A i \in DOMAIN stops : stops[i].end - Cap <= t /\ t <= Left(stops[i])
      BY <1>4, <1>7, <1>8
    <2>2. QED
      BY <1>7, <2>1, SpansAre
  <1>10. ASSUME NEW m \in Uncovered PROVE m \in Found(t)
    <2>1. /\ m \in Required /\ ~Serves(m) /\ b[m] \in Nat /\ OnGrid(b[m]) /\ b[m] >= t
          /\ b[m] >= SlotStart(m) /\ b[m] + BreakLength <= SlotEnd(m)
          /\ b[m] + BreakLength <= t + Cap
      BY <1>3, <1>8
    <2>2. /\ MealWindow[m][1] \in Nat /\ MealWindow[m][2] \in Nat
          /\ SlotStart(m) \in Nat /\ SlotStart(m) >= MealWindow[m][1]
          /\ SlotEnd(m) \in Nat /\ SlotEnd(m) <= DayEnd /\ SlotEnd(m) <= MealWindow[m][2]
      BY <1>1, <2>1, WindowTyped
    <2>3. b[m] >= MealWindow[m][1]
      BY <2>1, <2>2
    <2>4. OnGrid(Begin(t, m)) /\ Begin(t, m) <= b[m]
      BY <1>7, <2>1, <2>3, SpanOfMeal
    <2>5. \A i \in DOMAIN stops : ClearOf(b[m], stops[i])
      BY <1>2
    <2>6. Hour(t, m) <= b[m] /\ Hour(t, m) \in Int
      BY <2>1, <2>4, <2>5, FirstFreeIsFirst DEF Hour, OnGrid
    <2>7. b[m] + BreakLength <= Limit(t, m) /\ Limit(t, m) \in Nat
      <3>1. b[m] + BreakLength \in Int /\ b[m] + BreakLength <= DayEnd
            /\ b[m] + BreakLength <= MealWindow[m][2]
        BY <1>1, <2>1, <2>2
      <3>2. QED
        BY <1>7, <2>1, <3>1, SpanOfMeal
    <2>8. Hour(t, m) + BreakLength <= Limit(t, m)
      BY <1>1, <2>1, <2>6, <2>7
    <2>9. QED
      BY <2>1, <2>8 DEF Found
  <1>11. Found(t) \subseteq Uncovered
    BY <1>7, BreaksCounted
  <1>12. QED
    BY <1>9, <1>10, <1>11

\* The API answers with a span in which every reserved meal has its hour, or with
\* nothing where none was reserved.
LEMMA AnswerIsSpan ==
    ASSUME DayInv, WithinCap, Reservable
    PROVE  \/ AvailableMealBreaks = {} /\ Uncovered = {}
           \/ \E t \in Spans : AvailableMealBreaks = BreaksFrom(t) /\ Found(t) = Uncovered
  <1> DEFINE count == [t \in Spans |-> Cardinality(BreaksFrom(t))]
             counts == {0} \cup {Cardinality(BreaksFrom(t)) : t \in Spans}
             most == Max(counts)
             all == Cardinality(Uncovered)
  <1>1. DayStart \in Nat
    BY ScheduleAssumption
  <1>2. \A t \in Spans : t \in Nat /\ DayStart <= t
    <2>1. Spans \subseteq Int
      <3>1. \A x, y : Slots(x, y) \subseteq Int
        BY DEF Slots
      <3>2. QED
        BY <3>1 DEF Spans
    <2>2. QED
      BY <1>1, <2>1, SpansAre
  <1>3. \A t \in Spans : /\ Cardinality(BreaksFrom(t)) \in Nat
                         /\ Cardinality(BreaksFrom(t)) <= all
                         /\ Cardinality(BreaksFrom(t)) = all => Found(t) = Uncovered
    BY <1>2, BreaksCounted
  <1>4. all \in Nat /\ IsFiniteSet(Uncovered)
    <2>1. Uncovered \in SUBSET Required
      BY DEF Uncovered
    <2>2. QED
      BY <2>1, ScheduleAssumption, FS_Subset, FS_CardinalityType
  <1> HIDE DEF all
  <1>5. counts \in SUBSET Nat /\ counts # {} /\ \A x \in counts : x <= all
    BY <1>3, <1>4
  <1>6. most \in counts /\ \A x \in counts : most >= x
    <2> HIDE DEF counts
    <2>1. QED
      BY <1>4, <1>5, Largest
  <1>7. most \in Nat /\ most <= all
    BY <1>5, <1>6
  <1>8. AvailableMealBreaks =
           IF most = 0 THEN {}
           ELSE BreaksFrom(Min({t \in Spans : Cardinality(BreaksFrom(t)) = most}))
    BY DEF AvailableMealBreaks
  <1> HIDE DEF most
  <1>9. CASE Uncovered = {}
    <2>1. all = 0
      BY <1>9, FS_EmptySet DEF all
    <2>2. QED
      BY <1>7, <1>8, <1>9, <2>1
  <1>10. CASE Uncovered # {}
    <2>1. PICK t \in Spans : Found(t) = Uncovered
      BY <1>10, OneSpanHoldsAll
    <2>2. Cardinality(BreaksFrom(t)) = all
      BY <1>2, <2>1, BreaksCounted DEF all
    <2>3. all # 0
      BY <1>4, <1>10, FS_EmptySet DEF all
    <2>4. most = all
      <3>1. all \in counts
        BY <2>2
      <3>2. QED
        BY <1>4, <1>6, <1>7, <3>1
    <2> DEFINE fullest == {u \in Spans : Cardinality(BreaksFrom(u)) = most}
    <2>5. fullest \in SUBSET Nat /\ fullest # {}
      BY <1>2, <2>2, <2>4
    <2>6. Min(fullest) \in fullest
      <3> HIDE DEF fullest
      <3>1. QED
        BY <2>5, SmallestNat
    <2>7. Min(fullest) \in Spans /\ Cardinality(BreaksFrom(Min(fullest))) = all
      BY <2>4, <2>6
    <2>8. AvailableMealBreaks = BreaksFrom(Min(fullest))
      BY <1>8, <2>3, <2>4
    <2> HIDE DEF fullest
    <2>9. QED
      BY <1>3, <2>7, <2>8
  <1>11. QED
    BY <1>9, <1>10

LEMMA DayStarts == ScheduleInit => DayInv
  <1> SUFFICES ASSUME ScheduleInit PROVE DayInv
    OBVIOUS
  <1>1. stops = <<>> /\ published = FALSE
    BY DEF ScheduleInit
  <1>2. stops \in Seq(Stop) /\ DOMAIN stops = {}
    BY <1>1
  <1>3. QED
    BY <1>1, <1>2 DEF DayInv

\* The next stop goes behind the others.
LEMMA StopAdded ==
    ASSUME DayInv, NEW v \in Visit, AddStop(v)
    PROVE  DayInv'
  <1>1. PICK leg \in (IF stops = <<>> THEN {0} ELSE Travel), meal \in Meal \cup {NoSlot},
             start \in Slots(DayStart, DayEnd) :
             /\ Fits(v, start, meal)
             /\ stops # <<>> => start >= Last(stops).end + leg
             /\ stops' = Append(stops, [visit |-> v, start |-> start, end |-> start + Stay[v],
                                        leg |-> leg, meal |-> meal])
    BY DEF AddStop
  <1> DEFINE s == [visit |-> v, start |-> start, end |-> start + Stay[v],
                   leg |-> leg, meal |-> meal]
             N == Len(stops)
  <1>2. /\ DayStart \in Nat /\ DayEnd \in Nat /\ Stay[v] \in Nat /\ OnGrid(Stay[v])
        /\ Travel \subseteq Nat
    BY ScheduleAssumption DEF OnGrid
  <1>3. /\ start \in Nat /\ OnGrid(start) /\ DayStart <= start
    BY <1>1, <1>2 DEF Slots, OnGrid
  <1>4. start + Stay[v] <= DayEnd
    BY <1>1 DEF Fits
  <1>5. OnGrid(start + Stay[v])
    BY <1>2, <1>3, GridAdds
  <1>6. leg \in Nat /\ (stops = <<>> => leg = 0)
    BY <1>1, <1>2
  <1>7. s \in Stop
    BY <1>2, <1>3, <1>6 DEF Stop
  <1>8. stops \in Seq(Stop) /\ N \in Nat /\ DOMAIN stops = 1..N
    BY DEF DayInv
  <1>8a. N = 0 <=> stops = <<>>
    BY <1>8
  <1>9. /\ s.start = start /\ s.end = start + Stay[v] /\ s.leg = leg
    OBVIOUS
  <1>10. stops' = Append(stops, s)
    BY <1>1
  <1>11. published' = published /\ published = FALSE
    BY DEF AddStop, DayInv
  <1>12. Left(s) = start - leg
    BY <1>9 DEF Left
  <1> HIDE DEF s
  <1>13. /\ stops' \in Seq(Stop) /\ Len(stops') = N + 1 /\ DOMAIN stops' = 1..(N + 1)
         /\ \A i \in 1..N : stops'[i] = stops[i]
         /\ stops'[N + 1] = s
    BY <1>7, <1>8, <1>10
  <1> HIDE DEF N
  <1>14. ASSUME NEW i \in 1..N PROVE stops[i].end <= Left(s)
    <2>1. N \in 1..N /\ Last(stops) = stops[N] /\ stops # <<>>
      BY <1>8 DEF Last, N
    <2>2. start >= stops[N].end + leg
      BY <1>1, <2>1
    <2>3. /\ stops[i].end \in Nat /\ stops[N].end \in Nat
          /\ Left(stops[N]) <= stops[N].start /\ stops[N].start <= stops[N].end
          /\ Left(stops[N]) \in Nat /\ stops[N].start \in Nat
      BY <1>8, <2>1, StopTyped
    <2>4. i = N \/ stops[i].end <= Left(stops[N])
      <3>1. i = N \/ i < N
        BY <1>8
      <3>2. QED
        BY <1>8, <2>1, <3>1 DEF DayInv
    <2>5. stops[i].end <= stops[N].end
      BY <2>3, <2>4
    <2> DEFINE e == stops[i].end
               b == stops[N].end
               l == Left(s)
    <2>6. e \in Nat /\ b \in Nat /\ e <= b /\ start >= b + leg /\ l = start - leg
      BY <1>12, <2>2, <2>3, <2>5
    <2> HIDE DEF e, b, l
    <2>7. e <= l
      BY <1>3, <1>6, <2>6
    <2>8. QED
      BY <2>7 DEF e, l
  <1>15. ASSUME NEW i \in DOMAIN stops'
         PROVE  /\ OnGrid(stops'[i].start) /\ OnGrid(stops'[i].end)
                /\ DayStart <= stops'[i].start /\ stops'[i].start <= stops'[i].end
                /\ stops'[i].end <= DayEnd
    <2>1. i \in 1..N \/ i = N + 1
      BY <1>8, <1>13
    <2>2. CASE i \in 1..N
      BY <1>8, <1>13, <2>2 DEF DayInv
    <2>3. CASE i = N + 1
      BY <1>2, <1>3, <1>4, <1>5, <1>9, <1>13, <2>3
    <2>4. QED
      BY <2>1, <2>2, <2>3
  <1>16. stops'[1].leg = 0
    <2>1. CASE stops = <<>>
      BY <1>6, <1>8a, <1>9, <1>13, <2>1
    <2>2. CASE stops # <<>>
      <3>1. 1 \in 1..N
        BY <1>8, <1>8a, <2>2
      <3>2. QED
        BY <1>13, <2>2, <3>1 DEF DayInv
    <2>3. QED
      BY <2>1, <2>2
  <1>17. ASSUME NEW i \in DOMAIN stops', NEW j \in DOMAIN stops', i < j
         PROVE  stops'[i].end <= Left(stops'[j])
    <2>1. i \in 1..N /\ (j \in 1..N \/ j = N + 1)
      BY <1>8, <1>13, <1>17
    <2>2. CASE j \in 1..N
      <3>1. stops[i].end <= Left(stops[j])
        BY <1>8, <1>17, <2>1, <2>2 DEF DayInv
      <3>2. QED
        BY <1>13, <2>1, <2>2, <3>1 DEF Left
    <2>3. CASE j = N + 1
      BY <1>13, <1>14, <2>1, <2>3 DEF Left
    <2>4. QED
      BY <2>1, <2>2, <2>3
  <1>18. QED
    BY <1>11, <1>13, <1>15, <1>16, <1>17 DEF DayInv, Left

LEMMA DayStep == DayInv /\ [ScheduleNext]_scheduleVars => DayInv'
  <1> SUFFICES ASSUME DayInv, [ScheduleNext]_scheduleVars PROVE DayInv'
    OBVIOUS
  <1>1. ASSUME stops' = stops, published' = published \/ (WithinCap /\ Reservable /\ published' = TRUE)
        PROVE  DayInv'
    <2>1. WithinCap' = WithinCap
      BY <1>1 DEF WithinCap
    <2>2. Reservable' = Reservable
      BY <1>1 DEF Reservable, BreakStarts, Uncovered, Serves, ClearOf
    <2>3. published' \in BOOLEAN /\ (published' => WithinCap /\ Reservable)
      <3>1. published \in BOOLEAN /\ (published => WithinCap /\ Reservable)
        BY DEF DayInv
      <3>2. CASE published' = published
        BY <3>1, <3>2, Zenon
      <3>3. CASE WithinCap /\ Reservable /\ published' = TRUE
        BY <3>3, Zenon
      <3>4. QED
        BY <1>1, <3>2, <3>3
    <2>4. QED
      BY <1>1, <2>1, <2>2, <2>3 DEF DayInv, Left
  <1>2. CASE UNCHANGED scheduleVars
    BY <1>1, <1>2 DEF scheduleVars
  <1>3. CASE Publish
    BY <1>1, <1>3 DEF Publish
  <1>4. QED
    BY <1>2, <1>3, StopAdded DEF ScheduleNext

\* Every stop is of the day's places and ends within the day.
THEOREM ScheduleTypeCorrect == ScheduleSpec => []ScheduleTypeOK
  <1>1. DayInv => ScheduleTypeOK
    <2> SUFFICES ASSUME DayInv PROVE ScheduleTypeOK
      OBVIOUS
    <2>1. \A i \in DOMAIN stops : stops[i] \in Stop /\ stops[i].end <= DayEnd
      BY DEF DayInv
    <2>2. QED
      BY <2>1 DEF DayInv, ScheduleTypeOK, Stop
  <1>2. QED
    BY <1>1, DayStarts, DayStep, PTL DEF ScheduleSpec

\* For any places, windows and travel times: the hours the API finds in the saved
\* stops are for exactly the meals the solver reserved one for, they meet no
\* visit and no travel, and the day with them stays within the cap
\* (available_meal_breaks, _meal_slot_windows).
THEOREM MealBreaksAgreeHolds == ScheduleSpec => []MealBreaksAgree
  <1>1. DayInv => MealBreaksAgree
    <2> SUFFICES ASSUME DayInv, published PROVE MealBreaksAgree
      BY DEF MealBreaksAgree
    <2> DEFINE breaks == AvailableMealBreaks
               starts == {k.start : k \in breaks} \cup {stops[i].start : i \in DOMAIN stops}
               ends == {k.start + BreakLength : k \in breaks} \cup {stops[i].end : i \in DOMAIN stops}
    <2>1. WithinCap /\ Reservable
      BY DEF DayInv
    <2>2. Cap \in Nat /\ DayStart \in Nat /\ BreakLength \in Nat
      BY ScheduleAssumption
    <2>3. CASE breaks = {} /\ Uncovered = {}
      <3>1. starts = {stops[i].start : i \in DOMAIN stops} /\ ends = {stops[i].end : i \in DOMAIN stops}
        BY <2>3
      <3>2. \A x \in starts, y \in ends : y - x <= Cap
        BY <2>1, <3>1 DEF WithinCap
      <3>3. QED
        BY <2>3, <3>2 DEF MealBreaksAgree
    <2>4. ASSUME NEW t \in Spans, breaks = BreaksFrom(t), Found(t) = Uncovered
          PROVE  MealBreaksAgree
      <3>1. t \in Int /\ OnGrid(t) /\ DayStart <= t
            /\ \A i \in DOMAIN stops : stops[i].end - Cap <= t /\ t <= Left(stops[i])
        <4>1. t \in Int
          BY DEF Spans, Slots
        <4>2. QED
          BY <4>1, SpansAre
      <3>2. t \in Nat
        BY <2>2, <3>1
      <3>3. breaks = {[meal |-> m, start |-> Hour(t, m)] : m \in Uncovered}
        BY <2>4, <3>1, <3>2, BreaksCounted
      <3>4. \A m \in Uncovered :
               /\ Hour(t, m) \in Int /\ Hour(t, m) >= t /\ Hour(t, m) + BreakLength <= t + Cap
               /\ \A i \in DOMAIN stops : ClearOf(Hour(t, m), stops[i])
        BY <2>4, <3>1, <3>2, FoundAreFree
      <3>5. {k.meal : k \in breaks} = Uncovered
        <4>1. \A k \in breaks : k.meal \in Uncovered
          BY <3>3
        <4>2. ASSUME NEW m \in Uncovered PROVE \E k \in breaks : k.meal = m
          <5>1. [meal |-> m, start |-> Hour(t, m)] \in breaks
            BY <3>3
          <5>2. [meal |-> m, start |-> Hour(t, m)].meal = m
            OBVIOUS
          <5> HIDE DEF breaks
          <5>3. QED
            BY <5>1, <5>2, Zenon
        <4> HIDE DEF breaks
        <4>3. QED
          BY <4>1, <4>2
      <3>6. \A k \in breaks : \E m \in Uncovered : k.start = Hour(t, m)
        BY <3>3
      <3> HIDE DEF breaks
      <3>7. \A k \in breaks, i \in DOMAIN stops : ClearOf(k.start, stops[i])
        BY <3>4, <3>6
      <3>8. \A i \in DOMAIN stops :
               /\ stops[i].start \in Nat /\ stops[i].end \in Nat /\ Left(stops[i]) \in Nat
               /\ Left(stops[i]) <= stops[i].start
        BY StopTyped
      <3>9. \A x \in starts : x \in Int /\ x >= t
        <4>1. \A k \in breaks : k.start \in Int /\ k.start >= t
          BY <3>4, <3>6
        <4>2. \A i \in DOMAIN stops : stops[i].start \in Int /\ stops[i].start >= t
          BY <3>1, <3>2, <3>8
        <4>3. QED
          BY <4>1, <4>2
      <3>10. \A y \in ends : y \in Int /\ y <= t + Cap
        <4>1. \A k \in breaks : k.start + BreakLength \in Int /\ k.start + BreakLength <= t + Cap
          BY <2>2, <3>4, <3>6
        <4>2. \A i \in DOMAIN stops : stops[i].end \in Int /\ stops[i].end <= t + Cap
          BY <2>2, <3>1, <3>2, <3>8
        <4>3. QED
          BY <4>1, <4>2
      <3> HIDE DEF starts, ends
      <3>11. \A x \in starts, y \in ends : y - x <= Cap
        BY <2>2, <3>2, <3>9, <3>10
      <3>12. QED
        BY <3>5, <3>7, <3>11 DEF MealBreaksAgree, starts, ends, breaks
    <2>5. QED
      BY <2>1, <2>3, <2>4, AnswerIsSpan
  <1>2. QED
    BY <1>1, DayStarts, DayStep, PTL DEF ScheduleSpec
=============================================================================
