---------------------------- MODULE TransitChain ----------------------------
(***************************************************************************)
(* The transit chain of one planning run, FallbackTransitResolver.  Each   *)
(* day of the trip is one request for the directed arcs between its stops. *)
(* The providers are asked in order, each about what the ones before it    *)
(* left; then the distance estimate fills in, within its range.            *)
(*                                                                         *)
(* One resolver serves every day, and a day again when repair changes it.  *)
(* The arcs a provider declined are remembered for the resolver's life;    *)
(* the legs it found are cached in Redis under the arc and the departure   *)
(* window.                                                                 *)
(***************************************************************************)
EXTENDS Integers, FiniteSets, Sequences

CONSTANTS
    Stops,         \* places a day may hold
    Near,          \* arcs within the walking cutoff, which nobody routes
    InRange,       \* arcs short enough to be estimated
    Departure,     \* departure windows, one per trip day
    Chain,         \* sequence of provider names, primary first
    MaxLocations,  \* [provider -> Nat]: places one request to it may hold, and
    MaxArcs,       \* [provider -> Nat]: arcs
    MaxRequests    \* bound: days routed, the re-routed ones counted

Provider == {Chain[i] : i \in DOMAIN Chain}
Arc == {arc \in Stops \X Stops : arc[1] # arc[2]}

ASSUME TransitAssumption ==
    /\ IsFiniteSet(Stops) /\ Near \subseteq Arc /\ InRange \subseteq Arc
    /\ Chain \in Seq(Provider) /\ Chain # <<>> /\ "estimate" \notin Provider
    /\ \A i, j \in DOMAIN Chain : Chain[i] = Chain[j] => i = j
    /\ {MaxLocations, MaxArcs} \subseteq [Provider -> Nat] /\ MaxRequests \in Nat

VARIABLES
    departure,   \* departure window of the request in progress
    visited,     \* the places of that request; {} before the first
    turn,        \* position in the chain, one past it to finish, 0 when answered
    legs,        \* [arc, by, at]: who gave the leg and for which departure
    unroutable,  \* arcs no leg could be given for
    declined,    \* <<provider, arc>>: said to have no route
    cache,       \* [key, at]: legs in Redis
    failed,      \* providers that raised on this request
    requests     \* requests made

transitVars ==
    <<departure, visited, turn, legs, unroutable, declined, cache, failed, requests>>

-----------------------------------------------------------------------------
\* _required_pairs: walking pairs are estimated by the solver, not asked for.
RequiredArcs == {arc \in Arc \ Near : {arc[1], arc[2]} \subseteq visited}

Outstanding == RequiredArcs \ {leg.arc : leg \in legs}

\* What is still worth asking a provider.
Askable(p) == {arc \in Outstanding : <<p, arc>> \notin declined}

\* A provider that still has the whole day before it is handed the day, any
\* other only the places its arcs touch (_subrequest).
LocationsAsked(arcs) ==
    IF arcs = RequiredArcs THEN visited ELSE UNION {{arc[1], arc[2]} : arc \in arcs}

\* Some providers bound the places of a request, some its arcs.
WithinSize(p, arcs) ==
    Cardinality(LocationsAsked(arcs)) <= MaxLocations[p] /\ Cardinality(arcs) <= MaxArcs[p]

\* Mutant of CacheKey: the window is not part of the key.
CacheKeyOfArc(p, arc) == <<p, arc>>

CacheKey(p, arc) == <<p, arc, departure>>

Hits(p, arcs) ==
    {[arc |-> hit[1], by |-> p, at |-> hit[2].at] :
        hit \in {pair \in arcs \X cache : pair[2].key = CacheKey(p, pair[1])}}

-----------------------------------------------------------------------------
TransitInit ==
    /\ departure = "none" /\ visited = {} /\ turn = 0
    /\ legs = {} /\ unroutable = {} /\ declined = {} /\ cache = {} /\ failed = {}
    /\ requests = 0

\* _route_day asks for the legs of one day.
RequestDay(w, places) ==
    /\ turn = 0 /\ requests < MaxRequests
    /\ departure' = w /\ visited' = places
    /\ turn' = 1 /\ legs' = {} /\ unroutable' = {} /\ failed' = {}
    /\ requests' = requests + 1
    /\ UNCHANGED <<declined, cache>>

\* Nothing is left, or nothing that this provider has not declined.
PassOver ==
    /\ turn \in DOMAIN Chain /\ Askable(Chain[turn]) = {}
    /\ turn' = turn + 1
    /\ UNCHANGED <<departure, visited, legs, unroutable, declined, cache, failed, requests>>

\* The provider answers: its cached legs, and for the others a leg or none.
ProviderAnswers ==
    /\ turn \in DOMAIN Chain
    /\ LET p == Chain[turn]
           hits == Hits(p, Askable(p))
           asked == Askable(p) \ {leg.arc : leg \in hits}
       IN /\ Askable(p) # {}
          /\ WithinSize(p, Askable(p))
          /\ \E found \in SUBSET asked :
                /\ legs' = legs \cup hits
                       \cup {[arc |-> arc, by |-> p, at |-> departure] : arc \in found}
                /\ cache' = cache
                       \cup {[key |-> CacheKey(p, arc), at |-> departure] : arc \in found}
                /\ declined' = declined \cup ({p} \X (asked \ found))
    /\ turn' = turn + 1
    /\ UNCHANGED <<departure, visited, unroutable, failed, requests>>

\* Mutant of AfterFailure: one failure ends the chain.
AfterFailureEstimate == Len(Chain) + 1

\* Every failure is the same instruction: ask the next one.
AfterFailure == turn + 1

\* It raises: no credentials, over its size, quota, outage, malformed answer.
\* What it had found in the batch is lost, and nothing of it is cached.
ProviderFails ==
    /\ turn \in DOMAIN Chain /\ Askable(Chain[turn]) # {}
    /\ turn' = AfterFailure
    /\ failed' = failed \cup {Chain[turn]}
    /\ UNCHANGED <<departure, visited, legs, unroutable, declined, cache, requests>>

\* _finish: what is left is estimated within range, else called unroutable.
Estimate ==
    /\ turn = Len(Chain) + 1
    /\ legs' = legs \cup {[arc |-> arc, by |-> "estimate", at |-> departure] :
                             arc \in Outstanding \cap InRange}
    /\ unroutable' = Outstanding \ InRange
    /\ turn' = 0
    /\ UNCHANGED <<departure, visited, declined, cache, failed, requests>>

\* A day later the cached legs are gone.
CacheExpires ==
    /\ cache # {} /\ cache' = {}
    /\ UNCHANGED <<departure, visited, turn, legs, unroutable, declined, failed, requests>>

TransitNext ==
    \/ \E w \in Departure, places \in SUBSET Stops : RequestDay(w, places)
    \/ PassOver \/ ProviderAnswers \/ ProviderFails \/ Estimate \/ CacheExpires

TransitSpec == TransitInit /\ [][TransitNext]_transitVars

-----------------------------------------------------------------------------
\* Properties

TransitTypeOK ==
    /\ departure \in Departure \cup {"none"} /\ visited \subseteq Stops
    /\ turn \in 0..(Len(Chain) + 1)
    /\ legs \subseteq [arc : Arc, by : Provider \cup {"estimate"}, at : Departure]
    /\ unroutable \subseteq Arc
    /\ declined \subseteq Provider \X Arc
    /\ \A entry \in cache : entry.at \in Departure
    /\ failed \subseteq Provider /\ requests \in 0..MaxRequests

\* An arc is estimated, or called unroutable, only when every provider of the
\* chain has declined it or failed the request: no provider is left out because
\* of how another one answered.
EveryProviderTried ==
    \A arc \in unroutable \cup {leg.arc : leg \in {l \in legs : l.by = "estimate"}} :
        \A p \in Provider : <<p, arc>> \in declined \/ p \in failed

\* The legs of a day are journeys of its own departure, also those that come
\* from the cache, and an arc has one leg or is unroutable, never both.
LegsOfThisDeparture ==
    /\ \A leg \in legs : leg.at = departure
    /\ \A leg, other \in legs : leg.arc = other.arc => leg = other
    /\ unroutable \cap {leg.arc : leg \in legs} = {}
=============================================================================
