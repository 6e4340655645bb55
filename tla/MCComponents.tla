----------------------------- MODULE MCComponents -----------------------------
(***************************************************************************)
(* One model-checking instance of the components that share no state.  The *)
(* initial state picks one of them, and only that one moves.               *)
(***************************************************************************)
EXTENDS RoutingRepair, DaySchedule, SocialDiscovery, TransitChain, TripGroup,
        LinkResolution, SignIn, CityPool, DayRescue, TripPreparation, Ballot

VARIABLE part

\* RoutingRepair: a must-go place on day 1, two others that cannot share a
\* day, a restaurant no meal of any day serves, and a dated reserve; day 1 holds
\* two of them, day 2 one.
CONSTANTS a, b, f, r
MCSelected == {a, b, f}
MCReserve == <<r>>
MCPin == [p \in {a, b, f, r} |-> CASE p = a -> 1 [] p = r -> 2 [] OTHER -> 0]
MCOpen == [p \in {a, b, f, r} |-> 1..2]
MCNoMeal == {f} \X (1..2)
MCApart == {{a, b}}
MCSeatable ==
    [d \in 1..2 |-> IF d = 1 THEN SUBSET {a, b, f, r} \ {{a, b, r}, {a, b, f, r}}
                    ELSE {s \in SUBSET {a, b, f, r} : Cardinality(s) < 2}]
MCValue == [p \in {a, b, f, r} |-> IF p = a THEN 2 ELSE 1]

\* DaySchedule, in quarter hours, with the day and the meals shortened.
MCMealWindow ==
    [m \in {"breakfast", "lunch", "dinner"} |->
        CASE m = "breakfast" -> <<0, 4>> [] m = "lunch" -> <<6, 16>> [] OTHER -> <<18, 24>>]
MCVisit == {"sight", "museum", "cafe"}
MCStay == [v \in MCVisit |-> IF v = "museum" THEN 6 ELSE 2]
MCHours == [v \in MCVisit |-> IF v = "museum" THEN {<<4, 12>>, <<14, 24>>} ELSE {<<2, 26>>}]

\* SocialDiscovery: two cities.
MCDays == <<1, 2>>

\* TransitChain: three stops, two near each other, one pair out of range.
MCNear == {<<"s1", "s2">>, <<"s2", "s1">>}
MCInRange == Arc \ {<<"s1", "s3">>}
MCChain == <<"google", "here">>
MCLocations == [p \in {"google", "here"} |-> IF p = "google" THEN 2 ELSE 3]
MCArcs == [p \in {"google", "here"} |-> IF p = "google" THEN 6 ELSE 2]

\* TripGroup
MCMaxUses == [i \in {"i1"} |-> 1]

\* Harness and LinkResolution
MCState == {CaptionSlice, CoverReadSlice, CoverTextSlice}
MCTool == {ReadTool("l1"), CoverTool("l1"), FindTool("l1", 1, 1), FindTool("l2", 1, 1)}
MCNoTool == <<"no", "tool">>

\* CityPool: a day in each of two cities; one restaurant is near both.
MCNearCity ==
    [p \in {"f1", "f2", "s1", "s2", "x1"} |-> IF p = "f2" THEN {"c1", "c2"} ELSE {"c1"}]
MCDaysIn == [c \in {"c1", "c2"} |-> 1]

\* DayRescue: a booked stop between two others on day 1, one stop on day 2,
\* one place unscheduled, and what a search may find: a second listing of the
\* garden, two listings of one bar, and food the group cannot eat.
MCSite == {"garden", "booked", "market", "shrine", "spare", "twin", "bar", "pub", "meat"}
MCOpenIn ==
    [p \in MCSite |-> CASE p = "spare" -> 2..4 [] p \in {"bar", "pub"} -> 3..4 [] OTHER -> 0..4]
MCLength == [p \in MCSite |-> IF p = "market" THEN 2 ELSE 1]
MCNode(p, d, h) ==
    [place |-> p, day |-> d, from |-> h, to |-> h + MCLength[p], fixed |-> p = "booked"]
MCFirstPlan ==
    {MCNode("garden", 1, 0), MCNode("booked", 1, 1), MCNode("market", 1, 2), MCNode("shrine", 2, 2)}

\* Ballot: a pasted card, one for each social lane, three foundations and one
\* nobody is shown.
MCLane ==
    [c \in {"p1", "y1", "t1", "o1", "o2", "o3", "x1"} |->
        CASE c = "p1" -> "personal" [] c = "y1" -> "for_you" [] c = "t1" -> "trending"
          [] OTHER -> "foundation"]
MCLanePriority == [personal |-> 0, for_you |-> 1, trending |-> 2, foundation |-> 3]
MCRank == [p1 |-> 3, y1 |-> 5, t1 |-> 4, o1 |-> 1, o2 |-> 2, o3 |-> 6, x1 |-> 7]
MCFirstDeal == {{}, {"t1", "o1", "x1"}, {"y1", "t1", "o1", "o2", "o3"}}

-----------------------------------------------------------------------------
allVars == <<repairVars, scheduleVars, discoveryVars, transitVars, groupVars, harnessVars,
             linkVars, signInVars, poolVars, rescueVars, preparationVars, ballotVars, part>>

Init ==
    /\ part \in {"repair", "schedule", "discovery", "transit", "group", "harness", "links",
                 "signin", "pool", "rescue", "preparation", "ballot"}
    /\ RepairInit /\ ScheduleInit /\ DiscoveryInit /\ TransitInit /\ GroupInit
    /\ HarnessInit /\ LinkInit /\ SignInInit /\ PoolInit /\ RescueInit /\ PreparationInit
    /\ BallotInit
    /\ part # "discovery" => guided = 0
    /\ part # "links" => links = [l \in Link |-> "failed"]
    /\ (part = "ballot") = (dealt # {})

Next ==
    /\ part' = part
    /\ \/ /\ part = "repair" /\ RepairNext
          /\ UNCHANGED <<scheduleVars, discoveryVars, transitVars, groupVars, harnessVars, linkVars,
                         signInVars, poolVars, rescueVars, preparationVars, ballotVars>>
       \/ /\ part = "schedule" /\ ScheduleNext
          /\ UNCHANGED <<repairVars, discoveryVars, transitVars, groupVars, harnessVars, linkVars,
                         signInVars, poolVars, rescueVars, preparationVars, ballotVars>>
       \/ /\ part = "discovery" /\ DiscoveryNext
          /\ UNCHANGED <<repairVars, scheduleVars, transitVars, groupVars, harnessVars, linkVars,
                         signInVars, poolVars, rescueVars, preparationVars, ballotVars>>
       \/ /\ part = "transit" /\ TransitNext
          /\ UNCHANGED <<repairVars, scheduleVars, discoveryVars, groupVars, harnessVars, linkVars,
                         signInVars, poolVars, rescueVars, preparationVars, ballotVars>>
       \/ /\ part = "group" /\ GroupNext
          /\ UNCHANGED <<repairVars, scheduleVars, discoveryVars, transitVars, harnessVars, linkVars,
                         signInVars, poolVars, rescueVars, preparationVars, ballotVars>>
       \/ /\ part = "harness" /\ HarnessNext
          /\ UNCHANGED <<repairVars, scheduleVars, discoveryVars, transitVars, groupVars, linkVars,
                         signInVars, poolVars, rescueVars, preparationVars, ballotVars>>
       \/ /\ part = "links" /\ LinkNext
          /\ UNCHANGED <<repairVars, scheduleVars, discoveryVars, transitVars, groupVars,
                         signInVars, poolVars, rescueVars, preparationVars, ballotVars>>
       \/ /\ part = "signin" /\ SignInNext
          /\ UNCHANGED <<repairVars, scheduleVars, discoveryVars, transitVars, groupVars, harnessVars,
                         linkVars, poolVars, rescueVars, preparationVars, ballotVars>>
       \/ /\ part = "pool" /\ PoolNext
          /\ UNCHANGED <<repairVars, scheduleVars, discoveryVars, transitVars, groupVars, harnessVars,
                         linkVars, signInVars, rescueVars, preparationVars, ballotVars>>
       \/ /\ part = "rescue" /\ RescueNext
          /\ UNCHANGED <<repairVars, scheduleVars, discoveryVars, transitVars, groupVars, harnessVars,
                         linkVars, signInVars, poolVars, preparationVars, ballotVars>>
       \/ /\ part = "preparation" /\ PreparationNext
          /\ UNCHANGED <<repairVars, scheduleVars, discoveryVars, transitVars, groupVars, harnessVars,
                         linkVars, signInVars, poolVars, rescueVars, ballotVars>>
       \/ /\ part = "ballot" /\ BallotNext
          /\ UNCHANGED <<repairVars, scheduleVars, discoveryVars, transitVars, groupVars, harnessVars,
                         linkVars, signInVars, poolVars, rescueVars, preparationVars>>

Fairness == WF_harnessVars(part = "harness" /\ HarnessStep /\ UNCHANGED <<part, linkVars>>)

Spec == Init /\ [][Next]_allVars /\ Fairness

\* A tracked run ends, though its body may catch every error and go on: the step
\* limit ends it (RunEnds, where the harness is the part that moves).
HarnessRunEnds == part = "harness" => RunEnds
===============================================================================
