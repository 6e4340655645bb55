---------------------------- MODULE DaySchedule ----------------------------
(***************************************************************************)
(* One day of the timetable: what solve_day's CP-SAT model may publish,    *)
(* and the meal breaks the API later reads out of the saved stops.         *)
(*                                                                         *)
(* The solver reserves an hour for every required meal no stop serves, but *)
(* saves only the stops.  available_meal_breaks finds the hours again from *)
(* starts, ends and incoming travel alone.                                 *)
(*                                                                         *)
(* A timetable is grown stop by stop in time order; every prefix is a day  *)
(* the search may choose, since it may leave any stop out.  Times are in   *)
(* units of which Quantum make a slot of the publication grid: stops are   *)
(* on the grid, travel is not.                                             *)
(***************************************************************************)
EXTENDS Integers, Sequences, FiniteSets, FiniteSetsExt, SequencesExt

CONSTANTS
    Quantum,           \* SCHEDULE_QUANTUM_MINUTES
    DayStart, DayEnd,  \* the traveler's day
    Cap,               \* DAY_DURATION_CAP_HOURS
    BreakLength,       \* MEAL_BREAK_MINUTES
    MealWindow,        \* MEAL_WINDOWS: [meal -> <<start, end>>]
    Required,          \* REQUIRED_MEALS
    Visit,             \* places of the day
    Stay,              \* [Visit -> Nat]: length of the visit, on the grid
    Hours,             \* [Visit -> set of <<start, end>>]: open_windows_on
    Food,              \* the visits that are meals
    Travel             \* set of travel times a leg may take

Meal == DOMAIN MealWindow

ASSUME ScheduleAssumption ==
    /\ Quantum \in Nat \ {0} /\ DayStart \in Nat /\ DayEnd \in Nat /\ Cap \in Nat
    /\ BreakLength \in Nat /\ BreakLength % Quantum = 0
    /\ \A m \in Meal : MealWindow[m] \in Nat \X Nat
    /\ Required \subseteq Meal /\ IsFiniteSet(Required) /\ Food \subseteq Visit
    /\ \A v \in Visit : Stay[v] \in Nat /\ Stay[v] % Quantum = 0
    /\ Travel \subseteq Nat

VARIABLES
    stops,      \* sequence of [visit, start, end, leg, meal]
    published   \* the search has answered with these stops

NoSlot == "none"

-----------------------------------------------------------------------------
\* ceil_slot
CeilSlot(t) == ((t + Quantum - 1) \div Quantum) * Quantum

Slots(from, to) == {t \in from..to : t % Quantum = 0}

\* _meal_slot_windows: the windows clipped to the day
SlotStart(m) == Max({DayStart, MealWindow[m][1]})
SlotEnd(m) == Min({DayEnd, MealWindow[m][2]})

Serves(m) == \E i \in DOMAIN stops : stops[i].meal = m

\* Starts a visit may have: in one of its opening windows and, for a
\* restaurant, in a meal nobody serves yet.
Fits(v, start, meal) ==
    /\ start + Stay[v] <= DayEnd
    /\ \E w \in Hours[v] : w[1] <= start /\ start + Stay[v] <= w[2]
    /\ IF v \in Food
       THEN /\ meal \in Meal /\ ~Serves(meal)
            /\ SlotStart(meal) <= start /\ start + Stay[v] <= SlotEnd(meal)
       ELSE meal = NoSlot

\* Required meals that reserve an hour: nobody serves them and their window is
\* long enough.
Uncovered ==
    {m \in Required : ~Serves(m) /\ SlotEnd(m) - SlotStart(m) >= BreakLength}

\* A reserved hour meets no visit and no travel to one.
ClearOf(start, s) ==
    \/ s.end <= start
    \/ s.start - s.leg >= start + BreakLength

\* The starts of the reserved hours, on the grid and in their windows.
BreakStarts ==
    {b \in [Uncovered -> Slots(DayStart, DayEnd)] :
        \A m \in Uncovered : b[m] >= SlotStart(m) /\ b[m] + BreakLength <= SlotEnd(m)}

\* Every required meal not served has its hour, and the visits and the hours
\* all lie within the cap.
Reservable ==
    \E b \in BreakStarts :
        /\ \A m \in Uncovered : \A i \in DOMAIN stops :
              /\ ClearOf(b[m], stops[i])
              /\ b[m] + BreakLength - stops[i].start <= Cap
              /\ stops[i].end - b[m] <= Cap
        /\ \A m, n \in Uncovered : b[m] + BreakLength - b[n] <= Cap

\* The active span of the visits.
WithinCap == \A i, j \in DOMAIN stops : stops[j].end - stops[i].start <= Cap

ScheduleInit == stops = <<>> /\ published = FALSE

\* The next stop of the circuit, reached from the one before it.
AddStop(v) ==
    /\ ~published
    /\ \A i \in DOMAIN stops : stops[i].visit # v
    /\ \E leg \in (IF stops = <<>> THEN {0} ELSE Travel), meal \in Meal \cup {NoSlot},
          start \in Slots(DayStart, DayEnd) :
          /\ Fits(v, start, meal)
          /\ stops # <<>> => start >= Last(stops).end + leg
          /\ stops' = Append(stops, [visit |-> v, start |-> start, end |-> start + Stay[v],
                                     leg |-> leg, meal |-> meal])
    /\ UNCHANGED published

\* solve_day answers with any day its hard constraints allow.
Publish ==
    /\ ~published /\ WithinCap /\ Reservable
    /\ published' = TRUE
    /\ UNCHANGED stops

ScheduleNext == (\E v \in Visit : AddStop(v)) \/ Publish

scheduleVars == <<stops, published>>
ScheduleSpec == ScheduleInit /\ [][ScheduleNext]_scheduleVars

-----------------------------------------------------------------------------
\* available_meal_breaks over the saved stops

\* Mutant of Left: incoming travel is not occupied time.
LeftWithoutTravel(s) == s.start

Left(s) == s.start - s.leg

\* A search for a free hour steps over a stop that meets the hour it stands at.
Stepped(s, cursor) ==
    IF s.end > cursor /\ Left(s) < cursor + BreakLength THEN CeilSlot(s.end) ELSE cursor

\* Where it stands after each stop.
Cursors(from) ==
    LET cursor[i \in 0..Len(stops)] ==
            IF i = 0 THEN from ELSE Stepped(stops[i], cursor[i - 1])
    IN cursor

\* The earliest free hour from a time on.
FirstFree(from) == Cursors(from)[Len(stops)]

\* The breaks of a span that begins at a slot.
BreaksFrom(span) ==
    LET free(m) == FirstFree(CeilSlot(Max({span, MealWindow[m][1]})))
        limit(m) == Min({DayEnd, MealWindow[m][2], span + Cap})
    IN {[meal |-> m, start |-> free(m)] :
           m \in {n \in Required : ~Serves(n) /\ free(n) + BreakLength <= limit(n)}}

Spans ==
    LET earliest == Max({DayStart} \cup {stops[i].end - Cap : i \in DOMAIN stops})
        latest == Min({DayEnd} \cup {Left(stops[i]) : i \in DOMAIN stops})
    IN Slots(CeilSlot(earliest), latest)

\* The first span that covers the most meals.
AvailableMealBreaks ==
    LET most == Max({0} \cup {Cardinality(BreaksFrom(t)) : t \in Spans})
    IN IF most = 0 THEN {}
       ELSE BreaksFrom(Min({t \in Spans : Cardinality(BreaksFrom(t)) = most}))

-----------------------------------------------------------------------------
ScheduleTypeOK ==
    /\ published \in BOOLEAN
    /\ \A i \in DOMAIN stops : stops[i].visit \in Visit /\ stops[i].end <= DayEnd

\* The API finds an hour for exactly the meals the solver reserved one for,
\* it meets no visit and no travel, and the day with its hours is within the
\* cap, though the hours themselves were never saved.
MealBreaksAgree ==
    published =>
        LET breaks == AvailableMealBreaks
            starts == {b.start : b \in breaks} \cup {stops[i].start : i \in DOMAIN stops}
            ends == {b.start + BreakLength : b \in breaks} \cup {stops[i].end : i \in DOMAIN stops}
        IN /\ {b.meal : b \in breaks} = Uncovered
           /\ \A b \in breaks, i \in DOMAIN stops : ClearOf(b.start, stops[i])
           /\ \A s \in starts, e \in ends : e - s <= Cap
=============================================================================
