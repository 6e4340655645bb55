--------------------------- MODULE TripPreparation ---------------------------
(***************************************************************************)
(* What a group prepares beside its itinerary: the shared checklist, with  *)
(* suggestions every preparation inserts again and edits that name the     *)
(* revision they were made on, and the hotel the group selects or has      *)
(* booked (api/routers/checklist.py, store/repositories/checklist.py,      *)
(* api/routers/booked_hotels.py, the lodging routes of                     *)
(* api/routers/trips.py).  Every request is one transaction; the answer of *)
(* an edit may be lost on its way.                                         *)
(***************************************************************************)
EXTENDS Integers, FiniteSets, Sequences, SequencesExt

CONSTANTS
    Companion,      \* members of the trip
    PlanKeys,       \* source keys the active plan's places may suggest
    Title,          \* what an item may say
    MaxItems,       \* the checklist's limit (300 in the code)
    MaxRows,        \* bound: items ever written
    MaxRevision,    \* bound: revisions of one item
    Hotel,          \* hotels a search may return
    Unlisted,       \* hotels outside the city, closed, or no hotel at all
    NoHotel,
    MaxOptions      \* hotels discovery stores

ASSUME PreparationAssumption ==
    /\ IsFiniteSet(PlanKeys) /\ {MaxItems, MaxRows} \subseteq Nat
    /\ MaxRevision \in Nat \ {0}
    /\ IsFiniteSet(Hotel) /\ MaxOptions \in Nat \ {0}

VARIABLES
    checklist,  \* rows: [key, title, revision, deleted]
    copies,     \* per member: what it last saw of each row it saw
    hotels,     \* lodging rows of the trip
    lodging,    \* the selected_lodging constraint
    confirmed   \* history: hotels saved as booked, most recent choice last

preparationVars == <<checklist, copies, hotels, lodging, confirmed>>

PreparationInit ==
    /\ checklist = <<>>
    /\ copies = [m \in Companion |-> <<>>]
    /\ hotels = {}
    /\ lodging = [hotel |-> NoHotel, booked |-> FALSE]
    /\ confirmed = <<>>

-----------------------------------------------------------------------------
(* The checklist. *)

Item(key, title) == [key |-> key, title |-> title, revision |-> 1, deleted |-> FALSE]

\* An item a traveler writes has no source key.
OwnItem == "own"

Shown(rows) == {i \in DOMAIN rows : ~rows[i].deleted}

\* A plausible bug: only the items still shown count as suggested.
MissingFromShown(rows, keys) == keys \ {rows[i].key : i \in Shown(rows)}

\* The unique key holds for deleted rows too.
MissingFrom(rows, keys) == keys \ {rows[i].key : i \in DOMAIN rows}

Suggest(rows, keys) ==
    rows \o SetToSeq({Item(k, "suggested") : k \in MissingFrom(rows, keys)})

\* Every member may prepare at any time; it is also how a device refreshes.
Prepare(m) ==
    \E scheduled \in SUBSET PlanKeys :
        LET rows == Suggest(checklist, {"hotel"} \cup scheduled)
        IN  /\ Len(rows) <= MaxRows
            /\ checklist' = rows
            /\ copies' = [copies EXCEPT ![m] = [i \in Shown(rows) |-> rows[i]]]
            /\ UNCHANGED <<hotels, lodging, confirmed>>

\* The member's device puts the row it was answered with over its copy.
Learns(m, i, row) ==
    copies' = [copies EXCEPT ![m] = [j \in DOMAIN copies[m] \cup {i} |->
                                        IF j = i THEN row ELSE copies[m][j]]]

CreateItem(m, title) ==
    /\ Cardinality(Shown(checklist)) < MaxItems
    /\ Len(checklist) < MaxRows
    /\ checklist' = Append(checklist, Item(OwnItem, title))
    /\ Learns(m, Len(checklist) + 1, Item(OwnItem, title))
    /\ UNCHANGED <<hotels, lodging, confirmed>>

\* One UPDATE: the revision the member saw must still be the row's.
Change(m, i, row) ==
    /\ checklist[i].revision = copies[m][i].revision
    /\ ~checklist[i].deleted
    /\ row.revision <= MaxRevision
    /\ checklist' = [checklist EXCEPT ![i] = row]

EditItem(m, i, title) ==
    LET row == [checklist[i] EXCEPT !.title = title, !.revision = @ + 1]
    IN  /\ Change(m, i, row)
        /\ Learns(m, i, row) \/ UNCHANGED copies   \* the answer may be lost
        /\ UNCHANGED <<hotels, lodging, confirmed>>

RemoveItem(m, i) ==
    LET row == [checklist[i] EXCEPT !.deleted = TRUE, !.revision = @ + 1]
    IN  /\ Change(m, i, row)
        /\ \/ copies' = [copies EXCEPT ![m] = [j \in DOMAIN @ \ {i} |-> @[j]]]
           \/ UNCHANGED copies
        /\ UNCHANGED <<hotels, lodging, confirmed>>

-----------------------------------------------------------------------------
(* The hotel.  Saving or selecting one happens under the trip's lock. *)

\* What a lookup may answer: a name's or a Maps link's hotels in the city.
Lookup == Hotel \ Unlisted

Choice(h, booked) == [hotel |-> h, booked |-> booked]

\* Discovery stores a few hotels with the pool, once.  A booked hotel counts as
\* that pool, as its card keeps the source of the search that found it.
DiscoverHotels ==
    /\ hotels = {}
    /\ hotels' \in {found \in SUBSET Lookup : found # {} /\ Cardinality(found) <= MaxOptions}
    /\ UNCHANGED <<checklist, copies, lodging, confirmed>>

SaveBooked(h) ==
    /\ h \in Lookup
    /\ hotels' = hotels \cup {h}
    /\ lodging' = Choice(h, TRUE)
    /\ confirmed' = <<h>>
    /\ UNCHANGED <<checklist, copies>>

\* A selection keeps the booking of the hotel it selects again.
SelectLodging(h) ==
    /\ h \in hotels
    /\ lodging' = Choice(h, lodging.hotel = h /\ lodging.booked)
    /\ confirmed' = IF <<h>> = confirmed THEN confirmed ELSE <<>>
    /\ UNCHANGED <<checklist, copies, hotels>>

PreparationNext ==
    \/ \E m \in Companion :
        \/ Prepare(m)
        \/ \E title \in Title : CreateItem(m, title)
        \/ \E i \in DOMAIN copies[m] :
            RemoveItem(m, i) \/ \E title \in Title : EditItem(m, i, title)
    \/ DiscoverHotels
    \/ \E h \in Hotel : SaveBooked(h) \/ SelectLodging(h)

PreparationSpec == PreparationInit /\ [][PreparationNext]_preparationVars

-----------------------------------------------------------------------------
PreparationTypeOK ==
    /\ \A i \in DOMAIN checklist :
        /\ checklist[i].key \in PlanKeys \cup {"hotel", OwnItem}
        /\ checklist[i].title \in Title \cup {"suggested"}
        /\ checklist[i].revision \in 1..MaxRevision /\ checklist[i].deleted \in BOOLEAN
    /\ \A m \in Companion : DOMAIN copies[m] \subseteq DOMAIN checklist
    /\ hotels \subseteq Hotel
    /\ lodging \in [hotel : Hotel \cup {NoHotel}, booked : BOOLEAN]

\* No member overwrites what it has not seen: a copy whose revision is
\* still current says what the row says.  A suggestion is made once per
\* trip, so one that a member removed does not come back with the next
\* preparation.  A hotel is marked booked from the moment a member confirms
\* it until another one is chosen (store/repositories/checklist.py,
\* api/routers/booked_hotels.py, api/routers/trips.py).
PreparationAgrees ==
    /\ \A m \in Companion : \A i \in DOMAIN copies[m] :
        copies[m][i].revision = checklist[i].revision => copies[m][i] = checklist[i]
    /\ \A i, j \in DOMAIN checklist :
        checklist[i].key = checklist[j].key => i = j \/ checklist[i].key = OwnItem
    /\ lodging.booked <=> confirmed = <<lodging.hotel>>
===============================================================================
