-------------------------------- MODULE Ballot --------------------------------
(***************************************************************************)
(* The deck a group swipes and the shortlist its swipes make: badges       *)
(* written for each member before swiping, the order cards come up in, one *)
(* vote per member and card, and the consensus score (agents/delegate,     *)
(* agents/gather/deck.py, api/routers/trips.py, agents/aggregate.py,       *)
(* agents/shortlist.py).  Reviewing a shortlist is the subject of          *)
(* ShortlistReview.  Lodging, which nobody swipes, is left out.            *)
(***************************************************************************)
EXTENDS Integers, FiniteSets

CONSTANTS
    Voter,
    Card,
    Lane,           \* deck_lane: [Card -> lane]
    LanePriority,   \* [lane -> rank]
    EvidenceRank,   \* [Card -> rank]: the strongest evidence first
    NameRank,       \* [Card -> rank]: the canonical names in order
    HardConflict,   \* cards a hard dietary constraint keeps off the deck
    FirstDeal,      \* the cards discovery may have left
    Contested,      \* bound: the cards that are swiped
    Badged,         \* bound: the cards that get badges
    MaxSwipes,      \* bound: requests to vote
    Seats           \* target_size: days * SLOTS_PER_DAY

VARIABLES
    voters,     \* travelers of the trip
    dealt,      \* cards of the trip
    ballots,    \* vote rows: [member, card, signal], one per member and card
    parsing,    \* notes the delegate is reading: <<member, card>>
    badges,     \* badge rows: <<member, card>>
    badging,    \* the badge node: its stage and the members and cards it read
    tally,      \* aggregate and shortlist: stage, what was read, what was kept
    swipes      \* requests made

ballotVars == <<voters, dealt, ballots, parsing, badges, badging, tally, swipes>>

Mixed == {"for_you", "trending", "foundation"}
Signal == {"like", "dislike", "like_with_note", "must_have"}

\* A lane is one of the deck's own; ranks are the places in a sort, so no two
\* cards and no two lanes share one.
ASSUME BallotAssumption ==
    /\ IsFiniteSet(Voter) /\ IsFiniteSet(Card) /\ FirstDeal \subseteq SUBSET Card
    /\ MaxSwipes \in Nat /\ Seats \in Nat
    /\ \A c \in Card : Lane[c] \in Mixed \cup {"personal"}
    /\ \A c, d \in Card : /\ EvidenceRank[c] \in Int
                          /\ EvidenceRank[c] = EvidenceRank[d] => c = d
    /\ \A k, l \in Mixed : /\ LanePriority[k] \in Int
                           /\ LanePriority[k] = LanePriority[l] => k = l

Badging(at, members, cards) == [stage |-> at, members |-> members, cards |-> cards]

BallotInit ==
    /\ voters = Voter
    /\ dealt \in FirstDeal
    /\ ballots = {} /\ parsing = {} /\ badges = {} /\ swipes = 0
    /\ badging = Badging("read", {}, {})
    /\ tally = [stage |-> "none", cards |-> {}, votes |-> {}, count |-> 0, selected |-> {}]

-----------------------------------------------------------------------------
(* Badges: read, one model call per member, one replacement. *)

ReadForBadges ==
    /\ badging.stage = "read"
    /\ badging' = Badging("write", voters, dealt)
    /\ UNCHANGED <<voters, dealt, ballots, parsing, badges, tally, swipes>>

\* At most one badge a card for each member.  An unusable answer, or a badge
\* for somebody who left meanwhile, fails the node; it then runs again.
ReplaceBadges ==
    /\ badging.stage = "write"
    /\ \/ /\ \E written \in SUBSET ((badging.members \cap voters) \X (badging.cards \cap Badged)) :
              badges' = written
          /\ badging' = Badging("done", {}, {})
       \/ badges' = badges /\ badging' = Badging("read", {}, {})
    /\ UNCHANGED <<voters, dealt, ballots, parsing, tally, swipes>>

-----------------------------------------------------------------------------
(* The deck. *)

Swipeable(cards) == cards \ HardConflict

InLane(cards, l) == {c \in cards : Lane[c] = l}

Leading(cards) == InLane(cards, "personal")

\* A plausible bug: the lanes are dealt in turn, whatever their sizes.
SpreadInTurn(i, m, j, n) == i - j

\* The i-th of m cards stands at (i + 0.5) / m: before or after the j-th of n.
Spread(i, m, j, n) == (2 * i + 1) * n - (2 * j + 1) * m

\* Where each card of a deck comes up: a traveler's own lead, the lanes are
\* spread over the rest.
Places(deck) ==
    LET lead == Leading(deck)
        size == [c \in deck |-> Cardinality(InLane(deck, Lane[c]))]
        index == [c \in deck |->
            Cardinality({d \in InLane(deck, Lane[c]) : EvidenceRank[d] < EvidenceRank[c]})]
        before(c, d) ==
            IF lead \cap {c, d} # {}
            THEN c \in lead /\ (d \in lead => index[c] < index[d])
            ELSE LET apart == Spread(index[c], size[c], index[d], size[d])
                 IN  apart < 0 \/ (apart = 0 /\ LanePriority[Lane[c]] < LanePriority[Lane[d]])
    IN  [c \in deck |-> 1 + Cardinality({d \in deck : before(d, c)})]

\* vote_progress: how many cards of the deck a member has not swiped.
Unswiped(v) == Cardinality({c \in Swipeable(dealt) :
                                \A b \in ballots : b.member # v \/ b.card # c})

-----------------------------------------------------------------------------
(* Voting. *)

Ballot(v, c, s) == [member |-> v, card |-> c, signal |-> s]

\* A new vote writes through the unique key.
Revote(rows, b) == {r \in rows : r.member # b.member \/ r.card # b.card} \cup {b}

CastVote(v, c, s) ==
    /\ v \in voters /\ c \in dealt /\ swipes < MaxSwipes
    /\ swipes' = swipes + 1
    /\ ballots' = Revote(ballots, Ballot(v, c, s))
    /\ UNCHANGED <<voters, dealt, parsing, badges, badging, tally>>

SendNote(v, c) ==
    /\ v \in voters /\ c \in dealt /\ swipes < MaxSwipes
    /\ swipes' = swipes + 1
    /\ parsing' = parsing \cup {<<v, c>>}
    /\ UNCHANGED <<voters, dealt, ballots, badges, badging, tally>>

\* The note stores its vote once it is parsed; a refusal, an unusable answer
\* or a member who left stores nothing.
FinishNote(n) ==
    /\ parsing' = parsing \ {n}
    /\ \/ n[1] \in voters /\ ballots' = Revote(ballots, Ballot(n[1], n[2], "like_with_note"))
       \/ UNCHANGED ballots
    /\ UNCHANGED <<voters, dealt, badges, badging, tally, swipes>>

\* A link pasted while the group swipes adds its card.
AddCard(c) ==
    /\ badging.stage = "done" /\ Lane[c] = "personal"
    /\ dealt' = dealt \cup {c}
    /\ UNCHANGED <<voters, ballots, parsing, badges, badging, tally, swipes>>

\* A deleted account takes its votes and badges with it.
Leave(v) ==
    /\ voters' = voters \ {v}
    /\ ballots' = {b \in ballots : b.member # v}
    /\ badges' = {b \in badges : b[1] # v}
    /\ UNCHANGED <<dealt, parsing, badging, tally, swipes>>

-----------------------------------------------------------------------------
(* The consensus. *)

Of(votes, c, signals) == Cardinality({b \in votes : b.card = c /\ b.signal \in signals})

\* (pos - 1.5 * neg) / count + 0.3 * must, times ten times the count.
Score(votes, count, c) ==
    LET must == 3 * Of(votes, c, {"must_have"})
    IN  IF count = 0 THEN must
        ELSE 10 * Of(votes, c, {"like", "like_with_note"}) - 15 * Of(votes, c, {"dislike"})
             + count * must

\* score_candidates ranks every card of the trip, by name where scores are
\* equal, and build_shortlist keeps the first of them.
Shortlisted(cards, votes, count) ==
    LET score == [c \in cards |-> Score(votes, count, c)]
        ahead(c, d) == score[c] > score[d] \/ (score[c] = score[d] /\ NameRank[c] < NameRank[d])
    IN  {c \in cards : Cardinality({d \in cards : ahead(d, c)}) < Seats}

\* Three statements of one transaction, each with its own snapshot.
ReadCards ==
    /\ tally.stage = "none" /\ badging.stage = "done"
    /\ tally' = [tally EXCEPT !.stage = "cards", !.cards = dealt]
    /\ UNCHANGED <<voters, dealt, ballots, parsing, badges, badging, swipes>>

ReadVotes ==
    /\ tally.stage = "cards"
    /\ tally' = [tally EXCEPT !.stage = "votes", !.votes = ballots]
    /\ UNCHANGED <<voters, dealt, ballots, parsing, badges, badging, swipes>>

CountAndKeep ==
    /\ tally.stage = "votes"
    /\ tally' = [tally EXCEPT !.stage = "kept", !.count = Cardinality(voters),
                    !.selected = Shortlisted(tally.cards, tally.votes, Cardinality(voters))]
    /\ UNCHANGED <<voters, dealt, ballots, parsing, badges, badging, swipes>>

BallotNext ==
    \/ ReadForBadges \/ ReplaceBadges \/ ReadCards \/ ReadVotes \/ CountAndKeep
    \/ \E v \in Voter, c \in Contested :
        SendNote(v, c) \/ \E s \in Signal \ {"like_with_note"} : CastVote(v, c, s)
    \/ \E n \in parsing : FinishNote(n)
    \/ \E c \in Card \ dealt : AddCard(c)
    \/ \E v \in voters : Leave(v)

BallotSpec == BallotInit /\ [][BallotNext]_ballotVars

-----------------------------------------------------------------------------
BallotTypeOK ==
    /\ voters \subseteq Voter /\ dealt \subseteq Card
    /\ ballots \subseteq [member : Voter, card : Card, signal : Signal]
    /\ parsing \subseteq Voter \X Card /\ badges \subseteq Voter \X Card
    /\ badging.stage \in {"read", "write", "done"}
    /\ tally.stage \in {"none", "cards", "votes", "kept"}
    /\ swipes \in 0..MaxSwipes

\* Every stretch of the deck from its first mixed card on has each lane's
\* share of it, less than a card out.
LanesMix ==
    LET deck  == Swipeable(dealt)
        mixed == deck \ Leading(deck)
        total == Cardinality(mixed)
        place == Places(deck)
    IN  \A c \in mixed :
            LET seen == {d \in mixed : place[d] <= place[c]}
            IN  \A l \in Mixed :
                    LET gap == Cardinality(InLane(seen, l)) * total
                                 - Cardinality(seen) * Cardinality(InLane(mixed, l))
                    IN  -total < gap /\ gap < total

\* The shortlist when member v had swiped card c this way instead.
Instead(v, c, s) ==
    Shortlisted(tally.cards, Revote(tally.votes, Ballot(v, c, s)), tally.count)

Without(v, c) ==
    Shortlisted(tally.cards, {b \in tally.votes : b.member # v \/ b.card # c}, tally.count)

\* A group's swipes decide, and only they.  The deck the first swipe meets
\* gives no lane a head start, however many cards it has; every member has one
\* vote a card, and no rows are left of a member who is gone; and no swipe in
\* favour of a card costs it its place: a like or a must-have keeps what no
\* swipe kept, and that what a dislike kept (agents/gather/deck.py,
\* agents/aggregate.py, agents/shortlist.py).
BallotFair ==
    /\ swipes = 0 => LanesMix
    /\ \A a, b \in ballots : a.member = b.member /\ a.card = b.card => a = b
    /\ {b.member : b \in ballots} \cup {b[1] : b \in badges} \subseteq voters
    /\ tally.stage = "kept" =>
        \A v \in voters, c \in Contested \cap tally.cards :
            /\ c \in Instead(v, c, "dislike") => c \in Without(v, c)
            /\ c \in Without(v, c) => c \in Instead(v, c, "like") \cap Instead(v, c, "must_have")
===============================================================================
