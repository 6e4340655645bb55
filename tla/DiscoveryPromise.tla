-------------------------- MODULE DiscoveryPromise --------------------------
(***************************************************************************)
(* What discovery promises the group, with no queue, worker or lock in it: *)
(* a started trip is discovered until it is ready or has failed; cards     *)
(* come only while it is discovered and before its graph stops for the     *)
(* vote, the pool's once; it opens with cards on the deck, for good; and   *)
(* only the group takes it past the vote.  All this until the discovery is *)
(* erased; then what was under way may still land, but never a second      *)
(* pool, and nothing begins again.                                         *)
(***************************************************************************)
EXTENDS Naturals

CONSTANTS
    Trip,
    MaxRetries  \* how often a failed discovery may be asked for again

VARIABLES
    phase,   \* how far the discovery of each trip is
    point,   \* where its graph stands: before, at or past the vote
    pools,   \* how many pools it was given
    links,   \* the trips with a card of a pasted link
    retries  \* how often it was asked for again

vars == <<phase, point, pools, links, retries>>

Init ==
    /\ phase = [t \in Trip |-> "draft"]
    /\ point = [t \in Trip |-> "before"]
    /\ pools = [t \in Trip |-> 0]
    /\ links = {}
    /\ retries = [t \in Trip |-> 0]

Discovering(t) == phase[t] = "discovering"

Start(t) ==
    /\ phase[t] = "draft"
    /\ phase' = [phase EXCEPT ![t] = "discovering"]
    /\ UNCHANGED <<point, pools, links, retries>>

Retry(t) ==
    /\ phase[t] = "failed"
    /\ retries[t] < MaxRetries
    /\ phase' = [phase EXCEPT ![t] = "discovering"]
    /\ retries' = [retries EXCEPT ![t] = @ + 1]
    /\ UNCHANGED <<point, pools, links>>

\* The pasted links come first.
AddLinks(t) ==
    /\ Discovering(t) /\ point[t] = "before"
    /\ pools[t] = 0
    /\ links' = links \cup {t}
    /\ UNCHANGED <<phase, point, pools, retries>>

AddPool(t) ==
    /\ Discovering(t) /\ point[t] = "before"
    /\ pools[t] = 0
    /\ pools' = [pools EXCEPT ![t] = 1]
    /\ UNCHANGED <<phase, point, links, retries>>

\* The graph stops in front of the vote.
Stop(t) ==
    /\ Discovering(t) /\ point[t] = "before"
    /\ point' = [point EXCEPT ![t] = "vote"]
    /\ UNCHANGED <<phase, pools, links, retries>>

\* The trip opens for swiping, with something to swipe on.
Open(t) ==
    /\ Discovering(t) /\ point[t] # "before"
    /\ pools[t] > 0 \/ t \in links
    /\ phase' = [phase EXCEPT ![t] = "ready"]
    /\ UNCHANGED <<point, pools, links, retries>>

Fail(t) ==
    /\ Discovering(t)
    /\ phase' = [phase EXCEPT ![t] = "failed"]
    /\ UNCHANGED <<point, pools, links, retries>>

\* A member's account is deleted, and the discovery with it.
Erase(t) ==
    /\ phase[t] # "draft"
    /\ phase' = [phase EXCEPT ![t] = "erased"]
    /\ point' = [point EXCEPT ![t] = "before"]
    /\ retries' = [retries EXCEPT ![t] = 0]
    /\ UNCHANGED <<pools, links>>

\* What was under way lands all the same: cards, and where the graph goes on.
Land(t) ==
    /\ phase[t] = "erased"
    /\ links' \in {links, links \cup {t}}
    /\ pools' \in {pools, [pools EXCEPT ![t] = 1]}
    /\ \E p \in {"before", "vote", "past"} : point' = [point EXCEPT ![t] = p]
    /\ UNCHANGED <<phase, retries>>

\* The group builds its shortlist, once.
Decide(t) ==
    /\ point[t] = "vote"
    /\ point' = [point EXCEPT ![t] = "past"]
    /\ UNCHANGED <<phase, pools, links, retries>>

Next ==
    \E t \in Trip : \/ Start(t) \/ Retry(t) \/ AddLinks(t) \/ AddPool(t)
                    \/ Stop(t) \/ Open(t) \/ Fail(t) \/ Decide(t)
                    \/ Erase(t) \/ Land(t)

Spec == Init /\ [][Next]_vars

=============================================================================
