--------------------------- MODULE ShortlistReview --------------------------
(***************************************************************************)
(* The group's review of the shortlist of one trip, between the swipe      *)
(* interrupt and the itinerary.                                            *)
(*                                                                         *)
(* POST /shortlist/build resumes the trip's graph thread, which scores the *)
(* votes, stores a shortlist and stops again.  Travelers edit the stored   *)
(* row (PUT /shortlist) and acknowledge it (POST /shortlist/confirm); when *)
(* half of them have, POST /plan hands the row to the graph and resumes it *)
(* to its end.                                                             *)
(*                                                                         *)
(* The thread is not locked.  A request looks at its checkpoint, decides,  *)
(* and then calls ainvoke, which loads the checkpoint as it stands by then *)
(* and runs the nodes from there; every node ends by writing a checkpoint  *)
(* over any other.  The shortlist row is locked by whoever writes it, and   *)
(* read under the lock by a confirmation only.                             *)
(*                                                                         *)
(* A member may delete the account meanwhile: the row loses the member's   *)
(* acknowledgment, the trip its thread, and the quorum is of fewer.        *)
(***************************************************************************)
EXTENDS Naturals, FiniteSets

CONSTANTS
    Traveler,    \* the members when discovery starts, which nobody joins after
    Leaver,      \* those who may delete their account: not the leader, whose trip goes too
    Selection,   \* contents of a shortlist: the selected cards and the must-gos
    Builder,     \* POST /shortlist/build requests
    Editor,      \* PUT /shortlist requests
    Planner,     \* POST /plan requests
    None         \* no selection

ASSUME ReviewAssumption ==
    /\ IsFiniteSet(Traveler) /\ Leaver \subseteq Traveler /\ Leaver # Traveler
    /\ None \notin Selection
    /\ Builder \cap Editor = {} /\ Builder \cap Planner = {} /\ Editor \cap Planner = {}
    /\ Traveler \cap (Builder \cup Editor \cup Planner) = {}

Runner  == Builder \cup Planner   \* requests that run the graph
Reader  == Editor \cup Leaver     \* requests that read the row and write it later
Request == Runner \cup Reader

VARIABLES
    \* The shortlist_state row
    sel,      \* its selection, None before the row exists
    by,       \* confirmed_by
    at,       \* confirmed_at is set
    \* The trip and its graph thread
    members,  \* its travelers
    stage,    \* trip.status
    next,     \* the checkpoint's next node, "none" without a checkpoint
    given,    \* the shortlist in the checkpoint's state
    whole,    \* that state has the trip, without which no node runs
    planned,  \* selections an itinerary version was solved for
    \* The requests
    pc,       \* where the request's handler is
    carry,    \* the selection a runner's graph state holds, or an editor wants
    read,     \* the row an editor or a deletion read
    \* History
    acked,    \* per traveler, the selections the traveler has acknowledged
    quorate,  \* the selections that reached the quorum
    strayed   \* travelers a deletion wrote beside a newer selection than it had read

row == <<sel, by, at>>
thread == <<next, given, whole>>
history == <<acked, quorate, strayed>>
vars == <<row, members, stage, thread, planned, pc, carry, read, history>>

-----------------------------------------------------------------------------
\* max(1, ceil(0.5 * travelers))
Required == (Cardinality(members) + 1) \div 2

\* _shortlist_out.is_confirmed
IsConfirmed == at /\ Cardinality(by) >= Required

\* The row is locked by a deletion that has rewritten it and not committed.
Locked == \E t \in Leaver : pc[t] = "erased" /\ t \in read[t].by

NoRow == [sel |-> None, by |-> {}, at |-> FALSE]

Goto(r, label) == pc' = [pc EXCEPT ![r] = label]

Init ==
    /\ sel = None /\ by = {} /\ at = FALSE
    /\ members = Traveler
    /\ stage = "swiping"
    /\ next = "aggregate" /\ given = None /\ whole = TRUE
    /\ planned = {}
    /\ pc = [r \in Request |-> "idle"]
    /\ carry = [r \in Request |-> None]
    /\ read = [r \in Reader |-> NoRow]
    /\ acked = [t \in Traveler |-> {}]
    /\ quorate = {} /\ strayed = {}

-----------------------------------------------------------------------------
(***************************************************************************)
(* The graph, run by a builder or a planner                                *)
(***************************************************************************)

\* ainvoke(None): from the latest checkpoint, past an interrupt it stands at.
\* Without a checkpoint, or the trip in its state, it fails.
Resume(r) ==
    /\ pc[r] = "resume"
    /\ whole
    /\ carry' = [carry EXCEPT ![r] = given]
    /\ Goto(r, IF next = "end" THEN "ran" ELSE next)
    /\ UNCHANGED <<row, members, stage, thread, planned, read, history>>

\* A node's checkpoint: the thread's state is the runner's, and what a deletion
\* took from it stays away.
Checkpoint(r, node) == next' = node /\ given' = carry[r] /\ whole' = whole

\* aggregate_node scores the stored votes; nothing but the checkpoint changes.
AggregateDone(r) ==
    /\ pc[r] = "aggregate"
    /\ Checkpoint(r, "shortlist")
    /\ Goto(r, "shortlist")
    /\ UNCHANGED <<row, members, stage, planned, carry, read, history>>

\* shortlist_node stores what the scores select, with nobody's confirmation.
ShortlistStored(r) ==
    /\ pc[r] = "shortlist"
    /\ ~Locked
    /\ \E s \in Selection :
          /\ sel' = s
          /\ carry' = [carry EXCEPT ![r] = s]
    /\ by' = {} /\ at' = FALSE
    /\ Goto(r, "stored")
    /\ UNCHANGED <<members, stage, thread, planned, read, history>>

\* Its checkpoint, and the interrupt behind it.
ShortlistDone(r) ==
    /\ pc[r] = "stored"
    /\ Checkpoint(r, "softpref")
    /\ Goto(r, "ran")
    /\ UNCHANGED <<row, members, stage, planned, carry, read, history>>

SoftprefDone(r) ==
    /\ pc[r] = "softpref"
    /\ Checkpoint(r, "solver")
    /\ Goto(r, "solver")
    /\ UNCHANGED <<row, members, stage, planned, carry, read, history>>

\* solver_node commits a version for the shortlist in its state ...
SolverCommit(r) ==
    /\ pc[r] = "solver"
    /\ planned' = planned \cup {carry[r]}
    /\ Goto(r, "solved")
    /\ UNCHANGED <<row, members, stage, thread, carry, read, history>>

\* ... and returns.
SolverDone(r) ==
    /\ pc[r] = "solved"
    /\ Checkpoint(r, "explain")
    /\ Goto(r, "explain")
    /\ UNCHANGED <<row, members, stage, planned, carry, read, history>>

ExplainDone(r) ==
    /\ pc[r] = "explain"
    /\ Checkpoint(r, "end")
    /\ Goto(r, "ran")
    /\ UNCHANGED <<row, members, stage, planned, carry, read, history>>

GraphStep(r) ==
    \/ Resume(r) \/ AggregateDone(r) \/ ShortlistStored(r) \/ ShortlistDone(r)
    \/ SoftprefDone(r) \/ SolverCommit(r) \/ SolverDone(r) \/ ExplainDone(r)

-----------------------------------------------------------------------------
(***************************************************************************)
(* The requests                                                            *)
(***************************************************************************)

\* build_trip_shortlist: at the swipe interrupt the graph is resumed; where the
\* planning has begun or ended, the stored shortlist is answered.
BuildStart(b) ==
    /\ pc[b] = "idle"
    /\ next \in {"aggregate", "solver", "end"}
    /\ Goto(b, IF next = "aggregate" THEN "resume" ELSE "ran")
    /\ UNCHANGED <<row, members, stage, thread, planned, carry, read, history>>

BuildEnd(b) ==
    /\ pc[b] = "ran"
    /\ sel # None
    /\ stage' = "shortlisting"
    /\ Goto(b, "done")
    /\ UNCHANGED <<row, members, thread, planned, carry, read, history>>

\* plan_trip: the row has its quorum, and the graph waits behind the shortlist
\* or has run to its end.
PlanStart(p) ==
    /\ pc[p] = "idle"
    /\ IsConfirmed
    /\ \/ /\ next = "softpref"
          /\ carry' = [carry EXCEPT ![p] = sel]
          /\ Goto(p, "update")
       \/ /\ next = "end" /\ whole
          /\ Goto(p, "ran")
          /\ UNCHANGED carry
    /\ UNCHANGED <<row, members, stage, thread, planned, read, history>>

\* Mutant of PlanUpdate: the shortlist the graph holds is left in place.
PlanUpdateNothing(p) ==
    /\ pc[p] = "update"
    /\ next # "none"
    /\ Goto(p, "resume")
    /\ UNCHANGED <<row, members, stage, thread, planned, carry, read, history>>

\* aupdate_state: the shortlist that was checked replaces the graph's.
PlanUpdate(p) ==
    /\ pc[p] = "update"
    /\ next # "none"
    /\ given' = carry[p]
    /\ Goto(p, "resume")
    /\ UNCHANGED <<row, members, stage, next, whole, planned, carry, read, history>>

PlanEnd(p) ==
    /\ pc[p] = "ran"
    /\ stage' = "active"
    /\ Goto(p, "done")
    /\ UNCHANGED <<row, members, thread, planned, carry, read, history>>

\* edit_shortlist reads the row without a lock ...
EditRead(e) ==
    /\ pc[e] = "idle"
    /\ sel # None
    /\ read' = [read EXCEPT ![e] = [sel |-> sel, by |-> by, at |-> at]]
    /\ \E s \in Selection : carry' = [carry EXCEPT ![e] = s]
    /\ Goto(e, "checked")
    /\ UNCHANGED <<row, members, stage, thread, planned, history>>

\* Mutant of EditWrite: the acknowledgments of the old selection stay.
EditWriteKeeps(e) ==
    /\ pc[e] = "checked"
    /\ ~Locked
    /\ sel' = carry[e] /\ by' = read[e].by /\ at' = read[e].at
    /\ stage' = "shortlisting"
    /\ Goto(e, "done")
    /\ UNCHANGED <<members, thread, planned, carry, read, history>>

\* ... and replaces it whole: a new selection has no acknowledgment, the same
\* selection keeps those that were read.
EditWrite(e) ==
    /\ pc[e] = "checked"
    /\ ~Locked
    /\ sel' = carry[e]
    /\ by' = IF carry[e] = read[e].sel THEN read[e].by ELSE {}
    /\ at' = (carry[e] = read[e].sel /\ read[e].at)
    /\ stage' = "shortlisting"
    /\ Goto(e, "done")
    /\ UNCHANGED <<members, thread, planned, carry, read, history>>

\* confirm_shortlist: one transaction under the row's lock.
Confirm(t) ==
    /\ t \in members /\ sel # None
    /\ ~Locked
    /\ by' = by \cup {t}
    /\ at' = (Cardinality(by') >= Required)
    /\ acked' = [acked EXCEPT ![t] = @ \cup {sel}]
    /\ quorate' = IF at' THEN quorate \cup {sel} ELSE quorate
    /\ UNCHANGED <<sel, members, stage, thread, planned, pc, carry, read, strayed>>

\* _scrub_shared_references reads the row without a lock ...
LeaveRead(t) ==
    /\ pc[t] = "idle"
    /\ read' = [read EXCEPT ![t] = [sel |-> sel, by |-> by, at |-> at]]
    /\ Goto(t, "checked")
    /\ UNCHANGED <<row, members, stage, thread, planned, carry, history>>

\* ... and rewrites one column of it, confirmed_by, where the member was in what
\* it read.  Before any of that is committed the thread is gone (delete_account).
LeaveErase(t) ==
    /\ pc[t] = "checked"
    /\ t \in read[t].by => ~Locked
    /\ next' = "none" /\ given' = None /\ whole' = FALSE
    /\ Goto(t, "erased")
    /\ UNCHANGED <<row, members, stage, planned, carry, read, history>>

\* The commit: the member and the acknowledgment go together, confirmed_at stays.
LeaveCommit(t) ==
    /\ pc[t] = "erased"
    /\ members' = members \ {t}
    /\ IF t \in read[t].by
       THEN /\ by' = read[t].by \ {t}
            /\ strayed' = IF read[t].sel = sel THEN strayed ELSE strayed \cup by'
       ELSE UNCHANGED <<by, strayed>>
    /\ Goto(t, "done")
    /\ UNCHANGED <<sel, at, stage, thread, planned, carry, read, acked, quorate>>

\* A node, a check or the process fails: what has been committed stays.
\* A deletion that ends after it took the thread leaves the row and the member.
Abort(r) ==
    /\ pc[r] \notin {"idle", "done"}
    /\ Goto(r, "done")
    /\ UNCHANGED <<row, members, stage, thread, planned, carry, read, history>>

-----------------------------------------------------------------------------
Next ==
    \/ \E r \in Runner : GraphStep(r)
    \/ \E b \in Builder : BuildStart(b) \/ BuildEnd(b)
    \/ \E p \in Planner : PlanStart(p) \/ PlanUpdate(p) \/ PlanEnd(p)
    \/ \E e \in Editor : EditRead(e) \/ EditWrite(e)
    \/ \E t \in Traveler : Confirm(t)
    \/ \E t \in Leaver : LeaveRead(t) \/ LeaveErase(t) \/ LeaveCommit(t)
    \/ \E r \in Request : Abort(r)

Spec == Init /\ [][Next]_vars

-----------------------------------------------------------------------------
(***************************************************************************)
(* Properties                                                              *)
(***************************************************************************)

\* The variables have the types of their columns and locals.
TypeOK ==
    /\ sel \in Selection \cup {None} /\ by \subseteq Traveler /\ at \in BOOLEAN
    /\ members \subseteq Traveler
    /\ stage \in {"swiping", "shortlisting", "active"}
    /\ next \in {"none", "aggregate", "shortlist", "softpref", "solver", "explain", "end"}
    /\ given \in Selection \cup {None}
    /\ whole \in BOOLEAN /\ (whole => next # "none")
    /\ planned \subseteq Selection
    /\ pc \in [Request -> {"idle", "resume", "aggregate", "shortlist", "stored", "softpref",
                           "solver", "solved", "explain", "ran", "update", "checked",
                           "erased", "done"}]
    /\ carry \in [Request -> Selection \cup {None}]
    /\ read \in [Reader -> [sel : Selection \cup {None}, by : SUBSET Traveler, at : BOOLEAN]]
    /\ acked \in [Traveler -> SUBSET Selection]
    /\ quorate \subseteq Selection /\ strayed \subseteq Traveler

\* Whatever edits, builds, confirmations and deletions overwrite of each other,
\* each traveler in confirmed_by has acknowledged the selection it stands beside
\* ("invalidate earlier acknowledgments", edit_shortlist), unless a deletion
\* read the row before that selection replaced another and wrote it after; and
\* confirmed_at is only set beside a selection that once had the quorum, although
\* members leave and editors write back rows that were read long before.
AcksMatchSelection ==
    /\ \A t \in by \ strayed : sel \in acked[t]
    /\ at => sel \in quorate

\* No itinerary is solved for a selection that never had the quorum, although
\* the row that plan_trip checked can change before the graph runs and the
\* graph may have been resumed by another request.
PlannedHadQuorum == planned \subseteq quorate

\* The acknowledgment of a member lasts until the selection it is for is
\* replaced (the repository test of an edit that changes nothing).
AckSurvives == [][\A t \in by \cap members' : t \notin by' => sel' # sel]_vars

\* The graph goes on past the shortlist only for a group that confirmed one
\* ("stop before scheduling for group review", build_trip_shortlist).
GroupOpensTheGate == next \in {"solver", "explain", "end"} => quorate # {}

=============================================================================
