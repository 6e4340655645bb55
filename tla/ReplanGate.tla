----------------------------- MODULE ReplanGate -----------------------------
(***************************************************************************)
(* The itinerary version chain of one trip and the approval gate in front  *)
(* of it.                                                                  *)
(*                                                                         *)
(* Three kinds of request append an itinerary_version: a planning run      *)
(* (POST /plan, which reaches solver_node), a rescue (POST /disruptions    *)
(* and POST /revisions, which reach _build_replan_proposal) and a manual   *)
(* edit (POST /itinerary/edits, which reaches propose_edit).  Every        *)
(* request inserts at most one version, so a version, and the replan_event *)
(* that carries it, is named by the request that inserts it.  A fourth     *)
(* kind, approve and reject, decides a proposal in one short transaction.  *)
(*                                                                         *)
(* Requests run concurrently in several API processes under Postgres READ  *)
(* COMMITTED.  A request reads, ends its transaction, calls providers for  *)
(* seconds, and then writes in a second transaction; row locks taken in    *)
(* that transaction are held to its commit.  An uncommitted insert is      *)
(* visible to nobody, but holds its key in the unique index on             *)
(* (trip_id, version_no).                                                  *)
(***************************************************************************)
EXTENDS Naturals, Sequences

CONSTANTS
    Planner,   \* POST /plan requests
    Rescue,    \* POST /disruptions and POST /revisions requests
    Edit,      \* POST /itinerary/edits requests
    None       \* no version

ASSUME RequestAssumption ==
    /\ Planner \cap Rescue = {}
    /\ Planner \cap Edit = {}
    /\ Rescue \cap Edit = {}
    /\ None \notin Planner \cup Rescue \cup Edit

Proposer == Rescue \cup Edit
Request  == Planner \cup Proposer

VARIABLES
    \* Committed rows
    chain,       \* versions in version_no order: chain[n] has version_no n
    status,      \* itinerary_version.status, "absent" before its insert commits
    parent,      \* itinerary_version.parent_version_id
    event,       \* replan_event.status of the request's proposal
    checkpoint,  \* the next node of the trip's graph thread
    \* Locals of the requests
    pc,          \* where the request's handler is
    base,        \* the version its get_active returned
    latest,      \* the version a planner's get_latest returned
    number,      \* what its next_version_no returned
    \* Redis
    pushed       \* proposals published on the trip's channel

rows == <<chain, status, parent, event>>
locals == <<base, latest, number>>
vars == <<chain, status, parent, event, checkpoint, pc, base, latest, number, pushed>>

-----------------------------------------------------------------------------
(***************************************************************************)
(* Repository queries                                                      *)
(***************************************************************************)

Active  == {v \in Request : status[v] = "active"}
Pending == {r \in Proposer : event[r] = "pending"}

\* The versions get_active may return: it takes the first row of a query
\* with no ORDER BY, and None when there is no row.
GetActive == IF Active = {} THEN {None} ELSE Active

GetLatest == IF chain = <<>> THEN None ELSE chain[Len(chain)]

NextVersionNo == Len(chain) + 1

\* Mutant of Writing: a request that ends without ending its transaction.
WritingLeaked ==
    {r \in Request : pc[r] \in {"locked", "flushed", "notified", "done"}}

\* Requests inside their writing transaction, and those of them whose insert
\* has been flushed.
Writing == {r \in Request : pc[r] \in {"locked", "flushed", "notified"}}
Flushed == {r \in Request : pc[r] \in {"flushed", "notified"}}

RowLocked(v) == \E r \in Writing : base[r] = v

-----------------------------------------------------------------------------
Init ==
    /\ chain = <<>>
    /\ status = [r \in Request |-> "absent"]
    /\ parent = [r \in Request |-> None]
    /\ event = [r \in Proposer |-> "absent"]
    /\ checkpoint = "softpref"
    /\ pc = [r \in Request |-> "idle"]
    /\ base = [r \in Request |-> None]
    /\ latest = [r \in Request |-> None]
    /\ number = [r \in Request |-> 0]
    /\ pushed = {}

Goto(r, label) == pc' = [pc EXCEPT ![r] = label]

-----------------------------------------------------------------------------
(***************************************************************************)
(* A rescue or an edit: read, compute, then lock, recheck and insert.      *)
(***************************************************************************)

\* First transaction: an active itinerary, no pending event.  An edit also
\* names the version its device has drawn, which must be the active one.
ProposalStart(r) ==
    /\ pc[r] = "idle"
    /\ Pending = {}
    /\ \E a \in Active : base' = [base EXCEPT ![r] = a]
    /\ Goto(r, "building")
    /\ UNCHANGED <<rows, checkpoint, latest, number, pushed>>

\* Mutant of RescueLock: what was read before the provider calls is trusted.
RescueLockBlind(r) ==
    /\ pc[r] = "building"
    /\ ~RowLocked(base[r])
    /\ Goto(r, "locked")
    /\ number' = [number EXCEPT ![r] = NextVersionNo]
    /\ UNCHANGED <<rows, checkpoint, base, latest, pushed>>

\* Second transaction of a rescue, after the alternatives and the routes are
\* computed: lock the version the rescue was built on, and check that it is
\* still the active one.  The wait for the row lock is the guard.
RescueLock(r) ==
    /\ pc[r] = "building"
    /\ ~RowLocked(base[r])
    /\ \E current \in GetActive :
         IF status[base[r]] = "active" /\ current = base[r]
         THEN /\ Goto(r, "locked")
              /\ number' = [number EXCEPT ![r] = NextVersionNo]
         ELSE /\ Goto(r, "refused")
              /\ UNCHANGED number
    /\ UNCHANGED <<rows, checkpoint, base, latest, pushed>>

\* Mutant of EditLock: the version is checked again, the pending events are not.
EditLockSkipsPending(r) == RescueLock(r)

\* Second transaction of an edit: the same lock, and both checks again.
EditLock(r) ==
    /\ pc[r] = "building"
    /\ ~RowLocked(base[r])
    /\ \E current \in GetActive :
         IF current = base[r] /\ Pending = {}
         THEN /\ Goto(r, "locked")
              /\ number' = [number EXCEPT ![r] = NextVersionNo]
         ELSE /\ Goto(r, "refused")
              /\ UNCHANGED number
    /\ UNCHANGED <<rows, checkpoint, base, latest, pushed>>

\* Mutant of Flush: no unique index on (trip_id, version_no).
FlushUnchecked(r) ==
    /\ pc[r] = "locked"
    /\ Goto(r, "flushed")
    /\ UNCHANGED <<rows, checkpoint, locals, pushed>>

\* INSERT INTO itinerary_version: the unique index makes it wait for an
\* uncommitted row with the same number, and fail on a committed one.
Flush(r) ==
    /\ pc[r] = "locked"
    /\ \A q \in Flushed : number[q] # number[r]
    /\ Goto(r, IF number[r] > Len(chain) THEN "flushed" ELSE "refused")
    /\ UNCHANGED <<rows, checkpoint, locals, pushed>>

\* report_disruption and request_revision publish before the request's
\* transaction commits.  A Redis error is logged and nothing is sent.
RescuePublish(r) ==
    /\ pc[r] = "flushed"
    /\ Goto(r, "notified")
    /\ pushed' \in {pushed, pushed \cup {r}}
    /\ UNCHANGED <<rows, checkpoint, locals>>

\* Mutant of EditPublish: the publication does not wait for the commit.
EditPublishEarly(r) ==
    /\ pc[r] \in {"flushed", "committed"}
    /\ IF pc[r] = "committed" THEN Goto(r, "done") ELSE UNCHANGED pc
    /\ pushed' \in {pushed, pushed \cup {r}}
    /\ UNCHANGED <<rows, checkpoint, locals>>

\* edit_itinerary commits first, and publishes then.
EditPublish(r) ==
    /\ pc[r] = "committed"
    /\ Goto(r, "done")
    /\ pushed' \in {pushed, pushed \cup {r}}
    /\ UNCHANGED <<rows, checkpoint, locals>>

\* The commit makes the version, its nodes and its event visible at once and
\* releases the row lock.
InsertProposal(r) ==
    /\ chain' = Append(chain, r)
    /\ status' = [status EXCEPT ![r] = "proposed"]
    /\ parent' = [parent EXCEPT ![r] = base[r]]
    /\ event' = [event EXCEPT ![r] = "pending"]
    /\ UNCHANGED <<checkpoint, locals, pushed>>

RescueCommit(r) == pc[r] = "notified" /\ Goto(r, "done") /\ InsertProposal(r)
EditCommit(r)   == pc[r] = "flushed" /\ Goto(r, "committed") /\ InsertProposal(r)

-----------------------------------------------------------------------------
(***************************************************************************)
(* A planning run                                                          *)
(***************************************************************************)

\* plan_trip lets a request through only when the graph waits at softpref; two
\* requests that both read it there are both let through.
PlanStart(p) ==
    /\ pc[p] = "idle"
    /\ checkpoint = "softpref"
    /\ Goto(p, "admitted")
    /\ UNCHANGED <<rows, checkpoint, locals, pushed>>

\* aupdate_state and ainvoke(None) then resume the thread wherever its latest
\* checkpoint stands by now.  From explain on, no version is appended.
PlanResume(p) ==
    /\ pc[p] = "admitted"
    /\ Goto(p, CASE checkpoint = "softpref" -> "softpref"
                 [] checkpoint = "solver"   -> "solving"
                 [] checkpoint = "explain"  -> "done")
    /\ UNCHANGED <<rows, checkpoint, locals, pushed>>

\* The softpref node ends and its checkpoint is written, over any other.
SoftprefDone(p) ==
    /\ pc[p] = "softpref"
    /\ checkpoint' = "solver"
    /\ Goto(p, "solving")
    /\ UNCHANGED <<rows, locals, pushed>>

\* solver_node has solved, and opens its writing transaction with two reads
\* that take no lock.
SolverRead(p) ==
    /\ pc[p] = "solving"
    /\ \E current \in GetActive : base' = [base EXCEPT ![p] = current]
    /\ latest' = [latest EXCEPT ![p] = GetLatest]
    /\ Goto(p, "read")
    /\ UNCHANGED <<rows, checkpoint, number, pushed>>

\* Its UPDATE of the version it read as active takes that row's lock; then it
\* reads the next number.
SolverLock(p) ==
    /\ pc[p] = "read"
    /\ base[p] = None \/ ~RowLocked(base[p])
    /\ number' = [number EXCEPT ![p] = NextVersionNo]
    /\ Goto(p, "locked")
    /\ UNCHANGED <<rows, checkpoint, base, latest, pushed>>

\* The commit supersedes the version read as active, whatever became of it
\* since, and makes the new one active.
SolverCommit(p) ==
    /\ pc[p] = "flushed"
    /\ chain' = Append(chain, p)
    /\ status' = [v \in Request |-> IF v = p THEN "active"
                                    ELSE IF v = base[p] THEN "superseded"
                                    ELSE status[v]]
    /\ parent' = [parent EXCEPT ![p] = latest[p]]
    /\ Goto(p, "solved")
    /\ UNCHANGED <<event, checkpoint, locals, pushed>>

\* The checkpoint after the solver is a write of its own.
SolverDone(p) ==
    /\ pc[p] = "solved"
    /\ checkpoint' = "explain"
    /\ Goto(p, "done")
    /\ UNCHANGED <<rows, locals, pushed>>

-----------------------------------------------------------------------------
(***************************************************************************)
(* Any request may fail before it commits: a check on its input, a         *)
(* provider, the solver, or the process.  Its transaction rolls back.  A   *)
(* planning run may also fail between its commit and its checkpoint.       *)
(***************************************************************************)
Abort(r) ==
    /\ pc[r] \in {"idle", "building", "locked", "flushed", "notified",
                  "admitted", "softpref", "solving", "read", "solved"}
    /\ Goto(r, "refused")
    /\ UNCHANGED <<rows, checkpoint, locals, pushed>>

(***************************************************************************)
(* decide_replan: one transaction that locks the event and both versions.  *)
(* It waits for the row locks; every check that fails leaves all as it is. *)
(***************************************************************************)
\* Mutant of Decidable: a proposal on a superseded version is still decided.
DecidableStale(e) ==
    event[e] = "pending" /\ status[e] = "proposed" /\ parent[e] # None

Decidable(e) ==
    /\ event[e] = "pending"
    /\ status[e] = "proposed"
    /\ parent[e] # None
    /\ status[parent[e]] = "active"

\* Mutant of Approve: the parent stays active.
ApproveKeepsParent(e) ==
    /\ Decidable(e)
    /\ ~RowLocked(parent[e])
    /\ status' = [status EXCEPT ![e] = "active"]
    /\ event' = [event EXCEPT ![e] = "approved"]
    /\ UNCHANGED <<chain, parent, checkpoint, pc, locals, pushed>>

Approve(e) ==
    /\ Decidable(e)
    /\ ~RowLocked(parent[e])
    /\ status' = [status EXCEPT ![parent[e]] = "superseded", ![e] = "active"]
    /\ event' = [event EXCEPT ![e] = "approved"]
    /\ UNCHANGED <<chain, parent, checkpoint, pc, locals, pushed>>

\* Mutants of Reject: the version keeps its status; the base is not checked.
RejectKeepsVersion(e) ==
    /\ Decidable(e)
    /\ ~RowLocked(parent[e])
    /\ event' = [event EXCEPT ![e] = "rejected"]
    /\ UNCHANGED <<chain, status, parent, checkpoint, pc, locals, pushed>>

RejectStale(e) ==
    /\ DecidableStale(e)
    /\ ~RowLocked(parent[e])
    /\ status' = [status EXCEPT ![e] = "rejected"]
    /\ event' = [event EXCEPT ![e] = "rejected"]
    /\ UNCHANGED <<chain, parent, checkpoint, pc, locals, pushed>>

Reject(e) ==
    /\ Decidable(e)
    /\ ~RowLocked(parent[e])
    /\ status' = [status EXCEPT ![e] = "rejected"]
    /\ event' = [event EXCEPT ![e] = "rejected"]
    /\ UNCHANGED <<chain, parent, checkpoint, pc, locals, pushed>>

-----------------------------------------------------------------------------
\* What a handler does once its request has been accepted.
RescueStep(r) ==
    RescueLock(r) \/ Flush(r) \/ RescuePublish(r) \/ RescueCommit(r)
EditStep(r) == EditLock(r) \/ Flush(r) \/ EditCommit(r) \/ EditPublish(r)
PlanStep(p) ==
    \/ PlanResume(p) \/ SoftprefDone(p)
    \/ SolverRead(p) \/ SolverLock(p) \/ Flush(p) \/ SolverCommit(p) \/ SolverDone(p)

Next ==
    \/ \E r \in Rescue : RescueStep(r)
    \/ \E r \in Edit : EditStep(r)
    \/ \E p \in Planner : PlanStart(p) \/ PlanStep(p)
    \/ \E r \in Proposer : ProposalStart(r) \/ Approve(r) \/ Reject(r)
    \/ \E r \in Request : Abort(r)

Spec == Init /\ [][Next]_vars

\* The event loop runs every accepted request on, and Postgres grants a row
\* lock in the order of its waiters.  Nobody has to send a request, and no
\* traveler has to decide one.
FairSpec ==
    /\ Spec
    /\ \A r \in Rescue : WF_vars(RescueStep(r))
    /\ \A r \in Edit : WF_vars(EditStep(r))
    /\ \A p \in Planner : WF_vars(PlanStep(p))

-----------------------------------------------------------------------------
(***************************************************************************)
(* Properties                                                              *)
(***************************************************************************)

\* The variables have the types of their columns.
TypeOK ==
    /\ chain \in Seq(Request)
    /\ status \in [Request -> {"absent", "proposed", "active", "superseded", "rejected"}]
    /\ parent \in [Request -> Request \cup {None}]
    /\ event \in [Proposer -> {"absent", "pending", "approved", "rejected"}]
    /\ checkpoint \in {"softpref", "solver", "explain"}
    /\ pc \in [Request -> {"idle", "building", "admitted", "softpref", "solving", "read",
                           "locked", "flushed", "notified", "committed", "solved",
                           "done", "refused"}]
    /\ base \in [Request -> Request \cup {None}]
    /\ latest \in [Request -> Request \cup {None}]
    /\ number \in [Request -> Nat]
    /\ pushed \subseteq Proposer

\* A trip never has two active versions, whatever get_active, the approvals
\* and a planning run read and write between each other (stage2_route.py
\* supersedes the previous one; get_active returns "the" active version).
SingleActive == \A u, v \in Active : u = v

\* The event log and the version chain tell the same story: a pending event
\* carries a proposed version, an approved one a version that took effect, a
\* rejected one a rejected version, through every failure between the writes
\* of decide_replan and of the two proposal builders.
GateRecordsAgree ==
    \A e \in Proposer :
        /\ event[e] = "absent" <=> status[e] = "absent"
        /\ event[e] = "pending" <=> status[e] = "proposed"
        /\ event[e] = "approved" <=> status[e] \in {"active", "superseded"}
        /\ event[e] = "rejected" <=> status[e] = "rejected"

Adopted == {v \in Request : status[v] \in {"active", "superseded"}}

\* The versions that ever took effect form one line: no two of them replaced
\* the same version, and each proposal among them replaced one that had itself
\* taken effect.  Two approvals racing on one parent would fork it, and an
\* approval of a proposal drawn on a rejected version would leave it.
LinearHistory ==
    /\ \A u, v \in Adopted : parent[u] = parent[v] => u = v
    /\ \A v \in Adopted \cap Proposer :
          parent[v] # None /\ status[parent[v]] = "superseded"

\* version_no is unique in a trip and every version stands at the number its
\* request computed before the insert, although two requests may compute the
\* same one; and a version follows its parent.
NumberedOnce ==
    /\ \A n \in 1..Len(chain) : number[chain[n]] = n
    /\ \A v \in Request : parent[v] # None => number[parent[v]] < number[v]

\* A proposal is only ever put to the group while the itinerary it was built
\* from, seconds of provider calls earlier, is still the active one.
FreshProposal ==
    [][\A r \in Proposer : event[r] = "absent" /\ event'[r] = "pending"
                           => status[parent'[r]] = "active"]_vars

\* A manual edit never adds a second pending proposal (manual_itinerary.py
\* checks again under the lock), not even against a concurrent rescue.
EditProposesAlone ==
    [][\A r \in Edit : event[r] = "absent" /\ event'[r] = "pending"
                       => Pending = {}]_vars

\* A device told of a manual edit can decide it at once: its event is there
\* ("Publish only a durable proposal", itinerary_edits.py).
EditPushIsDurable == \A r \in Edit \cap pushed : event[r] # "absent"

\* "Trip already has a pending replan proposal" (rescue.py): there is at most
\* one proposal for the group to decide.
AtMostOnePending == \A d, e \in Pending : d = e

\* Every accepted request ends: none waits for ever for a row lock or for the
\* version number of another.
AcceptedRequestsEnd ==
    \A r \in Request : pc[r] # "idle" ~> pc[r] \in {"done", "refused"}

-----------------------------------------------------------------------------
(***************************************************************************)
(* The gate implements PlanApproval: only commits are visible steps, and   *)
(* every one of them is a first plan, a draft, an adoption or a refusal.   *)
(***************************************************************************)
Current == IF Active = {} THEN None ELSE CHOOSE v \in Active : TRUE

Fate == [absent |-> "unwritten", proposed |-> "draft", active |-> "adopted",
         superseded |-> "adopted", rejected |-> "declined"]

Approval == INSTANCE PlanApproval WITH
    Plan    <- Request,
    current <- Current,
    fate    <- [v \in Request |-> Fate[status[v]]],
    basis   <- parent

\* The version chain is an approval history: every adoption replaced the plan
\* its draft was drawn on, and nothing else ever changed the current plan.
ImplementsApproval == Approval!Spec

=============================================================================
