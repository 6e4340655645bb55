------------------------- MODULE ReplanHistoryProofs -------------------------
(***************************************************************************)
(* What holds of ReplanGate when the trip is planned once: any number of   *)
(* rescues, edits and decisions, but one POST /plan.  With two, plan_trip  *)
(* lets both through and the run gate_double_plan shows two active         *)
(* versions; so every theorem here assumes OnePlan.                        *)
(***************************************************************************)
EXTENDS ReplanGateProofs

OnePlan == \A p, q \in Planner : p = q

\* Before the plan there is no version, and the plan has no parent.
PlanIsFirst ==
    /\ (\A p \in Planner : status[p] = "absent") => \A v \in Request : status[v] = "absent"
    /\ \A p \in Planner : parent[p] = None

History == PlanIsFirst /\ SingleActive /\ LinearHistory

\* What each commit does to the versions.

LEMMA ProposalCommits ==
    ASSUME TypeOK, Memory, LockHeld,
           NEW r \in Proposer, RescueCommit(r) \/ EditCommit(r)
    PROVE  /\ status[r] = "absent" /\ parent[r] = None
           /\ base[r] \in Active
           /\ status' = [status EXCEPT ![r] = "proposed"]
           /\ parent' = [parent EXCEPT ![r] = base[r]]
  <1>1. /\ pc[r] \in {"flushed", "notified"}
        /\ status' = [status EXCEPT ![r] = "proposed"]
        /\ parent' = [parent EXCEPT ![r] = base[r]]
    BY DEF RescueCommit, EditCommit, InsertProposal
  <1>2. r \in Writing /\ status[r] = "absent"
    BY <1>1, RequestKinds DEF Writing, Memory, BeforeCommit
  <1>3. parent[r] = None
    BY <1>2, RequestKinds DEF Memory
  <1>4. base[r] \in Active
    BY <1>1, <1>2, RequestKinds DEF LockHeld, Active, Memory, Proposing, TypeOK
  <1> QED
    BY <1>1, <1>2, <1>3, <1>4

LEMMA DecisionCommits ==
    ASSUME TypeOK, NEW e \in Proposer, Approve(e) \/ Reject(e)
    PROVE  /\ status[e] = "proposed" /\ parent[e] \in Active /\ parent[e] # e
           /\ UNCHANGED parent
           /\ \/ status' = [status EXCEPT ![parent[e]] = "superseded", ![e] = "active"]
              \/ status' = [status EXCEPT ![e] = "rejected"]
  <1>1. Decidable(e) /\ UNCHANGED parent
    BY DEF Approve, Reject
  <1>2. parent[e] \in Active /\ parent[e] # e /\ status[e] = "proposed"
    BY <1>1, RequestKinds DEF Decidable, TypeOK, Active
  <1> QED
    BY <1>1, <1>2 DEF Approve, Reject

\* The first plan commits on an empty chain.
LEMMA PlanCommits ==
    ASSUME TypeOK, Memory, PlanIsFirst, OnePlan, NEW p \in Planner, SolverCommit(p)
    PROVE  /\ \A v \in Request : status[v] = "absent"
           /\ status' = [status EXCEPT ![p] = "active"]
           /\ UNCHANGED parent
  <1>1. status[p] = "absent"
    BY RequestKinds DEF SolverCommit, Memory, BeforeCommit
  <1>2. \A v \in Request : status[v] = "absent"
    BY <1>1 DEF PlanIsFirst, OnePlan
  <1>b. p \in Request /\ base[p] \in Request \cup {None} /\ latest[p] \in Request \cup {None}
    BY RequestKinds DEF TypeOK
  <1>3. base[p] = None /\ latest[p] = None /\ parent[p] = None
    <2>1. base[p] = None
      BY <1>2, <1>b DEF Memory, Adopted
    <2>2. latest[p] = None
      BY <1>2, <1>b DEF Memory
    <2> QED BY <2>1, <2>2 DEF PlanIsFirst
  <1>4. \A v \in Request : v # base[p]
    BY <1>3, RequestKinds
  <1>5. status' = [status EXCEPT ![p] = "active"]
    BY <1>4, RequestKinds DEF SolverCommit, TypeOK
  <1>6. parent' = parent
    BY <1>3, RequestKinds DEF SolverCommit, TypeOK
  <1> QED
    BY <1>2, <1>5, <1>6

\* A step that is no commit writes no version.
LEMMA OtherStepsQuiet ==
    ASSUME [Next]_vars,
           \A r \in Proposer : ~RescueCommit(r) /\ ~EditCommit(r) /\ ~Approve(r) /\ ~Reject(r),
           \A p \in Planner : ~SolverCommit(p)
    PROVE  UNCHANGED <<status, parent>>
  BY RequestKinds
  DEF Next, RescueStep, EditStep, PlanStep, ProposalStart, RescueLock, EditLock,
      Flush, RescuePublish, EditPublish, PlanStart, PlanResume, SoftprefDone,
      SolverRead, SolverLock, SolverDone, Abort, vars, rows

\* Of a trip planned once there is one active version at a time, and the
\* versions that took effect form a line, whatever the rescues, the edits and
\* the decisions interleave.
THEOREM HistoryHolds == ASSUME OnePlan PROVE Spec => []History
  <1>1. Init => History
    BY RequestKinds DEF Init, History, PlanIsFirst, SingleActive, LinearHistory, Active,
                        Adopted
  <1>2. TypeOK /\ Memory /\ LockHeld /\ History /\ [Next]_vars => History'
    <2> SUFFICES ASSUME TypeOK, Memory, LockHeld, History, [Next]_vars PROVE History'
      OBVIOUS
    <2> USE RequestKinds DEF History, Active, Adopted
    <2>t. \A v \in Request : parent[v] \in Request \cup {None}
      BY DEF TypeOK
    <2>1. ASSUME NEW r \in Proposer, RescueCommit(r) \/ EditCommit(r) PROVE History'
      <3>1. /\ status[r] = "absent" /\ base[r] \in Active
            /\ \A v \in Request : status'[v] = IF v = r THEN "proposed" ELSE status[v]
            /\ \A v \in Request : parent'[v] = IF v = r THEN base[r] ELSE parent[v]
        BY <2>1, ProposalCommits DEF TypeOK
      <3>2. PlanIsFirst'
        BY <3>1 DEF PlanIsFirst
      <3>3. SingleActive' /\ LinearHistory'
        BY <2>t, <3>1 DEF SingleActive, LinearHistory
      <3> QED BY <3>2, <3>3
    <2>2. ASSUME NEW e \in Proposer, Approve(e) PROVE History'
      <3>1. /\ status[e] = "proposed" /\ parent[e] \in Active /\ UNCHANGED parent
            /\ \A v \in Request : status'[v] = IF v = e THEN "active"
                                               ELSE IF v = parent[e] THEN "superseded"
                                               ELSE status[v]
        <4>1. /\ status[e] = "proposed" /\ parent[e] \in Active /\ parent[e] # e
              /\ UNCHANGED parent
          BY <2>2, DecisionCommits
        <4>2. status' = [status EXCEPT ![parent[e]] = "superseded", ![e] = "active"]
          BY <2>2 DEF Approve
        <4> QED BY <4>1, <4>2 DEF TypeOK
      <3>2. PlanIsFirst'
        BY <3>1 DEF PlanIsFirst
      <3>3. SingleActive'
        BY <3>1 DEF SingleActive
      <3>4. \A u \in Adopted : parent[u] # parent[e]
        BY <3>1 DEF LinearHistory, PlanIsFirst, Proposer, Request
      <3>5. LinearHistory'
        BY <2>t, <3>1, <3>4 DEF LinearHistory
      <3> QED BY <3>2, <3>3, <3>5
    <2>3. ASSUME NEW e \in Proposer, Reject(e) PROVE History'
      <3>1. /\ status[e] = "proposed" /\ UNCHANGED parent
            /\ \A v \in Request : status'[v] = IF v = e THEN "rejected" ELSE status[v]
        BY <2>3, DecisionCommits DEF TypeOK, Reject
      <3> QED BY <2>t, <3>1 DEF PlanIsFirst, SingleActive, LinearHistory
    <2>4. ASSUME NEW p \in Planner, SolverCommit(p) PROVE History'
      <3>1. /\ \A v \in Request : status[v] = "absent"
            /\ \A v \in Request : status'[v] = IF v = p THEN "active" ELSE "absent"
            /\ UNCHANGED parent
        BY <2>4, PlanCommits DEF TypeOK
      <3> QED BY <3>1 DEF PlanIsFirst, SingleActive, LinearHistory
    <2>5. CASE UNCHANGED <<status, parent>>
      BY <2>5 DEF PlanIsFirst, SingleActive, LinearHistory
    <2> QED
      BY <2>1, <2>2, <2>3, <2>4, <2>5, OtherStepsQuiet
  <1> QED
    BY <1>1, <1>2, TypeCorrect, MemoryHolds, LockHeldHolds, PTL DEF Spec

\* get_active has one answer.
THEOREM SingleActiveHolds == ASSUME OnePlan PROVE Spec => []SingleActive
  <1>1. History => SingleActive
    BY DEF History
  <1> QED
    BY <1>1, HistoryHolds, PTL

\* No two versions that took effect replaced the same one.
THEOREM LinearHistoryHolds == ASSUME OnePlan PROVE Spec => []LinearHistory
  <1>1. History => LinearHistory
    BY DEF History
  <1> QED
    BY <1>1, HistoryHolds, PTL

-----------------------------------------------------------------------------
(***************************************************************************)
(* The gate implements PlanApproval                                        *)
(***************************************************************************)

MappedFate == [v \in Request |-> Fate[status[v]]]

LEMMA CurrentIsActive ==
    ASSUME SingleActive, NEW v \in Active
    PROVE  Current = v
  BY DEF SingleActive, Current

LEMMA NothingIsCurrent ==
    ASSUME Active = {}
    PROVE  Current = None
  BY DEF Current

\* The fates that PlanApproval tells apart.
LEMMA FateOf ==
    ASSUME TypeOK, NEW v \in Request
    PROVE  /\ status[v] = "absent" => MappedFate[v] = "unwritten"
           /\ status[v] = "proposed" => MappedFate[v] = "draft"
           /\ status[v] \in {"active", "superseded"} => MappedFate[v] = "adopted"
           /\ status[v] = "rejected" => MappedFate[v] = "declined"
  BY DEF TypeOK, MappedFate, Fate

\* Fates change where statuses do, and not when an active version is
\* superseded.
LEMMA FateStep ==
    ASSUME TypeOK, TypeOK', NEW e \in Request, NEW f,
           MappedFate'[e] = f,
           \A v \in Request \ {e} : \/ status'[v] = status[v]
                                    \/ status[v] = "active" /\ status'[v] = "superseded"
    PROVE  MappedFate' = [MappedFate EXCEPT ![e] = f]
  <1>1. \A v \in Request \ {e} : MappedFate'[v] = MappedFate[v]
    BY DEF MappedFate, Fate, TypeOK
  <1>2. /\ MappedFate = [v \in Request |-> MappedFate[v]]
        /\ MappedFate' = [v \in Request |-> MappedFate'[v]]
    BY DEF MappedFate
  <1> QED
    BY <1>1, <1>2

\* A proposal's commit drafts a change to the current plan.
LEMMA CommitDrafts ==
    ASSUME TypeOK, TypeOK', Memory, LockHeld, SingleActive, SingleActive',
           NEW r \in Proposer, RescueCommit(r) \/ EditCommit(r)
    PROVE  Approval!Draft(r)
  <1>1. /\ status[r] = "absent" /\ base[r] \in Active /\ r \in Request
        /\ status' = [status EXCEPT ![r] = "proposed"]
        /\ parent' = [parent EXCEPT ![r] = base[r]]
    BY ProposalCommits, RequestKinds
  <1>2. Current' = base[r]
    <2>1. base[r] \in Active'
      BY <1>1 DEF Active, TypeOK
    <2> QED BY <2>1 DEF Current, SingleActive
  <1>3. Current = base[r] /\ Current # None
    BY <1>1, CurrentIsActive, RequestKinds DEF Active
  <1>4. status'[r] = "proposed" /\ \A v \in Request \ {r} : status'[v] = status[v]
    BY <1>1 DEF TypeOK
  <1>5. MappedFate[r] = "unwritten" /\ MappedFate'[r] = "draft"
    BY <1>1, <1>4, FateOf DEF MappedFate, Fate
  <1>6. MappedFate' = [MappedFate EXCEPT ![r] = "draft"]
    BY <1>1, <1>4, <1>5, FateStep
  <1> QED
    BY <1>1, <1>2, <1>3, <1>5, <1>6 DEF Approval!Draft, MappedFate

\* An approval adopts a draft of the current plan.
LEMMA ApproveAdopts ==
    ASSUME TypeOK, TypeOK', SingleActive, SingleActive', NEW e \in Proposer, Approve(e)
    PROVE  Approval!Adopt(e)
  <1>1. /\ status[e] = "proposed" /\ parent[e] \in Active /\ parent[e] # e
        /\ UNCHANGED parent /\ e \in Request
    BY DecisionCommits, RequestKinds
  <1>2. status' = [status EXCEPT ![parent[e]] = "superseded", ![e] = "active"]
    BY DEF Approve
  <1>3. /\ status'[e] = "active"
        /\ \A v \in Request \ {e} : \/ status'[v] = status[v]
                                    \/ status[v] = "active" /\ status'[v] = "superseded"
    BY <1>1, <1>2 DEF TypeOK, Active
  <1>4. e \in Active'
    BY <1>1, <1>3 DEF Active
  <1>5. Current = parent[e] /\ Current' = e
    <2>1. Current = parent[e]
      BY <1>1, CurrentIsActive
    <2>2. Current' = e
      BY <1>4 DEF Current, SingleActive
    <2> QED BY <2>1, <2>2
  <1>6. MappedFate[e] = "draft" /\ MappedFate'[e] = "adopted"
    BY <1>1, <1>3, FateOf DEF MappedFate, Fate
  <1>7. MappedFate' = [MappedFate EXCEPT ![e] = "adopted"]
    BY <1>1, <1>3, <1>6, FateStep
  <1> QED
    BY <1>1, <1>5, <1>6, <1>7 DEF Approval!Adopt, MappedFate

\* A rejection declines a draft of the current plan.
LEMMA RejectDeclines ==
    ASSUME TypeOK, TypeOK', SingleActive, SingleActive', NEW e \in Proposer, Reject(e)
    PROVE  Approval!Decline(e)
  <1>1. /\ status[e] = "proposed" /\ parent[e] \in Active
        /\ UNCHANGED parent /\ e \in Request
    BY DecisionCommits, RequestKinds
  <1>2. status' = [status EXCEPT ![e] = "rejected"]
    BY DEF Reject
  <1>3. status'[e] = "rejected" /\ \A v \in Request \ {e} : status'[v] = status[v]
    BY <1>1, <1>2 DEF TypeOK
  <1>4. Current' = parent[e]
    <2>1. parent[e] \in Active'
      BY <1>1, <1>3 DEF Active
    <2> QED BY <2>1 DEF Current, SingleActive
  <1>5. Current = parent[e]
    BY <1>1, CurrentIsActive
  <1>6. MappedFate[e] = "draft" /\ MappedFate'[e] = "declined"
    BY <1>1, <1>3, FateOf DEF MappedFate, Fate
  <1>7. MappedFate' = [MappedFate EXCEPT ![e] = "declined"]
    BY <1>1, <1>3, <1>6, FateStep
  <1> QED
    BY <1>1, <1>4, <1>5, <1>6, <1>7 DEF Approval!Decline, MappedFate

\* The plan's commit is the first plan.
LEMMA PlanIsFirstPlan ==
    ASSUME TypeOK, TypeOK', Memory, PlanIsFirst, SingleActive', OnePlan,
           NEW p \in Planner, SolverCommit(p)
    PROVE  Approval!FirstPlan(p)
  <1>1. /\ \A v \in Request : status[v] = "absent"
        /\ status' = [status EXCEPT ![p] = "active"]
        /\ UNCHANGED parent /\ p \in Request
    BY PlanCommits, RequestKinds
  <1>2. Current = None
    BY <1>1, NothingIsCurrent DEF Active
  <1>3. status'[p] = "active" /\ \A v \in Request \ {p} : status'[v] = status[v]
    BY <1>1 DEF TypeOK
  <1>4. Current' = p
    BY <1>1, <1>3 DEF Active, Current, SingleActive
  <1>5. MappedFate[p] = "unwritten" /\ MappedFate'[p] = "adopted"
    BY <1>1, <1>3, FateOf DEF MappedFate, Fate
  <1>6. MappedFate' = [MappedFate EXCEPT ![p] = "adopted"]
    BY <1>1, <1>3, <1>5, FateStep
  <1> QED
    BY <1>1, <1>2, <1>4, <1>5, <1>6 DEF Approval!FirstPlan, MappedFate

\* The version chain of a trip planned once is an approval history: every
\* commit is a first plan, a draft, an adoption or a refusal, and nothing else
\* changes the plan the group follows.
THEOREM ApprovalRefined == ASSUME OnePlan PROVE Spec => ImplementsApproval
  <1>1. Init => Approval!Init
    <2> SUFFICES ASSUME Init PROVE Approval!Init
      OBVIOUS
    <2>1. \A v \in Request : status[v] = "absent"
      BY DEF Init
    <2>2. Current = None
      BY <2>1, NothingIsCurrent DEF Active
    <2>3. MappedFate = [v \in Request |-> "unwritten"]
      BY <2>1 DEF MappedFate, Fate
    <2> QED
      BY <2>2, <2>3 DEF Init, Approval!Init, MappedFate
  <1>2. TypeOK /\ TypeOK' /\ Memory /\ LockHeld /\ History /\ History' /\ [Next]_vars
        => [Approval!Next]_(Approval!vars)
    <2> SUFFICES ASSUME TypeOK, TypeOK', Memory, LockHeld, History, History', [Next]_vars
                 PROVE  Approval!Next \/ UNCHANGED Approval!vars
      OBVIOUS
    <2> USE RequestKinds DEF History
    <2>1. ASSUME NEW r \in Proposer, RescueCommit(r) \/ EditCommit(r) PROVE Approval!Next
      BY <2>1, CommitDrafts DEF Approval!Next
    <2>2. ASSUME NEW e \in Proposer, Approve(e) PROVE Approval!Next
      BY <2>2, ApproveAdopts DEF Approval!Next
    <2>3. ASSUME NEW e \in Proposer, Reject(e) PROVE Approval!Next
      BY <2>3, RejectDeclines DEF Approval!Next
    <2>4. ASSUME NEW p \in Planner, SolverCommit(p) PROVE Approval!Next
      BY <2>4, PlanIsFirstPlan DEF Approval!Next
    <2>5. CASE UNCHANGED <<status, parent>>
      BY <2>5 DEF Approval!vars, Current, Active, Fate
    <2> QED
      BY <2>1, <2>2, <2>3, <2>4, <2>5, OtherStepsQuiet
  <1> QED
    BY <1>1, <1>2, TypeCorrect, MemoryHolds, LockHeldHolds, HistoryHolds, PTL
    DEF Spec, ImplementsApproval, Approval!Spec

-----------------------------------------------------------------------------
(***************************************************************************)
(* Manual edits                                                            *)
(***************************************************************************)

\* An edit enters its writing transaction through EditLock only.
LEMMA OnlyEditLockLocks ==
    ASSUME TypeOK, [Next]_vars, NEW r \in Edit, r \notin Writing, r \in Writing'
    PROVE  EditLock(r)
  <1> USE RequestKinds
  <1>1. ASSUME NEW q \in Request, NEW l, Goto(q, l)
        PROVE  q = r /\ l \in {"locked", "flushed", "notified"}
    BY <1>1 DEF Goto, Writing, TypeOK
  <1>2. ASSUME NEW q \in Rescue, RescueStep(q) PROVE FALSE
    <2>1. q # r /\ q \in Request
      BY RequestAssumption DEF Request, Proposer
    <2> QED
      BY <1>1, <1>2, <2>1 DEF RescueStep, RescueLock, Flush, RescuePublish, RescueCommit
  <1>3. ASSUME NEW p \in Planner, PlanStart(p) \/ PlanStep(p) PROVE FALSE
    <2>1. p # r /\ p \in Request
      BY DEF Proposer
    <2>2. ~PlanResume(p)
      BY <1>1, <2>1 DEF PlanResume
    <2> QED
      BY <1>1, <1>3, <2>1, <2>2
      DEF PlanStart, PlanStep, SoftprefDone, SolverRead, SolverLock, Flush,
          SolverCommit, SolverDone
  <1>4. ASSUME NEW e \in Proposer, Approve(e) \/ Reject(e) PROVE FALSE
    BY <1>4 DEF Approve, Reject, Writing
  <1>5. ASSUME NEW q \in Proposer, ProposalStart(q) PROVE FALSE
    BY <1>1, <1>5 DEF ProposalStart
  <1>6. ASSUME NEW q \in Request, Abort(q) PROVE FALSE
    BY <1>1, <1>6 DEF Abort
  <1>7. ASSUME NEW q \in Edit, EditStep(q) PROVE EditLock(r)
    <2>1. CASE EditLock(q)
      BY <1>1, <2>1 DEF EditLock
    <2>2. CASE Flush(q)
      <3>1. pc[q] = "locked" /\ (Goto(q, "flushed") \/ Goto(q, "refused"))
        BY <2>2 DEF Flush
      <3> QED BY <1>1, <3>1 DEF Writing
    <2>3. CASE EditCommit(q) \/ EditPublish(q)
      BY <1>1, <2>3 DEF EditCommit, EditPublish
    <2> QED BY <1>7, <2>1, <2>2, <2>3 DEF EditStep
  <1>8. ~UNCHANGED vars
    BY DEF vars, Writing
  <1> QED
    BY <1>2, <1>3, <1>4, <1>5, <1>6, <1>7, <1>8 DEF Next

\* While an edit holds the active version nothing is pending: a rescue that
\* commits meanwhile would hold the same lock.
EditAlone == \A r \in Edit \cap Writing : Pending = {}

\* A manual edit never adds a second pending proposal, whatever rescues and
\* other edits commit between its two checks.
THEOREM EditProposesAloneHolds == ASSUME OnePlan PROVE Spec => EditProposesAlone
  <1>1. Init => EditAlone
    BY DEF Init, EditAlone, Writing
  <1>2. TypeOK /\ Memory /\ LockHeld /\ History /\ EditAlone /\ [Next]_vars => EditAlone'
    <2> SUFFICES ASSUME TypeOK, Memory, LockHeld, History, EditAlone, [Next]_vars,
                        NEW r \in Edit, r \in Writing'
                 PROVE  Pending' = {}
      BY DEF EditAlone, Writing
    <2> USE RequestKinds
    <2>1. CASE EditLock(r)
      BY <2>1 DEF EditLock, Goto, Writing, TypeOK, Pending, rows
    <2>2. CASE ~EditLock(r)
      <3>1. r \in Writing /\ Pending = {}
        <4>1. r \in Writing
          BY <2>2, OnlyEditLockLocks
        <4> QED BY <4>1 DEF EditAlone
      <3>2. ASSUME NEW q \in Proposer, RescueCommit(q) \/ EditCommit(q) PROVE FALSE
        <4>1. base[q] \in Active /\ q \in Writing
          BY <3>2, ProposalCommits DEF RescueCommit, EditCommit, Writing
        <4>2. base[r] \in Active
          BY <3>1 DEF LockHeld, Active, Writing, Memory, Proposing, TypeOK
        <4>3. q = r
          BY <3>1, <4>1, <4>2 DEF History, SingleActive, LockHeld, Active
        <4> QED BY <3>2, <4>3 DEF RescueCommit, EditCommit, Goto, Writing, TypeOK
      <3>3. \A e \in Proposer : ~Approve(e) /\ ~Reject(e)
        BY <3>1 DEF Approve, Reject, Decidable, Pending
      <3>4. UNCHANGED event
        BY <3>2, <3>3
        DEF Next, RescueStep, EditStep, PlanStep, ProposalStart, RescueLock, EditLock,
            Flush, RescuePublish, EditPublish, PlanStart, PlanResume, SoftprefDone,
            SolverRead, SolverLock, SolverCommit, SolverDone, Abort, vars, rows
      <3> QED BY <3>1, <3>4 DEF Pending
    <2> QED BY <2>1, <2>2
  <1>3. TypeOK /\ EditAlone /\ [Next]_vars
        => [\A r \in Edit : event[r] = "absent" /\ event'[r] = "pending"
                            => Pending = {}]_vars
    <2> SUFFICES ASSUME TypeOK, EditAlone, Next,
                        NEW r \in Edit, event[r] = "absent", event'[r] = "pending"
                 PROVE  Pending = {}
      OBVIOUS
    <2>1. ASSUME NEW q \in Proposer, RescueCommit(q) \/ EditCommit(q) PROVE r \in Writing
      <3>1. q = r
        BY <2>1, RequestKinds DEF RescueCommit, EditCommit, InsertProposal, TypeOK
      <3> QED BY <2>1, <3>1, RequestKinds DEF RescueCommit, EditCommit, Writing
    <2>2. ASSUME NEW e \in Proposer, Approve(e) \/ Reject(e) PROVE FALSE
      BY <2>2, RequestKinds DEF Approve, Reject, TypeOK
    <2>3. event' # event
      OBVIOUS
    <2>4. r \in Writing
      BY <2>1, <2>2, <2>3, RequestKinds
      DEF Next, RescueStep, EditStep, PlanStep, ProposalStart, RescueLock, EditLock,
          Flush, RescuePublish, EditPublish, PlanStart, PlanResume, SoftprefDone,
          SolverRead, SolverLock, SolverCommit, SolverDone, Abort, rows
    <2> QED BY <2>4 DEF EditAlone
  <1> QED
    BY <1>1, <1>2, <1>3, TypeCorrect, MemoryHolds, LockHeldHolds, HistoryHolds, PTL
    DEF Spec, EditProposesAlone

=============================================================================
