--------------------------- MODULE ReplanGateProofs --------------------------
(***************************************************************************)
(* What holds of ReplanGate for any number of planning runs, rescues and   *)
(* edits.                                                                  *)
(***************************************************************************)
EXTENDS ReplanGate, TLAPS

(***************************************************************************)
(* Typing                                                                  *)
(***************************************************************************)

\* The requests of the three kinds partition Request, and None is no request.
LEMMA RequestKinds ==
    /\ Rescue \subseteq Proposer /\ Edit \subseteq Proposer
    /\ Planner \subseteq Request /\ Proposer \subseteq Request
    /\ Planner \cap Proposer = {}
    /\ None \notin Request
  BY RequestAssumption DEF Proposer, Request

\* get_active and get_latest return a version of the trip or None.
LEMMA QueryTypes ==
    ASSUME TypeOK
    PROVE  /\ GetActive \subseteq Request \cup {None}
           /\ Active \subseteq Request
           /\ GetLatest \in Request \cup {None}
           /\ NextVersionNo \in Nat
  <1>1. Len(chain) \in Nat /\ (chain # <<>> => chain[Len(chain)] \in Request)
    BY DEF TypeOK
  <1> QED
    BY <1>1 DEF GetActive, Active, GetLatest, NextVersionNo

\* The handlers, the decisions and the failures keep every column and local in
\* its type.
THEOREM TypeCorrect == Spec => []TypeOK
  <1>1. Init => TypeOK
    BY RequestKinds DEF Init, TypeOK
  <1>2. TypeOK /\ [Next]_vars => TypeOK'
    <2> SUFFICES ASSUME TypeOK, [Next]_vars PROVE TypeOK'
      OBVIOUS
    <2>q. /\ GetActive \subseteq Request \cup {None}
          /\ Active \subseteq Request
          /\ GetLatest \in Request \cup {None}
          /\ NextVersionNo \in Nat
      BY QueryTypes
    <2> USE RequestKinds, <2>q DEF TypeOK
    <2>1. ASSUME NEW r \in Rescue, RescueStep(r) PROVE TypeOK'
      <3>1. CASE RescueLock(r)
        <4>1. /\ UNCHANGED <<rows, checkpoint, base, latest, pushed>>
              /\ \/ Goto(r, "locked") /\ number' = [number EXCEPT ![r] = NextVersionNo]
                 \/ Goto(r, "refused") /\ UNCHANGED number
          BY <3>1 DEF RescueLock
        <4>2. CASE Goto(r, "locked") /\ number' = [number EXCEPT ![r] = NextVersionNo]
          <5> DEFINE n == NextVersionNo
          <5>1. n \in Nat /\ number' = [number EXCEPT ![r] = n]
            BY <4>2
          <5> HIDE DEF n
          <5> QED BY <4>1, <4>2, <5>1 DEF Goto, rows
        <4>3. CASE Goto(r, "refused") /\ UNCHANGED number
          BY <4>1, <4>3 DEF Goto, rows
        <4> QED BY <4>1, <4>2, <4>3
      <3>2. CASE Flush(r)          BY <3>2 DEF Flush, Goto, rows, locals
      <3>3. CASE RescuePublish(r)  BY <3>3 DEF RescuePublish, Goto, rows, locals
      <3>4. CASE RescueCommit(r)   BY <3>4 DEF RescueCommit, InsertProposal, Goto, locals
      <3> QED BY <2>1, <3>1, <3>2, <3>3, <3>4 DEF RescueStep
    <2>2. ASSUME NEW r \in Edit, EditStep(r) PROVE TypeOK'
      <3>1. CASE EditLock(r)
        <4>1. /\ UNCHANGED <<rows, checkpoint, base, latest, pushed>>
              /\ \/ Goto(r, "locked") /\ number' = [number EXCEPT ![r] = NextVersionNo]
                 \/ Goto(r, "refused") /\ UNCHANGED number
          BY <3>1 DEF EditLock
        <4>2. CASE Goto(r, "locked") /\ number' = [number EXCEPT ![r] = NextVersionNo]
          <5> DEFINE n == NextVersionNo
          <5>1. n \in Nat /\ number' = [number EXCEPT ![r] = n]
            BY <4>2
          <5> HIDE DEF n
          <5> QED BY <4>1, <4>2, <5>1 DEF Goto, rows
        <4>3. CASE Goto(r, "refused") /\ UNCHANGED number
          BY <4>1, <4>3 DEF Goto, rows
        <4> QED BY <4>1, <4>2, <4>3
      <3>2. CASE Flush(r)        BY <3>2 DEF Flush, Goto, rows, locals
      <3>3. CASE EditCommit(r)   BY <3>3 DEF EditCommit, InsertProposal, Goto, locals
      <3>4. CASE EditPublish(r)  BY <3>4 DEF EditPublish, Goto, rows, locals
      <3> QED BY <2>2, <3>1, <3>2, <3>3, <3>4 DEF EditStep
    <2>3. ASSUME NEW p \in Planner, PlanStart(p) \/ PlanStep(p) PROVE TypeOK'
      <3>1. CASE PlanStart(p)     BY <3>1 DEF PlanStart, Goto, rows, locals
      <3>2. CASE PlanResume(p)    BY <3>2 DEF PlanResume, Goto, rows, locals
      <3>3. CASE SoftprefDone(p)  BY <3>3 DEF SoftprefDone, Goto, rows, locals
      <3>4. CASE SolverRead(p)    BY <3>4 DEF SolverRead, Goto, rows
      <3>5. CASE SolverLock(p)    BY <3>5 DEF SolverLock, Goto, rows
      <3>6. CASE Flush(p)         BY <3>6 DEF Flush, Goto, rows, locals
      <3>7. CASE SolverCommit(p)  BY <3>7 DEF SolverCommit, Goto, locals
      <3>8. CASE SolverDone(p)    BY <3>8 DEF SolverDone, Goto, rows, locals
      <3> QED BY <2>3, <3>1, <3>2, <3>3, <3>4, <3>5, <3>6, <3>7, <3>8 DEF PlanStep
    <2>4. ASSUME NEW r \in Proposer, ProposalStart(r) PROVE TypeOK'
      BY <2>4 DEF ProposalStart, Goto, rows
    <2>5. ASSUME NEW e \in Proposer, Approve(e) PROVE TypeOK'
      BY <2>5 DEF Approve, Decidable, locals
    <2>6. ASSUME NEW e \in Proposer, Reject(e) PROVE TypeOK'
      BY <2>6 DEF Reject, Decidable, locals
    <2>7. ASSUME NEW r \in Request, Abort(r) PROVE TypeOK'
      BY <2>7 DEF Abort, Goto, rows, locals
    <2>8. CASE UNCHANGED vars
      BY <2>8 DEF vars, rows, locals
    <2> QED
      BY <2>1, <2>2, <2>3, <2>4, <2>5, <2>6, <2>7, <2>8 DEF Next
  <1> QED
    BY <1>1, <1>2, PTL DEF Spec

-----------------------------------------------------------------------------
(***************************************************************************)
(* What the requests remember of the committed rows                        *)
(***************************************************************************)

\* Where a request's insert has not committed yet.
BeforeCommit == {"idle", "building", "locked", "flushed", "notified",
                 "admitted", "softpref", "solving", "read"}

\* Where a rescue or an edit holds the version it was built on.
Proposing == {"building", "locked", "flushed", "notified"}

\* A version exists from its commit on; the versions a request has read, and
\* the parents, are committed ones, those read as active took effect once.
Memory ==
    /\ \A r \in Request : pc[r] \in BeforeCommit => status[r] = "absent"
    /\ \A n \in 1..Len(chain) : status[chain[n]] # "absent"
    /\ \A r \in Request : base[r] # None => base[r] \in Adopted
    /\ \A r \in Proposer : pc[r] \in Proposing => base[r] # None
    /\ \A r \in Request : latest[r] # None => status[latest[r]] # "absent"
    /\ \A v \in Request : parent[v] # None =>
          status[v] # "absent" /\ status[parent[v]] # "absent"

\* The insert of a request that has not committed changes the rows of this
\* request only.
LEMMA MemoryAfterInsert ==
    ASSUME TypeOK, Memory, NEW r \in Proposer,
           pc[r] \in {"flushed", "notified"},
           NEW l \in {"done", "committed"}, Goto(r, l), InsertProposal(r)
    PROVE  Memory'
  <1> USE RequestKinds DEF Adopted, BeforeCommit, Proposing
  <1>1. r \in Request /\ status[r] = "absent" /\ base[r] \in Request
    BY DEF TypeOK, Memory
  <1>2. /\ \A q \in Request : status'[q] = IF q = r THEN "proposed" ELSE status[q]
        /\ \A q \in Request : pc'[q] = IF q = r THEN l ELSE pc[q]
        /\ \A q \in Request : parent'[q] = IF q = r THEN base[r] ELSE parent[q]
        /\ UNCHANGED <<base, latest>>
    BY <1>1 DEF InsertProposal, Goto, TypeOK, locals
  <1>3. \A n \in 1..Len(chain') : chain'[n] \in Request
                                  /\ (chain'[n] = r \/ \E k \in 1..Len(chain) : chain'[n] = chain[k])
    BY <1>1 DEF InsertProposal, TypeOK
  <1>4. \A q \in Request : base[q] \in Request \cup {None} /\ latest[q] \in Request \cup {None}
                           /\ parent[q] \in Request \cup {None}
    BY DEF TypeOK
  <1>5. \A q \in Request : status[q] # "absent" => status'[q] # "absent" /\ q # r
    BY <1>1, <1>2
  <1>6. \A q \in Request : pc'[q] \in BeforeCommit => status'[q] = "absent"
    BY <1>2 DEF Memory
  <1>7. \A n \in 1..Len(chain') : status'[chain'[n]] # "absent"
    BY <1>2, <1>3 DEF Memory
  <1>8. \A q \in Request : base'[q] # None => base'[q] \in Adopted'
    BY <1>1, <1>2, <1>4 DEF Memory
  <1>9. \A q \in Proposer : pc'[q] \in Proposing => base'[q] # None
    BY <1>2 DEF Memory
  <1>10. \A q \in Request : latest'[q] # None => status'[latest'[q]] # "absent"
    BY <1>2, <1>4, <1>5 DEF Memory
  <1>11. status[base[r]] # "absent"
    BY <1>1 DEF Memory
  <1>12. \A q \in Request : parent'[q] # None =>
            status'[q] # "absent" /\ status'[parent'[q]] # "absent"
    BY <1>1, <1>2, <1>4, <1>5, <1>11 DEF Memory
  <1> QED
    BY <1>6, <1>7, <1>8, <1>9, <1>10, <1>12 DEF Memory

\* A step that writes no row leaves Memory alone when what it reads is
\* committed.
LEMMA MemoryAfterRead ==
    ASSUME TypeOK, Memory, NEW r \in Request, UNCHANGED rows,
           NEW l, Goto(r, l), l \in BeforeCommit => pc[r] \in BeforeCommit,
           NEW b, base' = [base EXCEPT ![r] = b], b = base[r] \/ b \in GetActive,
           r \in Proposer /\ l \in Proposing => b # None,
           NEW t, latest' = [latest EXCEPT ![r] = t], t = latest[r] \/ t = GetLatest
    PROVE  Memory'
  <1>1. /\ \A q \in Request : pc'[q] = IF q = r THEN l ELSE pc[q]
        /\ \A q \in Request : base'[q] = IF q = r THEN b ELSE base[q]
        /\ \A q \in Request : latest'[q] = IF q = r THEN t ELSE latest[q]
    BY DEF Goto, TypeOK
  <1>2. b # None => b \in Adopted
    BY DEF Memory, GetActive, Active, Adopted
  <1>3. t # None => status[t] # "absent"
    <2>1. chain # <<>> => Len(chain) \in 1..Len(chain)
      BY DEF TypeOK
    <2> QED BY <2>1 DEF Memory, GetLatest
  <1> QED
    BY <1>1, <1>2, <1>3, RequestKinds DEF Memory, Adopted, Proposing, rows

\* Every version a request has read, or replaces, is a committed one.
THEOREM MemoryHolds == Spec => []Memory
  <1>1. Init => Memory
    BY RequestKinds DEF Init, Memory, BeforeCommit, Proposing
  <1>2. TypeOK /\ Memory /\ [Next]_vars => Memory'
    <2> SUFFICES ASSUME TypeOK, Memory, [Next]_vars PROVE Memory'
      OBVIOUS
    <2> USE RequestKinds
    <2>k. /\ base = [r \in Request |-> base[r]] /\ latest = [r \in Request |-> latest[r]]
          /\ \A r \in Request : base = [base EXCEPT ![r] = base[r]]
          /\ \A r \in Request : latest = [latest EXCEPT ![r] = latest[r]]
      BY DEF TypeOK
    <2>1. ASSUME NEW r \in Proposer, ProposalStart(r) PROVE Memory'
      <3>1. PICK a \in Active : base' = [base EXCEPT ![r] = a]
        BY <2>1 DEF ProposalStart
      <3>2. a \in GetActive /\ a # None
        BY <3>1 DEF GetActive, Active
      <3> QED BY <2>1, <2>k, <3>1, <3>2, MemoryAfterRead DEF ProposalStart, BeforeCommit
    <2>2. ASSUME NEW r \in Request,
                 RescueLock(r) \/ EditLock(r) \/ Flush(r) \/ RescuePublish(r)
                 \/ EditPublish(r) \/ Abort(r)
          PROVE Memory'
      <3>1. UNCHANGED <<rows, base, latest>>
        BY <2>2 DEF RescueLock, EditLock, Flush, RescuePublish, EditPublish, Abort, locals
      <3>2. PICK l \in {"locked", "flushed", "notified", "done", "refused"} :
                  /\ Goto(r, l)
                  /\ pc[r] \notin BeforeCommit => l \in {"done", "refused"}
                  /\ r \in Proposer /\ l \in Proposing => pc[r] \in Proposing
        BY <2>2 DEF RescueLock, EditLock, Flush, RescuePublish, EditPublish, Abort,
                    BeforeCommit, Proposing
      <3>3. r \in Proposer /\ l \in Proposing => base[r] # None
        BY <3>2 DEF Memory
      <3>4. l \in BeforeCommit => pc[r] \in BeforeCommit
        BY <3>2 DEF BeforeCommit
      <3> QED BY <2>k, <3>1, <3>2, <3>3, <3>4, MemoryAfterRead
    <2>3. ASSUME NEW r \in Proposer, RescueCommit(r) \/ EditCommit(r) PROVE Memory'
      BY <2>3, MemoryAfterInsert DEF RescueCommit, EditCommit
    <2>4. ASSUME NEW p \in Planner,
                 PlanStart(p) \/ PlanResume(p) \/ SoftprefDone(p) \/ SolverDone(p)
                 \/ SolverLock(p)
          PROVE Memory'
      <3>1. /\ UNCHANGED <<rows, base, latest>>
            /\ pc[p] \in BeforeCommit \cup {"solved"}
            /\ \E l \in {"admitted", "softpref", "solving", "done", "locked"} :
                  Goto(p, l) /\ (pc[p] \notin BeforeCommit => l = "done")
        <4>1. CASE PlanResume(p)
          BY <4>1 DEF PlanResume, locals, BeforeCommit, TypeOK
        <4> QED
          BY <2>4, <4>1 DEF PlanStart, SoftprefDone, SolverDone, SolverLock,
                            locals, BeforeCommit
      <3> QED BY <2>k, <3>1, MemoryAfterRead DEF BeforeCommit
    <2>5. ASSUME NEW p \in Planner, SolverRead(p) PROVE Memory'
      BY <2>5, MemoryAfterRead DEF SolverRead, BeforeCommit
    <2>6. ASSUME NEW p \in Planner, SolverCommit(p) PROVE Memory'
      <3>1. /\ pc[p] = "flushed" /\ status[p] = "absent"
            /\ base[p] \in Adopted \cup {None}
            /\ latest[p] \in Request \cup {None}
        BY <2>6 DEF SolverCommit, Memory, BeforeCommit, TypeOK
      <3>2. /\ \A q \in Request : status'[q] = IF q = p THEN "active"
                                               ELSE IF q = base[p] THEN "superseded"
                                               ELSE status[q]
            /\ \A q \in Request : pc'[q] = IF q = p THEN "solved" ELSE pc[q]
            /\ \A q \in Request : parent'[q] = IF q = p THEN latest[p] ELSE parent[q]
            /\ UNCHANGED <<base, latest>>
        BY <2>6 DEF SolverCommit, Goto, TypeOK, locals
      <3>3. \A n \in 1..Len(chain') : chain'[n] \in Request
                /\ (chain'[n] = p \/ \E k \in 1..Len(chain) : chain'[n] = chain[k])
        BY <2>6 DEF SolverCommit, TypeOK
      <3>4. \A q \in Request : base[q] \in Request \cup {None}
                               /\ latest[q] \in Request \cup {None}
                               /\ parent[q] \in Request \cup {None}
        BY DEF TypeOK
      <3> QED BY <3>1, <3>2, <3>3, <3>4 DEF Memory, Adopted, BeforeCommit, Proposing
    <2>7. ASSUME NEW e \in Proposer, Approve(e) \/ Reject(e) PROVE Memory'
      <3>1. /\ UNCHANGED <<chain, parent, pc, base, latest>>
            /\ status[e] = "proposed" /\ parent[e] \in Request
            /\ status[parent[e]] = "active"
            /\ \/ status' = [status EXCEPT ![parent[e]] = "superseded", ![e] = "active"]
               \/ status' = [status EXCEPT ![e] = "rejected"]
        BY <2>7 DEF Approve, Reject, Decidable, locals, TypeOK
      <3>2. \A q \in Request : /\ status[q] = "absent" <=> status'[q] = "absent"
                               /\ q \in Adopted => q \in Adopted'
        BY <3>1 DEF TypeOK, Adopted
      <3>3. /\ \A n \in 1..Len(chain) : chain[n] \in Request
            /\ \A q \in Request : base[q] \in Request \cup {None}
                                  /\ latest[q] \in Request \cup {None}
                                  /\ parent[q] \in Request \cup {None}
        BY DEF TypeOK
      <3> QED BY <3>1, <3>2, <3>3 DEF Memory
    <2>8. CASE UNCHANGED vars
      BY <2>8 DEF vars, Memory, Adopted
    <2> QED
      BY <2>1, <2>2, <2>3, <2>4, <2>5, <2>6, <2>7, <2>8
      DEF Next, RescueStep, EditStep, PlanStep
  <1> QED
    BY <1>1, <1>2, TypeCorrect, PTL DEF Spec

-----------------------------------------------------------------------------
(***************************************************************************)
(* Row locks and fresh proposals                                           *)
(***************************************************************************)

\* The row lock on the version a request was built on is exclusive, and while
\* a rescue or an edit holds it that version stays the active one: every
\* change of an active version needs its lock.
LockHeld ==
    /\ \A r, q \in Writing : base[r] = base[q] /\ base[r] # None => r = q
    /\ \A r \in Writing \cap Proposer : status[base[r]] = "active"

\* No request takes a lock, and no locked version changes its status.
LEMMA LockKept ==
    ASSUME LockHeld, Writing' \subseteq Writing,
           \A q \in Writing' : base'[q] = base[q],
           \A q \in Writing' \cap Proposer :
              status[base[q]] = "active" => status'[base[q]] = "active"
    PROVE  LockHeld'
  BY DEF LockHeld

\* One request takes the free lock of its version; a proposal only if that is
\* the active one.
LEMMA LockTaken ==
    ASSUME TypeOK, LockHeld, UNCHANGED <<status, base>>,
           NEW r \in Request, Goto(r, "locked"),
           base[r] = None \/ ~RowLocked(base[r]),
           r \in Proposer => status[base[r]] = "active"
    PROVE  LockHeld'
  <1>1. Writing' \subseteq Writing \cup {r}
    BY DEF Writing, Goto, TypeOK
  <1> QED
    BY <1>1 DEF LockHeld, RowLocked

\* A request moves on without taking a lock, and writes nothing.
LEMMA LockUntouched ==
    ASSUME TypeOK, LockHeld, UNCHANGED status,
           NEW r \in Request, NEW l, Goto(r, l),
           l \in {"locked", "flushed", "notified"} => r \in Writing,
           \A q \in Writing : base'[q] = base[q]
    PROVE  LockHeld'
  <1>1. Writing' \subseteq Writing
    BY DEF Writing, Goto, TypeOK
  <1> QED
    BY <1>1, LockKept

\* The two requests that write at the same time never lock the same version.
THEOREM LockHeldHolds == Spec => []LockHeld
  <1>1. Init => LockHeld
    BY DEF Init, LockHeld, Writing
  <1>2. TypeOK /\ Memory /\ LockHeld /\ [Next]_vars => LockHeld'
    <2> SUFFICES ASSUME TypeOK, Memory, LockHeld, [Next]_vars PROVE LockHeld'
      OBVIOUS
    <2> USE RequestKinds
    <2>1. ASSUME NEW r \in Proposer, ProposalStart(r) PROVE LockHeld'
      <3>1. r \notin Writing /\ \A q \in Request : q # r => base'[q] = base[q]
        BY <2>1 DEF ProposalStart, Writing, TypeOK
      <3>2. \A q \in Writing : base'[q] = base[q]
        BY <3>1 DEF Writing
      <3> QED BY <2>1, <3>2, LockUntouched DEF ProposalStart, rows
    <2>2. ASSUME NEW r \in Proposer, RescueLock(r) \/ EditLock(r) PROVE LockHeld'
      <3>1. UNCHANGED <<status, base>> /\ ~RowLocked(base[r]) /\ base[r] # None
        BY <2>2 DEF RescueLock, EditLock, rows, Memory, Proposing
      <3>2. CASE Goto(r, "locked") /\ base[r] \in GetActive
        <4>1. status[base[r]] = "active"
          BY <3>1, <3>2 DEF GetActive, Active
        <4> QED BY <3>1, <3>2, <4>1, LockTaken
      <3>3. CASE Goto(r, "refused")
        BY <3>1, <3>3, LockUntouched
      <3> QED BY <2>2, <3>2, <3>3 DEF RescueLock, EditLock
    <2>3. ASSUME NEW p \in Planner, SolverLock(p) PROVE LockHeld'
      BY <2>3, LockTaken DEF SolverLock, rows
    <2>4. ASSUME NEW r \in Request,
                 Flush(r) \/ RescuePublish(r) \/ EditPublish(r) \/ Abort(r)
                 \/ PlanStart(r) \/ PlanResume(r) \/ SoftprefDone(r) \/ SolverDone(r)
          PROVE LockHeld'
      <3>1. UNCHANGED <<status, base>>
        BY <2>4 DEF Flush, RescuePublish, EditPublish, Abort, PlanStart, PlanResume,
                    SoftprefDone, SolverDone, rows, locals
      <3>2. PICK l : /\ Goto(r, l)
                     /\ l \in {"locked", "flushed", "notified"} => r \in Writing
        <4>1. CASE PlanResume(r)
          <5>1. Goto(r, "softpref") \/ Goto(r, "solving") \/ Goto(r, "done")
            BY <4>1 DEF PlanResume, TypeOK
          <5> QED BY <5>1
        <4> QED
          BY <2>4, <4>1 DEF Flush, RescuePublish, EditPublish, Abort, PlanStart,
                            SoftprefDone, SolverDone, Writing
      <3> QED BY <3>1, <3>2, LockUntouched
    <2>5. ASSUME NEW p \in Planner, SolverRead(p) PROVE LockHeld'
      <3>1. p \notin Writing /\ \A q \in Request : q # p => base'[q] = base[q]
        BY <2>5 DEF SolverRead, Writing, TypeOK
      <3>2. \A q \in Writing : base'[q] = base[q]
        BY <3>1 DEF Writing
      <3> QED BY <2>5, <3>2, LockUntouched DEF SolverRead, rows
    <2>6. ASSUME NEW r \in Proposer, RescueCommit(r) \/ EditCommit(r) PROVE LockHeld'
      <3>1. /\ Writing' \subseteq Writing
            /\ UNCHANGED base
            /\ status' = [status EXCEPT ![r] = "proposed"]
            /\ status[r] = "absent"
        BY <2>6 DEF RescueCommit, EditCommit, InsertProposal, locals, Goto, Writing,
                    TypeOK, Memory, BeforeCommit
      <3> QED BY <3>1, LockKept DEF TypeOK
    <2>7. ASSUME NEW p \in Planner, SolverCommit(p) PROVE LockHeld'
      <3>1. /\ Writing' \subseteq Writing \ {p} /\ p \in Writing
            /\ UNCHANGED base
            /\ status[p] = "absent"
            /\ \A v \in Request : v # p /\ v # base[p] => status'[v] = status[v]
        BY <2>7 DEF SolverCommit, locals, Goto, Writing, TypeOK, Memory, BeforeCommit
      <3>2. \A q \in Writing \ {p} : base[q] # None => base[q] # base[p]
        BY <3>1 DEF LockHeld
      <3>3. \A q \in Writing \cap Proposer : base[q] \in Request
        BY DEF Writing, Memory, Proposing, TypeOK
      <3> QED BY <3>1, <3>2, <3>3, LockKept
    <2>8. ASSUME NEW e \in Proposer, Approve(e) \/ Reject(e) PROVE LockHeld'
      <3>1. /\ UNCHANGED <<pc, base>>
            /\ status[e] = "proposed" /\ ~RowLocked(parent[e])
            /\ \A v \in Request : v # e /\ v # parent[e] => status'[v] = status[v]
        BY <2>8 DEF Approve, Reject, Decidable, locals, TypeOK
      <3>2. \A q \in Writing \cap Proposer :
               base[q] \in Request /\ base[q] # e /\ base[q] # parent[e]
        BY <3>1 DEF Writing, Memory, Proposing, TypeOK, LockHeld, RowLocked
      <3>3. UNCHANGED Writing
        BY <3>1 DEF Writing
      <3> QED BY <3>1, <3>2, <3>3, LockKept
    <2>9. CASE UNCHANGED vars
      BY <2>9 DEF vars, LockHeld, Writing
    <2> QED
      BY <2>1, <2>2, <2>3, <2>4, <2>5, <2>6, <2>7, <2>8, <2>9
      DEF Next, RescueStep, EditStep, PlanStep
  <1> QED
    BY <1>1, <1>2, TypeCorrect, MemoryHolds, PTL DEF Spec

\* A proposal reaches the group only while the itinerary it was built from is
\* the active one, whatever the other requests committed during the provider
\* calls.
THEOREM FreshProposalHolds == Spec => FreshProposal
  <1>1. TypeOK /\ Memory /\ LockHeld /\ [Next]_vars
        => [\A r \in Proposer : event[r] = "absent" /\ event'[r] = "pending"
                                => status[parent'[r]] = "active"]_vars
    <2> SUFFICES ASSUME TypeOK, Memory, LockHeld, Next,
                        NEW r \in Proposer, event[r] = "absent", event'[r] = "pending"
                 PROVE  status[parent'[r]] = "active"
      OBVIOUS
    <2>1. RescueCommit(r) \/ EditCommit(r)
      <3>1. ASSUME NEW q \in Proposer, RescueCommit(q) \/ EditCommit(q) PROVE q = r
        BY <3>1 DEF RescueCommit, EditCommit, InsertProposal, TypeOK
      <3>2. ASSUME NEW e \in Proposer, Approve(e) \/ Reject(e) PROVE FALSE
        BY <3>2 DEF Approve, Reject, TypeOK
      <3>3. event' # event
        OBVIOUS
      <3> QED
        BY <3>1, <3>2, <3>3, RequestKinds
        DEF Next, RescueStep, EditStep, PlanStep, ProposalStart, RescueLock, EditLock,
            Flush, RescuePublish, EditPublish, PlanStart, PlanResume, SoftprefDone,
            SolverRead, SolverLock, SolverCommit, SolverDone, Abort, rows
    <2>2. r \in Writing /\ parent'[r] = base[r]
      BY <2>1, RequestKinds DEF RescueCommit, EditCommit, InsertProposal, Writing, TypeOK
    <2> QED
      BY <2>2 DEF LockHeld
  <1> QED
    BY <1>1, TypeCorrect, MemoryHolds, LockHeldHolds, PTL DEF Spec, FreshProposal

-----------------------------------------------------------------------------
(***************************************************************************)
(* The event log and the version chain                                     *)
(***************************************************************************)

\* The replan events and the versions they carry never disagree, for any
\* number of requests and decisions.
THEOREM GateRecordsAgreeHolds == Spec => []GateRecordsAgree
  <1>1. Init => GateRecordsAgree
    BY RequestKinds DEF Init, GateRecordsAgree
  <1>2. TypeOK /\ Memory /\ GateRecordsAgree /\ [Next]_vars => GateRecordsAgree'
    <2> SUFFICES ASSUME TypeOK, Memory, GateRecordsAgree, [Next]_vars
                 PROVE  GateRecordsAgree'
      OBVIOUS
    <2> USE RequestKinds
    <2>1. CASE UNCHANGED rows
      BY <2>1 DEF rows, GateRecordsAgree
    <2>2. ASSUME NEW r \in Proposer, RescueCommit(r) \/ EditCommit(r)
          PROVE  GateRecordsAgree'
      <3>1. /\ status' = [status EXCEPT ![r] = "proposed"]
            /\ event' = [event EXCEPT ![r] = "pending"]
        BY <2>2 DEF RescueCommit, EditCommit, InsertProposal
      <3> QED BY <3>1 DEF GateRecordsAgree, TypeOK
    <2>3. ASSUME NEW p \in Planner, SolverCommit(p) PROVE GateRecordsAgree'
      <3>1. /\ UNCHANGED event
            /\ \A e \in Proposer :
                  status'[e] = IF e = base[p] THEN "superseded" ELSE status[e]
        BY <2>3 DEF SolverCommit, TypeOK
      <3>2. \A e \in Proposer : e = base[p] => status[e] \in {"active", "superseded"}
        BY DEF Memory, Adopted
      <3> QED BY <3>1, <3>2 DEF GateRecordsAgree
    <2>4. ASSUME NEW e \in Proposer, Approve(e) PROVE GateRecordsAgree'
      <3>1. /\ status' = [status EXCEPT ![parent[e]] = "superseded", ![e] = "active"]
            /\ event' = [event EXCEPT ![e] = "approved"]
            /\ status[e] = "proposed"
            /\ parent[e] \in Request /\ status[parent[e]] = "active"
        BY <2>4 DEF Approve, Decidable, TypeOK
      <3> QED BY <3>1 DEF GateRecordsAgree, TypeOK
    <2>5. ASSUME NEW e \in Proposer, Reject(e) PROVE GateRecordsAgree'
      <3>1. /\ status' = [status EXCEPT ![e] = "rejected"]
            /\ event' = [event EXCEPT ![e] = "rejected"]
        BY <2>5 DEF Reject
      <3> QED BY <3>1 DEF GateRecordsAgree, TypeOK
    <2> QED
      BY <2>1, <2>2, <2>3, <2>4, <2>5
      DEF Next, RescueStep, EditStep, PlanStep, ProposalStart, RescueLock, EditLock,
          Flush, RescuePublish, EditPublish, PlanStart, PlanResume, SoftprefDone,
          SolverRead, SolverLock, SolverDone, Abort, vars, rows
  <1> QED
    BY <1>1, <1>2, TypeCorrect, MemoryHolds, PTL DEF Spec

-----------------------------------------------------------------------------
(***************************************************************************)
(* Version numbers                                                         *)
(***************************************************************************)

\* The chain is numbered from 1; a request in its writing transaction holds a
\* number no higher than the next one, and exactly the next one from its
\* insert on; the unique index lets one insert be in flight.
Numbering ==
    /\ NumberedOnce
    /\ \A v \in Request : status[v] # "absent" => \E n \in 1..Len(chain) : chain[n] = v
    /\ \A r \in Writing : number[r] <= Len(chain) + 1
    /\ \A r \in Flushed : number[r] = Len(chain) + 1
    /\ \A r, q \in Flushed : r = q

\* A commit appends the one flushed request at the number it holds.
LEMMA NumberingAfterCommit ==
    ASSUME TypeOK, Memory, Numbering, NEW r \in Flushed, status[r] = "absent",
           chain' = Append(chain, r), UNCHANGED number,
           Writing' \subseteq Writing \ {r}, Flushed' \subseteq Flushed \ {r},
           \A v \in Request : v # r => (status'[v] = "absent" <=> status[v] = "absent"),
           \A v \in Request : v # r => parent'[v] = parent[v],
           parent'[r] # None => status[parent'[r]] # "absent",
           parent'[r] \in Request \cup {None}
    PROVE  Numbering'
  <1>1. /\ r \in Request /\ number[r] = Len(chain) + 1
        /\ Len(chain) \in Nat
        /\ \A q \in Request : number[q] \in Nat
        /\ \A v \in Request : parent[v] \in Request \cup {None}
    BY DEF Flushed, Numbering, TypeOK
  <1>2. /\ Len(chain') = Len(chain) + 1
        /\ \A n \in 1..Len(chain) : chain'[n] = chain[n] /\ chain[n] \in Request
        /\ chain'[Len(chain) + 1] = r
    BY <1>1 DEF TypeOK
  <1>3. \A v \in Request : status[v] # "absent" => number[v] <= Len(chain)
    BY <1>1 DEF Numbering, NumberedOnce
  <1>4. \A n \in 1..Len(chain') : number'[chain'[n]] = n
    BY <1>1, <1>2 DEF Numbering, NumberedOnce
  <1>5. \A v \in Request : parent'[v] # None => number'[parent'[v]] < number'[v]
    BY <1>1, <1>3 DEF Numbering, NumberedOnce
  <1>6. \A v \in Request : status'[v] # "absent" => \E n \in 1..Len(chain') : chain'[n] = v
    BY <1>1, <1>2 DEF Numbering
  <1>7. Flushed' = {} /\ \A q \in Writing' : number'[q] <= Len(chain') + 1
    BY <1>1, <1>2 DEF Numbering, Flushed, Writing
  <1> QED
    BY <1>4, <1>5, <1>6, <1>7 DEF Numbering, NumberedOnce

\* A request takes the next number, before anything of it is committed.
LEMMA NumberingAfterLock ==
    ASSUME TypeOK, Memory, Numbering, NEW r \in Request, status[r] = "absent",
           UNCHANGED <<chain, status, parent>>, Goto(r, "locked"),
           number' = [number EXCEPT ![r] = NextVersionNo],
           r \notin Writing
    PROVE  Numbering'
  <1>1. /\ Writing' \subseteq Writing \cup {r} /\ Flushed' \subseteq Flushed
        /\ \A q \in Request : number'[q] = IF q = r THEN Len(chain) + 1 ELSE number[q]
        /\ Len(chain) \in Nat
        /\ Flushed \subseteq Writing
    BY DEF Writing, Flushed, Goto, TypeOK, NextVersionNo
  <1>2. /\ \A n \in 1..Len(chain) : chain[n] \in Request /\ chain[n] # r
        /\ \A v \in Request : parent[v] # None => v # r /\ parent[v] # r
        /\ \A v \in Request : parent[v] \in Request \cup {None}
    BY DEF Memory, TypeOK
  <1>3. NumberedOnce'
    BY <1>1, <1>2 DEF Numbering, NumberedOnce
  <1>4. /\ \A q \in Writing' : number'[q] <= Len(chain') + 1
        /\ \A q \in Flushed' : number'[q] = Len(chain') + 1
    BY <1>1 DEF Numbering, Writing, Flushed
  <1> QED
    BY <1>1, <1>3, <1>4 DEF Numbering

\* A request writes nothing and takes no number.
LEMMA NumberingUntouched ==
    ASSUME TypeOK, Numbering, UNCHANGED <<chain, parent, number>>,
           \A v \in Request : status'[v] = "absent" <=> status[v] = "absent",
           Writing' \subseteq Writing, Flushed' \subseteq Flushed
    PROVE  Numbering'
  BY DEF Numbering, NumberedOnce

\* Every version stands at the number its request computed, above its parent:
\* the unique index and the READ COMMITTED view of the next number are enough,
\* for any number of requests.
THEOREM NumberedOnceHolds == Spec => []NumberedOnce
  <1>1. Init => Numbering
    BY DEF Init, Numbering, NumberedOnce, Writing, Flushed
  <1>2. TypeOK /\ Memory /\ Numbering /\ [Next]_vars => Numbering'
    <2> SUFFICES ASSUME TypeOK, Memory, Numbering, [Next]_vars PROVE Numbering'
      OBVIOUS
    <2> USE RequestKinds
    <2>1. ASSUME NEW r \in Request, RescueLock(r) \/ EditLock(r) \/ SolverLock(r)
          PROVE  Numbering'
      <3>1. /\ UNCHANGED <<chain, status, parent>>
            /\ r \notin Writing /\ status[r] = "absent"
        BY <2>1 DEF RescueLock, EditLock, SolverLock, rows, Writing, Memory, BeforeCommit
      <3>2. CASE Goto(r, "locked") /\ number' = [number EXCEPT ![r] = NextVersionNo]
        BY <3>1, <3>2, NumberingAfterLock
      <3>3. CASE Goto(r, "refused") /\ UNCHANGED number
        <4>1. Writing' \subseteq Writing /\ Flushed' \subseteq Flushed
          BY <3>3 DEF Goto, Writing, Flushed, TypeOK
        <4> QED BY <3>1, <3>3, <4>1, NumberingUntouched
      <3> QED BY <2>1, <3>2, <3>3 DEF RescueLock, EditLock, SolverLock
    <2>2. ASSUME NEW r \in Request, Flush(r) PROVE Numbering'
      <3>1. /\ UNCHANGED <<chain, status, parent, number>>
            /\ pc[r] = "locked" /\ \A q \in Flushed : number[q] # number[r]
        BY <2>2 DEF Flush, rows, locals
      <3>2. CASE number[r] > Len(chain) /\ Goto(r, "flushed")
        <4>1. number[r] = Len(chain) + 1 /\ Flushed = {}
          BY <3>1, <3>2 DEF Numbering, Writing, TypeOK
        <4>2. Writing' \subseteq Writing /\ Flushed' \subseteq {r}
          BY <3>1, <3>2, <4>1 DEF Goto, Writing, Flushed, TypeOK
        <4> QED BY <3>1, <4>1, <4>2 DEF Numbering, NumberedOnce
      <3>3. CASE Goto(r, "refused")
        <4>1. Writing' \subseteq Writing /\ Flushed' \subseteq Flushed
          BY <3>3 DEF Goto, Writing, Flushed, TypeOK
        <4> QED BY <3>1, <4>1, NumberingUntouched
      <3> QED BY <2>2, <3>2, <3>3 DEF Flush
    <2>3. ASSUME NEW r \in Request,
                 \/ ProposalStart(r) \/ RescuePublish(r) \/ EditPublish(r) \/ Abort(r)
                 \/ PlanStart(r) \/ PlanResume(r) \/ SoftprefDone(r)
                 \/ SolverRead(r) \/ SolverDone(r)
          PROVE  Numbering'
      <3>1. UNCHANGED <<chain, status, parent, number>>
        BY <2>3 DEF ProposalStart, RescuePublish, EditPublish, Abort, PlanStart,
                    PlanResume, SoftprefDone, SolverRead, SolverDone, rows, locals
      <3>2. Writing' \subseteq Writing /\ Flushed' \subseteq Flushed
        <4>1. PICK l : /\ Goto(r, l)
                       /\ l \in {"locked", "flushed", "notified"}
                          => l = "notified" /\ pc[r] = "flushed"
          <5>1. CASE PlanResume(r)
            <6>1. Goto(r, "softpref") \/ Goto(r, "solving") \/ Goto(r, "done")
              BY <5>1 DEF PlanResume, TypeOK
            <6> QED BY <6>1
          <5> QED
            BY <2>3, <5>1 DEF ProposalStart, RescuePublish, EditPublish, Abort,
                              PlanStart, SoftprefDone, SolverRead, SolverDone
        <4> QED BY <4>1 DEF Goto, Writing, Flushed, TypeOK
      <3> QED BY <3>1, <3>2, NumberingUntouched
    <2>4. ASSUME NEW r \in Proposer, RescueCommit(r) \/ EditCommit(r) PROVE Numbering'
      <3>1. /\ r \in Flushed /\ status[r] = "absent"
            /\ chain' = Append(chain, r) /\ UNCHANGED number
            /\ status' = [status EXCEPT ![r] = "proposed"]
            /\ parent' = [parent EXCEPT ![r] = base[r]]
            /\ Writing' \subseteq Writing \ {r} /\ Flushed' \subseteq Flushed \ {r}
        BY <2>4 DEF RescueCommit, EditCommit, InsertProposal, locals, Goto, Writing,
                    Flushed, TypeOK, Memory, BeforeCommit
      <3>2. base[r] \in Request \cup {None} /\ (base[r] # None => status[base[r]] # "absent")
        BY DEF TypeOK, Memory, Adopted
      <3>3. /\ \A v \in Request : v # r => status'[v] = status[v] /\ parent'[v] = parent[v]
            /\ parent'[r] = base[r]
        BY <3>1 DEF TypeOK
      <3> QED BY <3>1, <3>2, <3>3, NumberingAfterCommit
    <2>5. ASSUME NEW p \in Planner, SolverCommit(p) PROVE Numbering'
      <3>1. /\ p \in Flushed /\ status[p] = "absent"
            /\ chain' = Append(chain, p) /\ UNCHANGED number
            /\ Writing' \subseteq Writing \ {p} /\ Flushed' \subseteq Flushed \ {p}
        BY <2>5 DEF SolverCommit, locals, Goto, Writing, Flushed, TypeOK, Memory,
                    BeforeCommit
      <3>2. /\ latest[p] \in Request \cup {None}
            /\ latest[p] # None => status[latest[p]] # "absent"
            /\ base[p] # None => status[base[p]] # "absent"
        BY DEF TypeOK, Memory, Adopted
      <3>3. /\ \A v \in Request : v # p => parent'[v] = parent[v]
            /\ parent'[p] = latest[p]
            /\ \A v \in Request : v # p => status'[v] = IF v = base[p] THEN "superseded"
                                                        ELSE status[v]
        BY <2>5 DEF SolverCommit, TypeOK
      <3>4. \A v \in Request : v # p => (status'[v] = "absent" <=> status[v] = "absent")
        BY <3>2, <3>3
      <3> QED BY <3>1, <3>2, <3>3, <3>4, NumberingAfterCommit
    <2>6. ASSUME NEW e \in Proposer, Approve(e) \/ Reject(e) PROVE Numbering'
      <3>1. /\ UNCHANGED <<chain, parent, pc, number>>
            /\ status[e] = "proposed" /\ status[parent[e]] = "active"
            /\ \/ status' = [status EXCEPT ![parent[e]] = "superseded", ![e] = "active"]
               \/ status' = [status EXCEPT ![e] = "rejected"]
        BY <2>6 DEF Approve, Reject, Decidable, locals
      <3>2. \A v \in Request : status'[v] = "absent" <=> status[v] = "absent"
        BY <3>1 DEF TypeOK
      <3>3. UNCHANGED <<Writing, Flushed>>
        BY <3>1 DEF Writing, Flushed
      <3> QED BY <3>1, <3>2, <3>3, NumberingUntouched
    <2>7. CASE UNCHANGED vars
      BY <2>7 DEF vars, Numbering, NumberedOnce, Writing, Flushed
    <2> QED
      BY <2>1, <2>2, <2>3, <2>4, <2>5, <2>6, <2>7
      DEF Next, RescueStep, EditStep, PlanStep
  <1>3. Numbering => NumberedOnce
    BY DEF Numbering
  <1> QED
    BY <1>1, <1>2, <1>3, TypeCorrect, MemoryHolds, PTL DEF Spec

-----------------------------------------------------------------------------
(***************************************************************************)
(* Notices of manual edits                                                 *)
(***************************************************************************)

\* An edit is past its commit when it publishes.
EditNotices ==
    \A r \in Edit : pc[r] = "committed" \/ r \in pushed => event[r] # "absent"

\* A device that hears of a manual edit finds its event, for any number of
\* requests and any failure.
THEOREM EditPushIsDurableHolds == Spec => []EditPushIsDurable
  <1>1. Init => EditNotices
    BY RequestKinds DEF Init, EditNotices
  <1>2. TypeOK /\ EditNotices /\ [Next]_vars => EditNotices'
    <2> SUFFICES ASSUME TypeOK, EditNotices, [Next]_vars PROVE EditNotices'
      OBVIOUS
    <2> USE RequestKinds
    <2>1. ASSUME NEW r \in Request, pushed' \subseteq pushed, UNCHANGED event,
                 NEW l, Goto(r, l), l # "committed"
          PROVE  EditNotices'
      BY <2>1 DEF EditNotices, Goto, TypeOK
    <2>2. ASSUME NEW r \in Request,
                 \/ RescueLock(r) \/ EditLock(r) \/ Flush(r) \/ Abort(r)
                 \/ ProposalStart(r) \/ PlanStart(r) \/ SoftprefDone(r)
                 \/ SolverRead(r) \/ SolverLock(r) \/ SolverCommit(r) \/ SolverDone(r)
          PROVE  EditNotices'
      BY <2>1, <2>2
      DEF RescueLock, EditLock, Flush, Abort, ProposalStart, PlanStart, SoftprefDone,
          SolverRead, SolverLock, SolverCommit, SolverDone, rows
    <2>3. ASSUME NEW p \in Planner, PlanResume(p) PROVE EditNotices'
      <3>1. Goto(p, "softpref") \/ Goto(p, "solving") \/ Goto(p, "done")
        BY <2>3 DEF PlanResume, TypeOK
      <3>2. UNCHANGED <<pushed, event>>
        BY <2>3 DEF PlanResume, rows
      <3> QED BY <2>1, <3>1, <3>2
    <2>4. ASSUME NEW r \in Rescue, RescuePublish(r) PROVE EditNotices'
      <3>1. r \notin Edit
        BY RequestAssumption
      <3> QED BY <2>4, <3>1 DEF RescuePublish, Goto, rows, EditNotices, TypeOK
    <2>5. ASSUME NEW r \in Edit, EditPublish(r) PROVE EditNotices'
      BY <2>5 DEF EditPublish, Goto, rows, EditNotices, TypeOK
    <2>6. ASSUME NEW r \in Proposer, RescueCommit(r) \/ EditCommit(r) PROVE EditNotices'
      BY <2>6 DEF RescueCommit, EditCommit, InsertProposal, Goto, EditNotices, TypeOK
    <2>7. ASSUME NEW e \in Proposer, Approve(e) \/ Reject(e) PROVE EditNotices'
      BY <2>7 DEF Approve, Reject, EditNotices, TypeOK
    <2>8. CASE UNCHANGED vars
      BY <2>8 DEF vars, EditNotices
    <2> QED
      BY <2>2, <2>3, <2>4, <2>5, <2>6, <2>7, <2>8 DEF Next, RescueStep, EditStep, PlanStep
  <1>3. EditNotices => EditPushIsDurable
    BY DEF EditNotices, EditPushIsDurable
  <1> QED
    BY <1>1, <1>2, <1>3, TypeCorrect, PTL DEF Spec

=============================================================================
