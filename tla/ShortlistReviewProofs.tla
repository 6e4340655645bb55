------------------------ MODULE ShortlistReviewProofs ------------------------
(***************************************************************************)
(* What holds of ShortlistReview for any number of travelers, selections   *)
(* and requests, and of Ballot, which makes the shortlist under review,    *)
(* for any members, cards and lanes.                                       *)
(***************************************************************************)
EXTENDS ShortlistReview, Ballot, FiniteSetTheorems, WellFoundedInduction, TLAPS

\* Past the shortlist node a shortlist is loaded: in the checkpoint, in every
\* run of the graph that resumed it and in every plan about to be handed to it.
Loaded ==
    /\ next \notin {"none", "aggregate", "shortlist"} => given # None
    /\ \A r \in Runner :
          pc[r] \in {"stored", "softpref", "solver", "solved", "explain", "update"}
          => carry[r] # None
    /\ \A e \in Editor : pc[e] = "checked" => carry[e] # None
    /\ at => sel # None

\* The handlers and the graph keep every column and local in its type, and no
\* itinerary is solved without a shortlist.
THEOREM TypeCorrect == Spec => []TypeOK
  <1>1. Init => TypeOK
    <2> SUFFICES ASSUME Init PROVE TypeOK
      OBVIOUS
    <2>1. read \in [Reader -> [sel : Selection \cup {None}, by : SUBSET Traveler,
                               at : BOOLEAN]]
      <3>1. NoRow \in [sel : Selection \cup {None}, by : SUBSET Traveler, at : BOOLEAN]
        BY DEF NoRow
      <3> QED BY <3>1 DEF Init
    <2>2. acked \in [Traveler -> SUBSET Selection]
      BY DEF Init
    <2> QED BY <2>1, <2>2 DEF Init, TypeOK
  <1>2. TypeOK /\ Loaded /\ [Next]_vars => TypeOK'
    <2> SUFFICES ASSUME TypeOK, Loaded, [Next]_vars PROVE TypeOK'
      OBVIOUS
    <2> USE DEF TypeOK, Goto, Checkpoint, row, thread, history
    <2>1. ASSUME NEW r \in Runner, GraphStep(r) PROVE TypeOK'
      <3> r \in Request
        BY DEF Request
      <3>1. CASE Resume(r)           BY <3>1 DEF Resume
      <3>2. CASE AggregateDone(r)    BY <3>2 DEF AggregateDone
      <3>3. CASE ShortlistStored(r)  
        <4>1. PICK s \in Selection : sel' = s /\ carry' = [carry EXCEPT ![r] = s]
          BY <3>3 DEF ShortlistStored
        <4>2. /\ by' = {} /\ at' = FALSE
              /\ pc' = [pc EXCEPT ![r] = "stored"]
              /\ UNCHANGED <<members, stage, next, given, whole, planned, read, acked, quorate, strayed>>
          BY <3>3 DEF ShortlistStored
        <4> QED BY <4>1, <4>2
      <3>4. CASE ShortlistDone(r)    BY <3>4 DEF ShortlistDone
      <3>5. CASE SoftprefDone(r)     BY <3>5 DEF SoftprefDone
      <3>6. CASE SolverCommit(r)     BY <3>6 DEF SolverCommit, Loaded
      <3>7. CASE SolverDone(r)       BY <3>7 DEF SolverDone
      <3>8. CASE ExplainDone(r)      BY <3>8 DEF ExplainDone
      <3> QED
        BY <2>1, <3>1, <3>2, <3>3, <3>4, <3>5, <3>6, <3>7, <3>8 DEF GraphStep
    <2>2. ASSUME NEW b \in Builder, BuildStart(b) \/ BuildEnd(b) PROVE TypeOK'
      BY <2>2 DEF BuildStart, BuildEnd, Request, Runner
    <2>3. ASSUME NEW p \in Planner, PlanStart(p) \/ PlanUpdate(p) \/ PlanEnd(p)
          PROVE  TypeOK'
      <3> p \in Request
        BY DEF Request, Runner
      <3>1. CASE PlanStart(p)
        <4>1. UNCHANGED <<sel, by, at, members, stage, next, given, whole, planned, read, acked,
                        quorate, strayed>>
          BY <3>1 DEF PlanStart
        <4>2. carry' \in [Request -> Selection \cup {None}]
          BY <3>1 DEF PlanStart
        <4>3. pc' = [pc EXCEPT ![p] = "update"] \/ pc' = [pc EXCEPT ![p] = "ran"]
          BY <3>1 DEF PlanStart
        <4> QED BY <4>1, <4>2, <4>3
      <3>2. CASE PlanUpdate(p)  BY <3>2 DEF PlanUpdate
      <3>3. CASE PlanEnd(p)     BY <3>3 DEF PlanEnd
      <3> QED BY <2>3, <3>1, <3>2, <3>3
    <2>4. ASSUME NEW e \in Editor, EditRead(e) \/ EditWrite(e) PROVE TypeOK'
      <3> e \in Request /\ e \in Reader
        BY DEF Request, Reader
      <3>r. read[e] \in [sel : Selection \cup {None}, by : SUBSET Traveler, at : BOOLEAN]
        OBVIOUS
      <3>1. CASE EditRead(e)
        <4>1. PICK s \in Selection : carry' = [carry EXCEPT ![e] = s]
          BY <3>1 DEF EditRead
        <4>2. /\ read' = [read EXCEPT ![e] = [sel |-> sel, by |-> by, at |-> at]]
              /\ pc' = [pc EXCEPT ![e] = "checked"]
              /\ UNCHANGED <<sel, by, at, members, stage, next, given, whole, planned, acked,
                            quorate, strayed>>
          BY <3>1 DEF EditRead
        <4>3. [sel |-> sel, by |-> by, at |-> at]
              \in [sel : Selection \cup {None}, by : SUBSET Traveler, at : BOOLEAN]
          OBVIOUS
        <4> QED BY <4>1, <4>2, <4>3
      <3>2. CASE EditWrite(e)  BY <3>r, <3>2 DEF EditWrite
      <3> QED BY <2>4, <3>1, <3>2
    <2>5. ASSUME NEW t \in Traveler, Confirm(t) PROVE TypeOK'
      BY <2>5 DEF Confirm
    <2>6. ASSUME NEW r \in Request, Abort(r) PROVE TypeOK'
      BY <2>6 DEF Abort
    <2>7. ASSUME NEW t \in Leaver, LeaveRead(t) \/ LeaveErase(t) \/ LeaveCommit(t)
          PROVE  TypeOK'
      <3> t \in Request /\ t \in Reader /\ t \in Traveler
        BY ReviewAssumption DEF Request, Reader
      <3>r. read[t] \in [sel : Selection \cup {None}, by : SUBSET Traveler, at : BOOLEAN]
        OBVIOUS
      <3>1. CASE LeaveRead(t)
        <4>1. [sel |-> sel, by |-> by, at |-> at]
              \in [sel : Selection \cup {None}, by : SUBSET Traveler, at : BOOLEAN]
          OBVIOUS
        <4> QED BY <3>1, <4>1 DEF LeaveRead
      <3>2. CASE LeaveErase(t)   BY <3>2 DEF LeaveErase
      <3>3. CASE LeaveCommit(t)
        <4>1. by' \subseteq Traveler /\ strayed' \subseteq Traveler
          BY <3>r, <3>3 DEF LeaveCommit
        <4> QED BY <3>3, <4>1 DEF LeaveCommit
      <3> QED BY <2>7, <3>1, <3>2, <3>3
    <2>8. CASE UNCHANGED vars
      BY <2>8 DEF vars
    <2> QED
      BY <2>1, <2>2, <2>3, <2>4, <2>5, <2>6, <2>7, <2>8 DEF Next
  <1>3. Init => Loaded
    BY DEF Init, Loaded, Request, Runner, Reader
  <1>4. TypeOK /\ Loaded /\ [Next]_vars => Loaded'
    <2> SUFFICES ASSUME TypeOK, Loaded, [Next]_vars PROVE Loaded'
      OBVIOUS
    <2> USE ReviewAssumption DEF Goto, Checkpoint, row, thread, history, Request, Runner, Reader
    <2>p. pc = [r \in Request |-> pc[r]] /\ carry \in [Request -> Selection \cup {None}]
      BY DEF TypeOK
    <2>1. ASSUME NEW r \in Runner, GraphStep(r) PROVE Loaded'
      <3>1. CASE Resume(r)           BY <2>p, <3>1 DEF Resume, Loaded
      <3>2. CASE AggregateDone(r)    BY <2>p, <3>2 DEF AggregateDone, Loaded
      <3>3. CASE ShortlistStored(r)  BY <2>p, <3>3 DEF ShortlistStored, Loaded
      <3>4. CASE ShortlistDone(r)    BY <2>p, <3>4 DEF ShortlistDone, Loaded
      <3>5. CASE SoftprefDone(r)     BY <2>p, <3>5 DEF SoftprefDone, Loaded
      <3>6. CASE SolverCommit(r)     BY <2>p, <3>6 DEF SolverCommit, Loaded
      <3>7. CASE SolverDone(r)       BY <2>p, <3>7 DEF SolverDone, Loaded
      <3>8. CASE ExplainDone(r)      BY <2>p, <3>8 DEF ExplainDone, Loaded
      <3> QED
        BY <2>1, <3>1, <3>2, <3>3, <3>4, <3>5, <3>6, <3>7, <3>8 DEF GraphStep
    <2>2. ASSUME NEW b \in Builder, BuildStart(b) \/ BuildEnd(b) PROVE Loaded'
      BY <2>p, <2>2 DEF BuildStart, BuildEnd, Loaded
    <2>3. ASSUME NEW p \in Planner, PlanStart(p) \/ PlanUpdate(p) \/ PlanEnd(p)
          PROVE  Loaded'
      BY <2>p, <2>3 DEF PlanStart, PlanUpdate, PlanEnd, IsConfirmed, Loaded
    <2>4. ASSUME NEW e \in Editor, EditRead(e) \/ EditWrite(e) PROVE Loaded'
      BY <2>p, <2>4 DEF EditRead, EditWrite, Loaded
    <2>5. ASSUME NEW t \in Traveler, Confirm(t) PROVE Loaded'
      BY <2>p, <2>5 DEF Confirm, Loaded
    <2>6. ASSUME NEW r \in Request, Abort(r) PROVE Loaded'
      BY <2>p, <2>6 DEF Abort, Loaded
    <2>7. ASSUME NEW t \in Leaver, LeaveRead(t) \/ LeaveErase(t) \/ LeaveCommit(t)
          PROVE  Loaded'
      BY <2>p, <2>7 DEF LeaveRead, LeaveErase, LeaveCommit, Loaded
    <2>8. CASE UNCHANGED vars
      BY <2>8 DEF vars, Loaded
    <2> QED
      BY <2>1, <2>2, <2>3, <2>4, <2>5, <2>6, <2>7, <2>8 DEF Next
  <1> QED
    BY <1>1, <1>2, <1>3, <1>4, PTL DEF Spec

\* A row that says it was confirmed, or a copy of it, had the quorum.
RowsQuorate ==
    /\ at => sel \in quorate
    /\ \A r \in Reader : read[r].at => read[r].sel \in quorate

LEMMA RowsQuorateKept == TypeOK /\ RowsQuorate /\ [Next]_vars => RowsQuorate'
  <1> SUFFICES ASSUME TypeOK, RowsQuorate, [Next]_vars PROVE RowsQuorate'
    OBVIOUS
  <1> USE DEF row, thread, history, Goto, RowsQuorate
  <1>1. ASSUME UNCHANGED <<sel, at, read, quorate>> PROVE RowsQuorate'
    BY <1>1
  <1>2. ASSUME NEW r \in Runner, GraphStep(r) PROVE RowsQuorate'
    BY <1>2 DEF GraphStep, Resume, AggregateDone, ShortlistStored, ShortlistDone, SoftprefDone,
                SolverCommit, SolverDone, ExplainDone
  <1>3. ASSUME NEW r \in Request,
               \/ BuildStart(r) \/ BuildEnd(r) \/ PlanStart(r) \/ PlanUpdate(r) \/ PlanEnd(r)
               \/ Abort(r) \/ LeaveErase(r) \/ LeaveCommit(r)
        PROVE  UNCHANGED <<sel, at, read, quorate>>
    BY <1>3 DEF BuildStart, BuildEnd, PlanStart, PlanUpdate, PlanEnd, Abort, LeaveErase, LeaveCommit
  <1>4. ASSUME NEW r \in Reader, EditRead(r) \/ LeaveRead(r) PROVE RowsQuorate'
    <2>1. /\ UNCHANGED <<sel, at, quorate>>
          /\ read' = [read EXCEPT ![r] = [sel |-> sel, by |-> by, at |-> at]]
      BY <1>4 DEF EditRead, LeaveRead
    <2>2. QED
      BY <2>1 DEF TypeOK
  <1>5. ASSUME NEW e \in Editor, EditWrite(e) PROVE RowsQuorate'
    BY <1>5 DEF EditWrite, Reader
  <1>6. ASSUME NEW t \in Traveler, Confirm(t) PROVE RowsQuorate'
    BY <1>6 DEF Confirm
  <1>7. QED
    BY <1>1, <1>2, <1>3, <1>4, <1>5, <1>6 DEF Next, vars, Request, Runner, Reader

\* A row whose acknowledgments are for its selection, those aside that a
\* deletion wrote beside another.
Backed(s, travelers) == \A t \in travelers \ strayed : s \in acked[t]

\* The stored row is backed, and so is every row a request still holds,
\* however long ago it was read.
RowsBacked ==
    /\ Backed(sel, by)
    /\ \A r \in Reader : Backed(read[r].sel, read[r].by)

\* A step that writes no row keeps them backed.
LEMMA BackedUntouched ==
    ASSUME RowsBacked, UNCHANGED <<sel, by, read, acked, strayed>>
    PROVE  RowsBacked'
  BY DEF RowsBacked, Backed

\* Nobody's acknowledgment ever stands beside a selection it was not given
\* for, save where a deletion wrote it from a row that had been replaced, and
\* confirmed_at stands beside a selection that had the quorum: not even an edit
\* that writes back a row it read before others confirmed or replaced it, or
\* before a member left, breaks that.
THEOREM AcksMatchSelectionHolds == Spec => []AcksMatchSelection
  <1>1. Init => RowsBacked /\ RowsQuorate
    BY DEF Init, RowsBacked, Backed, RowsQuorate, NoRow
  <1>2. TypeOK /\ RowsBacked /\ [Next]_vars => RowsBacked'
    <2> SUFFICES ASSUME TypeOK, RowsBacked, [Next]_vars PROVE RowsBacked'
      OBVIOUS
    <2>1. ASSUME NEW r \in Runner, GraphStep(r), ~ShortlistStored(r) PROVE RowsBacked'
      BY <2>1, BackedUntouched
      DEF GraphStep, Resume, AggregateDone, ShortlistDone, SoftprefDone, SolverCommit,
          SolverDone, ExplainDone, row, history
    <2>2. ASSUME NEW r \in Runner, ShortlistStored(r) PROVE RowsBacked'
      <3>1. by' = {} /\ UNCHANGED <<read, acked, strayed>>
        BY <2>2 DEF ShortlistStored, history
      <3> QED BY <3>1 DEF RowsBacked, Backed
    <2>3. ASSUME NEW r \in Request,
                 \/ BuildStart(r) \/ BuildEnd(r) \/ PlanStart(r) \/ PlanUpdate(r)
                 \/ PlanEnd(r) \/ Abort(r) \/ LeaveErase(r)
          PROVE  RowsBacked'
      BY <2>3, BackedUntouched
      DEF BuildStart, BuildEnd, PlanStart, PlanUpdate, PlanEnd, Abort, LeaveErase, row, history
    <2>4. ASSUME NEW r \in Reader, EditRead(r) \/ LeaveRead(r) PROVE RowsBacked'
      <3>1. /\ UNCHANGED <<sel, by, at, acked, strayed>>
            /\ read' = [read EXCEPT ![r] = [sel |-> sel, by |-> by, at |-> at]]
        BY <2>4 DEF EditRead, LeaveRead, row, history
      <3> QED BY <3>1 DEF RowsBacked, Backed, TypeOK
    <2>5. ASSUME NEW e \in Editor, EditWrite(e) PROVE RowsBacked'
      <3>1. /\ UNCHANGED <<read, acked, strayed>>
            /\ sel' = carry[e]
            /\ by' = IF carry[e] = read[e].sel THEN read[e].by ELSE {}
        BY <2>5 DEF EditWrite, history
      <3>2. Backed(read[e].sel, read[e].by)
        BY DEF RowsBacked, Reader
      <3> QED BY <3>1, <3>2 DEF RowsBacked, Backed
    <2>6. ASSUME NEW t \in Traveler, Confirm(t) PROVE RowsBacked'
      <3>1. /\ UNCHANGED <<sel, read, strayed>>
            /\ by' = by \cup {t}
            /\ acked' = [acked EXCEPT ![t] = @ \cup {sel}]
        BY <2>6 DEF Confirm
      <3>2. /\ \A u \in Traveler : acked[u] \subseteq acked'[u]
            /\ sel \in acked'[t]
        BY <3>1 DEF TypeOK
      <3>3. Backed(sel, by)'
        BY <3>1, <3>2 DEF RowsBacked, Backed, TypeOK
      <3>4. \A r \in Reader : read[r].by \subseteq Traveler
        BY DEF TypeOK
      <3>5. \A r \in Reader : Backed(read[r].sel, read[r].by)'
        BY <3>1, <3>2, <3>4 DEF RowsBacked, Backed
      <3> QED BY <3>3, <3>5 DEF RowsBacked
    <2>7. ASSUME NEW t \in Leaver, LeaveCommit(t) PROVE RowsBacked'
      <3>1. UNCHANGED <<sel, read, acked>> /\ strayed \subseteq strayed'
        BY <2>7 DEF LeaveCommit
      <3>2. \A r \in Reader : Backed(read[r].sel, read[r].by)'
        BY <3>1 DEF RowsBacked, Backed
      <3>3. Backed(sel, by)'
        <4>1. CASE t \notin read[t].by
          BY <2>7, <3>1, <4>1 DEF LeaveCommit, RowsBacked, Backed
        <4>2. CASE t \in read[t].by /\ read[t].sel = sel
          <5>1. by' \subseteq read[t].by /\ strayed' = strayed
            BY <2>7, <4>2 DEF LeaveCommit
          <5>2. Backed(read[t].sel, read[t].by)
            BY DEF RowsBacked, Reader
          <5> QED BY <3>1, <4>2, <5>1, <5>2 DEF Backed
        <4>3. CASE t \in read[t].by /\ read[t].sel # sel
          BY <2>7, <4>3 DEF LeaveCommit, Backed
        <4> QED BY <4>1, <4>2, <4>3
      <3> QED BY <3>2, <3>3 DEF RowsBacked
    <2>8. CASE UNCHANGED vars
      BY <2>8, BackedUntouched DEF vars, row, history
    <2> QED
      BY <2>1, <2>2, <2>3, <2>4, <2>5, <2>6, <2>7, <2>8 DEF Next, Request, Runner, Reader
  <1>3. RowsBacked /\ RowsQuorate => AcksMatchSelection
    BY DEF RowsBacked, Backed, RowsQuorate, AcksMatchSelection
  <1> QED
    BY <1>1, <1>2, <1>3, RowsQuorateKept, TypeCorrect, PTL DEF Spec

-----------------------------------------------------------------------------
\* One build.  The endpoint does not keep two builds of a trip apart
\* (review_two_builds), and with two the graph runs past the interrupt unasked.
OneBuild == \A b, c \in Builder : b = c

\* The build takes the thread from one interrupt to the other and no further,
\* and no plan is under way meanwhile.
BuildStops ==
    \A b \in Builder :
        /\ pc[b] \in {"idle", "resume", "aggregate", "shortlist", "stored", "ran", "done"}
        /\ pc[b] \in {"resume", "aggregate"} => next \in {"none", "aggregate"}
        /\ pc[b] \in {"shortlist", "stored"} => next \in {"none", "shortlist"}
        /\ pc[b] \in {"resume", "aggregate", "shortlist", "stored"} =>
              \A p \in Planner : pc[p] \in {"idle", "done"}

\* A plan runs behind the review interrupt, on a shortlist that had the quorum.
PlansQuorate ==
    /\ \A p \in Planner :
          /\ pc[p] \in {"idle", "update", "resume", "softpref", "solver", "solved",
                        "explain", "ran", "done"}
          /\ pc[p] \notin {"idle", "done"} => next \notin {"aggregate", "shortlist"}
          /\ pc[p] \in {"update", "softpref", "solver", "solved", "explain"} => carry[p] \in quorate
          /\ pc[p] = "resume" /\ whole => given \in quorate
    /\ next \in {"solver", "explain", "end"} => given \in quorate

GateInv == RowsQuorate /\ BuildStops /\ PlansQuorate /\ PlannedHadQuorum

LEMMA GateInit == Init => GateInv
  BY ReviewAssumption
  DEF Init, GateInv, RowsQuorate, BuildStops, PlansQuorate, PlannedHadQuorum, NoRow, Request, Runner,
      Reader

LEMMA GateKept ==
    ASSUME OneBuild, TypeOK, GateInv, [Next]_vars
    PROVE  BuildStops' /\ PlansQuorate' /\ PlannedHadQuorum'
  <1> DEFINE Kept == BuildStops' /\ PlansQuorate' /\ PlannedHadQuorum'
  <1>0. /\ RowsQuorate /\ BuildStops /\ PlansQuorate /\ PlannedHadQuorum
        /\ pc = [r \in Request |-> pc[r]] /\ carry \in [Request -> Selection \cup {None}]
        /\ next \in {"none", "aggregate", "shortlist", "softpref", "solver", "explain", "end"}
        /\ Builder \cap Planner = {} /\ Builder \cap Editor = {} /\ Editor \cap Planner = {}
        /\ Builder \cap Leaver = {} /\ Planner \cap Leaver = {}
        /\ whole => next # "none"
    BY ReviewAssumption DEF GateInv, TypeOK
  <1> USE <1>0 DEF BuildStops, PlansQuorate, PlannedHadQuorum, row, thread, history, Goto,
                   Checkpoint, Request, Runner, Reader
  <1>1. CASE UNCHANGED vars
    BY <1>1 DEF vars
  <1>2. ASSUME NEW b \in Builder, GraphStep(b) PROVE Kept
    <2>1. CASE Resume(b)
      BY <2>1 DEF Resume, OneBuild
    <2>2. CASE AggregateDone(b)
      <3>1. /\ pc[b] = "aggregate" /\ next' = "shortlist"
            /\ pc' = [pc EXCEPT ![b] = "shortlist"]
            /\ UNCHANGED <<carry, planned, quorate>>
        BY <2>2 DEF AggregateDone
      <3>2. \A p \in Planner : pc[p] \in {"idle", "done"}
        BY <3>1
      <3>3. BuildStops'
        BY <3>1 DEF OneBuild
      <3>4. QED
        BY <3>1, <3>2, <3>3
    <2>3. CASE ShortlistStored(b)
      BY <2>3 DEF ShortlistStored, OneBuild
    <2>4. CASE ShortlistDone(b)
      BY <2>4 DEF ShortlistDone, OneBuild
    <2>5. CASE SoftprefDone(b) \/ SolverCommit(b) \/ SolverDone(b) \/ ExplainDone(b)
      BY <2>5 DEF SoftprefDone, SolverCommit, SolverDone, ExplainDone
    <2>6. QED
      BY <1>2, <2>1, <2>2, <2>3, <2>4, <2>5 DEF GraphStep
  <1>3. ASSUME NEW p \in Planner, GraphStep(p) PROVE Kept
    <2>1. CASE Resume(p)
      BY <2>1 DEF Resume
    <2>2. CASE SoftprefDone(p) \/ SolverDone(p) \/ ExplainDone(p)
      BY <2>2 DEF SoftprefDone, SolverDone, ExplainDone
    <2>3. CASE SolverCommit(p)
      BY <2>3 DEF SolverCommit
    <2>4. CASE AggregateDone(p) \/ ShortlistStored(p) \/ ShortlistDone(p)
      BY <2>4 DEF AggregateDone, ShortlistStored, ShortlistDone
    <2>5. QED
      BY <1>3, <2>1, <2>2, <2>3, <2>4 DEF GraphStep
  <1>4. ASSUME NEW b \in Builder, BuildStart(b) \/ BuildEnd(b) PROVE Kept
    BY <1>4 DEF OneBuild, BuildStart, BuildEnd
  <1>5. ASSUME NEW p \in Planner, PlanStart(p) \/ PlanUpdate(p) \/ PlanEnd(p) PROVE Kept
    <2>1. CASE PlanStart(p)
      <3>1. /\ pc[p] = "idle" /\ at /\ next \in {"softpref", "end"}
            /\ \/ carry' = [carry EXCEPT ![p] = sel] /\ pc' = [pc EXCEPT ![p] = "update"]
               \/ carry' = carry /\ pc' = [pc EXCEPT ![p] = "ran"]
            /\ UNCHANGED <<next, given, whole, planned, quorate>>
        BY <2>1 DEF PlanStart, IsConfirmed
      <3>2. BuildStops'
        <4>1. \A b \in Builder : pc'[b] = pc[b] /\ pc[b] \notin {"resume", "aggregate", "shortlist", "stored"}
          BY <3>1
        <4> QED BY <3>1, <4>1
      <3>3. PlansQuorate' /\ PlannedHadQuorum'
        BY <3>1 DEF RowsQuorate
      <3> QED BY <3>2, <3>3
    <2>2. CASE PlanUpdate(p)
      BY <2>2 DEF PlanUpdate
    <2>3. CASE PlanEnd(p)
      BY <2>3 DEF PlanEnd
    <2> QED BY <1>5, <2>1, <2>2, <2>3
  <1>6. ASSUME NEW e \in Editor, EditRead(e) \/ EditWrite(e) PROVE Kept
    <2>1. \A r \in Builder \cup Planner : pc'[r] = pc[r] /\ carry'[r] = carry[r]
      BY <1>6 DEF EditRead, EditWrite
    <2>2. UNCHANGED <<planned, quorate, next, given, whole>>
      BY <1>6 DEF EditRead, EditWrite
    <2> QED BY <2>1, <2>2
  <1>7. ASSUME NEW t \in Traveler, Confirm(t) PROVE Kept
    BY <1>7 DEF Confirm
  <1>8. ASSUME NEW r \in Request, Abort(r) PROVE Kept
    BY <1>8 DEF Abort
  <1>9. ASSUME NEW t \in Leaver, LeaveRead(t) \/ LeaveErase(t) \/ LeaveCommit(t) PROVE Kept
    <2>1. \A r \in Builder \cup Planner : pc'[r] = pc[r] /\ carry'[r] = carry[r]
      BY <1>9 DEF LeaveRead, LeaveErase, LeaveCommit
    <2>2. UNCHANGED <<planned, quorate>>
      BY <1>9 DEF LeaveRead, LeaveErase, LeaveCommit
    <2>3. UNCHANGED <<next, given, whole>> \/ (next' = "none" /\ whole' = FALSE)
      BY <1>9 DEF LeaveRead, LeaveErase, LeaveCommit
    <2> QED BY <2>1, <2>2, <2>3
  <1>10. QED
    BY <1>1, <1>2, <1>3, <1>4, <1>5, <1>6, <1>7, <1>8, <1>9 DEF Next

\* With one build, and any number of edits and plans beside it, only a selection
\* that had the quorum is ever solved (plan_trip's check, stale by then or not,
\* and whoever leaves the trip meanwhile).
THEOREM PlannedHadQuorumHolds ==
    ASSUME OneBuild
    PROVE  Spec => []PlannedHadQuorum
  <1>1. TypeOK /\ GateInv /\ [Next]_vars => GateInv'
    BY GateKept, RowsQuorateKept DEF GateInv
  <1>2. GateInv => PlannedHadQuorum
    BY DEF GateInv
  <1>3. QED
    BY <1>1, <1>2, GateInit, TypeCorrect, PTL DEF Spec

\* With one build the graph goes on past the shortlist only for a group that has
\* confirmed one: the second build is what review_two_builds needs.
THEOREM GroupOpensTheGateHolds ==
    ASSUME OneBuild
    PROVE  Spec => []GroupOpensTheGate
  <1>1. TypeOK /\ GateInv /\ [Next]_vars => GateInv'
    BY GateKept, RowsQuorateKept DEF GateInv
  <1>2. GateInv => GroupOpensTheGate
    BY DEF GateInv, PlansQuorate, GroupOpensTheGate
  <1>3. QED
    BY <1>1, <1>2, GateInit, TypeCorrect, PTL DEF Spec

(***************************************************************************)
(* Ballot: the arithmetic of the spread                                    *)
(***************************************************************************)

LEMMA ProductRange ==
    ASSUME NEW x \in Nat, NEW y \in Nat, NEW e \in Int, -y <= e, e <= y
    PROVE  x * e \in Int /\ -(x * y) <= x * e /\ x * e <= x * y
  BY Z3

LEMMA SignOfSum ==
    ASSUME NEW n \in Nat \ {0}, NEW p \in Nat \ {0}, NEW m \in Nat \ {0},
           NEW a \in Int, NEW b \in Int, NEW x \in Int,
           n * x = p * a + m * b, a <= 0, b <= 0
    PROVE  x <= 0 /\ (x = 0 => a = 0 /\ b = 0)
  <1>1. p * a \in Int /\ m * b \in Int /\ p * a <= 0 /\ m * b <= 0
    BY Z3
  <1>2. x <= 0
    BY <1>1, Z3
  <1>3. ASSUME x = 0 PROVE a = 0 /\ b = 0
    <2>1. p * a = 0 /\ m * b = 0
      BY <1>1, <1>3, Z3
    <2>2. QED
      BY <2>1, Z3
  <1>4. QED
    BY <1>2, <1>3

\* Through a third card: who comes before whom is settled by the fractions.
LEMMA SpreadThrough ==
    ASSUME NEW i \in Nat, NEW j \in Nat, NEW k \in Nat,
           NEW m \in Nat \ {0}, NEW n \in Nat \ {0}, NEW p \in Nat \ {0},
           Spread(i, m, j, n) <= 0, Spread(j, n, k, p) <= 0
    PROVE  /\ Spread(i, m, k, p) \in Int /\ Spread(i, m, k, p) <= 0
           /\ Spread(i, m, k, p) = 0 => Spread(i, m, j, n) = 0 /\ Spread(j, n, k, p) = 0
  <1> DEFINE a == Spread(i, m, j, n)
             b == Spread(j, n, k, p)
             x == Spread(i, m, k, p)
  <1>1. a \in Int /\ b \in Int /\ x \in Int
    BY DEF Spread
  <1>2. n * x = p * a + m * b
    BY Z3 DEF Spread
  <1>3. a <= 0 /\ b <= 0
    OBVIOUS
  <1> HIDE DEF a, b, x
  <1>4. x <= 0 /\ (x = 0 => a = 0 /\ b = 0)
    BY <1>1, <1>2, <1>3, SignOfSum
  <1>5. QED
    BY <1>1, <1>4 DEF a, b, x

LEMMA SpreadBack ==
    ASSUME NEW i \in Nat, NEW j \in Nat, NEW m \in Nat, NEW n \in Nat
    PROVE  Spread(i, m, j, n) \in Int /\ Spread(i, m, j, n) = -Spread(j, n, i, m)
  BY DEF Spread

LEMMA SpreadWithin ==
    ASSUME NEW i \in Nat, NEW j \in Nat, NEW n \in Nat \ {0}
    PROVE  /\ Spread(i, n, j, n) < 0 <=> i < j
           /\ Spread(i, n, j, n) = 0 <=> i = j
  <1> DEFINE e == i - j
  <1>1. e \in Int /\ Spread(i, n, j, n) = 2 * (n * e)
    BY Z3 DEF Spread
  <1>2. (e < 0 <=> i < j) /\ (e = 0 <=> i = j)
    OBVIOUS
  <1> HIDE DEF e
  <1>3. n * e \in Int /\ (n * e < 0 <=> e < 0) /\ (n * e = 0 <=> e = 0)
    BY <1>1, Z3
  <1>4. QED
    BY <1>1, <1>2, <1>3

\* A card of a lane of m has i before it.  Of another lane of n, k cards are
\* before that card when the last of them is and the next one is not.
LEMMA LaneShare ==
    ASSUME NEW m \in Nat \ {0}, NEW i \in 0..(m - 1), NEW n \in Nat, NEW k \in 0..n,
           k = 0 \/ Spread(k - 1, n, i, m) <= 0,
           k = n \/ Spread(i, m, k, n) <= 0
    PROVE  /\ 2 * m * k - n * (2 * i + 1) \in Int
           /\ -m <= 2 * m * k - n * (2 * i + 1) /\ 2 * m * k - n * (2 * i + 1) <= m
  <1>1. 2 * m * k - n * (2 * i + 1) \in Int
    OBVIOUS
  <1>2. 2 * m * k - n * (2 * i + 1) <= m
    <2>1. CASE k = 0
      <3>1. n * (2 * i + 1) \in Int /\ n * (2 * i + 1) >= 0
        BY Z3
      <3>2. QED
        BY <2>1, <3>1
    <2>2. CASE Spread(k - 1, n, i, m) <= 0
      <3>1. Spread(k - 1, n, i, m) = 2 * m * k - m - n * (2 * i + 1)
        BY Z3 DEF Spread
      <3>2. QED
        BY <2>2, <3>1
    <2>3. QED
      BY <2>1, <2>2
  <1>3. -m <= 2 * m * k - n * (2 * i + 1)
    <2>1. CASE k = n
      <3> DEFINE r == 2 * m - (2 * i + 1)
      <3>1. 2 * m * k - n * (2 * i + 1) = n * r
        BY <2>1, Z3
      <3>2. r \in Nat
        OBVIOUS
      <3> HIDE DEF r
      <3>3. n * r >= 0
        BY <3>2, Z3
      <3>4. QED
        BY <3>1, <3>3
    <2>2. CASE Spread(i, m, k, n) <= 0
      <3>1. Spread(i, m, k, n) = n * (2 * i + 1) - 2 * m * k - m
        BY Z3 DEF Spread
      <3>2. QED
        BY <2>2, <3>1
    <2>3. QED
      BY <2>1, <2>2
  <1>4. QED
    BY <1>1, <1>2, <1>3

\* When each of three lanes has its share up to half a card of its own, no lane
\* is a whole card out.
LEMMA GapFromShares ==
    ASSUME NEW m \in Nat \ {0}, NEW w \in Nat,
           NEW n1 \in Nat, NEW n2 \in Nat, NEW n3 \in Nat, n1 + n2 + n3 > 0,
           NEW k1 \in 0..n1, NEW k2 \in 0..n2, NEW k3 \in 0..n3,
           -m <= 2 * m * k1 - n1 * w, 2 * m * k1 - n1 * w <= m,
           -m <= 2 * m * k2 - n2 * w, 2 * m * k2 - n2 * w <= m,
           -m <= 2 * m * k3 - n3 * w, 2 * m * k3 - n3 * w <= m
    PROVE  LET gap == k1 * (n1 + n2 + n3) - (k1 + k2 + k3) * n1
           IN  -(n1 + n2 + n3) < gap /\ gap < n1 + n2 + n3
  <1> DEFINE q == n2 + n3
             e == 2 * m * k1 - n1 * w
             f == (2 * m * k2 - n2 * w) + (2 * m * k3 - n3 * w)
             gap == k1 * q - (k2 + k3) * n1
  <1>1. k1 * (n1 + n2 + n3) - (k1 + k2 + k3) * n1 = gap
    BY Z3
  <1>2. e \in Int /\ f \in Int /\ gap \in Int /\ q \in Nat
        /\ -m <= e /\ e <= m /\ -(2 * m) <= f /\ f <= 2 * m
    OBVIOUS
  <1>3. 2 * m * gap = q * e - n1 * f
    BY Z3
  <1>4. n1 + n2 + n3 = n1 + q
    OBVIOUS
  <1>5. CASE q = 0
    <2>1. k2 = 0 /\ k3 = 0
      BY <1>5
    <2>2. gap = 0
      BY <1>5, <2>1
    <2>3. QED
      BY <1>1, <2>2
  <1>6. CASE q # 0
    <2> HIDE DEF q, e, f, gap
    <2> DEFINE x == q * e
               y == n1 * f
               g == m * gap
               a == m * q
               b == m * n1
    <2>1. /\ x \in Int /\ y \in Int /\ g \in Int /\ a \in Int /\ b \in Int
          /\ 2 * g = x - y
      <3>1. 2 * m * gap = 2 * g
        BY <1>2, Z3
      <3>2. QED
        BY <1>2, <1>3, <3>1
    <2>2. -a <= x /\ x <= a
      <3>1. -(q * m) <= x /\ x <= q * m
        BY <1>2, ProductRange
      <3>2. QED
        BY <1>2, <3>1
    <2>3. -(2 * b) <= y /\ y <= 2 * b
      <3>1. -(n1 * (2 * m)) <= y /\ y <= n1 * (2 * m)
        BY <1>2, ProductRange
      <3>2. n1 * (2 * m) = 2 * b
        BY Z3
      <3>3. QED
        BY <3>1, <3>2
    <2>4. a > 0
      BY <1>2, <1>6, Z3
    <2>5. m * (n1 + q) = a + b
      BY <1>2, Z3
    <2>6. -(a + b) < g /\ g < a + b
      <3> HIDE DEF x, y, g, a, b
      <3>1. QED
        BY <2>1, <2>2, <2>3, <2>4
    <2>7. -(m * (n1 + q)) < m * gap /\ m * gap < m * (n1 + q)
      BY <2>5, <2>6
    <2>8. -(n1 + q) < gap /\ gap < n1 + q
      BY <1>2, <2>7, Z3
    <2>9. QED
      BY <1>1, <1>4, <2>8
  <1>7. QED
    BY <1>5, <1>6

(***************************************************************************)
(* Ballot: the order of the deck                                           *)
(***************************************************************************)

DeckIndex(deck, c) ==
    Cardinality({d \in InLane(deck, Lane[c]) : EvidenceRank[d] < EvidenceRank[c]})

DeckSize(deck, c) == Cardinality(InLane(deck, Lane[c]))

DeckSpread(deck, c, d) ==
    Spread(DeckIndex(deck, c), DeckSize(deck, c), DeckIndex(deck, d), DeckSize(deck, d))

Blended(deck) == deck \ Leading(deck)

\* Which of two cards that nobody pasted comes up first.
Earlier(deck, c, d) ==
    \/ DeckSpread(deck, c, d) < 0
    \/ DeckSpread(deck, c, d) = 0 /\ LanePriority[Lane[c]] < LanePriority[Lane[d]]

LEMMA FiniteCards == \A cards \in SUBSET Card : IsFiniteSet(cards) /\ Cardinality(cards) \in Nat
  BY BallotAssumption, FS_Subset, FS_CardinalityType

LEMMA FirstRanked ==
    ASSUME NEW S \in SUBSET Card, S # {}
    PROVE  \E d \in S : \A e \in S : EvidenceRank[d] <= EvidenceRank[e]
  <1> DEFINE downTo(d) == {e \in S : EvidenceRank[e] <= EvidenceRank[d]}
             T == {downTo(d) : d \in S}
  <1>1. T \subseteq FiniteSubsetsOf(Card)
    BY FiniteCards DEF FiniteSubsetsOf
  <1>2. PICK s \in S : TRUE
    OBVIOUS
  <1>3. downTo(s) \in T
    OBVIOUS
  <1>4. PICK U \in T : \A V \in T : <<V, U>> \notin StrictSubsetOrdering(Card)
    BY <1>1, <1>3, FS_StrictSubsetOrderingWellFounded, WFMin
  <1>5. PICK d \in S : U = downTo(d)
    BY <1>4
  <1>6. ASSUME NEW e \in S, ~(EvidenceRank[d] <= EvidenceRank[e]) PROVE FALSE
    <2>1. EvidenceRank[d] \in Int /\ EvidenceRank[e] \in Int
          /\ \A x \in S : EvidenceRank[x] \in Int
      BY BallotAssumption
    <2>2. downTo(e) \subseteq U /\ d \in U /\ d \notin downTo(e)
      BY <1>5, <1>6, <2>1
    <2>3. <<downTo(e), U>> \in StrictSubsetOrdering(Card)
      BY <1>5, <2>2 DEF StrictSubsetOrdering
    <2>4. QED
      BY <1>4, <2>3
  <1>7. QED
    BY <1>6

LEMMA LastRanked ==
    ASSUME NEW S \in SUBSET Card, S # {}
    PROVE  \E d \in S : \A e \in S : EvidenceRank[e] <= EvidenceRank[d]
  <1> DEFINE upFrom(d) == {e \in S : EvidenceRank[d] <= EvidenceRank[e]}
             T == {upFrom(d) : d \in S}
  <1>1. T \subseteq FiniteSubsetsOf(Card)
    BY FiniteCards DEF FiniteSubsetsOf
  <1>2. PICK s \in S : TRUE
    OBVIOUS
  <1>3. upFrom(s) \in T
    OBVIOUS
  <1>4. PICK U \in T : \A V \in T : <<V, U>> \notin StrictSubsetOrdering(Card)
    BY <1>1, <1>3, FS_StrictSubsetOrderingWellFounded, WFMin
  <1>5. PICK d \in S : U = upFrom(d)
    BY <1>4
  <1>6. ASSUME NEW e \in S, ~(EvidenceRank[e] <= EvidenceRank[d]) PROVE FALSE
    <2>1. EvidenceRank[d] \in Int /\ EvidenceRank[e] \in Int
          /\ \A x \in S : EvidenceRank[x] \in Int
      BY BallotAssumption
    <2>2. upFrom(e) \subseteq U /\ d \in U /\ d \notin upFrom(e)
      BY <1>5, <1>6, <2>1
    <2>3. <<upFrom(e), U>> \in StrictSubsetOrdering(Card)
      BY <1>5, <2>2 DEF StrictSubsetOrdering
    <2>4. QED
      BY <1>4, <2>3
  <1>7. QED
    BY <1>6

LEMMA LaneTyped ==
    ASSUME NEW deck \in SUBSET Card, NEW l
    PROVE  /\ InLane(deck, l) \subseteq Card /\ InLane(deck, l) \subseteq deck
           /\ IsFiniteSet(InLane(deck, l)) /\ Cardinality(InLane(deck, l)) \in Nat
  BY FiniteCards DEF InLane

LEMMA DeckTyped ==
    ASSUME NEW deck \in SUBSET Card, NEW c \in deck
    PROVE  DeckSize(deck, c) \in Nat \ {0} /\ DeckIndex(deck, c) \in 0..(DeckSize(deck, c) - 1)
  <1> DEFINE L == InLane(deck, Lane[c])
             A == {d \in L : EvidenceRank[d] < EvidenceRank[c]}
  <1>1. c \in L /\ c \notin A /\ A \cup {c} \subseteq L
    BY BallotAssumption DEF InLane
  <1>2. IsFiniteSet(L) /\ Cardinality(L) \in Nat /\ A \in SUBSET L /\ A \in SUBSET Card
    BY LaneTyped
  <1>3. IsFiniteSet(A) /\ Cardinality(A) \in Nat
    BY <1>2, FiniteCards
  <1>4. DeckSize(deck, c) = Cardinality(L) /\ DeckIndex(deck, c) = Cardinality(A)
    BY DEF DeckSize, DeckIndex
  <1> HIDE DEF A, L
  <1>5. Cardinality(A \cup {c}) = Cardinality(A) + 1
    BY <1>1, <1>3, FS_AddElement
  <1>6. Cardinality(A \cup {c}) <= Cardinality(L)
    BY <1>1, <1>2, FS_Subset
  <1>7. QED
    BY <1>2, <1>3, <1>4, <1>5, <1>6

LEMMA DeckIndexRises ==
    ASSUME NEW deck \in SUBSET Card, NEW c \in deck, NEW d \in deck,
           Lane[c] = Lane[d], EvidenceRank[c] < EvidenceRank[d]
    PROVE  DeckIndex(deck, c) < DeckIndex(deck, d)
  <1> DEFINE L == InLane(deck, Lane[c])
             A == {e \in L : EvidenceRank[e] < EvidenceRank[c]}
             B == {e \in L : EvidenceRank[e] < EvidenceRank[d]}
  <1>1. \A e \in L : EvidenceRank[e] \in Int
    BY BallotAssumption DEF InLane
  <1>2. c \in L /\ EvidenceRank[c] \in Int /\ EvidenceRank[d] \in Int
    BY BallotAssumption DEF InLane
  <1>3. A \subseteq B /\ c \in B /\ c \notin A
    BY <1>1, <1>2
  <1>4. A \in SUBSET Card /\ B \in SUBSET Card
    BY LaneTyped
  <1>5. DeckIndex(deck, c) = Cardinality(A) /\ DeckIndex(deck, d) = Cardinality(B)
    BY DEF DeckIndex
  <1>6. IsFiniteSet(B) /\ Cardinality(A) \in Nat /\ Cardinality(B) \in Nat
    BY <1>4, FiniteCards
  <1> HIDE DEF A, B, L
  <1>7. Cardinality(A) <= Cardinality(B) /\ Cardinality(A) # Cardinality(B)
    BY <1>3, <1>6, FS_Subset
  <1>8. QED
    BY <1>5, <1>6, <1>7

LEMMA BlendedLane ==
    ASSUME NEW deck \in SUBSET Card, NEW c \in Blended(deck)
    PROVE  c \in deck /\ c \in Card /\ Lane[c] \in Mixed
  BY BallotAssumption DEF Blended, Leading, InLane

LEMMA EarlierWithin ==
    ASSUME NEW deck \in SUBSET Card, NEW c \in deck, NEW d \in deck,
           Lane[c] = Lane[d], EvidenceRank[c] < EvidenceRank[d]
    PROVE  Earlier(deck, c, d)
  <1>1. DeckIndex(deck, c) < DeckIndex(deck, d)
    BY DeckIndexRises
  <1>2. DeckSize(deck, c) = DeckSize(deck, d)
    BY DEF DeckSize
  <1>3. /\ DeckSize(deck, c) \in Nat \ {0}
        /\ DeckIndex(deck, c) \in 0..(DeckSize(deck, c) - 1)
        /\ DeckIndex(deck, d) \in 0..(DeckSize(deck, d) - 1)
    BY DeckTyped
  <1> DEFINE n == DeckSize(deck, c)
             i == DeckIndex(deck, c)
             j == DeckIndex(deck, d)
  <1>4. i \in Nat /\ j \in Nat /\ n \in Nat \ {0} /\ i < j
    BY <1>1, <1>2, <1>3
  <1>5. DeckSpread(deck, c, d) = Spread(i, n, j, n)
    BY <1>2 DEF DeckSpread
  <1> HIDE DEF n, i, j
  <1>6. QED
    BY <1>4, <1>5, SpreadWithin DEF Earlier

LEMMA EarlierStrict ==
    ASSUME NEW deck \in SUBSET Card, NEW c \in Blended(deck)
    PROVE  ~Earlier(deck, c, c)
  <1> DEFINE n == DeckSize(deck, c)
             i == DeckIndex(deck, c)
  <1>1. c \in deck /\ Lane[c] \in Mixed
    BY BlendedLane
  <1>2. n \in Nat \ {0} /\ i \in Nat
    BY <1>1, DeckTyped
  <1>3. DeckSpread(deck, c, c) = Spread(i, n, i, n)
    BY DEF DeckSpread
  <1> HIDE DEF n, i
  <1>4. DeckSpread(deck, c, c) = 0
    BY <1>2, <1>3, SpreadWithin
  <1>5. LanePriority[Lane[c]] \in Int
    BY <1>1, BallotAssumption
  <1>6. QED
    BY <1>4, <1>5 DEF Earlier

LEMMA EarlierTotal ==
    ASSUME NEW deck \in SUBSET Card, NEW c \in Blended(deck), NEW d \in Blended(deck), c # d
    PROVE  Earlier(deck, c, d) \/ Earlier(deck, d, c)
  <1>1. c \in deck /\ d \in deck /\ c \in Card /\ d \in Card
        /\ Lane[c] \in Mixed /\ Lane[d] \in Mixed
    BY BlendedLane
  <1>2. CASE Lane[c] = Lane[d]
    <2>1. EvidenceRank[c] \in Int /\ EvidenceRank[d] \in Int /\ EvidenceRank[c] # EvidenceRank[d]
      BY <1>1, BallotAssumption
    <2>2. EvidenceRank[c] < EvidenceRank[d] \/ EvidenceRank[d] < EvidenceRank[c]
      BY <2>1
    <2>3. QED
      BY <1>1, <1>2, <2>2, EarlierWithin
  <1>3. CASE Lane[c] # Lane[d]
    <2>1. /\ LanePriority[Lane[c]] \in Int /\ LanePriority[Lane[d]] \in Int
          /\ LanePriority[Lane[c]] # LanePriority[Lane[d]]
      BY <1>1, <1>3, BallotAssumption
    <2>2. /\ DeckSize(deck, c) \in Nat /\ DeckIndex(deck, c) \in Nat
          /\ DeckSize(deck, d) \in Nat /\ DeckIndex(deck, d) \in Nat
      BY <1>1, DeckTyped
    <2>3. DeckSpread(deck, c, d) \in Int /\ DeckSpread(deck, c, d) = -DeckSpread(deck, d, c)
          /\ DeckSpread(deck, d, c) \in Int
      BY <2>2, SpreadBack DEF DeckSpread
    <2>4. QED
      BY <2>1, <2>3 DEF Earlier
  <1>4. QED
    BY <1>2, <1>3

LEMMA EarlierThrough ==
    ASSUME NEW deck \in SUBSET Card,
           NEW c \in Blended(deck), NEW d \in Blended(deck), NEW e \in Blended(deck),
           Earlier(deck, c, d), Earlier(deck, d, e)
    PROVE  Earlier(deck, c, e)
  <1>1. c \in deck /\ d \in deck /\ e \in deck
        /\ Lane[c] \in Mixed /\ Lane[d] \in Mixed /\ Lane[e] \in Mixed
    BY BlendedLane
  <1> DEFINE m == DeckSize(deck, c)
             i == DeckIndex(deck, c)
             n == DeckSize(deck, d)
             j == DeckIndex(deck, d)
             p == DeckSize(deck, e)
             k == DeckIndex(deck, e)
             a == DeckSpread(deck, c, d)
             b == DeckSpread(deck, d, e)
             x == DeckSpread(deck, c, e)
  <1>2. /\ m \in Nat \ {0} /\ i \in Nat /\ n \in Nat \ {0} /\ j \in Nat
        /\ p \in Nat \ {0} /\ k \in Nat
    BY <1>1, DeckTyped
  <1>3. a = Spread(i, m, j, n) /\ b = Spread(j, n, k, p) /\ x = Spread(i, m, k, p)
    BY DEF DeckSpread
  <1>4. a <= 0 /\ b <= 0 /\ a \in Int /\ b \in Int
    <2>1. a \in Int /\ b \in Int
      BY <1>2, <1>3, SpreadBack
    <2>2. QED
      BY <2>1 DEF Earlier
  <1> HIDE DEF m, i, n, j, p, k
  <1>5. x \in Int /\ x <= 0 /\ (x = 0 => a = 0 /\ b = 0)
    <2> HIDE DEF a, b, x
    <2>1. QED
      BY <1>2, <1>3, <1>4, SpreadThrough
  <1>6. \A l \in Mixed : LanePriority[l] \in Int
    BY BallotAssumption
  <1>7. QED
    BY <1>1, <1>4, <1>5, <1>6 DEF Earlier

\* What comes up before a card that nobody pasted.
Before(deck, c) == Leading(deck) \cup {d \in Blended(deck) : Earlier(deck, d, c)}

LEMMA PlacesAre ==
    ASSUME NEW deck \in SUBSET Card, NEW c \in Blended(deck)
    PROVE  Places(deck)[c] = 1 + Cardinality(Before(deck, c))
  <1> DEFINE lead == Leading(deck)
             size == [x \in deck |-> Cardinality(InLane(deck, Lane[x]))]
             index == [x \in deck |->
                 Cardinality({y \in InLane(deck, Lane[x]) : EvidenceRank[y] < EvidenceRank[x]})]
             apart(x, y) == Spread(index[x], size[x], index[y], size[y])
             before(x, y) ==
                 IF lead \cap {x, y} # {}
                 THEN x \in lead /\ (y \in lead => index[x] < index[y])
                 ELSE apart(x, y) < 0
                        \/ (apart(x, y) = 0 /\ LanePriority[Lane[x]] < LanePriority[Lane[y]])
  <1>1. c \in deck /\ c \notin lead
    BY DEF Blended
  <1>2. Places(deck)[c] = 1 + Cardinality({d \in deck : before(d, c)})
    BY <1>1 DEF Places
  <1>3. \A d \in deck : apart(d, c) = DeckSpread(deck, d, c)
    BY <1>1 DEF DeckSpread, DeckIndex, DeckSize
  <1>4. lead \subseteq deck
    BY DEF Leading, InLane
  <1> HIDE DEF apart, lead
  <1>5. \A d \in deck : before(d, c) <=> d \in Before(deck, c)
    <2>1. SUFFICES ASSUME NEW d \in deck PROVE before(d, c) <=> d \in Before(deck, c)
      OBVIOUS
    <2>2. CASE d \in lead
      BY <1>1, <2>2 DEF Before, lead
    <2>3. CASE d \notin lead
      <3>1. before(d, c) <=> Earlier(deck, d, c)
        BY <1>1, <1>3, <2>3 DEF Earlier
      <3>2. QED
        BY <2>3, <3>1 DEF Before, Blended, lead
    <2>4. QED
      BY <2>2, <2>3
  <1> HIDE DEF before
  <1>6. {d \in deck : before(d, c)} = Before(deck, c)
    BY <1>4, <1>5 DEF Before, Blended, lead
  <1>7. QED
    BY <1>2, <1>6

LEMMA BeforeGrows ==
    ASSUME NEW deck \in SUBSET Card, NEW c \in Blended(deck), NEW d \in Blended(deck),
           Earlier(deck, d, c)
    PROVE  Cardinality(Before(deck, d)) < Cardinality(Before(deck, c))
  <1> DEFINE A == Before(deck, d)
             B == Before(deck, c)
  <1>1. A \subseteq B
    BY EarlierThrough DEF Before
  <1>2. d \in B /\ d \notin A
    BY EarlierStrict DEF Before, Blended
  <1>3. A \in SUBSET Card /\ B \in SUBSET Card
    BY DEF Before, Blended, Leading, InLane
  <1>4. IsFiniteSet(B) /\ Cardinality(A) \in Nat /\ Cardinality(B) \in Nat
    BY <1>3, FiniteCards
  <1> HIDE DEF A, B
  <1>5. Cardinality(A) <= Cardinality(B) /\ Cardinality(A) # Cardinality(B)
    BY <1>1, <1>2, <1>4, FS_Subset
  <1>6. Cardinality(A) < Cardinality(B)
    BY <1>4, <1>5
  <1>7. QED
    BY <1>6 DEF A, B

LEMMA SeenAre ==
    ASSUME NEW deck \in SUBSET Card, NEW c \in Blended(deck), NEW d \in Blended(deck)
    PROVE  Places(deck)[d] <= Places(deck)[c] <=> d = c \/ Earlier(deck, d, c)
  <1> DEFINE a == Cardinality(Before(deck, d))
             b == Cardinality(Before(deck, c))
  <1>1. Places(deck)[d] = 1 + a /\ Places(deck)[c] = 1 + b
    BY PlacesAre
  <1>2. Before(deck, c) \in SUBSET Card /\ Before(deck, d) \in SUBSET Card
    BY DEF Before, Blended, Leading, InLane
  <1>3. a \in Nat /\ b \in Nat
    BY <1>2, FiniteCards
  <1>4. Earlier(deck, d, c) => a < b
    BY BeforeGrows
  <1>5. d # c => Earlier(deck, d, c) \/ Earlier(deck, c, d)
    BY EarlierTotal
  <1>6. Earlier(deck, c, d) => b < a
    BY BeforeGrows
  <1>7. d = c => a = b
    OBVIOUS
  <1> HIDE DEF a, b
  <1>8. Places(deck)[d] <= Places(deck)[c] <=> a <= b
    BY <1>1, <1>3
  <1>9. QED
    BY <1>3, <1>4, <1>5, <1>6, <1>7, <1>8

\* A lane's cards come up strongest first, so the k of them that are up are
\* those with fewer than k before them.
LEMMA LaneSeen ==
    ASSUME NEW deck \in SUBSET Card, NEW c \in Blended(deck), NEW l \in Mixed
    PROVE  LET seen == {d \in InLane(deck, l) : d = c \/ Earlier(deck, d, c)}
               k == Cardinality(seen)
               n == Cardinality(InLane(deck, l))
               m == DeckSize(deck, c)
               w == 2 * DeckIndex(deck, c) + 1
           IN  /\ n \in Nat /\ k \in 0..n
               /\ -m <= 2 * m * k - n * w /\ 2 * m * k - n * w <= m
  <1> DEFINE L == InLane(deck, l)
             up == {d \in L : d = c \/ Earlier(deck, d, c)}
             k == Cardinality(up)
             n == Cardinality(L)
             m == DeckSize(deck, c)
             i == DeckIndex(deck, c)
  <1>1. L \subseteq Card /\ L \subseteq Blended(deck) /\ L \subseteq deck
        /\ \A d \in L : Lane[d] = l
    BY BallotAssumption DEF InLane, Blended, Leading, Mixed
  <1>2. IsFiniteSet(L) /\ n \in Nat /\ IsFiniteSet(up) /\ k \in Nat /\ k <= n
    BY <1>1, FiniteCards, FS_Subset
  <1>3. m \in Nat \ {0} /\ i \in 0..(m - 1)
    BY BlendedLane, DeckTyped
  <1>4. \A d \in L : DeckSize(deck, d) = n
    BY <1>1 DEF DeckSize
  <1>5. \A d \in L : DeckIndex(deck, d) = Cardinality({e \in L : EvidenceRank[e] < EvidenceRank[d]})
    BY <1>1 DEF DeckIndex
  <1>6. ASSUME NEW d \in up, NEW e \in L, EvidenceRank[e] < EvidenceRank[d] PROVE e \in up
    <2>1. Earlier(deck, e, d)
      BY <1>1, <1>6, EarlierWithin
    <2>2. d \in Blended(deck) /\ e \in Blended(deck) /\ (d = c \/ Earlier(deck, d, c))
      BY <1>1
    <2>3. Earlier(deck, e, c)
      BY <2>1, <2>2, EarlierThrough
    <2>4. QED
      BY <2>3
  <1>7. \A d \in L : EvidenceRank[d] \in Int
    BY <1>1, BallotAssumption
  <1>8. \A d, e \in L : EvidenceRank[d] = EvidenceRank[e] => d = e
    BY <1>1, BallotAssumption
  <1>9. k = 0 \/ Spread(k - 1, n, i, m) <= 0
    <2>1. CASE up = {}
      BY <2>1, FS_EmptySet
    <2>2. CASE up # {}
      <3>1. PICK d \in up : \A e \in up : EvidenceRank[e] <= EvidenceRank[d]
        <4>1. up \in SUBSET Card
          BY <1>1
        <4> HIDE DEF up
        <4>2. QED
          BY <2>2, <4>1, LastRanked
      <3>2. {e \in L : EvidenceRank[e] < EvidenceRank[d]} = up \ {d}
        <4>1. ASSUME NEW e \in L, EvidenceRank[e] < EvidenceRank[d] PROVE e \in up \ {d}
          BY <1>6, <1>7, <3>1, <4>1
        <4>2. ASSUME NEW e \in up \ {d} PROVE e \in L /\ EvidenceRank[e] < EvidenceRank[d]
          <5>1. e \in L /\ d \in L /\ e # d /\ EvidenceRank[e] <= EvidenceRank[d]
            BY <3>1
          <5>2. EvidenceRank[e] \in Int /\ EvidenceRank[d] \in Int
                /\ EvidenceRank[e] # EvidenceRank[d]
            BY <1>7, <1>8, <5>1
          <5>3. QED
            BY <5>1, <5>2
        <4> HIDE DEF up, L
        <4>3. QED
          BY <4>1, <4>2
      <3>3. d \in L /\ d \in Blended(deck) /\ d \in deck
        BY <1>1
      <3>4. Cardinality(up \ {d}) = k - 1
        <4> HIDE DEF up
        <4>1. QED
          BY <1>2, FS_RemoveElement
      <3>5. DeckIndex(deck, d) = k - 1 /\ DeckSize(deck, d) = n
        BY <1>4, <1>5, <3>2, <3>3, <3>4
      <3>6. DeckSpread(deck, d, c) = Spread(k - 1, n, i, m)
        BY <3>5 DEF DeckSpread
      <3>7. CASE d = c
        <4>1. k - 1 = i /\ n = m
          BY <3>5, <3>7
        <4>2. Spread(i, m, i, m) = 0
          BY <1>3, SpreadWithin
        <4>3. QED
          BY <4>1, <4>2
      <3>8. CASE Earlier(deck, d, c)
        <4>1. k - 1 \in Nat
          BY <3>3, <3>5, DeckTyped
        <4> DEFINE y == Spread(k - 1, n, i, m)
        <4>2. y \in Int
          BY <1>2, <1>3, <4>1, SpreadBack
        <4>3. y < 0 \/ y = 0
          BY <3>6, <3>8 DEF Earlier
        <4> HIDE DEF y
        <4>4. y <= 0
          BY <4>2, <4>3
        <4>5. QED
          BY <4>4 DEF y
      <3>9. QED
        BY <3>7, <3>8
    <2>3. QED
      BY <2>1, <2>2
  <1>10. k = n \/ Spread(i, m, k, n) <= 0
    <2>1. CASE L \ up = {}
      BY <2>1
    <2>2. CASE L \ up # {}
      <3>1. PICK d \in L \ up : \A e \in L \ up : EvidenceRank[d] <= EvidenceRank[e]
        <4>1. L \ up \in SUBSET Card
          BY <1>1
        <4> HIDE DEF up, L
        <4>2. QED
          BY <2>2, <4>1, FirstRanked
      <3>2. {e \in L : EvidenceRank[e] < EvidenceRank[d]} = up
        <4>1. ASSUME NEW e \in L, EvidenceRank[e] < EvidenceRank[d] PROVE e \in up
          <5>1. CASE e \notin up
            <6>1. EvidenceRank[d] <= EvidenceRank[e]
              BY <3>1, <5>1
            <6>2. EvidenceRank[d] \in Int /\ EvidenceRank[e] \in Int
              BY <1>7
            <6>3. QED
              BY <4>1, <6>1, <6>2
          <5>2. QED
            BY <5>1
        <4>2. ASSUME NEW e \in up PROVE e \in L /\ EvidenceRank[e] < EvidenceRank[d]
          <5>1. e \in L /\ d \in L /\ d \notin up /\ e # d
            BY <3>1
          <5>2. ~(EvidenceRank[d] < EvidenceRank[e])
            BY <1>6, <5>1
          <5>3. EvidenceRank[e] \in Int /\ EvidenceRank[d] \in Int
                /\ EvidenceRank[e] # EvidenceRank[d]
            BY <1>7, <1>8, <5>1
          <5>4. QED
            BY <5>1, <5>2, <5>3
        <4> HIDE DEF up, L
        <4>3. QED
          BY <4>1, <4>2
      <3>3. d \in L /\ d \in Blended(deck) /\ d # c /\ ~Earlier(deck, d, c)
        BY <1>1, <3>1
      <3>4. Earlier(deck, c, d)
        BY <3>3, EarlierTotal
      <3>5. DeckIndex(deck, d) = k /\ DeckSize(deck, d) = n
        BY <1>4, <1>5, <3>2, <3>3
      <3>6. DeckSpread(deck, c, d) = Spread(i, m, k, n)
        BY <3>5 DEF DeckSpread
      <3> DEFINE y == Spread(i, m, k, n)
      <3>7. y \in Int
        BY <1>2, <1>3, SpreadBack
      <3>8. y < 0 \/ y = 0
        BY <3>4, <3>6 DEF Earlier
      <3> HIDE DEF y
      <3>9. y <= 0
        BY <3>7, <3>8
      <3>10. QED
        BY <3>9 DEF y
    <2>3. QED
      BY <2>1, <2>2
  <1>11. n \in Nat /\ k \in 0..n
    BY <1>2
  <1> HIDE DEF k, n, m, i, L, up
  <1>12. -m <= 2 * m * k - n * (2 * i + 1) /\ 2 * m * k - n * (2 * i + 1) <= m
    BY <1>3, <1>9, <1>10, <1>11, LaneShare
  <1>13. QED
    BY <1>11, <1>12 DEF k, n, m, i, L, up

LEMMA ThreeLanes ==
    ASSUME NEW cards \in SUBSET Card, \A c \in cards : Lane[c] \in Mixed
    PROVE  Cardinality(cards) = Cardinality(InLane(cards, "for_you"))
                                  + Cardinality(InLane(cards, "trending"))
                                  + Cardinality(InLane(cards, "foundation"))
  <1> DEFINE A == InLane(cards, "for_you")
             B == InLane(cards, "trending")
             C == InLane(cards, "foundation")
  <1>1. cards = (A \cup B) \cup C
    BY DEF InLane, Mixed
  <1>2. A \cap B = {} /\ (A \cup B) \cap C = {}
    BY DEF InLane
  <1>3. IsFiniteSet(A) /\ IsFiniteSet(B) /\ IsFiniteSet(C)
        /\ Cardinality(A) \in Nat /\ Cardinality(B) \in Nat /\ Cardinality(C) \in Nat
    BY LaneTyped
  <1> HIDE DEF A, B, C
  <1>4. IsFiniteSet(A \cup B) /\ Cardinality(A \cup B) = Cardinality(A) + Cardinality(B)
    <2>1. Cardinality(A \cap B) = 0
      BY <1>2, FS_EmptySet
    <2>2. /\ IsFiniteSet(A \cup B)
          /\ Cardinality(A \cup B) = Cardinality(A) + Cardinality(B) - Cardinality(A \cap B)
      BY <1>3, FS_Union
    <2>3. QED
      BY <1>3, <2>1, <2>2
  <1> DEFINE D == A \cup B
  <1>5. Cardinality(D \cup C) = Cardinality(D) + Cardinality(C)
    <2>1. Cardinality(D \cap C) = 0
      BY <1>2, FS_EmptySet
    <2>2. IsFiniteSet(D) /\ Cardinality(D) \in Nat
      BY <1>4, FS_CardinalityType
    <2> HIDE DEF D
    <2>3. Cardinality(D \cup C) = Cardinality(D) + Cardinality(C) - Cardinality(D \cap C)
      BY <1>3, <2>2, FS_Union
    <2>4. QED
      BY <1>3, <2>1, <2>2, <2>3
  <1>6. QED
    BY <1>1, <1>3, <1>4, <1>5 DEF A, B, C

\* However many cards the lanes have, at every card of the deck each of them has
\* had its share.
LEMMA LanesMixAnyDeck == dealt \in SUBSET Card => LanesMix
  <1> SUFFICES ASSUME dealt \in SUBSET Card PROVE LanesMix
    OBVIOUS
  <1> DEFINE deck == Swipeable(dealt)
             mixed == Blended(deck)
             total == Cardinality(mixed)
  <1>1. deck \in SUBSET Card /\ mixed \in SUBSET Card
    BY DEF Swipeable, Blended
  <1> HIDE DEF deck
  <1>2. SUFFICES ASSUME NEW c \in mixed, NEW l \in Mixed
        PROVE  LET seen == {d \in mixed : Places(deck)[d] <= Places(deck)[c]}
                   gap == Cardinality(InLane(seen, l)) * total
                            - Cardinality(seen) * Cardinality(InLane(mixed, l))
               IN  -total < gap /\ gap < total
    BY DEF LanesMix, Blended, deck
  <1> DEFINE seen == {d \in mixed : d = c \/ Earlier(deck, d, c)}
             N(x) == Cardinality(InLane(mixed, x))
             K(x) == Cardinality(InLane(seen, x))
             m == DeckSize(deck, c)
             w == 2 * DeckIndex(deck, c) + 1
  <1>3. {d \in mixed : Places(deck)[d] <= Places(deck)[c]} = seen
    BY <1>1, SeenAre
  <1>4. \A x \in Mixed : InLane(mixed, x) = InLane(deck, x)
    BY DEF InLane, Blended, Leading, Mixed
  <1>5. \A x \in Mixed : InLane(seen, x) = {d \in InLane(deck, x) : d = c \/ Earlier(deck, d, c)}
    BY DEF InLane, Blended, Leading, Mixed
  <1>6. \A x \in Mixed : /\ N(x) \in Nat /\ K(x) \in 0..N(x)
                         /\ -m <= 2 * m * K(x) - N(x) * w /\ 2 * m * K(x) - N(x) * w <= m
    BY <1>1, <1>4, <1>5, LaneSeen
  <1>7. m \in Nat \ {0} /\ w \in Nat
    BY <1>1, BlendedLane, DeckTyped
  <1>8. total = N("for_you") + N("trending") + N("foundation")
    BY <1>1, BlendedLane, ThreeLanes
  <1>9. seen \in SUBSET Card /\ \A d \in seen : Lane[d] \in Mixed
    BY <1>1, BlendedLane
  <1> DEFINE up == Cardinality(seen)
  <1>10. up = K("for_you") + K("trending") + K("foundation")
    <2> HIDE DEF seen
    <2>1. QED
      BY <1>9, ThreeLanes
  <1>11. total > 0
    <2>1. IsFiniteSet(mixed) /\ total \in Nat /\ mixed # {}
      BY <1>1, FiniteCards
    <2>2. QED
      BY <2>1, FS_EmptySet
  <1> HIDE DEF seen, mixed, total, up, N, K, m, w
  <1>12. "for_you" \in Mixed /\ "trending" \in Mixed /\ "foundation" \in Mixed
    BY DEF Mixed
  <1>13. CASE l = "for_you"
    <2> DEFINE gap == K("for_you") * (N("for_you") + N("trending") + N("foundation"))
                        - (K("for_you") + K("trending") + K("foundation")) * N("for_you")
    <2>1. -(N("for_you") + N("trending") + N("foundation")) < gap
          /\ gap < N("for_you") + N("trending") + N("foundation")
      BY <1>6, <1>7, <1>8, <1>11, <1>12, GapFromShares
    <2>2. K(l) * total - up * N(l) = gap
      BY <1>8, <1>10, <1>13
    <2>3. QED
      BY <1>3, <1>8, <2>1, <2>2 DEF K, N, up
  <1>14. CASE l = "trending"
    <2> DEFINE gap == K("trending") * (N("trending") + N("for_you") + N("foundation"))
                        - (K("trending") + K("for_you") + K("foundation")) * N("trending")
    <2>1. total = N("trending") + N("for_you") + N("foundation")
          /\ up = K("trending") + K("for_you") + K("foundation")
      BY <1>6, <1>8, <1>10, <1>12
    <2>2. -(N("trending") + N("for_you") + N("foundation")) < gap
          /\ gap < N("trending") + N("for_you") + N("foundation")
      BY <1>6, <1>7, <1>11, <1>12, <2>1, GapFromShares
    <2>3. K(l) * total - up * N(l) = gap
      BY <1>14, <2>1
    <2>4. QED
      BY <1>3, <2>1, <2>2, <2>3 DEF K, N, up
  <1>15. CASE l = "foundation"
    <2> DEFINE gap == K("foundation") * (N("foundation") + N("for_you") + N("trending"))
                        - (K("foundation") + K("for_you") + K("trending")) * N("foundation")
    <2>1. total = N("foundation") + N("for_you") + N("trending")
          /\ up = K("foundation") + K("for_you") + K("trending")
      BY <1>6, <1>8, <1>10, <1>12
    <2>2. -(N("foundation") + N("for_you") + N("trending")) < gap
          /\ gap < N("foundation") + N("for_you") + N("trending")
      BY <1>6, <1>7, <1>11, <1>12, <2>1, GapFromShares
    <2>3. K(l) * total - up * N(l) = gap
      BY <1>15, <2>1
    <2>4. QED
      BY <1>3, <2>1, <2>2, <2>3 DEF K, N, up
  <1>16. QED
    BY <1>13, <1>14, <1>15 DEF Mixed

(***************************************************************************)
(* Ballot: the shortlist                                                   *)
(***************************************************************************)

Row == [member : Voter, card : Card, signal : Signal]

LEMMA FiniteRows ==
    ASSUME NEW votes \in SUBSET Row, NEW c, NEW signals
    PROVE  LET rows == {b \in votes : b.card = c /\ b.signal \in signals}
           IN  IsFiniteSet(rows) /\ Cardinality(rows) \in Nat
  <1>1. IsFiniteSet(Row)
    <2>1. IsFiniteSet(Signal)
      <3>1. IsFiniteSet({}) /\ IsFiniteSet({} \cup {"like"})
        BY FS_EmptySet, FS_AddElement
      <3>2. IsFiniteSet(({} \cup {"like"}) \cup {"dislike"})
        BY <3>1, FS_AddElement
      <3>3. IsFiniteSet((({} \cup {"like"}) \cup {"dislike"}) \cup {"like_with_note"})
        BY <3>2, FS_AddElement
      <3>4. IsFiniteSet(((({} \cup {"like"}) \cup {"dislike"}) \cup {"like_with_note"})
                          \cup {"must_have"})
        BY <3>3, FS_AddElement
      <3>5. Signal = ((({} \cup {"like"}) \cup {"dislike"}) \cup {"like_with_note"})
                          \cup {"must_have"}
        BY DEF Signal
      <3>6. QED
        BY <3>4, <3>5
    <2>2. IsFiniteSet((Voter \X Card) \X Signal)
      BY <2>1, BallotAssumption, FS_Product
    <2> DEFINE rowOf(t) == [member |-> t[1][1], card |-> t[1][2], signal |-> t[2]]
               f == [t \in (Voter \X Card) \X Signal |-> rowOf(t)]
    <2>3. f \in Surjection((Voter \X Card) \X Signal, Row)
      <3>1. \A t \in (Voter \X Card) \X Signal : f[t] \in Row
        BY DEF Row
      <3>2. ASSUME NEW b \in Row PROVE \E t \in (Voter \X Card) \X Signal : f[t] = b
        <4>1. <<<<b.member, b.card>>, b.signal>> \in (Voter \X Card) \X Signal
          BY DEF Row
        <4>2. f[<<<<b.member, b.card>>, b.signal>>] = b
          BY <4>1 DEF Row
        <4>3. QED
          BY <4>1, <4>2
      <3>3. QED
        BY <3>1, <3>2 DEF Surjection
    <2>4. QED
      BY <2>2, <2>3, FS_Surjection
  <1>2. QED
    BY <1>1, FS_Subset, FS_CardinalityType

LEMMA OfTyped ==
    ASSUME NEW votes \in SUBSET Row, NEW c, NEW signals
    PROVE  Of(votes, c, signals) \in Nat
  BY FiniteRows DEF Of

LEMMA ScoreTyped ==
    ASSUME NEW votes \in SUBSET Row, NEW c, NEW count \in Nat
    PROVE  Score(votes, count, c) \in Int
  <1>1. /\ Of(votes, c, {"must_have"}) \in Nat /\ Of(votes, c, {"like", "like_with_note"}) \in Nat
        /\ Of(votes, c, {"dislike"}) \in Nat
    BY OfTyped
  <1>2. QED
    BY <1>1 DEF Score

\* A vote is counted for its card and in its signal.
LEMMA OneMore ==
    ASSUME NEW votes \in SUBSET Row, NEW b \in Row, b \notin votes, NEW c, NEW signals
    PROVE  Of(votes \cup {b}, c, signals) =
             Of(votes, c, signals) + (IF b.card = c /\ b.signal \in signals THEN 1 ELSE 0)
  <1> DEFINE rows == {x \in votes : x.card = c /\ x.signal \in signals}
             all == {x \in votes \cup {b} : x.card = c /\ x.signal \in signals}
  <1>1. IsFiniteSet(rows) /\ Cardinality(rows) \in Nat /\ b \notin rows
    BY FiniteRows
  <1>2. CASE b.card = c /\ b.signal \in signals
    <2>1. all = rows \cup {b}
      BY <1>2
    <2> HIDE DEF rows, all
    <2>2. Cardinality(all) = Cardinality(rows) + 1
      BY <1>1, <2>1, FS_AddElement
    <2>3. QED
      BY <1>2, <2>2 DEF Of, rows, all
  <1>3. CASE ~(b.card = c /\ b.signal \in signals)
    <2>1. all = rows
      BY <1>3
    <2>2. Of(votes \cup {b}, c, signals) = Of(votes, c, signals)
      BY <2>1 DEF Of
    <2>3. Of(votes, c, signals) \in Nat
      BY OfTyped
    <2>4. QED
      BY <1>3, <2>2, <2>3
  <1>4. QED
    BY <1>2, <1>3

\* What one more vote does to the scores, told by what it did.
Moves(s, old, new) ==
    /\ s = "dislike" => new <= old
    /\ s \in {"like", "must_have"} => old <= new

LEMMA OthersKeepScore ==
    ASSUME NEW votes \in SUBSET Row, NEW v \in Voter, NEW c \in Card, NEW count \in Nat,
           NEW s \in Signal, Ballot(v, c, s) \notin votes, NEW d \in Card \ {c}
    PROVE  Score(votes \cup {Ballot(v, c, s)}, count, d) = Score(votes, count, d)
  <1> DEFINE b == Ballot(v, c, s)
             more == votes \cup {b}
  <1>1. b \in Row /\ b.card = c
    BY DEF Ballot, Row
  <1>2. \A signals : Of(more, d, signals) = Of(votes, d, signals)
    BY <1>1, OneMore, OfTyped
  <1>3. /\ Of(more, d, {"must_have"}) = Of(votes, d, {"must_have"})
        /\ Of(more, d, {"like", "like_with_note"}) = Of(votes, d, {"like", "like_with_note"})
        /\ Of(more, d, {"dislike"}) = Of(votes, d, {"dislike"})
    BY <1>2
  <1> HIDE DEF more
  <1>4. Score(more, count, d) = Score(votes, count, d)
    BY <1>3 DEF Score
  <1>5. QED
    BY <1>4 DEF more

LEMMA ScoreMoves ==
    ASSUME NEW votes \in SUBSET Row, NEW v \in Voter, NEW c \in Card, NEW count \in Nat,
           NEW s \in Signal, Ballot(v, c, s) \notin votes
    PROVE  Moves(s, Score(votes, count, c), Score(votes \cup {Ballot(v, c, s)}, count, c))
  <1> DEFINE b == Ballot(v, c, s)
             must == Of(votes, c, {"must_have"})
             pos == Of(votes, c, {"like", "like_with_note"})
             neg == Of(votes, c, {"dislike"})
             more == votes \cup {b}
  <1>1. b \in Row /\ b.card = c /\ b.signal = s
    BY DEF Ballot, Row
  <1>2. must \in Nat /\ pos \in Nat /\ neg \in Nat
    BY OfTyped
  <1>3. \A d, signals : Of(more, d, signals) =
             Of(votes, d, signals) + (IF b.card = d /\ b.signal \in signals THEN 1 ELSE 0)
    BY <1>1, OneMore
  <1>4. /\ Of(more, c, {"must_have"}) = must + (IF s = "must_have" THEN 1 ELSE 0)
        /\ Of(more, c, {"like", "like_with_note"}) =
              pos + (IF s \in {"like", "like_with_note"} THEN 1 ELSE 0)
        /\ Of(more, c, {"dislike"}) = neg + (IF s = "dislike" THEN 1 ELSE 0)
    BY <1>1, <1>3
  <1> HIDE DEF must, pos, neg, more, b
  <1>5. /\ Score(votes, count, c) =
              IF count = 0 THEN 3 * must ELSE 10 * pos - 15 * neg + count * (3 * must)
    BY DEF Score, must, pos, neg
  <1>6. s = "dislike" => Score(more, count, c) <= Score(votes, count, c)
    <2>1. SUFFICES ASSUME s = "dislike" PROVE Score(more, count, c) <= Score(votes, count, c)
      OBVIOUS
    <2>2. Score(more, count, c) =
              IF count = 0 THEN 3 * must ELSE 10 * pos - 15 * (neg + 1) + count * (3 * must)
      BY <1>2, <1>4, <2>1 DEF Score
    <2>3. count * (3 * must) \in Int
      BY <1>2
    <2>4. QED
      BY <1>2, <1>5, <2>2, <2>3
  <1>7. s = "like" => Score(votes, count, c) <= Score(more, count, c)
    <2>1. SUFFICES ASSUME s = "like" PROVE Score(votes, count, c) <= Score(more, count, c)
      OBVIOUS
    <2>2. Score(more, count, c) =
              IF count = 0 THEN 3 * must ELSE 10 * (pos + 1) - 15 * neg + count * (3 * must)
      BY <1>2, <1>4, <2>1 DEF Score
    <2>3. count * (3 * must) \in Int
      BY <1>2
    <2>4. QED
      BY <1>2, <1>5, <2>2, <2>3
  <1>8. s = "must_have" => Score(votes, count, c) <= Score(more, count, c)
    <2>1. SUFFICES ASSUME s = "must_have" PROVE Score(votes, count, c) <= Score(more, count, c)
      OBVIOUS
    <2>2. Score(more, count, c) =
              IF count = 0 THEN 3 * (must + 1)
              ELSE 10 * pos - 15 * neg + count * (3 * (must + 1))
      BY <1>2, <1>4, <2>1 DEF Score
    <2>3. count * (3 * must) \in Int /\ count * (3 * (must + 1)) = count * (3 * must) + 3 * count
      BY <1>2, Z3
    <2>4. QED
      BY <1>2, <1>5, <2>2, <2>3
  <1>9. QED
    BY <1>6, <1>7, <1>8 DEF more, b, Moves

\* A card whose score rises, while the others keep theirs, keeps its seat.
LEMMA HigherKeepsSeat ==
    ASSUME NEW cards \in SUBSET Card, NEW c \in cards, NEW count \in Nat,
           NEW low \in SUBSET Row, NEW high \in SUBSET Row,
           Score(low, count, c) <= Score(high, count, c),
           \A d \in Card \ {c} : Score(low, count, d) = Score(high, count, d),
           c \in Shortlisted(cards, low, count)
    PROVE  c \in Shortlisted(cards, high, count)
  <1> DEFINE beats(votes) == {d \in cards :
                  \/ Score(votes, count, d) > Score(votes, count, c)
                  \/ Score(votes, count, d) = Score(votes, count, c) /\ NameRank[d] < NameRank[c]}
             kept(votes) == c \in Shortlisted(cards, votes, count)
  <1>1. \A votes : kept(votes) <=> Cardinality(beats(votes)) < Seats
    BY DEF Shortlisted
  <1>2. \A d \in cards : Score(low, count, d) \in Int /\ Score(high, count, d) \in Int
    BY ScoreTyped
  <1>3. beats(high) \subseteq beats(low)
    <2>1. SUFFICES ASSUME NEW d \in beats(high) PROVE d \in beats(low)
      OBVIOUS
    <2>2. CASE d = c
      BY <1>2, <2>1, <2>2
    <2>3. CASE d # c
      <3>1. d \in Card \ {c} /\ d \in cards
        BY <2>1, <2>3
      <3>2. Score(low, count, d) = Score(high, count, d)
        BY <3>1
      <3>3. QED
        BY <1>2, <2>1, <3>1, <3>2
    <2>4. QED
      BY <2>2, <2>3
  <1>4. beats(low) \in SUBSET Card /\ beats(high) \in SUBSET Card
    OBVIOUS
  <1> HIDE DEF beats
  <1>5. /\ Cardinality(beats(high)) \in Nat /\ Cardinality(beats(low)) \in Nat
        /\ Cardinality(beats(high)) <= Cardinality(beats(low))
    BY <1>3, <1>4, FiniteCards, FS_Subset
  <1>6. Cardinality(beats(low)) < Seats
    BY <1>1
  <1>7. Cardinality(beats(high)) < Seats
    BY <1>5, <1>6, BallotAssumption
  <1>8. QED
    BY <1>1, <1>7

(***************************************************************************)
(* Ballot: the invariant                                                   *)
(***************************************************************************)

\* The tally holds cards and vote rows, and has counted members.
TallyTyped ==
    tally \in [stage : {"none", "cards", "votes", "kept"}, cards : SUBSET Card,
               votes : SUBSET Row, count : Nat, selected : SUBSET Card]

BadgingTyped ==
    badging \in [stage : {"read", "write", "done"}, members : SUBSET Voter, cards : SUBSET Card]

OneVoteEach == \A a, b \in ballots : a.member = b.member /\ a.card = b.card => a = b

OfMembers ==
    /\ \A b \in ballots : b.member \in voters
    /\ \A b \in badges : b[1] \in voters

BallotInv == BallotTypeOK /\ TallyTyped /\ BadgingTyped /\ OneVoteEach /\ OfMembers

LEMMA BallotStarts == BallotInit => BallotInv
  <1> SUFFICES ASSUME BallotInit PROVE BallotInv
    OBVIOUS
  <1>1. dealt \in SUBSET Card /\ MaxSwipes \in Nat
    BY BallotAssumption DEF BallotInit
  <1>2. BallotTypeOK
    BY <1>1 DEF BallotInit, BallotTypeOK, Badging
  <1>3. TallyTyped /\ BadgingTyped /\ OneVoteEach /\ OfMembers
    BY DEF BallotInit, TallyTyped, BadgingTyped, OneVoteEach, OfMembers, Badging
  <1>4. QED
    BY <1>2, <1>3 DEF BallotInv

\* A vote written through the key replaces the one its member had.
LEMMA RevoteKeeps ==
    ASSUME BallotInv, NEW v \in voters, NEW c \in Card, NEW s \in Signal,
           ballots' = Revote(ballots, Ballot(v, c, s)), voters' = voters, badges' = badges
    PROVE  /\ ballots' \subseteq [member : Voter, card : Card, signal : Signal]
           /\ OneVoteEach' /\ OfMembers'
  <1> DEFINE b == Ballot(v, c, s)
  <1>1. b \in Row /\ b.member = v /\ b.card = c
    BY DEF Ballot, Row, BallotInv, BallotTypeOK
  <1> HIDE DEF b
  <1>2. \A x \in ballots' : x = b \/ (x \in ballots /\ (x.member # v \/ x.card # c))
    BY <1>1 DEF Revote, b
  <1>3. ballots' \subseteq [member : Voter, card : Card, signal : Signal]
    BY <1>1, <1>2 DEF BallotInv, BallotTypeOK, Row
  <1>4. OneVoteEach'
    BY <1>1, <1>2 DEF OneVoteEach, BallotInv
  <1>5. OfMembers'
    BY <1>1, <1>2 DEF OfMembers, BallotInv
  <1>6. QED
    BY <1>3, <1>4, <1>5

LEMMA BallotStep == BallotInv /\ [BallotNext]_ballotVars => BallotInv'
  <1> SUFFICES ASSUME BallotInv, [BallotNext]_ballotVars PROVE BallotInv'
    OBVIOUS
  <1> USE DEF BallotInv
  <1>1. IsFiniteSet(voters) /\ Cardinality(voters) \in Nat
    BY BallotAssumption, FS_Subset, FS_CardinalityType DEF BallotTypeOK
  <1>2. CASE ReadForBadges
    BY <1>2 DEF ReadForBadges, BallotTypeOK, TallyTyped, BadgingTyped, OneVoteEach, OfMembers, Badging
  <1>3. CASE ReplaceBadges
    <2>1. UNCHANGED <<voters, dealt, ballots, parsing, tally, swipes>>
      BY <1>3 DEF ReplaceBadges
    <2>2. BadgingTyped' /\ badging'.stage \in {"read", "write", "done"}
      BY <1>3 DEF ReplaceBadges, BadgingTyped, Badging
    <2>3. badges' \subseteq Voter \X Card /\ \A b \in badges' : b[1] \in voters
      <3>1. CASE badges' = badges
        BY <3>1 DEF BallotTypeOK, OfMembers
      <3>2. CASE badges' \in SUBSET ((badging.members \cap voters) \X (badging.cards \cap Badged))
        BY <3>2 DEF BadgingTyped
      <3>3. QED
        BY <1>3, <3>1, <3>2 DEF ReplaceBadges
    <2>4. QED
      BY <2>1, <2>2, <2>3 DEF BallotTypeOK, TallyTyped, OneVoteEach, OfMembers
  <1>4. CASE ReadCards
    BY <1>4 DEF ReadCards, BallotTypeOK, TallyTyped, BadgingTyped, OneVoteEach, OfMembers
  <1>5. CASE ReadVotes
    <2>1. ballots \in SUBSET Row
      BY DEF BallotTypeOK, Row
    <2>2. QED
      BY <1>5, <2>1 DEF ReadVotes, BallotTypeOK, TallyTyped, BadgingTyped, OneVoteEach, OfMembers
  <1>6. CASE CountAndKeep
    <2> DEFINE kept == Shortlisted(tally.cards, tally.votes, Cardinality(voters))
    <2>1. kept \in SUBSET Card
      BY DEF Shortlisted, TallyTyped
    <2>2. tally' = [tally EXCEPT !.stage = "kept", !.count = Cardinality(voters), !.selected = kept]
          /\ UNCHANGED <<voters, dealt, ballots, parsing, badges, badging, swipes>>
      BY <1>6 DEF CountAndKeep
    <2> HIDE DEF kept
    <2>3. TallyTyped' /\ tally'.stage = "kept"
      BY <1>1, <2>1, <2>2 DEF TallyTyped
    <2>4. QED
      BY <2>2, <2>3 DEF BallotTypeOK, BadgingTyped, OneVoteEach, OfMembers
  <1>7. ASSUME NEW v \in Voter, NEW c \in Contested, SendNote(v, c) PROVE BallotInv'
    BY <1>7, BallotAssumption
       DEF SendNote, BallotTypeOK, TallyTyped, BadgingTyped, OneVoteEach, OfMembers
  <1>8. ASSUME NEW v \in Voter, NEW c \in Contested, NEW s \in Signal \ {"like_with_note"},
               CastVote(v, c, s)
        PROVE  BallotInv'
    <2>1. /\ v \in voters /\ c \in Card /\ swipes' = swipes + 1 /\ swipes < MaxSwipes
          /\ ballots' = Revote(ballots, Ballot(v, c, s))
          /\ UNCHANGED <<voters, dealt, parsing, badges, badging, tally>>
      BY <1>8 DEF CastVote, BallotTypeOK
    <2>2. /\ ballots' \subseteq [member : Voter, card : Card, signal : Signal]
          /\ OneVoteEach' /\ OfMembers'
      BY <2>1, RevoteKeeps
    <2>3. QED
      BY <2>1, <2>2, BallotAssumption DEF BallotTypeOK, TallyTyped, BadgingTyped
  <1>9. ASSUME NEW n \in parsing, FinishNote(n) PROVE BallotInv'
    <2>1. n[1] \in Voter /\ n[2] \in Card
      BY DEF BallotTypeOK
    <2>2. parsing' \subseteq parsing /\ UNCHANGED <<voters, dealt, badges, badging, tally, swipes>>
      BY <1>9 DEF FinishNote
    <2>3. /\ ballots' \subseteq [member : Voter, card : Card, signal : Signal]
          /\ OneVoteEach' /\ OfMembers'
      <3>1. CASE n[1] \in voters /\ ballots' = Revote(ballots, Ballot(n[1], n[2], "like_with_note"))
        BY <2>1, <2>2, <3>1, RevoteKeeps DEF Signal
      <3>2. CASE UNCHANGED ballots
        BY <2>2, <3>2 DEF BallotTypeOK, OneVoteEach, OfMembers
      <3>3. QED
        BY <1>9, <3>1, <3>2 DEF FinishNote
    <2>4. QED
      BY <2>2, <2>3 DEF BallotTypeOK, TallyTyped, BadgingTyped
  <1>10. ASSUME NEW c \in Card \ dealt, AddCard(c) PROVE BallotInv'
    BY <1>10 DEF AddCard, BallotTypeOK, TallyTyped, BadgingTyped, OneVoteEach, OfMembers
  <1>11. ASSUME NEW v \in voters, Leave(v) PROVE BallotInv'
    BY <1>11 DEF Leave, BallotTypeOK, TallyTyped, BadgingTyped, OneVoteEach, OfMembers
  <1>12. CASE UNCHANGED ballotVars
    BY <1>12 DEF ballotVars, BallotTypeOK, TallyTyped, BadgingTyped, OneVoteEach, OfMembers
  <1>13. QED
    BY <1>2, <1>3, <1>4, <1>5, <1>6, <1>7, <1>8, <1>9, <1>10, <1>11, <1>12 DEF BallotNext

\* Votes, notes under way and badges are of members and cards of the trip.
THEOREM BallotTypeCorrect == BallotSpec => []BallotTypeOK
  <1>1. BallotInv => BallotTypeOK
    BY DEF BallotInv
  <1>2. QED
    BY <1>1, BallotStarts, BallotStep, PTL DEF BallotSpec

\* For any members, cards, lanes and interleaving of swipes, notes, departures
\* and the three reads of the tally: the deck gives no lane a head start, a
\* member has one vote a card and leaves none behind, and no swipe in favour of a
\* card costs it its seat (order_deck, cast_vote, aggregate_node,
\* build_shortlist).
THEOREM BallotFairHolds == BallotSpec => []BallotFair
  <1>1. BallotInv => BallotFair
    <2> SUFFICES ASSUME BallotInv PROVE BallotFair
      OBVIOUS
    <2>1. LanesMix
      BY LanesMixAnyDeck DEF BallotInv, BallotTypeOK
    <2>2. \A a, b \in ballots : a.member = b.member /\ a.card = b.card => a = b
      BY DEF BallotInv, OneVoteEach
    <2>3. {b.member : b \in ballots} \cup {b[1] : b \in badges} \subseteq voters
      BY DEF BallotInv, OfMembers
    <2>4. ASSUME NEW v \in voters, NEW c \in Contested \cap tally.cards
          PROVE  /\ c \in Instead(v, c, "dislike") => c \in Without(v, c)
                 /\ c \in Without(v, c) => c \in Instead(v, c, "like") \cap Instead(v, c, "must_have")
      <3> DEFINE rest == {b \in tally.votes : b.member # v \/ b.card # c}
                 cards == tally.cards
                 count == tally.count
                 with(s) == rest \cup {Ballot(v, c, s)}
      <3>1. /\ rest \in SUBSET Row /\ cards \in SUBSET Card /\ count \in Nat
            /\ c \in cards /\ c \in Card /\ v \in Voter
        BY DEF BallotInv, TallyTyped, BallotTypeOK
      <3>2. \A s : Ballot(v, c, s) \notin rest
        BY DEF Ballot
      <3>3. Without(v, c) = Shortlisted(cards, rest, count)
        BY DEF Without
      <3>4. \A s : Instead(v, c, s) = Shortlisted(cards, with(s), count)
        BY DEF Instead, Revote, Ballot
      <3>5. \A s \in Signal : with(s) \in SUBSET Row
        BY <3>1 DEF Ballot, Row
      <3>6. "like" \in Signal /\ "dislike" \in Signal /\ "must_have" \in Signal
        BY DEF Signal
      <3> HIDE DEF rest, cards, count
      <3>7. ASSUME NEW s \in Signal
            PROVE  /\ Moves(s, Score(rest, count, c), Score(with(s), count, c))
                   /\ \A d \in Card \ {c} : Score(with(s), count, d) = Score(rest, count, d)
        <4>1. Ballot(v, c, s) \notin rest
          BY <3>2
        <4>2. QED
          BY <3>1, <4>1, ScoreMoves, OthersKeepScore
      <3>8. /\ Score(with("dislike"), count, c) <= Score(rest, count, c)
            /\ Score(rest, count, c) <= Score(with("like"), count, c)
            /\ Score(rest, count, c) <= Score(with("must_have"), count, c)
            /\ \A d \in Card \ {c} : /\ Score(with("dislike"), count, d) = Score(rest, count, d)
                                     /\ Score(with("like"), count, d) = Score(rest, count, d)
                                     /\ Score(with("must_have"), count, d) = Score(rest, count, d)
        <4> HIDE DEF with
        <4>1. QED
          BY <3>6, <3>7 DEF Moves
      <3>9. with("dislike") \in SUBSET Row /\ with("like") \in SUBSET Row
            /\ with("must_have") \in SUBSET Row
        BY <3>5, <3>6
      <3> HIDE DEF with
      <3>10. c \in Instead(v, c, "dislike") => c \in Without(v, c)
        BY <3>1, <3>3, <3>4, <3>8, <3>9, HigherKeepsSeat
      <3>11. c \in Without(v, c) => c \in Instead(v, c, "like")
        BY <3>1, <3>3, <3>4, <3>8, <3>9, HigherKeepsSeat
      <3>12. c \in Without(v, c) => c \in Instead(v, c, "must_have")
        BY <3>1, <3>3, <3>4, <3>8, <3>9, HigherKeepsSeat
      <3>13. QED
        BY <3>10, <3>11, <3>12
    <2>5. QED
      BY <2>1, <2>2, <2>3, <2>4 DEF BallotFair
  <1>2. QED
    BY <1>1, BallotStarts, BallotStep, PTL DEF BallotSpec

=============================================================================
