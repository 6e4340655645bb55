--------------------------- MODULE GatherQueueProofs ---------------------------
(***************************************************************************)
(* Proofs about GatherQueue, for any number of trips, workers and crashes. *)
(*                                                                         *)
(* The advisory lock carries the argument.  A worker is an orphan when its *)
(* lock's connection is gone and it has not noticed; all the others own    *)
(* their trip alone, and each orphan was paid for with a lost connection.  *)
(* That the pool is discovered once needs more, because an orphan goes on: *)
(* it has to notice, at its heartbeat, before any successor is far enough  *)
(* to store.                                                               *)
(***************************************************************************)
EXTENDS GatherQueue, FiniteSetTheorems, TLAPS

\* Every place where a worker has a trip.
Owning == {"locked", "claimed", "failing", "releasing"} \cup Executing

\* Workers that go on without the lock.
Orphans == {w \in Worker : job[w] # None /\ lock[job[w]] # w}

Statuses == {"none", "queued", "running", "completed", "failed", "erased"}
Stages == {"draft", "gathering", "swiping", "shortlisting"}
Nodes == {"empty", "gather", "badges", "aggregate", "crossed"}
Places == {"idle"} \cup Brief \cup Executing

\* A worker has a trip exactly while it owns one, and candidates only while it
\* claims.
WorkersPlaced ==
    \A w \in Worker :
        /\ pc[w] \in Owning <=> job[w] # None
        /\ found[w] # {} => pc[w] \in {"scanning", "locked", "claimed"}

\* Every orphan was paid for.
OrphansCounted == IsFiniteSet(Orphans) /\ Cardinality(Orphans) <= losses

\* Beyond a claim that is not rechecked yet, and wherever the graph or the group
\* has got to, the trip was started; and a build only loses its thread with the
\* run.
Started ==
    /\ \A w \in Worker : pc[w] \in Owning \ {"locked"} => status[job[w]] # "none"
    /\ \A t \in Trip : next[t] # "empty" \/ t \in building => status[t] # "none"
    /\ \A t \in Trip : t \in building /\ next[t] = "empty" => status[t] = "erased"

\* The invariant of the queue itself: types, places, orphans, completion.
QueueInv == TypeOK /\ WorkersPlaced /\ OrphansCounted /\ Started /\ CompletedMeansDeck

\* While no connection was lost, the row of a claimed or executed run still
\* says so, or is gone.
ClaimStands ==
    losses = 0 =>
        \A w \in Worker : pc[w] = "claimed" => status[job[w]] \in {"queued", "running", "erased"}

-----------------------------------------------------------------------------
\* Heartbeats outpace staleness, and at most one connection is lost.
Outpaced == Prompt = Worker /\ StaleAfter >= 2 /\ MaxLosses <= 1

\* Before any loss: an executing worker keeps its row running and fresh, and
\* from its first heartbeat on nobody holds the run of an earlier poll.
RowsFresh ==
    losses = 0 =>
        \A w \in Worker : pc[w] \in Executing =>
            /\ status[job[w]] \in {"running", "erased"}
            /\ age[job[w]] <= IF beat[w] THEN 0 ELSE 1
            /\ ~beat[w] \/ pulsed[w] => \A c \in Worker : job[w] \notin found[c]

\* After the loss: an orphan far enough to store stays alone until the period
\* in which its next heartbeat is due, and in that period whoever took over is
\* fresh from its claim.
OrphanOutrun ==
    \A o \in Orphans : pc[o] \in Executing /\ pulsed[o] =>
        /\ beat[o] => /\ status[job[o]] \in {"running", "erased"} /\ age[job[o]] < StaleAfter
                      /\ \A c \in Worker \ {o} : job[o] \notin found[c] /\ job[c] # job[o]
        /\ ~beat[o] => \A c \in Worker \ {o} :
                           pc[c] \in Executing /\ job[c] = job[o] => beat[c] /\ ~pulsed[c]

\* Two workers far enough to store never execute the same run.
NoRivals ==
    \A v, w \in Worker :
        /\ v # w /\ job[v] = job[w]
        /\ pc[v] \in Executing /\ pc[w] \in Executing
        => ~(pulsed[v] /\ pulsed[w])

\* Whoever stores has sent a heartbeat, and whoever inserts found no pool.
FirstInsert ==
    \A w \in Worker :
        /\ pc[w] \in {"storing", "inserting"} => pulsed[w]
        /\ pc[w] = "inserting" => pool[job[w]] = 0

PoolInv == QueueInv /\ NoRivals /\ FirstInsert /\ PoolOnce /\ RowsFresh /\ OrphanOutrun

-----------------------------------------------------------------------------
\* Types.  Every action keeps them; one lemma for each group of actions.
LEMMA TypesInit == Init => TypeOK
  BY GatherAssumption DEF Init, TypeOK, Brief, Executing, MaxRetries

LEMMA RequestTypes ==
    ASSUME TypeOK, NEW t \in Trip,
           Request(t)
    PROVE  TypeOK'
  <1> USE GatherAssumption DEF TypeOK, run, trip, worker, MaxRetries
  <1>1. CASE StartFirst(t)
    BY <1>1 DEF StartFirst
  <1>2. CASE StartAgain(t)
    BY <1>2 DEF StartAgain
  <1>3. CASE BuildResume(t)
    BY <1>3 DEF BuildResume
  <1>4. CASE BuildCommit(t)
    BY <1>4 DEF BuildCommit
  <1>5. CASE BuildRestores(t)
    BY <1>5 DEF BuildRestores
  <1>6. CASE EraseRun(t)
    BY <1>6 DEF EraseRun
  <1>7. QED
    BY <1>1, <1>2, <1>3, <1>4, <1>5, <1>6 DEF Request

LEMMA ClaimTypes ==
    ASSUME TypeOK, NEW w \in Worker, ClaimStep(w)
    PROVE  TypeOK'
  <1> USE GatherAssumption DEF TypeOK, run, trip, worker, Goto, Brief, Executing
  <1>1. CASE Poll(w)
    BY <1>1 DEF Poll, PendingRuns
  <1>2. CASE ScanEnd(w)
    BY <1>2 DEF ScanEnd
  <1>3. CASE Recheck(w)
    BY <1>3 DEF Recheck, Unlock
  <1>4. CASE Begin(w)
    <2>1. beat' \in [Worker -> BOOLEAN] /\ pulsed' \in [Worker -> BOOLEAN]
      BY <1>4, Zenon DEF Begin
    <2>2. found' \in [Worker -> SUBSET Trip] /\ pc' \in [Worker -> Places]
      BY <1>4 DEF Begin, Places
    <2>3. status' \in [Trip -> Statuses]
      BY <1>4 DEF Begin, Statuses
    <2>4. age' \in [Trip -> 0..StaleAfter]
      <3>1. age \in [Trip -> 0..StaleAfter] /\ 0 \in 0..StaleAfter
        OBVIOUS
      <3>2. age' = [age EXCEPT ![job[w]] = 0]
        BY <1>4 DEF Begin
      <3> HIDE DEF TypeOK
      <3>3. QED
        BY <3>1, <3>2
    <2>5. UNCHANGED <<retries, trip, lock, job, crashes, losses>>
      BY <1>4 DEF Begin
    <2>6. QED
      BY <2>1, <2>2, <2>3, <2>4, <2>5 DEF Places, Statuses
  <1>5. ASSUME NEW t \in Trip, TryLock(w, t) PROVE TypeOK'
    BY <1>5 DEF TryLock
  <1>6. CASE RowMissing(w)
    BY <1>6 DEF RowMissing, Unlock
  <1>7. QED
    BY <1>1, <1>2, <1>3, <1>4, <1>5, <1>6 DEF ClaimStep

LEMMA GraphTypes ==
    ASSUME TypeOK, WorkersPlaced, NEW w \in Worker, GraphStep(w)
    PROVE  TypeOK'
  <1> USE GatherAssumption DEF TypeOK, run, trip, worker, Goto, Brief, Executing
  <1>0. pc[w] \in Executing => job[w] \in Trip
    BY DEF WorkersPlaced, Owning
  <1>1. CASE ReadCheckpoint(w)
    <2>1. PICK label : pc' = [pc EXCEPT ![w] = label]
                       /\ label = CASE next[job[w]] = "empty"     -> "resolving"
                                    [] next[job[w]] = "gather"    -> "gather"
                                    [] next[job[w]] = "badges"    -> "badges"
                                    [] next[job[w]] = "aggregate" -> "checking"
                                    [] next[job[w]] = "crossed"  -> "failing"
      BY <1>1 DEF ReadCheckpoint
    <2>2. label \in {"resolving", "gather", "badges", "checking", "failing"}
      BY <1>0, <1>1, <2>1 DEF ReadCheckpoint
    <2>3. pc' \in [Worker -> {"idle"} \cup Brief \cup Executing]
      BY <2>1, <2>2
    <2>4. UNCHANGED <<run, trip, lock, found, job, beat, pulsed, crashes, losses>>
      BY <1>1 DEF ReadCheckpoint
    <2>5. QED
      BY <2>3, <2>4
  <1>2. CASE ResolveLink(w) \/ StoreInput(w)
    BY <1>0, <1>2 DEF ResolveLink, StoreInput
  <1>3. CASE GatherRead(w) \/ Discover(w) \/ StoreRead(w) \/ CheckStopped(w)
    BY <1>3 DEF GatherRead, Discover, StoreRead, CheckStopped
  <1>4. CASE StoreCommit(w)
    BY <1>4 DEF StoreCommit
  <1>5. CASE GatherDone(w) \/ BadgesDone(w)
    BY <1>5 DEF GatherDone, BadgesDone
  <1>6. CASE Finish(w)
    BY <1>6 DEF Finish, Completed
  <1>7. QED
    BY <1>1, <1>2, <1>3, <1>4, <1>5, <1>6 DEF GraphStep

LEMMA EndTypes ==
    ASSUME TypeOK, NEW w \in Worker,
           Progress(w) \/ ExecutionFails(w) \/ RecordFailure(w) \/ Release(w)
    PROVE  TypeOK'
  <1> USE GatherAssumption DEF TypeOK, run, trip, worker, Goto, Brief, Executing
  <1>1. CASE Progress(w)
    <2>1. age \in [Trip -> 0..StaleAfter] /\ 0 \in 0..StaleAfter
      OBVIOUS
    <2>2. age' = [age EXCEPT ![job[w]] = 0]
      BY <1>1 DEF Progress
    <2>3. age' \in [Trip -> 0..StaleAfter]
      BY <2>1, <2>2, Zenon
    <2>4. QED
      BY <1>1, <2>3 DEF Progress
  <1>2. CASE ExecutionFails(w)
    BY <1>2 DEF ExecutionFails
  <1>3. CASE RecordFailure(w)
    BY <1>3 DEF RecordFailure
  <1>4. CASE Release(w)
    BY <1>4 DEF Release, Unlock
  <1>5. QED
    BY <1>1, <1>2, <1>3, <1>4

LEMMA FaultTypes ==
    ASSUME TypeOK, NEW w \in Worker,
           Heartbeat(w) \/ HeartbeatFails(w) \/ Crash(w) \/ LoseLock(w)
    PROVE  TypeOK'
  <1> USE GatherAssumption DEF run, trip, worker, Goto
  <1>1. /\ UNCHANGED <<status, retries, stage, next, pool, linked, building>>
        /\ age' = age \/ age' = [age EXCEPT ![job[w]] = 0]
    BY DEF Heartbeat, HeartbeatFails, Crash, LoseLock
  <1>2. age' \in [Trip -> 0..StaleAfter]
    <2>1. age \in [Trip -> 0..StaleAfter] /\ 0 \in 0..StaleAfter
      BY DEF TypeOK
    <2>2. QED
      BY <1>1, <2>1
  <1>3. lock' \in [Trip -> Worker \cup {None}]
    BY DEF TypeOK, Heartbeat, HeartbeatFails, Crash, LoseLock, Unlock
  <1>4. found' \in [Worker -> SUBSET Trip] /\ job' \in [Worker -> Trip \cup {None}]
    BY DEF TypeOK, Heartbeat, HeartbeatFails, Crash, LoseLock
  <1>5. pc' \in [Worker -> {"idle"} \cup Brief \cup Executing]
    BY DEF TypeOK, Heartbeat, HeartbeatFails, Crash, LoseLock
  <1>6. beat' \in [Worker -> BOOLEAN] /\ pulsed' \in [Worker -> BOOLEAN]
    <2>1. beat \in [Worker -> BOOLEAN] /\ pulsed \in [Worker -> BOOLEAN]
      BY DEF TypeOK
    <2>2. /\ beat' = beat \/ beat' = [beat EXCEPT ![w] = TRUE]
          /\ pulsed' = pulsed \/ pulsed' = [pulsed EXCEPT ![w] = TRUE]
      BY DEF Heartbeat, HeartbeatFails, Crash, LoseLock
    <2>3. QED
      BY <2>1, <2>2, Zenon
  <1>7. crashes' \in 0..MaxCrashes /\ losses' \in 0..MaxLosses
    BY DEF TypeOK, Heartbeat, HeartbeatFails, Crash, LoseLock
  <1>8. QED
    BY <1>1, <1>2, <1>3, <1>4, <1>5, <1>6, <1>7 DEF TypeOK

LEMMA TickTypes == TypeOK /\ Tick => TypeOK'
  <1> SUFFICES ASSUME TypeOK, Tick PROVE TypeOK'
    OBVIOUS
  <1> USE GatherAssumption DEF trip
  <1>1. age' \in [Trip -> 0..StaleAfter]
    <2>1. age \in [Trip -> 0..StaleAfter]
      BY DEF TypeOK
    <2>2. age' = [t \in Trip |-> IF Stale(t) \/ status[t] # "running" THEN age[t] ELSE age[t] + 1]
      BY DEF Tick
    <2>3. QED
      BY <2>1, <2>2 DEF Stale
  <1>2. beat' \in [Worker -> BOOLEAN]
    BY DEF Tick
  <1>3. QED
    BY <1>1, <1>2 DEF TypeOK, Tick

\* What a step can be, in the groups the lemmas treat.
LEMMA Steps ==
    ASSUME Next
    PROVE  \/ \E t \in Trip : Request(t)
           \/ \E w \in Worker : ClaimStep(w)
           \/ \E w \in Worker : GraphStep(w)
           \/ \E w \in Worker :
                 Progress(w) \/ ExecutionFails(w) \/ RecordFailure(w) \/ Release(w)
           \/ \E w \in Worker : Heartbeat(w) \/ HeartbeatFails(w) \/ Crash(w) \/ LoseLock(w)
           \/ Tick
  BY DEF Next, WorkerStep

LEMMA TypesKept == TypeOK /\ WorkersPlaced /\ [Next]_vars => TypeOK'
  <1> SUFFICES ASSUME TypeOK, WorkersPlaced, [Next]_vars PROVE TypeOK'
    OBVIOUS
  <1>1. CASE UNCHANGED vars
    BY <1>1 DEF vars, run, trip, worker, TypeOK
  <1>2. CASE Next
    BY <1>2, Steps, RequestTypes, ClaimTypes, GraphTypes, EndTypes, FaultTypes, TickTypes
  <1>3. QED
    BY <1>1, <1>2

\* Workers take and give back their trip with the lock, and drop the candidates
\* of their poll when they begin.
LEMMA PlacesKept == TypeOK /\ WorkersPlaced /\ [Next]_vars => WorkersPlaced'
  <1> SUFFICES ASSUME TypeOK, WorkersPlaced, [Next]_vars PROVE WorkersPlaced'
    OBVIOUS
  <1> DEFINE Placed(w) == /\ pc[w] \in Owning <=> job[w] # None
                          /\ found[w] # {} => pc[w] \in {"scanning", "locked", "claimed"}
  <1>0. /\ None \notin Trip
        /\ pc \in [Worker -> Places] /\ job \in [Worker -> Trip \cup {None}]
        /\ found \in [Worker -> SUBSET Trip]
        /\ \A w \in Worker : Placed(w)
    BY GatherAssumption DEF TypeOK, Places, WorkersPlaced
  <1> SUFFICES \A w \in Worker : Placed(w)'
    BY DEF WorkersPlaced
  <1> USE DEF Owning, Executing, trip, run, worker, Goto
  <1>1. CASE UNCHANGED <<pc, job, found>>
    BY <1>0, <1>1
  <1>2. ASSUME NEW w \in Worker, ClaimStep(w) PROVE \A v \in Worker : Placed(v)'
    BY <1>0, <1>2 DEF ClaimStep, Poll, ScanEnd, Recheck, Begin, RowMissing, TryLock
  <1>3. ASSUME NEW w \in Worker, GraphStep(w) PROVE \A v \in Worker : Placed(v)'
    <2>1. pc[w] \in Executing /\ UNCHANGED <<job, found>>
      BY <1>3 DEF GraphStep, ReadCheckpoint, ResolveLink, StoreInput, GatherRead, Discover,
                  StoreRead, StoreCommit, GatherDone, BadgesDone, CheckStopped, Finish, Completed
    <2>2. \E label \in {"failing", "releasing"} \cup Executing : pc' = [pc EXCEPT ![w] = label]
      <3>1. CASE ReadCheckpoint(w)
        <4>1. next[job[w]] \in Nodes
          BY <1>0, <2>1 DEF TypeOK, Nodes
        <4>2. QED
          BY <3>1, <4>1 DEF ReadCheckpoint, Nodes
      <3>2. CASE ResolveLink(w)
        BY <1>0, <2>1, <3>2 DEF ResolveLink
      <3>3. CASE ~ReadCheckpoint(w) /\ ~ResolveLink(w)
        BY <1>3, <3>3 DEF GraphStep, StoreInput, GatherRead, Discover, StoreRead, StoreCommit,
                          GatherDone, BadgesDone, CheckStopped, Finish
      <3>4. QED
        BY <3>1, <3>2, <3>3
    <2>3. QED
      BY <1>0, <2>1, <2>2
  <1>4. ASSUME NEW w \in Worker,
               Progress(w) \/ ExecutionFails(w) \/ RecordFailure(w) \/ Release(w)
        PROVE  \A v \in Worker : Placed(v)'
    BY <1>0, <1>4 DEF Progress, ExecutionFails, RecordFailure, Release
  <1>5. ASSUME NEW w \in Worker, Heartbeat(w) \/ HeartbeatFails(w) \/ Crash(w) \/ LoseLock(w)
        PROVE  \A v \in Worker : Placed(v)'
    BY <1>0, <1>5 DEF Heartbeat, HeartbeatFails, Crash, LoseLock
  <1>6. ASSUME NEW t \in Trip, Request(t)
        PROVE  UNCHANGED <<pc, job, found>>
    BY <1>6 DEF Request, StartFirst, StartAgain, BuildResume, BuildCommit, BuildRestores, EraseRun
  <1>7. Tick => UNCHANGED <<pc, job, found>>
    BY DEF Tick
  <1>8. UNCHANGED vars => UNCHANGED <<pc, job, found>>
    BY DEF vars
  <1>9. QED
    BY <1>1, <1>2, <1>3, <1>4, <1>5, <1>6, <1>7, <1>8, Steps

-----------------------------------------------------------------------------
\* The steps that touch a lock or a worker's trip.
LEMMA LockSteps ==
    ASSUME Next
    PROVE  \/ UNCHANGED <<job, lock, losses>>
           \/ \E w \in Worker, t \in Trip :
                 /\ pc[w] = "scanning" /\ lock[t] = None
                 /\ lock' = [lock EXCEPT ![t] = w] /\ job' = [job EXCEPT ![w] = t]
                 /\ losses' = losses
           \/ \E w \in Worker :
                 /\ job' = [job EXCEPT ![w] = None]
                 /\ pc[w] \in Owning
                 /\ Unlock(w)
                 /\ losses' \in {losses, losses + 1}
           \/ \E w \in Worker : Crash(w)
           \/ \E w \in Worker : LoseLock(w)
  <1> USE DEF Owning, Executing, trip, run, worker
  <1>1. ASSUME NEW w \in Worker, ClaimStep(w)
        PROVE  \/ UNCHANGED <<job, lock, losses>>
               \/ \E t \in Trip :
                     /\ pc[w] = "scanning" /\ lock[t] = None
                     /\ lock' = [lock EXCEPT ![t] = w] /\ job' = [job EXCEPT ![w] = t]
                     /\ losses' = losses
               \/ /\ job' = [job EXCEPT ![w] = None]
                  /\ pc[w] \in Owning
                  /\ Unlock(w)
                  /\ losses' \in {losses, losses + 1}
    BY <1>1 DEF ClaimStep, Poll, ScanEnd, Recheck, Begin, RowMissing, TryLock
  <1>2. ASSUME NEW w \in Worker, GraphStep(w) PROVE UNCHANGED <<job, lock, losses>>
    BY <1>2 DEF GraphStep, ReadCheckpoint, ResolveLink, StoreInput, GatherRead, Discover, StoreRead,
                StoreCommit, GatherDone, BadgesDone, CheckStopped, Finish, Completed
  <1>3. ASSUME NEW w \in Worker,
               Progress(w) \/ ExecutionFails(w) \/ RecordFailure(w) \/ Release(w)
        PROVE  \/ UNCHANGED <<job, lock, losses>>
               \/ /\ job' = [job EXCEPT ![w] = None]
                  /\ pc[w] \in Owning
                  /\ Unlock(w)
                  /\ losses' \in {losses, losses + 1}
    BY <1>3 DEF Progress, ExecutionFails, RecordFailure, Release
  <1>4. ASSUME NEW w \in Worker, Heartbeat(w) \/ HeartbeatFails(w) \/ Crash(w) \/ LoseLock(w)
        PROVE  \/ UNCHANGED <<job, lock, losses>>
               \/ /\ job' = [job EXCEPT ![w] = None]
                  /\ pc[w] \in Owning
                  /\ Unlock(w)
                  /\ losses' \in {losses, losses + 1}
               \/ Crash(w) \/ LoseLock(w)
    BY <1>4 DEF Heartbeat, HeartbeatFails, Unlock
  <1>5. ASSUME NEW t \in Trip, Request(t)
        PROVE  UNCHANGED <<job, lock, losses>>
    BY <1>5 DEF Request, StartFirst, StartAgain, BuildResume, BuildCommit, BuildRestores, EraseRun
  <1>6. Tick => UNCHANGED <<job, lock, losses>>
    BY DEF Tick
  <1>7. QED
    BY <1>1, <1>2, <1>3, <1>4, <1>5, <1>6, Steps

\* Only a lost connection makes an orphan.
LEMMA OrphansMade ==
    ASSUME TypeOK, WorkersPlaced, [Next]_vars
    PROVE  \/ Orphans' \subseteq Orphans /\ losses' >= losses
           \/ \E w \in Worker : Orphans' \subseteq Orphans \cup {w} /\ losses' = losses + 1
  <1>0. /\ None \notin Trip /\ None \notin Worker
        /\ job \in [Worker -> Trip \cup {None}] /\ lock \in [Trip -> Worker \cup {None}]
        /\ losses \in Nat
        /\ \A w \in Worker : pc[w] \in Owning <=> job[w] # None
    BY GatherAssumption DEF TypeOK, WorkersPlaced
  <1>1. CASE UNCHANGED <<job, lock, losses>>
    BY <1>0, <1>1 DEF Orphans
  <1>2. ASSUME NEW w \in Worker, NEW t \in Trip, pc[w] = "scanning", lock[t] = None,
               lock' = [lock EXCEPT ![t] = w], job' = [job EXCEPT ![w] = t], losses' = losses
        PROVE  Orphans' \subseteq Orphans /\ losses' >= losses
    BY <1>0, <1>2 DEF Orphans
  <1>3. ASSUME NEW w \in Worker, job' = [job EXCEPT ![w] = None], pc[w] \in Owning, Unlock(w),
               losses' \in {losses, losses + 1}
        PROVE  Orphans' \subseteq Orphans /\ losses' >= losses
    BY <1>0, <1>3 DEF Orphans, Unlock, Connected
  <1>4. ASSUME NEW w \in Worker, Crash(w)
        PROVE  Orphans' \subseteq Orphans /\ losses' >= losses
    BY <1>0, <1>4 DEF Orphans, Crash
  <1>5. ASSUME NEW w \in Worker, LoseLock(w)
        PROVE  Orphans' \subseteq Orphans \cup {w} /\ losses' = losses + 1
    BY <1>0, <1>5 DEF Orphans, LoseLock, Connected, worker
  <1>6. CASE UNCHANGED vars
    BY <1>1, <1>6 DEF vars, worker
  <1>7. QED
    BY <1>1, <1>2, <1>3, <1>4, <1>5, <1>6, LockSteps

LEMMA OrphansCountedKept ==
    TypeOK /\ WorkersPlaced /\ OrphansCounted /\ [Next]_vars => OrphansCounted'
  <1> SUFFICES ASSUME TypeOK, WorkersPlaced, OrphansCounted, [Next]_vars
               PROVE  OrphansCounted'
    OBVIOUS
  <1>0. /\ IsFiniteSet(Orphans) /\ Cardinality(Orphans) \in Nat
        /\ Cardinality(Orphans) <= losses /\ losses \in Nat
    BY FS_CardinalityType DEF OrphansCounted, TypeOK
  <1>1. losses' \in Nat
    BY TypesKept DEF TypeOK
  <1>2. CASE Orphans' \subseteq Orphans /\ losses' >= losses
    <2>1. IsFiniteSet(Orphans') /\ Cardinality(Orphans') <= Cardinality(Orphans)
      BY <1>0, <1>2, FS_Subset
    <2>2. Cardinality(Orphans') \in Nat
      BY <2>1, FS_CardinalityType
    <2>3. QED
      BY <1>0, <1>1, <1>2, <2>1, <2>2 DEF OrphansCounted
  <1>3. ASSUME NEW w \in Worker, Orphans' \subseteq Orphans \cup {w}, losses' = losses + 1
        PROVE  OrphansCounted'
    <2> DEFINE More == Orphans \cup {w}
    <2>1. IsFiniteSet(More) /\ Cardinality(More) <= Cardinality(Orphans) + 1
      BY <1>0, FS_AddElement
    <2>2. IsFiniteSet(Orphans') /\ Cardinality(Orphans') <= Cardinality(More)
      BY <1>3, <2>1, FS_Subset
    <2>3. Cardinality(Orphans') \in Nat /\ Cardinality(More) \in Nat
      BY <2>1, <2>2, FS_CardinalityType
    <2>4. QED
      BY <1>0, <1>3, <2>1, <2>2, <2>3 DEF OrphansCounted
  <1>4. QED
    BY <1>2, <1>3, OrphansMade

\* A row once there stays or is erased, for good.
LEMMA RowsStay ==
    ASSUME TypeOK, WorkersPlaced, [Next]_vars
    PROVE  \A t \in Trip : /\ status[t] # "none" => status'[t] # "none"
                           /\ status[t] = "erased" => status'[t] = "erased"
  <1>0. /\ status \in [Trip -> Statuses] /\ job \in [Worker -> Trip \cup {None}]
    BY DEF TypeOK, Statuses
  <1> USE DEF trip, run, worker, Goto
  <1>1. CASE UNCHANGED vars
    BY <1>1 DEF vars
  <1>2. ASSUME NEW t \in Trip, Request(t)
        PROVE  \A u \in Trip : /\ status[u] # "none" => status'[u] # "none"
                               /\ status[u] = "erased" => status'[u] = "erased"
    BY <1>0, <1>2 DEF Request, StartFirst, StartAgain, BuildResume, BuildCommit, BuildRestores,
                      EraseRun
  <1>3. ASSUME NEW w \in Worker, ClaimStep(w)
        PROVE  \A u \in Trip : /\ status[u] # "none" => status'[u] # "none"
                               /\ status[u] = "erased" => status'[u] = "erased"
    BY <1>0, <1>3 DEF ClaimStep, Poll, ScanEnd, Recheck, Begin, RowMissing, TryLock
  <1>4. ASSUME NEW w \in Worker, GraphStep(w)
        PROVE  \A u \in Trip : /\ status[u] # "none" => status'[u] # "none"
                               /\ status[u] = "erased" => status'[u] = "erased"
    BY <1>0, <1>4 DEF GraphStep, ReadCheckpoint, ResolveLink, StoreInput, GatherRead, Discover,
                      StoreRead, StoreCommit, GatherDone, BadgesDone, CheckStopped, Finish, Completed
  <1>5. ASSUME NEW w \in Worker,
               Progress(w) \/ ExecutionFails(w) \/ RecordFailure(w) \/ Release(w)
        PROVE  \A u \in Trip : /\ status[u] # "none" => status'[u] # "none"
                               /\ status[u] = "erased" => status'[u] = "erased"
    BY <1>0, <1>5 DEF Progress, ExecutionFails, RecordFailure, Release
  <1>6. ASSUME NEW w \in Worker, Heartbeat(w) \/ HeartbeatFails(w) \/ Crash(w) \/ LoseLock(w)
        PROVE  status' = status
    BY <1>6 DEF Heartbeat, HeartbeatFails, Crash, LoseLock
  <1>7. Tick => status' = status
    BY DEF Tick
  <1>8. QED
    BY <1>1, <1>2, <1>3, <1>4, <1>5, <1>6, <1>7, Steps

\* Only the recheck moves a worker from its lock to a claim.
LEMMA ClaimsChecked ==
    ASSUME TypeOK, WorkersPlaced, [Next]_vars, NEW w \in Worker, pc'[w] \in Owning \ {"locked"}
    PROVE  /\ job'[w] = job[w]
           /\ \/ pc[w] \in Owning \ {"locked"}
              \/ pc[w] = "locked" /\ status[job[w]] \in {"queued", "running"}
  <1>0. pc \in [Worker -> Places] /\ job \in [Worker -> Trip \cup {None}]
    BY DEF TypeOK, Places
  <1> DEFINE Goal == /\ job'[w] = job[w]
                     /\ \/ pc[w] \in Owning \ {"locked"}
                        \/ pc[w] = "locked" /\ status[job[w]] \in {"queued", "running"}
  <1> SUFFICES Goal
    OBVIOUS
  <1> USE DEF trip, run, worker, Goto, Owning, Executing
  <1>1. CASE UNCHANGED <<pc, job>>
    BY <1>0, <1>1
  <1>2. ASSUME NEW v \in Worker, ClaimStep(v) PROVE Goal
    BY <1>0, <1>2 DEF ClaimStep, Poll, ScanEnd, Recheck, Begin, RowMissing, TryLock
  <1>3. ASSUME NEW v \in Worker, GraphStep(v) PROVE Goal
    <2>1. pc[v] \in Executing /\ job' = job
      BY <1>3 DEF GraphStep, ReadCheckpoint, ResolveLink, StoreInput, GatherRead, Discover,
                  StoreRead, StoreCommit, GatherDone, BadgesDone, CheckStopped, Finish, Completed
    <2>2. \A u \in Worker : u # v => pc'[u] = pc[u]
      BY <1>0, <1>3 DEF GraphStep, ReadCheckpoint, ResolveLink, StoreInput, GatherRead, Discover,
                        StoreRead, StoreCommit, GatherDone, BadgesDone, CheckStopped, Finish, Completed
    <2>3. QED
      BY <2>1, <2>2
  <1>4. ASSUME NEW v \in Worker,
               Progress(v) \/ ExecutionFails(v) \/ RecordFailure(v) \/ Release(v)
        PROVE  Goal
    BY <1>0, <1>4 DEF Progress, ExecutionFails, RecordFailure, Release
  <1>5. ASSUME NEW v \in Worker, Heartbeat(v) \/ HeartbeatFails(v) \/ Crash(v) \/ LoseLock(v)
        PROVE  Goal
    BY <1>0, <1>5 DEF Heartbeat, HeartbeatFails, Crash, LoseLock
  <1>6. ASSUME NEW t \in Trip, Request(t)
        PROVE  UNCHANGED <<pc, job>>
    BY <1>6 DEF Request, StartFirst, StartAgain, BuildResume, BuildCommit, BuildRestores, EraseRun
  <1>7. (Tick => UNCHANGED <<pc, job>>) /\ (UNCHANGED vars => UNCHANGED <<pc, job>>)
    BY DEF Tick, vars
  <1>8. QED
    BY <1>1, <1>2, <1>3, <1>4, <1>5, <1>6, <1>7, Steps

\* The checkpoint moves under a worker that executes the run, a build or the
\* deletion, and a build resumes a checkpoint it found.
LEMMA CheckpointMoves ==
    ASSUME TypeOK, WorkersPlaced, [Next]_vars, NEW t \in Trip
    PROVE  /\ next'[t] # next[t] =>
                  \/ next[t] = "aggregate" /\ building' = building \cup {t}
                  \/ t \in building
                  \/ next'[t] = "empty" /\ status'[t] = "erased"
                  \/ \E w \in Worker : pc[w] \in Executing /\ job[w] = t
           /\ next'[t] = "crossed" /\ next[t] # "crossed" => t \in building'
           /\ t \in building' \ building => next[t] = "aggregate" /\ next'[t] = "crossed"
           /\ next'[t] = "empty" => next[t] = "empty" \/ status'[t] = "erased"
  <1>0. /\ next \in [Trip -> Nodes] /\ job \in [Worker -> Trip \cup {None}]
        /\ building \subseteq Trip /\ status \in [Trip -> Statuses]
    BY DEF TypeOK, Nodes, Statuses
  <1> USE DEF trip, run, worker
  <1>1. CASE UNCHANGED <<next, building>>
    BY <1>0, <1>1
  <1>2. ASSUME NEW u \in Trip, Request(u)
        PROVE  \/ UNCHANGED <<next, building>>
               \/ /\ next[u] = "aggregate" /\ next' = [next EXCEPT ![u] = "crossed"]
                  /\ building' = building \cup {u}
               \/ UNCHANGED next /\ building' \subseteq building
               \/ /\ u \in building /\ next' = [next EXCEPT ![u] = "crossed"]
                  /\ next[u] = "empty" /\ building' = building
               \/ /\ next' = [next EXCEPT ![u] = "empty"] /\ building' = building
                  /\ status'[u] = "erased"
    BY <1>2, <1>0 DEF Request, StartFirst, StartAgain, BuildResume, BuildCommit, BuildRestores,
                      EraseRun
  <1>3. ASSUME NEW w \in Worker, GraphStep(w)
        PROVE  /\ building' = building
               /\ \/ next' = next
                  \/ /\ pc[w] \in Executing
                     /\ \E node \in Nodes \ {"crossed", "empty"} : next' = [next EXCEPT ![job[w]] = node]
    BY <1>3 DEF GraphStep, ReadCheckpoint, ResolveLink, StoreInput, GatherRead, Discover, StoreRead,
                StoreCommit, GatherDone, BadgesDone, CheckStopped, Finish, Completed, Executing,
                Nodes
  <1>4. ASSUME NEW w \in Worker,
               \/ ClaimStep(w)
               \/ Progress(w) \/ ExecutionFails(w) \/ RecordFailure(w) \/ Release(w)
               \/ Heartbeat(w) \/ HeartbeatFails(w) \/ Crash(w) \/ LoseLock(w)
        PROVE  UNCHANGED <<next, building>>
    BY <1>4 DEF ClaimStep, Poll, ScanEnd, Recheck, Begin, RowMissing, TryLock,
                Progress, ExecutionFails, RecordFailure, Release,
                Heartbeat, HeartbeatFails, Crash, LoseLock
  <1>5. (Tick => UNCHANGED <<next, building>>) /\ (UNCHANGED vars => UNCHANGED <<next, building>>)
    BY DEF Tick, vars
  <1>6. CASE \E u \in Trip : Request(u)
    BY <1>0, <1>2, <1>6
  <1>7. CASE \E w \in Worker : GraphStep(w)
    <2>1. PICK w \in Worker : GraphStep(w)
      BY <1>7
    <2>2. CASE next' = next
      BY <1>3, <2>1, <2>2
    <2>3. ASSUME NEW node \in Nodes \ {"crossed", "empty"}, next' = [next EXCEPT ![job[w]] = node],
                 pc[w] \in Executing
          PROVE  /\ next'[t] # next[t] => job[w] = t
                 /\ next'[t] = "crossed" => next[t] = "crossed"
                 /\ next'[t] = "empty" => next[t] = "empty"
      BY <1>0, <2>3 DEF Nodes
    <2>4. QED
      BY <1>3, <2>1, <2>2, <2>3
  <1>8. QED
    BY <1>1, <1>4, <1>5, <1>6, <1>7, Steps

LEMMA StartedKept == TypeOK /\ WorkersPlaced /\ Started /\ [Next]_vars => Started'
  <1> SUFFICES ASSUME TypeOK, WorkersPlaced, Started, [Next]_vars PROVE Started'
    OBVIOUS
  <1>0. job \in [Worker -> Trip \cup {None}] /\ next \in [Trip -> Nodes]
        /\ \A w \in Worker : pc[w] \in Owning => job[w] \in Trip
    BY DEF TypeOK, WorkersPlaced, Nodes
  <1>1. ASSUME NEW w \in Worker, pc'[w] \in Owning \ {"locked"}
        PROVE  status'[job'[w]] # "none"
    <2>1. job'[w] = job[w] /\ job[w] \in Trip /\ status[job[w]] # "none"
      BY <1>0, <1>1, ClaimsChecked DEF Started, Owning
    <2>2. QED
      BY <2>1, RowsStay
  <1>2. ASSUME NEW t \in Trip, next'[t] # "empty" \/ t \in building'
        PROVE  status'[t] # "none"
    <2>1. status[t] # "none" \/ status'[t] = "erased"
      BY <1>2, CheckpointMoves DEF Started, Owning, Executing
    <2>2. QED
      BY <2>1, RowsStay
  <1>3. ASSUME NEW t \in Trip, t \in building', next'[t] = "empty"
        PROVE  status'[t] = "erased"
    BY <1>3, CheckpointMoves, RowsStay DEF Started
  <1>4. QED
    BY <1>1, <1>2, <1>3 DEF Started

\* A deck never loses its cards.
LEMMA DeckStays ==
    ASSUME TypeOK, WorkersPlaced, [Next]_vars
    PROVE  \A t \in Trip : Deck(t) => Deck(t)'
  <1>0. pool \in [Trip -> Nat]
    BY DEF TypeOK
  <1>1. linked \subseteq linked'
    <2>1. ASSUME NEW w \in Worker, GraphStep(w) PROVE linked \subseteq linked'
      BY <2>1 DEF GraphStep, ReadCheckpoint, ResolveLink, StoreInput, GatherRead, Discover,
                  StoreRead, StoreCommit, GatherDone, BadgesDone, CheckStopped, Finish, Completed, trip
    <2>2. ~(\E w \in Worker : GraphStep(w)) => linked' = linked
      BY Steps DEF ClaimStep, Poll, ScanEnd, Recheck, Begin, RowMissing, TryLock,
                   Progress, ExecutionFails, RecordFailure, Release,
                   Heartbeat, HeartbeatFails, Crash, LoseLock,
                   Request, StartFirst, StartAgain, BuildResume, BuildCommit, BuildRestores,
                   EraseRun, Tick, vars, trip
    <2>3. QED
      BY <2>1, <2>2
  <1>2. pool' = pool \/ \E t \in Trip : pool' = [pool EXCEPT ![t] = @ + 1]
    <2>1. ASSUME NEW w \in Worker, GraphStep(w)
          PROVE  pool' = pool \/ \E t \in Trip : pool' = [pool EXCEPT ![t] = @ + 1]
      <3>1. CASE StoreCommit(w)
        <4>1. job[w] \in Trip
          BY <3>1 DEF StoreCommit, WorkersPlaced, TypeOK, Owning, Executing
        <4>2. QED
          BY <3>1, <4>1 DEF StoreCommit
      <3>2. CASE ~StoreCommit(w)
        BY <2>1, <3>2 DEF GraphStep, ReadCheckpoint, ResolveLink, StoreInput, GatherRead,
                          Discover, StoreRead,
                          GatherDone, BadgesDone, CheckStopped, Finish, Completed, trip
      <3>3. QED
        BY <3>1, <3>2
    <2>2. ~(\E w \in Worker : GraphStep(w)) => pool' = pool
      BY Steps DEF ClaimStep, Poll, ScanEnd, Recheck, Begin, RowMissing, TryLock,
                   Progress, ExecutionFails, RecordFailure, Release,
                   Heartbeat, HeartbeatFails, Crash, LoseLock,
                   Request, StartFirst, StartAgain, BuildResume, BuildCommit, BuildRestores,
                   EraseRun, Tick, vars, trip
    <2>3. QED
      BY <2>1, <2>2
  <1>3. QED
    BY <1>0, <1>1, <1>2 DEF Deck

LEMMA CompletedMeansDeckKept ==
    TypeOK /\ WorkersPlaced /\ Started /\ CompletedMeansDeck /\ [Next]_vars => CompletedMeansDeck'
  <1> SUFFICES ASSUME TypeOK, WorkersPlaced, Started, CompletedMeansDeck, [Next]_vars
               PROVE  CompletedMeansDeck'
    OBVIOUS
  <1>0. /\ status \in [Trip -> Statuses] /\ stage \in [Trip -> Stages]
        /\ building \subseteq Trip /\ job \in [Worker -> Trip \cup {None}]
        /\ \A w \in Worker : pc[w] \in Owning => job[w] \in Trip
        /\ \A t \in Trip : Deck(t) => Deck(t)'
    BY DeckStays DEF TypeOK, Statuses, Stages, WorkersPlaced, Started
  <1> DEFINE Ended(t) ==
                /\ status[t] = "completed" => stage[t] \in {"swiping", "shortlisting"}
                /\ status[t] = "completed" \/ stage[t] = "swiping" => Deck(t)
  <1> SUFFICES ASSUME NEW t \in Trip PROVE Ended(t)'
    BY DEF CompletedMeansDeck
  <1>1. Ended(t)
    BY DEF CompletedMeansDeck
  <1> USE DEF run, trip, worker
  <1>2. CASE UNCHANGED <<status, stage>>
    BY <1>0, <1>1, <1>2
  <1>3. ASSUME NEW u \in Trip, Request(u)
        PROVE  Ended(t)'
    BY <1>0, <1>1, <1>3 DEF Request, StartFirst, StartAgain, BuildResume, BuildCommit,
                            BuildRestores, EraseRun, Statuses, Stages
  <1>4. ASSUME NEW w \in Worker, ClaimStep(w) PROVE Ended(t)'
    <2>1. CASE Begin(w)
      BY <1>0, <1>1, <2>1 DEF Begin, Owning, Statuses
    <2>2. CASE ~Begin(w)
      BY <1>2, <1>4, <2>2 DEF ClaimStep, Poll, ScanEnd, Recheck, RowMissing, TryLock
    <2>3. QED
      BY <2>1, <2>2
  <1>5. ASSUME NEW w \in Worker, GraphStep(w) PROVE Ended(t)'
    <2>1. CASE Finish(w)
      <3>1. job[w] \in Trip
        BY <1>0, <2>1 DEF Finish, Completed, Owning, Executing
      <3>2. CASE Deck(job[w]) /\ job[w] = t
        <4>1. stage'[t] = "swiping"
          BY <1>0, <2>1, <3>2 DEF Finish, Completed
        <4>2. QED
          BY <1>0, <3>2, <4>1
      <3>3. CASE ~(Deck(job[w]) /\ job[w] = t)
        <4>1. stage'[t] = stage[t] /\ status'[t] = status[t]
          BY <1>0, <2>1, <3>3 DEF Finish, Completed
        <4>2. QED
          BY <1>0, <1>1, <4>1
      <3>4. QED
        BY <3>2, <3>3
    <2>2. CASE ~Finish(w)
      BY <1>2, <1>5, <2>2 DEF GraphStep, ReadCheckpoint, ResolveLink, StoreInput, GatherRead,
                              Discover, StoreRead,
                              StoreCommit, GatherDone, BadgesDone, CheckStopped
    <2>3. QED
      BY <2>1, <2>2
  <1>6. ASSUME NEW w \in Worker,
               Progress(w) \/ ExecutionFails(w) \/ RecordFailure(w) \/ Release(w)
        PROVE  Ended(t)'
    BY <1>0, <1>1, <1>6 DEF Progress, ExecutionFails, RecordFailure, Release
  <1>7. ASSUME NEW w \in Worker, Heartbeat(w) \/ HeartbeatFails(w) \/ Crash(w) \/ LoseLock(w)
        PROVE  UNCHANGED <<status, stage>>
    BY <1>7 DEF Heartbeat, HeartbeatFails, Crash, LoseLock
  <1>8. (Tick => UNCHANGED <<status, stage>>) /\ (UNCHANGED vars => UNCHANGED <<status, stage>>)
    BY DEF Tick, vars
  <1>9. QED
    BY <1>2, <1>3, <1>4, <1>5, <1>6, <1>7, <1>8, Steps

-----------------------------------------------------------------------------
LEMMA QueueInvInit == Init => QueueInv
  <1> SUFFICES ASSUME Init PROVE QueueInv
    OBVIOUS
  <1>1. WorkersPlaced /\ Started /\ CompletedMeansDeck
    BY DEF Init, WorkersPlaced, Started, CompletedMeansDeck, Owning, Executing
  <1>2. Orphans = {}
    BY DEF Init, Orphans
  <1>3. OrphansCounted
    BY <1>2, FS_EmptySet DEF Init, OrphansCounted
  <1>4. QED
    BY <1>1, <1>3, TypesInit DEF QueueInv

LEMMA QueueInvKept == QueueInv /\ [Next]_vars => QueueInv'
  BY TypesKept, PlacesKept, OrphansCountedKept, StartedKept, CompletedMeansDeckKept DEF QueueInv

THEOREM QueueInvariant == Spec => []QueueInv
  BY QueueInvInit, QueueInvKept, PTL DEF Spec

\* The variables have the types of their columns and locals, whatever crashes,
\* stalls or loses its connection.
THEOREM TypeCorrect == Spec => []TypeOK
  <1>1. QueueInv => TypeOK
    BY DEF QueueInv
  <1>2. QED
    BY <1>1, QueueInvariant, PTL

\* A completed run has left an open trip behind, and an open trip has cards, with
\* its run or, after a member's account was deleted, without (_execute_run,
\* delete_personal_data).
THEOREM CompletedMeansDeckHolds == Spec => []CompletedMeansDeck
  <1>1. QueueInv => CompletedMeansDeck
    BY DEF QueueInv
  <1>2. QED
    BY <1>1, QueueInvariant, PTL

\* No worker, however often its run is resumed, takes the graph past the swipe
\* interrupt (_execute_run): only a build of the group does.
THEOREM OnlyGroupCrossesHolds == Spec => OnlyGroupCrosses
  <1>1. QueueInv /\ [Next]_vars =>
            [\A t \in Trip : next[t] # "crossed" /\ next'[t] = "crossed" => t \in building']_vars
    BY CheckpointMoves DEF QueueInv
  <1>2. QED
    BY <1>1, QueueInvariant, PTL DEF Spec, OnlyGroupCrosses

-----------------------------------------------------------------------------
\* Ownership.  A worker that is no orphan holds the lock of its trip.
LEMMA Owner ==
    ASSUME NEW v \in Worker \ Orphans, NEW w \in Worker \ Orphans, job[v] = job[w], job[v] # None
    PROVE  v = w
  BY DEF Orphans

LEMMA NoLossNoOrphan == QueueInv /\ losses = 0 => Orphans = {}
  <1> SUFFICES ASSUME QueueInv, losses = 0 PROVE Orphans = {}
    OBVIOUS
  <1>1. IsFiniteSet(Orphans) /\ Cardinality(Orphans) <= 0 /\ Cardinality(Orphans) \in Nat
    BY FS_CardinalityType DEF QueueInv, OrphansCounted
  <1>2. QED
    BY <1>1, FS_EmptySet

\* The owner executes alone but for the orphans.
LEMMA ExecutorsBounded == QueueInv => ExclusiveExecution
  <1> SUFFICES ASSUME QueueInv, NEW t \in Trip PROVE Cardinality(Executors(t)) <= 1 + losses
    BY DEF ExclusiveExecution
  <1> DEFINE Most == Orphans \cup {lock[t]}
  <1>1. Executors(t) \subseteq Most
    BY GatherAssumption DEF Executors, Orphans
  <1>2. /\ IsFiniteSet(Orphans) /\ Cardinality(Orphans) \in Nat
        /\ Cardinality(Orphans) <= losses /\ losses \in Nat
    BY FS_CardinalityType DEF QueueInv, OrphansCounted, TypeOK
  <1>3. IsFiniteSet(Most) /\ Cardinality(Most) <= Cardinality(Orphans) + 1
    BY <1>2, FS_AddElement
  <1>4. IsFiniteSet(Executors(t)) /\ Cardinality(Executors(t)) <= Cardinality(Most)
    BY <1>1, <1>3, FS_Subset
  <1>5. Cardinality(Executors(t)) \in Nat /\ Cardinality(Most) \in Nat
    BY <1>3, <1>4, FS_CardinalityType
  <1>6. QED
    BY <1>2, <1>3, <1>4, <1>5

\* A slow worker is never overtaken (own_gather): beside the owner of a trip only
\* workers execute it whose connection was lost, each loss allowing one.
THEOREM ExclusiveExecutionHolds == Spec => []ExclusiveExecution
  BY QueueInvariant, ExecutorsBounded, PTL

\* Who changes a row: a request, over no row or a failed one or by deleting it, or
\* a worker that claims, completes or fails the run of its own trip.
LEMMA StatusMoves ==
    ASSUME TypeOK, WorkersPlaced, [Next]_vars, NEW t \in Trip, status'[t] # status[t]
    PROVE  \/ /\ status[t] \in {"none", "failed"} \/ status'[t] = "erased"
              /\ UNCHANGED <<worker, lock>>
           \/ \E w \in Worker :
                 /\ pc[w] \in Owning /\ job[w] = t
                 /\ \/ pc[w] = "claimed" /\ Begin(w)
                    \/ /\ pc'[w] = "releasing"
                       /\ \/ pc[w] = "finishing" /\ status'[t] = "completed"
                          \/ pc[w] = "failing" /\ status[t] = "running" /\ status'[t] = "failed"
  <1>0. /\ status \in [Trip -> Statuses] /\ pc \in [Worker -> Places]
        /\ \A w \in Worker : pc[w] \in Executing => job[w] \in Trip
    BY DEF TypeOK, Statuses, Places, WorkersPlaced, Owning
  <1> DEFINE Goal == \/ /\ status[t] \in {"none", "failed"} \/ status'[t] = "erased"
                        /\ UNCHANGED <<worker, lock>>
                     \/ \E w \in Worker :
                           /\ pc[w] \in Owning /\ job[w] = t
                           /\ \/ pc[w] = "claimed" /\ Begin(w)
                              \/ /\ pc'[w] = "releasing"
                                 /\ \/ pc[w] = "finishing" /\ status'[t] = "completed"
                                    \/ pc[w] = "failing" /\ status[t] = "running" /\ status'[t] = "failed"
  <1> SUFFICES Goal
    OBVIOUS
  <1> USE DEF run, trip, worker, Goto
  <1>1. ASSUME NEW u \in Trip, Request(u)
        PROVE  Goal
    BY <1>0, <1>1 DEF Request, StartFirst, StartAgain, BuildResume, BuildCommit, BuildRestores,
                      EraseRun
  <1>2. ASSUME NEW w \in Worker, ClaimStep(w) PROVE Begin(w) /\ job[w] = t /\ pc[w] = "claimed"
    BY <1>0, <1>2 DEF ClaimStep, Poll, ScanEnd, Recheck, Begin, RowMissing, TryLock
  <1>3. ASSUME NEW w \in Worker, GraphStep(w)
        PROVE  /\ pc[w] = "finishing" /\ job[w] = t
               /\ pc'[w] = "releasing" /\ status'[t] = "completed"
    BY <1>0, <1>3 DEF GraphStep, ReadCheckpoint, ResolveLink, StoreInput, GatherRead, Discover,
                      StoreRead, StoreCommit, GatherDone, BadgesDone, CheckStopped, Finish, Completed,
                      Executing
  <1>4. ASSUME NEW w \in Worker,
               Progress(w) \/ ExecutionFails(w) \/ RecordFailure(w) \/ Release(w)
        PROVE  /\ pc[w] = "failing" /\ job[w] = t /\ status[t] = "running"
               /\ pc'[w] = "releasing" /\ status'[t] = "failed"
    BY <1>0, <1>4 DEF Progress, ExecutionFails, RecordFailure, Release
  <1>5. ASSUME NEW w \in Worker, Heartbeat(w) \/ HeartbeatFails(w) \/ Crash(w) \/ LoseLock(w)
        PROVE  FALSE
    BY <1>5 DEF Heartbeat, HeartbeatFails, Crash, LoseLock
  <1>6. ~Tick /\ ~UNCHANGED vars
    BY DEF Tick, vars
  <1>7. QED
    BY <1>1, <1>2, <1>3, <1>4, <1>5, <1>6, Steps DEF Owning, Executing

\* A claim comes from a recheck, which leaves the row alone.
LEMMA ClaimedFrom ==
    ASSUME TypeOK, WorkersPlaced, [Next]_vars, NEW w \in Worker, pc'[w] = "claimed"
    PROVE  /\ job'[w] = job[w] /\ job[w] \in Trip
           /\ \/ pc[w] = "claimed"
              \/ status' = status /\ status[job[w]] \in {"queued", "running"}
  <1>0. pc \in [Worker -> Places] /\ job[w] \in Trip /\ job'[w] = job[w]
    BY ClaimsChecked DEF TypeOK, Places, WorkersPlaced, Owning
  <1> DEFINE Goal == pc[w] = "claimed" \/ (status' = status /\ status[job[w]] \in {"queued", "running"})
  <1> USE DEF trip, run, worker, Goto, Executing
  <1>1. ASSUME NEW v \in Worker, ClaimStep(v) PROVE Goal
    BY <1>0, <1>1 DEF ClaimStep, Poll, ScanEnd, Recheck, Begin, RowMissing, TryLock
  <1>2. ASSUME NEW v \in Worker, GraphStep(v) PROVE Goal
    <2>1. CASE ReadCheckpoint(v)
      BY <1>0, <2>1 DEF ReadCheckpoint, TypeOK, WorkersPlaced, Owning
    <2>2. CASE ~ReadCheckpoint(v)
      BY <1>0, <1>2, <2>2 DEF GraphStep, ResolveLink, StoreInput, GatherRead, Discover, StoreRead,
                      StoreCommit, GatherDone, BadgesDone, CheckStopped, Finish, Completed
    <2>3. QED
      BY <2>1, <2>2
  <1>3. ASSUME NEW v \in Worker,
               Progress(v) \/ ExecutionFails(v) \/ RecordFailure(v) \/ Release(v)
        PROVE  Goal
    BY <1>0, <1>3 DEF Progress, ExecutionFails, RecordFailure, Release
  <1>4. ASSUME NEW v \in Worker, Heartbeat(v) \/ HeartbeatFails(v) \/ Crash(v) \/ LoseLock(v)
        PROVE  Goal
    BY <1>0, <1>4 DEF Heartbeat, HeartbeatFails, Crash, LoseLock
  <1>5. ASSUME \/ \E t \in Trip : Request(t)
               \/ Tick \/ UNCHANGED vars
        PROVE  Goal
    BY <1>5 DEF Request, StartFirst, StartAgain, BuildResume, BuildCommit, BuildRestores,
                EraseRun, Tick, vars
  <1>6. Goal
    BY <1>1, <1>2, <1>3, <1>4, <1>5, Steps
  <1>7. QED
    BY <1>0, <1>6

\* Without a loss nobody but its owner touches the row of a claimed run.
LEMMA ClaimStandsKept == QueueInv /\ ClaimStands /\ [Next]_vars => ClaimStands'
  <1> SUFFICES ASSUME QueueInv, ClaimStands, [Next]_vars, losses' = 0,
                      NEW w \in Worker, pc'[w] = "claimed"
               PROVE  status'[job'[w]] \in {"queued", "running", "erased"}
    BY DEF ClaimStands
  <1>0. TypeOK /\ WorkersPlaced
    BY DEF QueueInv
  <1>1. losses = 0
    BY <1>0, OrphansMade DEF TypeOK
  <1>2. Orphans = {}
    BY <1>1, NoLossNoOrphan
  <1>3. /\ job'[w] = job[w] /\ job[w] \in Trip
        /\ \/ pc[w] = "claimed"
           \/ status' = status /\ status[job[w]] \in {"queued", "running"}
    BY <1>0, ClaimedFrom
  <1>4. CASE pc[w] = "claimed"
    <2>1. status[job[w]] \in {"queued", "running", "erased"}
      BY <1>1, <1>4 DEF ClaimStands
    <2>2. SUFFICES ASSUME status'[job[w]] # status[job[w]], status'[job[w]] # "erased"
                   PROVE  FALSE
      BY <1>3, <2>1
    <2>3. PICK v \in Worker :
             /\ job[v] = job[w]
             /\ Begin(v) \/ pc[v] \in {"finishing", "failing"}
      BY <1>0, <1>3, <2>1, <2>2, StatusMoves
    <2>4. v = w
      BY <1>2, <1>3, <2>3, Owner, GatherAssumption
    <2>5. Begin(w)
      BY <1>4, <2>3, <2>4
    <2>6. pc'[w] = "starting"
      BY <1>0, <2>5 DEF Begin, Goto, TypeOK
    <2>7. QED
      BY <2>6
  <1>5. QED
    BY <1>3, <1>4

\* A completed run is only ever erased, while no connection is lost, however long the
\* workers stall that still hold it from a poll before (own_gather's recheck).
THEOREM CompletedIsFinalHolds ==
    ASSUME MaxLosses = 0
    PROVE  Spec => CompletedIsFinal
  <1>1. QueueInv /\ ClaimStands /\ [Next]_vars =>
            [\A t \in Trip : status[t] = "completed" => status'[t] \in {"completed", "erased"}]_vars
    <2> SUFFICES ASSUME QueueInv, ClaimStands, [Next]_vars, NEW t \in Trip,
                        status[t] = "completed", status'[t] \notin {"completed", "erased"}
                 PROVE  FALSE
      OBVIOUS
    <2>1. losses = 0 /\ TypeOK /\ WorkersPlaced
      BY DEF QueueInv, TypeOK
    <2>2. PICK w \in Worker : pc[w] = "claimed" /\ job[w] = t
      BY <2>1, StatusMoves
    <2>3. QED
      BY <2>1, <2>2 DEF ClaimStands
  <1>2. Init => ClaimStands
    BY DEF Init, ClaimStands
  <1>3. QED
    BY <1>1, <1>2, ClaimStandsKept, QueueInvariant, PTL DEF Spec, CompletedIsFinal

-----------------------------------------------------------------------------
\* One pool.  What a step does to heartbeats, candidates, trips and ages.
LEMMA BeatSteps ==
    ASSUME [Next]_vars
    PROVE  \/ UNCHANGED <<beat, pulsed>>
           \/ \E v \in Worker : Begin(v) \/ Heartbeat(v) \/ HeartbeatFails(v)
           \/ Tick
  <1> USE DEF trip, run, worker, vars
  <1>1. ASSUME NEW w \in Worker, ClaimStep(w) PROVE UNCHANGED <<beat, pulsed>> \/ Begin(w)
    BY <1>1 DEF ClaimStep, Poll, ScanEnd, Recheck, RowMissing, TryLock
  <1>2. ASSUME NEW w \in Worker, GraphStep(w) PROVE UNCHANGED <<beat, pulsed>>
    BY <1>2 DEF GraphStep, ReadCheckpoint, ResolveLink, StoreInput, GatherRead, Discover, StoreRead,
                StoreCommit, GatherDone, BadgesDone, CheckStopped, Finish, Completed
  <1>3. ASSUME NEW w \in Worker,
               Progress(w) \/ ExecutionFails(w) \/ RecordFailure(w) \/ Release(w)
        PROVE  UNCHANGED <<beat, pulsed>>
    BY <1>3 DEF Progress, ExecutionFails, RecordFailure, Release
  <1>4. ASSUME NEW w \in Worker, Crash(w) \/ LoseLock(w)
        PROVE  UNCHANGED <<beat, pulsed>>
    BY <1>4 DEF Crash, LoseLock
  <1>5. ASSUME NEW t \in Trip, Request(t)
        PROVE  UNCHANGED <<beat, pulsed>>
    BY <1>5 DEF Request, StartFirst, StartAgain, BuildResume, BuildCommit, BuildRestores, EraseRun
  <1>6. QED
    BY <1>1, <1>2, <1>3, <1>4, <1>5, Steps

\* Execution begins with a claim.
LEMMA ExecutingFrom ==
    ASSUME TypeOK, WorkersPlaced, [Next]_vars, NEW w \in Worker, pc'[w] \in Executing
    PROVE  /\ job'[w] = job[w] /\ job[w] \in Trip
           /\ pc[w] \in Executing \/ Begin(w)
  <1>0. /\ pc \in [Worker -> Places] /\ job[w] \in Trip /\ job'[w] = job[w]
    BY ClaimsChecked DEF TypeOK, Places, WorkersPlaced, Owning, Executing
  <1> DEFINE Goal == pc[w] \in Executing \/ Begin(w)
  <1> USE DEF trip, run, worker, Goto
  <1>1. ASSUME NEW v \in Worker, ClaimStep(v) PROVE Goal
    BY <1>0, <1>1 DEF ClaimStep, Poll, ScanEnd, Recheck, Begin, RowMissing, TryLock, Executing
  <1>2. ASSUME NEW v \in Worker, GraphStep(v) PROVE Goal
    <2>1. pc[v] \in Executing /\ \A u \in Worker : u # v => pc'[u] = pc[u]
      BY <1>0, <1>2 DEF GraphStep, ReadCheckpoint, ResolveLink, StoreInput, GatherRead, Discover,
                        StoreRead, StoreCommit, GatherDone, BadgesDone, CheckStopped, Finish, Completed,
                        Executing
    <2>2. QED
      BY <2>1
  <1>3. ASSUME NEW v \in Worker,
               Progress(v) \/ ExecutionFails(v) \/ RecordFailure(v) \/ Release(v)
        PROVE  Goal
    BY <1>0, <1>3 DEF Progress, ExecutionFails, RecordFailure, Release, Executing
  <1>4. ASSUME NEW v \in Worker, Heartbeat(v) \/ HeartbeatFails(v) \/ Crash(v) \/ LoseLock(v)
        PROVE  Goal
    BY <1>0, <1>4 DEF Heartbeat, HeartbeatFails, Crash, LoseLock, Executing
  <1>5. ASSUME \/ \E t \in Trip : Request(t)
               \/ Tick \/ UNCHANGED vars
        PROVE  Goal
    BY <1>5 DEF Request, StartFirst, StartAgain, BuildResume, BuildCommit, BuildRestores,
                EraseRun, Tick, vars
  <1>6. QED
    BY <1>0, <1>1, <1>2, <1>3, <1>4, <1>5, Steps

\* While it executes, a worker marks heartbeats only by sending them, and only a
\* connected one counts.
LEMMA BeatsSent ==
    ASSUME TypeOK, WorkersPlaced, [Next]_vars, NEW w \in Worker, pc'[w] \in Executing
    PROVE  /\ Begin(w) => beat'[w] /\ ~pulsed'[w]
           /\ pulsed'[w] => pulsed[w] \/ (Heartbeat(w) /\ Connected(w))
           /\ pc[w] \in Executing /\ beat'[w] /\ ~beat[w] => Heartbeat(w) /\ Connected(w)
           /\ ~beat'[w] => ~beat[w] \/ Tick
           /\ pulsed[w] /\ ~pulsed'[w] => Begin(w)
  <1>0. /\ beat \in [Worker -> BOOLEAN] /\ pulsed \in [Worker -> BOOLEAN]
        /\ pc \in [Worker -> Places]
    BY DEF TypeOK, Places
  <1>1. CASE UNCHANGED <<beat, pulsed>>
    <2>1. ~Begin(w) \/ (beat'[w] /\ ~pulsed'[w])
      BY <1>0, Zenon DEF Begin
    <2>2. QED
      BY <1>1, <2>1, Zenon
  <1>2. ASSUME NEW v \in Worker, Begin(v)
        PROVE  /\ Begin(w) => beat'[w] /\ ~pulsed'[w]
               /\ pulsed'[w] => pulsed[w]
               /\ pc[w] \in Executing /\ beat'[w] => beat[w]
               /\ ~beat'[w] => ~beat[w]
               /\ pulsed[w] /\ ~pulsed'[w] => Begin(w)
    <2>1. beat' = [beat EXCEPT ![v] = TRUE] /\ pulsed' = [pulsed EXCEPT ![v] = FALSE]
          /\ pc[v] = "claimed"
      BY <1>2 DEF Begin
    <2>2. pc[v] \notin Executing
      BY <2>1 DEF Executing
    <2>3. CASE v = w
      BY <1>0, <1>2, <2>1, <2>2, <2>3, Zenon
    <2>4. CASE v # w
      <3>1. ~Begin(w) \/ (beat'[w] /\ ~pulsed'[w])
        BY <1>0, Zenon DEF Begin
      <3>2. QED
        BY <1>0, <2>1, <2>2, <2>4, <3>1, Zenon
    <2>5. QED
      BY <2>3, <2>4
  <1>3. ASSUME NEW v \in Worker, Heartbeat(v)
        PROVE  /\ ~Begin(w)
               /\ pulsed'[w] => pulsed[w] \/ (Heartbeat(w) /\ Connected(w))
               /\ beat'[w] /\ ~beat[w] => Heartbeat(w) /\ Connected(w)
               /\ ~beat'[w] => ~beat[w]
               /\ pulsed[w] => pulsed'[w]
    <2>1. /\ beat' = [beat EXCEPT ![v] = TRUE]
          /\ pulsed' = pulsed \/ pulsed' = [pulsed EXCEPT ![v] = TRUE]
          /\ Connected(v) \/ pc'[v] = "idle"
      BY <1>0, <1>3 DEF Heartbeat, Goto
    <2>2. ~Begin(w)
      BY <1>0, <1>3 DEF Heartbeat, Begin, Goto, Executing, Places
    <2>3. "idle" \notin Executing
      BY DEF Executing
    <2>4. CASE v = w
      BY <1>0, <1>3, <2>1, <2>2, <2>3, <2>4, Zenon
    <2>5. CASE v # w
      BY <1>0, <2>1, <2>2, <2>5, Zenon
    <2>6. QED
      BY <2>4, <2>5
  <1>4. ASSUME NEW v \in Worker, HeartbeatFails(v)
        PROVE  /\ ~Begin(w)
               /\ pulsed'[w] <=> pulsed[w]
               /\ beat'[w] <=> beat[w]
    <2>1. beat' = [beat EXCEPT ![v] = TRUE] /\ pulsed' = pulsed /\ pc'[v] = "idle"
      BY <1>0, <1>4 DEF HeartbeatFails, Goto
    <2>2. ~Begin(w)
      BY <1>0, <1>4 DEF HeartbeatFails, Begin, Goto, Executing, Places
    <2>3. v # w
      BY <2>1 DEF Executing
    <2>4. QED
      BY <1>0, <2>1, <2>2, <2>3, Zenon
  <1>5. CASE Tick
    <2>1. ~beat'[w] /\ pulsed' = pulsed /\ pc' = pc
      BY <1>5 DEF Tick
    <2>2. ~Begin(w)
      BY <2>1 DEF Begin, Executing
    <2>3. QED
      BY <1>5, <2>1, <2>2, Zenon
  <1>6. QED
    BY <1>1, <1>2, <1>3, <1>4, <1>5, BeatSteps, Zenon

\* Candidates come from a poll, trips from candidates.
LEMMA CandidatesFrom ==
    ASSUME TypeOK, WorkersPlaced, [Next]_vars, NEW w \in Worker, NEW t \in Trip
    PROVE  /\ t \in found'[w] => t \in found[w] \/ t \in PendingRuns
           /\ job'[w] = t => job[w] = t \/ t \in found[w]
  <1>0. /\ found \in [Worker -> SUBSET Trip] /\ job \in [Worker -> Trip \cup {None}]
        /\ None \notin Trip
    BY GatherAssumption DEF TypeOK
  <1> DEFINE Goal == /\ t \in found'[w] => t \in found[w] \/ t \in PendingRuns
                     /\ job'[w] = t => job[w] = t \/ t \in found[w]
  <1> USE DEF trip, run, worker, Goto
  <1>1. ASSUME NEW v \in Worker, ClaimStep(v) PROVE Goal
    BY <1>0, <1>1 DEF ClaimStep, Poll, ScanEnd, Recheck, Begin, RowMissing, TryLock
  <1>2. ASSUME NEW v \in Worker, GraphStep(v) PROVE UNCHANGED <<found, job>>
    BY <1>2 DEF GraphStep, ReadCheckpoint, ResolveLink, StoreInput, GatherRead, Discover, StoreRead,
                StoreCommit, GatherDone, BadgesDone, CheckStopped, Finish, Completed
  <1>3. ASSUME NEW v \in Worker,
               Progress(v) \/ ExecutionFails(v) \/ RecordFailure(v) \/ Release(v)
        PROVE  Goal
    BY <1>0, <1>3 DEF Progress, ExecutionFails, RecordFailure, Release
  <1>4. ASSUME NEW v \in Worker, Heartbeat(v) \/ HeartbeatFails(v) \/ Crash(v) \/ LoseLock(v)
        PROVE  Goal
    BY <1>0, <1>4 DEF Heartbeat, HeartbeatFails, Crash, LoseLock
  <1>5. ASSUME \/ \E u \in Trip : Request(u)
               \/ Tick \/ UNCHANGED vars
        PROVE  UNCHANGED <<found, job>>
    BY <1>5 DEF Request, StartFirst, StartAgain, BuildResume, BuildCommit, BuildRestores,
                EraseRun, Tick, vars
  <1>6. QED
    BY <1>1, <1>2, <1>3, <1>4, <1>5, Steps

\* A row ages with time alone; a claim and a counted heartbeat make it new.
LEMMA AgeMoves ==
    ASSUME TypeOK, WorkersPlaced, [Next]_vars, NEW t \in Trip
    PROVE  /\ ~Tick => age'[t] \in {0, age[t]}
           /\ Tick => age'[t] <= age[t] + 1
           /\ \A w \in Worker : job[w] = t /\ (Begin(w) \/ (Heartbeat(w) /\ Connected(w))) =>
                  age'[t] = 0
  <1>0. age \in [Trip -> Nat]
    BY GatherAssumption DEF TypeOK
  <1> DEFINE Touched == age' = age \/ \E u : age' = [age EXCEPT ![u] = 0]
  <1> USE DEF trip, run, worker
  <1>1. ASSUME NEW v \in Worker, ClaimStep(v) PROVE Touched
    BY <1>1 DEF ClaimStep, Poll, ScanEnd, Recheck, Begin, RowMissing, TryLock
  <1>2. ASSUME NEW v \in Worker, GraphStep(v) PROVE Touched
    BY <1>2 DEF GraphStep, ReadCheckpoint, ResolveLink, StoreInput, GatherRead, Discover, StoreRead,
                StoreCommit, GatherDone, BadgesDone, CheckStopped, Finish, Completed
  <1>3. ASSUME NEW v \in Worker,
               Progress(v) \/ ExecutionFails(v) \/ RecordFailure(v) \/ Release(v)
        PROVE  Touched
    BY <1>3 DEF Progress, ExecutionFails, RecordFailure, Release
  <1>4. ASSUME NEW v \in Worker, Heartbeat(v) \/ HeartbeatFails(v) \/ Crash(v) \/ LoseLock(v)
        PROVE  Touched
    BY <1>4 DEF Heartbeat, HeartbeatFails, Crash, LoseLock
  <1>5. ASSUME \/ \E u \in Trip : Request(u)
               \/ UNCHANGED vars
        PROVE  Touched
    BY <1>5 DEF Request, StartFirst, StartAgain, BuildResume, BuildCommit, BuildRestores,
                EraseRun, vars
  <1>6. ~Tick => Touched
    BY <1>1, <1>2, <1>3, <1>4, <1>5, Steps
  <1>7. ~Tick => age'[t] \in {0, age[t]}
    BY <1>0, <1>6
  <1>8. Tick => age'[t] <= age[t] + 1
    BY <1>0 DEF Tick
  <1>9. ASSUME NEW w \in Worker, job[w] = t, Begin(w) \/ (Heartbeat(w) /\ Connected(w))
        PROVE  age'[t] = 0
    <2>1. age' = [age EXCEPT ![job[w]] = 0]
      BY <1>9 DEF Begin, Heartbeat
    <2>2. QED
      BY <1>0, <1>9, <2>1
  <1>10. QED
    BY <1>7, <1>8, <1>9

\* Time passes a prompt worker only between its heartbeats, and never while it
\* claims.
LEMMA TickWaits ==
    ASSUME TypeOK, WorkersPlaced, Tick, Prompt = Worker, NEW w \in Worker
    PROVE  /\ pc[w] \in Executing => beat[w]
           /\ found[w] = {} /\ ~beat'[w]
           /\ UNCHANGED <<pc, job, found, pulsed, lock, status>>
  BY DEF Tick, Brief, WorkersPlaced, TypeOK

\* The pool grows by an insert, which is reached from a read of no pool.
LEMMA PoolMoves ==
    ASSUME TypeOK, WorkersPlaced, [Next]_vars
    PROVE  /\ \A t \in Trip : pool'[t] # pool[t] =>
                  /\ pool'[t] = pool[t] + 1
                  /\ \E w \in Worker : /\ pc[w] = "inserting" /\ job[w] = t
                                       /\ pc'[w] = "gathered"
           /\ \A w \in Worker : pc'[w] \in {"storing", "inserting"} =>
                  /\ job'[w] = job[w]
                  /\ \/ pc[w] = pc'[w]
                     \/ pc'[w] = "storing" /\ pulsed[w] /\ pulsed' = pulsed
                     \/ /\ pc'[w] = "inserting" /\ pc[w] = "storing"
                        /\ pool[job[w]] = 0 /\ pool' = pool
  <1>0. /\ pool \in [Trip -> Nat] /\ pc \in [Worker -> Places]
        /\ job \in [Worker -> Trip \cup {None}]
        /\ \A w \in Worker : pc[w] \in Executing => job[w] \in Trip
    BY DEF TypeOK, Places, WorkersPlaced, Owning
  <1> DEFINE Grown == \A t \in Trip : pool'[t] # pool[t] =>
                          /\ pool'[t] = pool[t] + 1
                          /\ \E w \in Worker : /\ pc[w] = "inserting" /\ job[w] = t
                                               /\ pc'[w] = "gathered"
             Reached == \A w \in Worker : pc'[w] \in {"storing", "inserting"} =>
                            /\ job'[w] = job[w]
                            /\ \/ pc[w] = pc'[w]
                               \/ pc'[w] = "storing" /\ pulsed[w] /\ pulsed' = pulsed
                               \/ /\ pc'[w] = "inserting" /\ pc[w] = "storing"
                                  /\ pool[job[w]] = 0 /\ pool' = pool
  <1> USE DEF trip, run, worker, Goto, Executing
  <1>1. ASSUME NEW v \in Worker, ClaimStep(v) PROVE Grown /\ Reached
    BY <1>0, <1>1 DEF ClaimStep, Poll, ScanEnd, Recheck, Begin, RowMissing, TryLock
  <1>2. ASSUME NEW v \in Worker, GraphStep(v) PROVE Grown /\ Reached
    <2>1. CASE ReadCheckpoint(v)
      <3>1. pc'[v] \notin {"storing", "inserting"} /\ pool' = pool /\ job' = job
            /\ \A w \in Worker : w # v => pc'[w] = pc[w]
        BY <1>0, <2>1 DEF ReadCheckpoint, TypeOK
      <3>2. QED
        BY <3>1
    <2>2. CASE StoreRead(v)
      BY <1>0, <2>2 DEF StoreRead
    <2>3. CASE Discover(v)
      BY <1>0, <2>3 DEF Discover
    <2>4. CASE ~ReadCheckpoint(v) /\ ~StoreRead(v) /\ ~Discover(v)
      BY <1>0, <1>2, <2>4 DEF GraphStep, ResolveLink, StoreInput, GatherRead,
                  StoreCommit, GatherDone, BadgesDone, CheckStopped, Finish, Completed
    <2>5. QED
      BY <2>1, <2>2, <2>3, <2>4
  <1>3. ASSUME NEW v \in Worker,
               Progress(v) \/ ExecutionFails(v) \/ RecordFailure(v) \/ Release(v)
        PROVE  Grown /\ Reached
    BY <1>0, <1>3 DEF Progress, ExecutionFails, RecordFailure, Release
  <1>4. ASSUME NEW v \in Worker, Heartbeat(v) \/ HeartbeatFails(v) \/ Crash(v) \/ LoseLock(v)
        PROVE  Grown /\ Reached
    BY <1>0, <1>4 DEF Heartbeat, HeartbeatFails, Crash, LoseLock
  <1>5. ASSUME \/ \E u \in Trip : Request(u)
               \/ Tick \/ UNCHANGED vars
        PROVE  Grown /\ Reached
    BY <1>5 DEF Request, StartFirst, StartAgain, BuildResume, BuildCommit, BuildRestores,
                EraseRun, Tick, vars
  <1>6. QED
    BY <1>1, <1>2, <1>3, <1>4, <1>5, Steps

\* Without rivals the pool stays single.
LEMMA InsertsKept ==
    TypeOK /\ WorkersPlaced /\ NoRivals /\ FirstInsert /\ PoolOnce /\ [Next]_vars =>
        FirstInsert' /\ PoolOnce'
  <1> SUFFICES ASSUME TypeOK, WorkersPlaced, NoRivals, FirstInsert, PoolOnce, [Next]_vars
               PROVE  FirstInsert' /\ PoolOnce'
    OBVIOUS
  <1>0. {"storing", "inserting"} \subseteq Executing /\ "claimed" \notin Executing
    BY DEF Executing
  <1>1. ASSUME NEW w \in Worker, pc'[w] \in {"storing", "inserting"} PROVE pulsed'[w]
    <2>1. pulsed[w] /\ (pulsed' = pulsed \/ pc[w] \in {"storing", "inserting"})
      BY <1>1, PoolMoves DEF FirstInsert
    <2>2. pc[w] \in {"storing", "inserting"} => ~Begin(w)
      BY DEF Begin
    <2>3. pulsed[w] /\ ~pulsed'[w] => Begin(w)
      BY <1>0, <1>1, BeatsSent
    <2>4. QED
      BY <2>1, <2>2, <2>3
  <1>2. ASSUME NEW w \in Worker, pc'[w] = "inserting" PROVE pool'[job'[w]] = 0
    <2>1. job'[w] = job[w] /\ job[w] \in Trip
      BY <1>0, <1>2, ExecutingFrom
    <2>2. CASE pc[w] = "inserting"
      <3>1. pool[job[w]] = 0 /\ pulsed[w]
        BY <2>2 DEF FirstInsert
      <3>2. SUFFICES ASSUME pool'[job[w]] # pool[job[w]] PROVE FALSE
        BY <2>1, <3>1
      <3>3. PICK v \in Worker : pc[v] = "inserting" /\ job[v] = job[w] /\ pc'[v] = "gathered"
        BY <2>1, <3>2, PoolMoves
      <3>4. v # w /\ pulsed[v]
        BY <1>2, <3>3 DEF FirstInsert
      <3>5. QED
        BY <1>0, <2>2, <3>1, <3>3, <3>4 DEF NoRivals
    <2>3. CASE pc[w] # "inserting"
      BY <1>2, <2>1, <2>3, PoolMoves
    <2>4. QED
      BY <2>2, <2>3
  <1>3. ASSUME NEW t \in Trip PROVE pool'[t] <= 1
    <2>1. CASE pool'[t] = pool[t]
      BY <2>1 DEF PoolOnce
    <2>2. CASE pool'[t] # pool[t]
      <3>1. pool'[t] = pool[t] + 1 /\ \E w \in Worker : pc[w] = "inserting" /\ job[w] = t
        BY <2>2, PoolMoves
      <3>2. pool[t] = 0
        BY <3>1 DEF FirstInsert
      <3>3. QED
        BY <3>1, <3>2
    <2>3. QED
      BY <2>1, <2>2
  <1>4. QED
    BY <1>1, <1>2, <1>3 DEF FirstInsert, PoolOnce

\* Before any loss an executing worker keeps its row, if no worker stalls.
LEMMA RowsFreshKept ==
    ASSUME QueueInv, Outpaced, RowsFresh, [Next]_vars
    PROVE  RowsFresh'
  <1>0. TypeOK /\ WorkersPlaced /\ Prompt = Worker /\ StaleAfter >= 2 /\ StaleAfter \in Nat
    BY GatherAssumption DEF QueueInv, Outpaced
  <1> SUFFICES ASSUME losses' = 0, NEW w \in Worker, pc'[w] \in Executing
               PROVE  /\ status'[job'[w]] \in {"running", "erased"}
                      /\ age'[job'[w]] <= IF beat'[w] THEN 0 ELSE 1
                      /\ ~beat'[w] \/ pulsed'[w] => \A c \in Worker : job'[w] \notin found'[c]
    BY DEF RowsFresh
  <1>1. losses = 0 /\ Orphans = {}
    BY <1>0, OrphansMade, NoLossNoOrphan DEF TypeOK
  <1>2. job'[w] = job[w] /\ job[w] \in Trip /\ (pc[w] \in Executing \/ Begin(w))
    BY <1>0, ExecutingFrom
  <1>3. CASE Begin(w)
    <2>1. beat'[w] /\ ~pulsed'[w]
      BY <1>0, <1>3, BeatsSent
    <2>2. age'[job[w]] = 0
      BY <1>0, <1>2, <1>3, AgeMoves
    <2>3. status'[job[w]] = "running"
      BY <1>0, <1>2, <1>3 DEF Begin, TypeOK
    <2>4. QED
      BY <1>2, <2>1, <2>2, <2>3
  <1>4. CASE pc[w] \in Executing /\ ~Begin(w)
    <2>1. /\ status[job[w]] \in {"running", "erased"}
          /\ age[job[w]] <= IF beat[w] THEN 0 ELSE 1
          /\ ~beat[w] \/ pulsed[w] => \A c \in Worker : job[w] \notin found[c]
          /\ age[job[w]] \in Nat /\ age'[job[w]] \in Nat
      BY <1>0, <1>1, <1>2, <1>4, TypesKept, GatherAssumption DEF RowsFresh, TypeOK
    <2>2. status'[job[w]] \in {"running", "erased"}
      <3>1. SUFFICES ASSUME status'[job[w]] # status[job[w]], status'[job[w]] # "erased"
                     PROVE  FALSE
        BY <2>1
      <3>2. PICK v \in Worker : job[v] = job[w] /\ (Begin(v) \/ pc'[v] = "releasing")
        BY <1>0, <1>2, <2>1, <3>1, StatusMoves
      <3>3. v = w
        BY <1>1, <1>2, <3>2, Owner, GatherAssumption
      <3>4. QED
        BY <1>4, <3>2, <3>3 DEF Executing
    <2>3. CASE Tick
      BY <1>0, <1>2, <1>4, <2>1, <2>2, <2>3, TickWaits, AgeMoves
    <2>4. CASE ~Tick
      <3>1. \A c \in Worker : job[w] \in found'[c] => job[w] \in found[c]
        <4>1. job[w] \notin PendingRuns
          BY <1>0, <2>1 DEF PendingRuns, Stale
        <4>2. QED
          BY <1>0, <1>2, <4>1, CandidatesFrom
      <3>2. age'[job[w]] \in {0, age[job[w]]}
        BY <1>0, <1>2, <2>4, AgeMoves
      <3>3. CASE Heartbeat(w) /\ Connected(w)
        <4>1. age'[job[w]] = 0
          BY <1>0, <1>2, <3>3, AgeMoves
        <4>2. ~beat[w]
          BY <3>3 DEF Heartbeat
        <4>3. QED
          BY <1>2, <2>1, <2>2, <3>1, <4>1, <4>2
      <3>4. CASE ~(Heartbeat(w) /\ Connected(w))
        <4>1. /\ beat'[w] => beat[w]
              /\ ~beat'[w] => ~beat[w]
              /\ pulsed'[w] => pulsed[w]
          BY <1>0, <1>4, <2>4, <3>4, BeatsSent
        <4>2. age'[job[w]] <= IF beat'[w] THEN 0 ELSE 1
          BY <2>1, <3>2, <4>1
        <4>3. QED
          BY <1>2, <2>1, <2>2, <3>1, <4>1, <4>2
      <3>5. QED
        BY <3>3, <3>4
    <2>5. QED
      BY <2>3, <2>4
  <1>5. QED
    BY <1>2, <1>3, <1>4

\* After the loss, the orphan's next heartbeat outruns its successor.
LEMMA OrphanOutrunKept ==
    ASSUME QueueInv, Outpaced, RowsFresh, OrphanOutrun, [Next]_vars
    PROVE  OrphanOutrun'
  <1>0. /\ TypeOK /\ WorkersPlaced /\ TypeOK' /\ Prompt = Worker
        /\ StaleAfter >= 2 /\ StaleAfter \in Nat /\ None \notin Trip
    BY QueueInvKept, GatherAssumption DEF QueueInv, Outpaced
  <1> SUFFICES ASSUME NEW o \in Orphans', pc'[o] \in Executing, pulsed'[o]
               PROVE  /\ beat'[o] =>
                            /\ status'[job'[o]] \in {"running", "erased"}
                            /\ age'[job'[o]] < StaleAfter
                            /\ \A c \in Worker \ {o} : job'[o] \notin found'[c] /\ job'[c] # job'[o]
                      /\ ~beat'[o] => \A c \in Worker \ {o} :
                            pc'[c] \in Executing /\ job'[c] = job'[o] => beat'[c] /\ ~pulsed'[c]
    BY DEF OrphanOutrun
  <1>1. o \in Worker /\ lock'[job'[o]] # o
    BY DEF Orphans
  <1>2. job'[o] = job[o] /\ job[o] \in Trip /\ (pc[o] \in Executing \/ Begin(o))
    BY <1>0, <1>1, ExecutingFrom
  <1>3. ~Begin(o) /\ pc[o] \in Executing
    BY <1>0, <1>1, <1>2, BeatsSent
  <1>4. ~(Heartbeat(o) /\ Connected(o))
    BY <1>1, <1>2 DEF Heartbeat, Connected
  <1>5. pulsed[o] /\ (beat'[o] => beat[o]) /\ (~beat'[o] => ~beat[o] \/ Tick)
    BY <1>0, <1>1, <1>3, <1>4, BeatsSent
  <1> DEFINE Alone == /\ status[job[o]] \in {"running", "erased"} /\ age[job[o]] < StaleAfter
                      /\ \A c \in Worker \ {o} : job[o] \notin found[c] /\ job[c] # job[o]
  \* What lone execution becomes, whether o was an orphan or is about to be one.
  <1>6. Alone => /\ ~Tick => Alone'
                 /\ \A c \in Worker \ {o} : job'[c] # job'[o]
    <2> SUFFICES ASSUME Alone
                 PROVE  /\ ~Tick => Alone'
                        /\ \A c \in Worker \ {o} : job'[c] # job'[o]
      OBVIOUS
    <2>1. \A c \in Worker \ {o} : job'[c] # job'[o]
      BY <1>0, <1>2, CandidatesFrom
    <2>2. \A c \in Worker \ {o} : job'[o] \notin found'[c]
      <3>1. job[o] \notin PendingRuns
        BY <1>0, <1>2 DEF PendingRuns, Stale
      <3>2. QED
        BY <1>0, <1>2, <3>1, CandidatesFrom
    <2>3. status'[job[o]] \in {"running", "erased"}
      <3>1. SUFFICES ASSUME status'[job[o]] # status[job[o]], status'[job[o]] # "erased"
                     PROVE  FALSE
        OBVIOUS
      <3>2. PICK v \in Worker : job[v] = job[o] /\ (Begin(v) \/ pc'[v] = "releasing")
        BY <1>0, <1>2, <3>1, StatusMoves
      <3>3. v = o
        BY <3>2
      <3>4. QED
        BY <1>3, <3>2, <3>3 DEF Executing
    <2>4. ~Tick => age'[job[o]] < StaleAfter
      <3>1. ~Tick => age'[job[o]] \in {0, age[job[o]]}
        BY <1>0, <1>2, AgeMoves
      <3>2. QED
        BY <1>0, <3>1
    <2>5. QED
      BY <1>2, <2>1, <2>2, <2>3, <2>4
  <1>7. CASE o \in Orphans
    <2>1. Tick => beat[o]
      BY <1>0, <1>1, <1>3, TickWaits
    <2>2. CASE beat[o]
      <3>1. Alone
        BY <1>3, <1>5, <1>7, <2>2 DEF OrphanOutrun
      <3>2. beat'[o] => ~Tick
        BY <1>0, <1>1, TickWaits
      <3>3. QED
        BY <1>2, <1>6, <3>1, <3>2
    <2>3. CASE ~beat[o]
      <3>1. ~Tick /\ ~beat'[o]
        BY <1>5, <2>1, <2>3
      <3>2. ASSUME NEW c \in Worker \ {o}, pc'[c] \in Executing, job'[c] = job'[o]
            PROVE  beat'[c] /\ ~pulsed'[c]
        <4>1. job'[c] = job[c] /\ (pc[c] \in Executing \/ Begin(c))
          BY <1>0, <3>2, ExecutingFrom
        <4>2. CASE Begin(c)
          BY <1>0, <3>2, <4>2, BeatsSent
        <4>3. CASE pc[c] \in Executing /\ ~Begin(c)
          <5>1. beat[c] /\ ~pulsed[c]
            BY <1>2, <1>3, <1>5, <1>7, <2>3, <3>2, <4>1, <4>3 DEF OrphanOutrun
          <5>2. ~Heartbeat(c)
            BY <5>1 DEF Heartbeat
          <5>3. QED
            BY <1>0, <3>1, <3>2, <5>1, <5>2, BeatsSent
        <4>4. QED
          BY <4>1, <4>2, <4>3
      <3>3. QED
        BY <3>1, <3>2
    <2>4. QED
      BY <2>2, <2>3
  <1>8. CASE o \notin Orphans
    <2>1. losses' = losses + 1
      BY <1>0, <1>8, OrphansMade
    <2>2. losses = 0 /\ Orphans = {}
      BY <1>0, <2>1, NoLossNoOrphan, GatherAssumption DEF Outpaced, TypeOK
    <2>3. ~Tick /\ losses' # losses
      BY <1>0, <2>1, <2>2 DEF Tick
    <2>4. \A c \in Worker \ {o} : job[c] # job[o]
      BY <1>0, <1>1, <1>2, <2>2, Owner
    <2>5. Alone
      <3>1. /\ status[job[o]] \in {"running", "erased"} /\ age[job[o]] <= IF beat[o] THEN 0 ELSE 1
            /\ \A c \in Worker : job[o] \notin found[c]
        BY <1>1, <1>3, <1>5, <2>2 DEF RowsFresh
      <3>2. age[job[o]] \in Nat
        BY <1>0, <1>2 DEF TypeOK
      <3>3. QED
        BY <1>0, <2>4, <3>1, <3>2
    <2>6. QED
      BY <1>6, <2>3, <2>5
  <1>9. QED
    BY <1>7, <1>8

LEMMA NoRivalsKept ==
    ASSUME QueueInv, Outpaced, OrphanOutrun, NoRivals, [Next]_vars
    PROVE  NoRivals'
  <1>0. TypeOK /\ WorkersPlaced /\ None \notin Trip
    BY GatherAssumption DEF QueueInv
  <1> SUFFICES ASSUME NEW v \in Worker, NEW w \in Worker, v # w, job'[v] = job'[w],
                      pc'[v] \in Executing, pc'[w] \in Executing, pulsed'[v], pulsed'[w]
               PROVE  FALSE
    BY DEF NoRivals
  <1>1. /\ job[v] = job[w] /\ job[w] \in Trip
        /\ pc[v] \in Executing \/ Begin(v)
        /\ pc[w] \in Executing \/ Begin(w)
    BY <1>0, ExecutingFrom
  <1>2. pc[v] \in Executing /\ pc[w] \in Executing
    BY <1>0, <1>1, BeatsSent
  \* A connected worker's counted heartbeat meets no orphan that has sent one.
  <1>3. ASSUME NEW x \in Worker, NEW y \in Worker, x # y, job[x] = job[y], job[y] \in Trip,
               pc[x] \in Executing, pc[y] \in Executing,
               pulsed[x], Heartbeat(y), Connected(y)
        PROVE  FALSE
    <2>1. ~beat[y] /\ lock[job[y]] = y
      BY <1>3 DEF Heartbeat, Connected
    <2>2. x \in Orphans
      BY <1>0, <1>3, <2>1 DEF Orphans
    <2>3. QED
      BY <1>3, <2>1, <2>2 DEF OrphanOutrun
  <1>4. /\ pulsed[v] \/ (Heartbeat(v) /\ Connected(v))
        /\ pulsed[w] \/ (Heartbeat(w) /\ Connected(w))
    BY <1>0, BeatsSent
  <1>5. CASE pulsed[v] /\ pulsed[w]
    BY <1>1, <1>2, <1>5 DEF NoRivals
  <1>6. CASE Connected(v) /\ Connected(w)
    BY <1>1, <1>6 DEF Connected
  <1>7. QED
    BY <1>1, <1>2, <1>3, <1>4, <1>5, <1>6

LEMMA PoolInvInit == Init => PoolInv
  <1> SUFFICES ASSUME Init PROVE PoolInv
    OBVIOUS
  <1>1. NoRivals /\ FirstInsert /\ PoolOnce /\ RowsFresh
    BY DEF Init, NoRivals, FirstInsert, PoolOnce, RowsFresh, Executing
  <1>2. OrphanOutrun
    BY DEF Init, Orphans, OrphanOutrun
  <1>3. QED
    BY <1>1, <1>2, QueueInvInit DEF PoolInv

\* The pool is discovered once, whatever crashes: while every connection stays
\* alive even if workers stall, and, where heartbeats are on time and staleness
\* takes two periods, with a connection lost at any moment.
THEOREM PoolOnceHolds ==
    ASSUME MaxLosses = 0 \/ Outpaced
    PROVE  Spec => []PoolOnce
  <1>1. CASE MaxLosses = 0
    <2> DEFINE Inv == QueueInv /\ FirstInsert /\ PoolOnce
    <2>1. ASSUME QueueInv PROVE NoRivals
      <3>1. losses = 0 /\ WorkersPlaced
        BY <1>1, <2>1 DEF QueueInv, TypeOK
      <3>2. Orphans = {}
        BY <2>1, <3>1, NoLossNoOrphan
      <3>3. QED
        BY <3>1, <3>2, Owner DEF NoRivals, WorkersPlaced, Owning
    <2>2. Inv /\ [Next]_vars => Inv'
      BY <2>1, QueueInvKept, InsertsKept DEF QueueInv
    <2>3. Init => Inv
      BY PoolInvInit DEF PoolInv
    <2>4. QED
      BY <2>2, <2>3, PTL DEF Spec
  <1>2. CASE Outpaced
    <2>1. PoolInv /\ [Next]_vars => PoolInv'
      BY <1>2, QueueInvKept, InsertsKept, NoRivalsKept, RowsFreshKept, OrphanOutrunKept
         DEF PoolInv, QueueInv
    <2>2. PoolInv => PoolOnce
      BY DEF PoolInv
    <2>3. QED
      BY <2>1, <2>2, PoolInvInit, PTL DEF Spec
  <1>3. QED
    BY <1>1, <1>2

-----------------------------------------------------------------------------
(***************************************************************************)
(* The queue implements DiscoveryPromise while no connection is lost.      *)
(***************************************************************************)

\* Where the checkpoint stands when the worker is at a place of the graph.
StandsAt(w) ==
    /\ pc[w] = "resolving" => next[job[w]] = "empty"
    /\ pc[w] \in {"gather", "discovering", "storing", "inserting", "gathered"}
          => next[job[w]] = "gather"
    /\ pc[w] = "badges" => next[job[w]] = "badges"
    /\ pc[w] \in {"checking", "finishing"} => next[job[w]] \in {"aggregate", "crossed"}

\* While no connection was lost, a worker knows the state of what it executes:
\* the row says so, and the checkpoint stands where the worker does, unless both
\* were erased.
Positions ==
    losses = 0 =>
        \A w \in Worker : pc[w] \in Executing =>
            /\ status[job[w]] \in {"running", "erased"}
            /\ status[job[w]] = "running" => StandsAt(w)

\* The input checkpoint precedes every insert.
LinksFirst ==
    losses = 0 => \A t \in Trip : next[t] = "empty" /\ status[t] # "erased" => pool[t] = 0

PromiseInv ==
    QueueInv /\ ClaimStands /\ FirstInsert /\ PoolOnce /\ Positions /\ LinksFirst

\* Only a build and the graph move the checkpoint of a run that is there, and none
\* moves it back to none.
LEMMA NextMoves ==
    ASSUME TypeOK, WorkersPlaced, Started, [Next]_vars, NEW t \in Trip, next'[t] # next[t],
           status'[t] # "erased"
    PROVE  /\ next'[t] # "empty"
           /\ \/ next[t] = "aggregate" /\ next'[t] = "crossed" /\ pc' = pc
              \/ \E v \in Worker : GraphStep(v) /\ pc[v] \in Executing /\ job[v] = t
  <1>0. /\ next \in [Trip -> Nodes] /\ status \in [Trip -> Statuses]
        /\ t \in building => next[t] # "empty"
    BY RowsStay DEF TypeOK, Nodes, Statuses, Started
  <1> DEFINE Goal == /\ next'[t] # "empty"
                     /\ \/ next[t] = "aggregate" /\ next'[t] = "crossed" /\ pc' = pc
                        \/ \E v \in Worker : GraphStep(v) /\ pc[v] \in Executing /\ job[v] = t
  <1> USE DEF trip, run, worker
  <1>1. ASSUME NEW u \in Trip, Request(u)
        PROVE  Goal
    BY <1>0, <1>1 DEF Request, StartFirst, StartAgain, BuildResume, BuildCommit, BuildRestores,
                      EraseRun
  <1>2. ASSUME NEW w \in Worker, GraphStep(w) PROVE Goal
    BY <1>0, <1>2 DEF GraphStep, ReadCheckpoint, ResolveLink, StoreInput, GatherRead, Discover,
                      StoreRead, StoreCommit, GatherDone, BadgesDone, CheckStopped, Finish, Completed, Executing
  <1>3. ASSUME NEW w \in Worker,
               \/ ClaimStep(w)
               \/ Progress(w) \/ ExecutionFails(w) \/ RecordFailure(w) \/ Release(w)
               \/ Heartbeat(w) \/ HeartbeatFails(w) \/ Crash(w) \/ LoseLock(w)
        PROVE  FALSE
    BY <1>3 DEF ClaimStep, Poll, ScanEnd, Recheck, Begin, RowMissing, TryLock,
                Progress, ExecutionFails, RecordFailure, Release,
                Heartbeat, HeartbeatFails, Crash, LoseLock
  <1>4. ~Tick /\ ~UNCHANGED vars
    BY DEF Tick, vars
  <1>5. QED
    BY <1>1, <1>2, <1>3, <1>4, Steps

\* A worker that executes before and after gets on by its own graph steps.
LEMMA GraphMoves ==
    ASSUME TypeOK, WorkersPlaced, [Next]_vars, NEW w \in Worker,
           pc[w] \in Executing, pc'[w] \in Executing
    PROVE  GraphStep(w) \/ pc'[w] = pc[w]
  <1>0. pc \in [Worker -> Places]
    BY DEF TypeOK, Places
  <1> DEFINE Goal == GraphStep(w) \/ pc'[w] = pc[w]
  <1> USE DEF trip, run, worker, Goto
  <1>1. ASSUME NEW v \in Worker, ClaimStep(v) PROVE Goal
    BY <1>0, <1>1 DEF ClaimStep, Poll, ScanEnd, Recheck, Begin, RowMissing, TryLock, Executing
  <1>2. ASSUME NEW v \in Worker, GraphStep(v) PROVE Goal
    <2>1. \A u \in Worker : u # v => pc'[u] = pc[u]
      BY <1>0, <1>2 DEF GraphStep, ReadCheckpoint, ResolveLink, StoreInput, GatherRead, Discover,
                        StoreRead, StoreCommit, GatherDone, BadgesDone, CheckStopped, Finish, Completed
    <2>2. QED
      BY <1>2, <2>1
  <1>3. ASSUME NEW v \in Worker,
               Progress(v) \/ ExecutionFails(v) \/ RecordFailure(v) \/ Release(v)
        PROVE  Goal
    BY <1>0, <1>3 DEF Progress, ExecutionFails, RecordFailure, Release, Executing
  <1>4. ASSUME NEW v \in Worker, Heartbeat(v) \/ HeartbeatFails(v) \/ Crash(v) \/ LoseLock(v)
        PROVE  Goal
    BY <1>0, <1>4 DEF Heartbeat, HeartbeatFails, Crash, LoseLock, Executing
  <1>5. ASSUME \/ \E u \in Trip : Request(u)
               \/ Tick \/ UNCHANGED vars
        PROVE  Goal
    BY <1>5 DEF Request, StartFirst, StartAgain, BuildResume, BuildCommit, BuildRestores,
                EraseRun, Tick, vars
  <1>6. QED
    BY <1>1, <1>2, <1>3, <1>4, <1>5, Steps

\* Where a graph step leaves its worker, and the checkpoint with it.
LEMMA GraphPositions ==
    ASSUME TypeOK, WorkersPlaced, NEW w \in Worker, GraphStep(w), StandsAt(w)
    PROVE  StandsAt(w)'
  <1>0. /\ pc \in [Worker -> Places] /\ next \in [Trip -> Nodes]
        /\ pc[w] \in Executing => job[w] \in Trip
    BY DEF TypeOK, Places, Nodes, WorkersPlaced, Owning
  <1> USE DEF trip, Goto, Executing, StandsAt
  <1>1. CASE ReadCheckpoint(w)
    <2>1. next' = next /\ next[job[w]] \in Nodes /\ job' = job
      BY <1>0, <1>1 DEF ReadCheckpoint
    <2>2. pc'[w] = CASE next[job[w]] = "empty"     -> "resolving"
                     [] next[job[w]] = "gather"    -> "gather"
                     [] next[job[w]] = "badges"    -> "badges"
                     [] next[job[w]] = "aggregate" -> "checking"
                     [] next[job[w]] = "crossed"  -> "failing"
      BY <1>0, <1>1 DEF ReadCheckpoint
    <2>3. QED
      BY <2>1, <2>2 DEF Nodes
  <1>2. CASE ResolveLink(w) \/ StoreInput(w)
    BY <1>0, <1>2 DEF ResolveLink, StoreInput, worker
  <1>3. CASE GatherRead(w) \/ Discover(w) \/ StoreRead(w) \/ StoreCommit(w)
    BY <1>0, <1>3 DEF GatherRead, Discover, StoreRead, StoreCommit
  <1>4. CASE GatherDone(w) \/ BadgesDone(w)
    BY <1>0, <1>4 DEF GatherDone, BadgesDone
  <1>5. CASE CheckStopped(w) \/ Finish(w)
    BY <1>0, <1>5 DEF CheckStopped, Finish
  <1>6. QED
    BY <1>1, <1>2, <1>3, <1>4, <1>5 DEF GraphStep

LEMMA PositionsKept == QueueInv /\ Positions /\ [Next]_vars => Positions'
  <1> SUFFICES ASSUME QueueInv, Positions, [Next]_vars, losses' = 0,
                      NEW w \in Worker, pc'[w] \in Executing
               PROVE  /\ status'[job'[w]] \in {"running", "erased"}
                      /\ status'[job'[w]] = "running" => StandsAt(w)'
    BY DEF Positions
  <1>0. TypeOK /\ WorkersPlaced /\ Started /\ None \notin Trip
    BY GatherAssumption DEF QueueInv
  <1>1. losses = 0 /\ Orphans = {}
    BY <1>0, OrphansMade, NoLossNoOrphan DEF TypeOK
  <1>2. job'[w] = job[w] /\ job[w] \in Trip /\ (pc[w] \in Executing \/ Begin(w))
    BY <1>0, ExecutingFrom
  <1>3. CASE Begin(w)
    <2>1. status'[job'[w]] = "running" /\ pc'[w] = "starting"
      BY <1>0, <1>2, <1>3 DEF Begin, Goto, TypeOK
    <2>2. QED
      BY <2>1 DEF StandsAt
  <1>4. CASE pc[w] \in Executing
    <2>1. /\ status[job[w]] \in {"running", "erased"}
          /\ status[job[w]] = "running" => StandsAt(w)
      BY <1>1, <1>4 DEF Positions
    <2>2. status'[job[w]] \in {"running", "erased"}
      <3>1. SUFFICES ASSUME status'[job[w]] # status[job[w]], status'[job[w]] # "erased"
                     PROVE  FALSE
        BY <2>1
      <3>2. PICK v \in Worker : job[v] = job[w] /\ (pc[v] = "claimed" \/ pc'[v] = "releasing")
        BY <1>0, <1>2, <2>1, <3>1, StatusMoves
      <3>3. v = w
        BY <1>0, <1>1, <1>2, <3>2, Owner
      <3>4. QED
        BY <1>4, <3>2, <3>3 DEF Executing
    <2> SUFFICES ASSUME status'[job[w]] = "running" PROVE StandsAt(w)'
      BY <1>2, <2>2
    <2>3. status[job[w]] = "running" /\ StandsAt(w)
      BY <1>0, <1>2, <2>1, RowsStay
    <2>4. CASE GraphStep(w)
      BY <1>0, <2>3, <2>4, GraphPositions
    <2>5. CASE ~GraphStep(w)
      <3>1. pc'[w] = pc[w]
        BY <1>0, <1>4, <2>5, GraphMoves
      <3>2. next'[job[w]] = next[job[w]]
               \/ (next[job[w]] = "aggregate" /\ next'[job[w]] = "crossed")
        <4>1. ASSUME NEW v \in Worker, GraphStep(v), job[v] = job[w] PROVE FALSE
          <5>1. v = w
            BY <1>0, <1>1, <1>2, <4>1, Owner
          <5>2. QED
            BY <2>5, <4>1, <5>1
        <4>2. status'[job[w]] # "erased"
          OBVIOUS
        <4>3. QED
          BY <1>0, <1>2, <4>1, <4>2, NextMoves
      <3>3. QED
        BY <1>2, <2>3, <3>1, <3>2 DEF StandsAt
    <2>6. QED
      BY <2>4, <2>5
  <1>5. QED
    BY <1>2, <1>3, <1>4

LEMMA LinksFirstKept == QueueInv /\ Positions /\ LinksFirst /\ [Next]_vars => LinksFirst'
  <1> SUFFICES ASSUME QueueInv, Positions, LinksFirst, [Next]_vars, losses' = 0,
                      NEW t \in Trip, next'[t] = "empty", status'[t] # "erased"
               PROVE  pool'[t] = 0
    BY DEF LinksFirst
  <1>0. TypeOK /\ WorkersPlaced /\ Started /\ losses = 0
    BY OrphansMade DEF QueueInv, TypeOK
  <1>1. next[t] = "empty" /\ status[t] # "erased" /\ pool[t] = 0
    BY <1>0, NextMoves, RowsStay DEF LinksFirst
  <1>2. \A w \in Worker : pc[w] = "inserting" /\ job[w] = t => next[t] = "gather"
    BY <1>0, <1>1 DEF Positions, StandsAt, Executing
  <1>3. QED
    BY <1>0, <1>1, <1>2, PoolMoves

LEMMA PromiseInvKept ==
    ASSUME MaxLosses = 0, PromiseInv, [Next]_vars
    PROVE  PromiseInv'
  <1>1. QueueInv' /\ ClaimStands' /\ Positions' /\ LinksFirst'
    BY QueueInvKept, ClaimStandsKept, PositionsKept, LinksFirstKept DEF PromiseInv
  <1>2. losses = 0 /\ TypeOK /\ WorkersPlaced
    BY DEF PromiseInv, QueueInv, TypeOK
  <1>3. NoRivals
    <2>1. Orphans = {}
      BY <1>2, NoLossNoOrphan DEF PromiseInv
    <2>2. QED
      BY <1>2, <2>1, Owner DEF NoRivals, WorkersPlaced, Owning
  <1>4. FirstInsert' /\ PoolOnce'
    BY <1>2, <1>3, InsertsKept DEF PromiseInv
  <1>5. QED
    BY <1>1, <1>4 DEF PromiseInv

\* A step of the promise for one trip is a step of it.
LEMMA VisibleStep ==
    ASSUME NEW t \in Trip,
           \/ Promise!Start(t) \/ Promise!Retry(t) \/ Promise!AddLinks(t) \/ Promise!AddPool(t)
           \/ Promise!Stop(t) \/ Promise!Open(t) \/ Promise!Fail(t) \/ Promise!Decide(t)
           \/ Promise!Erase(t) \/ Promise!Land(t)
    PROVE  Promise!Next
  BY DEF Promise!Next

\* The leader starts and retries, the group decides, a deletion erases.
LEMMA RequestsVisible ==
    ASSUME TypeOK, Started, NEW t \in Trip,
           Request(t)
    PROVE  Promise!Next \/ UNCHANGED Promise!vars
  <1>0. status \in [Trip -> Statuses] /\ next \in [Trip -> Nodes]
    BY DEF TypeOK, Statuses, Nodes
  <1> USE DEF run, trip
  <1>1. CASE StartFirst(t)
    <2>1. [u \in Trip |-> Phase[status'[u]]]
             = [[u \in Trip |-> Phase[status[u]]] EXCEPT ![t] = "discovering"]
      BY <1>0, <1>1 DEF StartFirst, Phase
    <2>2. Promise!Start(t)
      BY <1>1, <2>1 DEF StartFirst, Promise!Start, Phase
    <2>3. QED
      BY <2>2, VisibleStep
  <1>2. CASE StartAgain(t)
    <2>1. [u \in Trip |-> Phase[status'[u]]]
             = [[u \in Trip |-> Phase[status[u]]] EXCEPT ![t] = "discovering"]
      BY <1>0, <1>2 DEF StartAgain, Phase
    <2>2. Promise!Retry(t)
      BY <1>2, <2>1 DEF StartAgain, Promise!Retry, Phase
    <2>3. QED
      BY <2>2, VisibleStep
  <1>3. CASE BuildResume(t)
    <2>1. [u \in Trip |-> Point[next'[u]]]
             = [[u \in Trip |-> Point[next[u]]] EXCEPT ![t] = "past"]
      BY <1>0, <1>3 DEF BuildResume, Point
    <2>2. Promise!Decide(t)
      BY <1>3, <2>1 DEF BuildResume, Promise!Decide, Point
    <2>3. QED
      BY <2>2, VisibleStep
  <1>4. CASE BuildCommit(t)
    BY <1>4 DEF BuildCommit, Promise!vars
  <1>5. CASE BuildRestores(t)
    <2>1. status[t] = "erased"
      BY <1>5 DEF BuildRestores, Started
    <2>2. [u \in Trip |-> Point[next'[u]]]
             = [[u \in Trip |-> Point[next[u]]] EXCEPT ![t] = "past"]
      BY <1>0, <1>5 DEF BuildRestores, Point
    <2>3. Promise!Land(t)
      BY <1>5, <2>1, <2>2 DEF BuildRestores, Promise!Land, Phase
    <2>4. QED
      BY <2>3, VisibleStep
  <1>6. CASE EraseRun(t)
    <2>1. [u \in Trip |-> Phase[status'[u]]]
             = [[u \in Trip |-> Phase[status[u]]] EXCEPT ![t] = "erased"]
      BY <1>0, <1>6 DEF EraseRun, Phase
    <2>2. [u \in Trip |-> Point[next'[u]]]
             = [[u \in Trip |-> Point[next[u]]] EXCEPT ![t] = "before"]
      BY <1>0, <1>6 DEF EraseRun, Point
    <2>3. Phase[status[t]] # "draft"
      BY <1>0, <1>6 DEF EraseRun, Phase, Statuses
    <2>4. Promise!Erase(t)
      BY <1>6, <2>1, <2>2, <2>3 DEF EraseRun, Promise!Erase
    <2>5. QED
      BY <2>4, VisibleStep
  <1>7. QED
    BY <1>1, <1>2, <1>3, <1>4, <1>5, <1>6 DEF Request

\* A claim takes up a run that is still to be done.
LEMMA ClaimsInvisible ==
    ASSUME TypeOK, WorkersPlaced, ClaimStands, losses = 0, NEW w \in Worker, ClaimStep(w)
    PROVE  UNCHANGED Promise!vars
  <1>0. status \in [Trip -> Statuses]
    BY DEF TypeOK, Statuses
  <1>1. CASE Begin(w)
    <2>1. status[job[w]] \in {"queued", "running"}
      BY <1>1 DEF Begin, ClaimStands
    <2>2. status' = [status EXCEPT ![job[w]] = "running"]
      BY <1>1 DEF Begin
    <2>3. [t \in Trip |-> Phase[status'[t]]] = [t \in Trip |-> Phase[status[t]]]
      BY <1>0, <2>1, <2>2 DEF Phase
    <2>4. UNCHANGED <<next, pool, linked, retries>>
      BY <1>1 DEF Begin, trip
    <2>5. QED
      BY <2>3, <2>4 DEF Promise!vars
  <1>2. CASE ~Begin(w)
    BY <1>2 DEF ClaimStep, Poll, ScanEnd, Recheck, RowMissing, TryLock, run, trip, Promise!vars
  <1>3. QED
    BY <1>1, <1>2

\* What the graph commits: links, one pool, the stop for the vote, the opening.
LEMMA GraphVisible ==
    ASSUME TypeOK, WorkersPlaced, Positions, LinksFirst, FirstInsert, losses = 0,
           NEW w \in Worker, GraphStep(w), status[job[w]] # "erased"
    PROVE  Promise!Next \/ UNCHANGED Promise!vars
  <1>a. pc[w] \in Executing
    BY DEF GraphStep, ReadCheckpoint, ResolveLink, StoreInput, GatherRead, Discover, StoreRead,
           StoreCommit, GatherDone, BadgesDone, CheckStopped, Finish, Completed, Executing
  <1> SUFFICES ASSUME NEW t \in Trip, job[w] = t
               PROVE  Promise!Next \/ UNCHANGED Promise!vars
    BY <1>a DEF WorkersPlaced, TypeOK, Owning
  <1>0. /\ status \in [Trip -> Statuses] /\ next \in [Trip -> Nodes]
        /\ pool \in [Trip -> Nat]
        /\ status[t] = "running" /\ Phase[status[t]] = "discovering"
    BY <1>a DEF TypeOK, Statuses, Nodes, Positions, Phase
  <1> USE DEF run, trip, Promise!Discovering
  <1>a1. StandsAt(w)
    BY <1>0, <1>a DEF Positions
  <1>1. CASE ResolveLink(w)
    <2>1. next[t] = "empty" /\ pool[t] = 0
      BY <1>0, <1>1, <1>a1 DEF ResolveLink, StandsAt, LinksFirst
    <2>2. Promise!AddLinks(t)
      BY <1>0, <1>1, <2>1 DEF ResolveLink, Promise!AddLinks, Point
    <2>3. QED
      BY <2>2, VisibleStep
  <1>b. CASE StoreInput(w)
    <2>1. next[t] = "empty"
      BY <1>0, <1>b, <1>a1 DEF StoreInput, StandsAt
    <2>2. [u \in Trip |-> Point[next'[u]]] = [u \in Trip |-> Point[next[u]]]
      BY <1>0, <1>b, <2>1 DEF StoreInput, Point
    <2>3. QED
      BY <1>b, <2>2 DEF StoreInput, Promise!vars
  <1>2. CASE StoreCommit(w)
    <2>1. next[t] = "gather" /\ pool[t] = 0
      BY <1>2, <1>a1 DEF StoreCommit, StandsAt, FirstInsert
    <2>2. UNCHANGED <<status, next, linked, retries>>
      BY <1>2 DEF StoreCommit
    <2>3. CASE pool' = pool
      BY <2>2, <2>3 DEF Promise!vars
    <2>4. CASE pool' = [pool EXCEPT ![t] = @ + 1]
      <3>1. pool' = [pool EXCEPT ![t] = 1]
        BY <1>0, <2>1, <2>4
      <3>2. Promise!AddPool(t)
        BY <1>0, <2>1, <2>2, <3>1 DEF Promise!AddPool, Point
      <3>3. QED
        BY <3>2, VisibleStep
    <2>5. QED
      BY <1>2, <2>3, <2>4 DEF StoreCommit
  <1>3. CASE GatherDone(w)
    <2>1. next[t] = "gather"
      BY <1>3, <1>a1 DEF GatherDone, StandsAt
    <2>2. [u \in Trip |-> Point[next'[u]]] = [u \in Trip |-> Point[next[u]]]
      BY <1>0, <1>3, <2>1 DEF GatherDone, Point
    <2>3. QED
      BY <1>3, <2>2 DEF GatherDone, Promise!vars
  <1>4. CASE BadgesDone(w)
    <2>1. next[t] = "badges"
      BY <1>4, <1>a1 DEF BadgesDone, StandsAt
    <2>2. [u \in Trip |-> Point[next'[u]]]
             = [[u \in Trip |-> Point[next[u]]] EXCEPT ![t] = "vote"]
      BY <1>0, <1>4 DEF BadgesDone, Point
    <2>3. UNCHANGED <<status, pool, linked, retries>>
      BY <1>4 DEF BadgesDone
    <2>4. Promise!Stop(t)
      BY <1>0, <2>1, <2>2, <2>3 DEF Promise!Stop, Point
    <2>5. QED
      BY <2>4, VisibleStep
  <1>5. CASE Finish(w)
    <2>1. UNCHANGED <<next, pool, linked, retries>>
      BY <1>5 DEF Finish, Completed
    <2>2. CASE Deck(t)
      <3>1. next[t] \in {"aggregate", "crossed"}
        BY <1>5, <1>a1 DEF Finish, StandsAt
      <3>2. status' = [status EXCEPT ![t] = "completed"]
        BY <1>0, <1>5, <2>2 DEF Finish, Completed
      <3>3. [u \in Trip |-> Phase[status'[u]]]
               = [[u \in Trip |-> Phase[status[u]]] EXCEPT ![t] = "ready"]
        BY <1>0, <3>2 DEF Phase
      <3>4. Promise!Open(t)
        BY <1>0, <2>1, <2>2, <3>1, <3>3 DEF Promise!Open, Point, Deck
      <3>5. QED
        BY <3>4, VisibleStep
    <2>3. CASE ~Deck(t)
      BY <1>5, <2>1, <2>3 DEF Finish, Completed, Promise!vars
    <2>4. QED
      BY <2>2, <2>3
  <1>6. CASE ReadCheckpoint(w) \/ GatherRead(w) \/ Discover(w) \/ StoreRead(w) \/ CheckStopped(w)
    BY <1>6 DEF ReadCheckpoint, GatherRead, Discover, StoreRead, CheckStopped, Promise!vars
  <1>7. QED
    BY <1>b, <1>1, <1>2, <1>3, <1>4, <1>5, <1>6 DEF GraphStep

\* What the graph still commits when its run was erased.
LEMMA GraphLands ==
    ASSUME TypeOK, WorkersPlaced, FirstInsert, NEW w \in Worker, GraphStep(w),
           status[job[w]] = "erased"
    PROVE  Promise!Next \/ UNCHANGED Promise!vars
  <1>a. pc[w] \in Executing
    BY DEF GraphStep, ReadCheckpoint, ResolveLink, StoreInput, GatherRead, Discover, StoreRead,
           StoreCommit, GatherDone, BadgesDone, CheckStopped, Finish, Executing
  <1> SUFFICES ASSUME NEW t \in Trip, job[w] = t
               PROVE  Promise!Next \/ UNCHANGED Promise!vars
    BY <1>a DEF WorkersPlaced, TypeOK, Owning
  <1>0. /\ next \in [Trip -> Nodes] /\ pool \in [Trip -> Nat]
        /\ Phase[status[t]] = "erased"
    BY DEF TypeOK, Nodes, Phase
  <1> USE DEF run, trip, Promise!Land
  <1>1. CASE ResolveLink(w)
    <2>1. Point[next[t]] \in {"before", "vote", "past"}
      BY <1>0 DEF Point, Nodes
    <2>2. Promise!Land(t)
      BY <1>0, <1>1, <2>1 DEF ResolveLink
    <2>3. QED
      BY <2>2, VisibleStep
  <1>2. CASE StoreCommit(w)
    <2>1. pool[t] = 0
      BY <1>2 DEF StoreCommit, FirstInsert
    <2>2. pool' \in {pool, [pool EXCEPT ![t] = 1]}
      BY <1>0, <1>2, <2>1 DEF StoreCommit
    <2>3. PICK p \in {"before", "vote", "past"} : p = Point[next[t]]
      BY <1>0 DEF Point, Nodes
    <2>4. UNCHANGED <<status, retries, next, linked>>
      BY <1>2 DEF StoreCommit
    <2>5. [u \in Trip |-> Point[next'[u]]] = [[u \in Trip |-> Point[next[u]]] EXCEPT ![t] = p]
      BY <2>3, <2>4
    <2>6. Promise!Land(t)
      BY <1>0, <2>2, <2>4, <2>5
    <2>7. QED
      BY <2>6, VisibleStep
  <1>3. CASE StoreInput(w) \/ GatherDone(w) \/ BadgesDone(w)
    <2>1. PICK n \in {"gather", "badges", "aggregate"} : next' = [next EXCEPT ![t] = n]
      BY <1>3 DEF StoreInput, GatherDone, BadgesDone
    <2>2. PICK p \in {"before", "vote", "past"} : p = Point[n]
      BY <2>1 DEF Point
    <2>3. [u \in Trip |-> Point[next'[u]]] = [[u \in Trip |-> Point[next[u]]] EXCEPT ![t] = p]
      BY <1>0, <2>1, <2>2
    <2>4. Promise!Land(t)
      BY <1>0, <1>3, <2>3 DEF StoreInput, GatherDone, BadgesDone
    <2>5. QED
      BY <2>4, VisibleStep
  <1>4. CASE Finish(w)
    BY <1>4 DEF Finish, Completed, Promise!vars
  <1>5. CASE ReadCheckpoint(w) \/ GatherRead(w) \/ Discover(w) \/ StoreRead(w) \/ CheckStopped(w)
    BY <1>5 DEF ReadCheckpoint, GatherRead, Discover, StoreRead, CheckStopped, Promise!vars
  <1>6. QED
    BY <1>1, <1>2, <1>3, <1>4, <1>5 DEF GraphStep

\* A failure is seen where it is recorded.
LEMMA EndsVisible ==
    ASSUME TypeOK, WorkersPlaced, NEW w \in Worker,
           Progress(w) \/ ExecutionFails(w) \/ RecordFailure(w) \/ Release(w)
    PROVE  Promise!Next \/ UNCHANGED Promise!vars
  <1>1. status \in [Trip -> Statuses] /\ (pc[w] = "failing" => job[w] \in Trip)
    BY DEF TypeOK, Statuses, WorkersPlaced, Owning
  <1> USE DEF run, trip
  <1>2. CASE RecordFailure(w) /\ status[job[w]] = "running"
    <2>1. PICK t \in Trip : t = job[w]
      BY <1>1, <1>2 DEF RecordFailure
    <2>2. status' = [status EXCEPT ![t] = "failed"] /\ UNCHANGED <<next, pool, linked, retries>>
      BY <1>2, <2>1 DEF RecordFailure
    <2>3. [u \in Trip |-> Phase[status'[u]]]
             = [[u \in Trip |-> Phase[status[u]]] EXCEPT ![t] = "failed"]
      BY <1>1, <2>2 DEF Phase
    <2>4. Promise!Fail(t)
      BY <1>2, <2>1, <2>2, <2>3 DEF Promise!Fail, Promise!Discovering, Phase
    <2>5. QED
      BY <2>4, VisibleStep
  <1>3. CASE ~(RecordFailure(w) /\ status[job[w]] = "running")
    BY <1>3 DEF Progress, ExecutionFails, RecordFailure, Release, Promise!vars
  <1>4. QED
    BY <1>2, <1>3

\* While no connection is lost, the queue keeps what discovery promises the
\* group: of any number of workers that stall, crash and execute a run again,
\* only commits show, and every one of them is a step of DiscoveryPromise.
THEOREM PromiseKept ==
    ASSUME MaxLosses = 0
    PROVE  Spec => KeepsPromise
  <1>1. Init => PromiseInv /\ Promise!Init
    <2> SUFFICES ASSUME Init PROVE PromiseInv /\ Promise!Init
      OBVIOUS
    <2>1. ClaimStands /\ Positions /\ LinksFirst
      BY DEF Init, ClaimStands, Positions, LinksFirst, Executing
    <2>2. Promise!Init
      BY DEF Init, Promise!Init, Phase, Point
    <2>3. QED
      BY <2>1, <2>2, PoolInvInit DEF PromiseInv, PoolInv
  <1>2. PromiseInv /\ [Next]_vars => PromiseInv'
    BY PromiseInvKept
  <1>3. PromiseInv /\ [Next]_vars => [Promise!Next]_(Promise!vars)
    <2> SUFFICES ASSUME PromiseInv, [Next]_vars
                 PROVE  Promise!Next \/ UNCHANGED Promise!vars
      OBVIOUS
    <2>1. /\ TypeOK /\ WorkersPlaced /\ Started /\ losses = 0
          /\ ClaimStands /\ FirstInsert /\ Positions /\ LinksFirst
      BY DEF PromiseInv, QueueInv, TypeOK
    <2>2. ASSUME NEW w \in Worker, Heartbeat(w) \/ HeartbeatFails(w) \/ Crash(w) \/ LoseLock(w)
          PROVE  UNCHANGED Promise!vars
      BY <2>2 DEF Heartbeat, HeartbeatFails, Crash, LoseLock, run, trip, Promise!vars
    <2>3. Tick \/ UNCHANGED vars => UNCHANGED Promise!vars
      BY DEF Tick, vars, run, trip, Promise!vars
    <2>4. QED
      BY <2>1, <2>2, <2>3, Steps, RequestsVisible, ClaimsInvisible, GraphVisible,
         GraphLands, EndsVisible
  <1>4. QED
    BY <1>1, <1>2, <1>3, PTL DEF Spec, KeepsPromise, Promise!Spec

=============================================================================
