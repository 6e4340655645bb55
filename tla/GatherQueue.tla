---------------------------- MODULE GatherQueue ----------------------------
(***************************************************************************)
(* The durable discovery queue: gather_run rows in Postgres, the leader's  *)
(* start and retry requests, and the worker processes that execute runs.   *)
(*                                                                         *)
(* A worker owns a trip through a session advisory lock held by a          *)
(* connection of its own.  While the graph executes, a second task sends a *)
(* heartbeat every ten seconds, which touches the row and probes that      *)
(* connection.  A run that is running and untouched for sixty seconds is   *)
(* pending again.  Workers crash, lose the lock's connection without       *)
(* noticing until the next heartbeat, and stall.  The graph's checkpoint   *)
(* and the candidate pool outlive all of them, and a node runs again when  *)
(* it ended without its checkpoint.                                        *)
(*                                                                         *)
(* A trip has at most one gather_run row ever: start returns or requeues   *)
(* the row it finds.  The group's POST /shortlist/build, which resumes the *)
(* same graph thread past the swipe interrupt, is here for what it         *)
(* does to a discovery that has not ended, and so is the deletion of a     *)
(* joined member's account, which takes the row and the thread away under  *)
(* whoever works on them.                                                  *)
(***************************************************************************)
EXTENDS Naturals, FiniteSets

CONSTANTS
    Trip,
    Shared,      \* the trips joined by a member who may delete their account
    Worker,      \* worker processes
    Prompt,      \* the workers that never stall: their heartbeats are on time
    None,        \* no worker, no trip
    StaleAfter,  \* heartbeat periods after which an untouched run is pending
    MaxCrashes,  \* bound: crashes of workers
    MaxLosses    \* bound: lost database connections

ASSUME GatherAssumption ==
    /\ Shared \subseteq Trip /\ Prompt \subseteq Worker
    /\ None \notin Worker \cup Trip
    /\ StaleAfter \in Nat \ {0}
    /\ MaxCrashes \in Nat /\ MaxLosses \in Nat

MaxRetries == 2

VARIABLES
    \* Committed rows and the graph's checkpoint
    status,     \* gather_run.status, "none" before the row exists, "erased" after
    retries,    \* gather_run.retry_count
    age,        \* heartbeat periods since gather_run.updated_at, up to StaleAfter
    stage,      \* trip.status
    next,       \* the checkpoint's next node, "empty" when it has no values,
                \* "crossed" anywhere past the swipe interrupt
    pool,       \* how often a discovered pool was inserted for the trip
    linked,     \* trips with a card made from a pasted link
    lock,       \* the session that holds the trip's advisory lock
    building,   \* POST /shortlist/build has resumed the graph, not yet committed
    \* Workers
    pc,         \* where the worker is
    found,      \* the runs its pending() returned and it has not tried
    job,        \* the trip of the run it tries or executes
    beat,       \* it has sent this period's heartbeat
    pulsed,     \* it has sent a heartbeat since it began to execute
    \* Faults so far
    crashes, losses

run == <<status, retries, age>>
trip == <<stage, next, pool, linked, building>>
worker == <<pc, found, job, beat, pulsed>>
vars == <<run, trip, lock, worker, crashes, losses>>

-----------------------------------------------------------------------------
\* The graph task runs, and beside it the heartbeat task.
Executing == {"starting", "resolving", "gather", "discovering", "storing",
              "inserting", "gathered", "badges", "checking", "finishing"}

\* Between two statements of the worker itself, with no provider call.
Brief == {"scanning", "locked", "claimed", "inserting", "finishing", "failing", "releasing"}

Executors(t) == {w \in Worker : job[w] = t /\ pc[w] \in Executing}

\* The session of the worker's lock connection is alive on the server.
Connected(w) == lock[job[w]] = w

Stale(t) == age[t] = StaleAfter

\* Mutant of PendingRuns: a running run is never offered again.
PendingRunsQueuedOnly == {t \in Trip : status[t] = "queued"}

\* GatherRunRepository.pending
PendingRuns ==
    {t \in Trip : status[t] = "queued" \/ (status[t] = "running" /\ Stale(t))}

\* list_swipeable has a row.
Deck(t) == pool[t] > 0 \/ t \in linked

Goto(w, label) == pc' = [pc EXCEPT ![w] = label]

-----------------------------------------------------------------------------
Init ==
    /\ status = [t \in Trip |-> "none"]
    /\ retries = [t \in Trip |-> 0]
    /\ age = [t \in Trip |-> 0]
    /\ stage = [t \in Trip |-> "draft"]
    /\ next = [t \in Trip |-> "empty"]
    /\ pool = [t \in Trip |-> 0]
    /\ linked = {}
    /\ lock = [t \in Trip |-> None]
    /\ building = {}
    /\ pc = [w \in Worker |-> "idle"]
    /\ found = [w \in Worker |-> {}]
    /\ job = [w \in Worker |-> None]
    /\ beat = [w \in Worker |-> FALSE]
    /\ pulsed = [w \in Worker |-> FALSE]
    /\ crashes = 0
    /\ losses = 0

-----------------------------------------------------------------------------
(***************************************************************************)
(* Requests                                                                *)
(***************************************************************************)

\* GatherRunRepository.start, under the trip's row lock: the first start
\* stores the snapshot and the run, and moves the trip on.
StartFirst(t) ==
    /\ status[t] = "none"
    /\ stage[t] = "draft"
    /\ status' = [status EXCEPT ![t] = "queued"]
    /\ age' = [age EXCEPT ![t] = 0]
    /\ stage' = [stage EXCEPT ![t] = "gathering"]
    /\ UNCHANGED <<retries, next, pool, linked, building, lock, worker, crashes, losses>>

\* A later start requeues a failed run, twice at most, and otherwise returns
\* the run as it is.
StartAgain(t) ==
    /\ status[t] = "failed"
    /\ retries[t] < MaxRetries
    /\ status' = [status EXCEPT ![t] = "queued"]
    /\ retries' = [retries EXCEPT ![t] = @ + 1]
    /\ age' = [age EXCEPT ![t] = 0]
    /\ UNCHANGED <<trip, lock, worker, crashes, losses>>

\* build_trip_shortlist asks only where the checkpoint stands.  It runs
\* aggregate and shortlist, up to the interrupt in front of softpref ...
BuildResume(t) ==
    /\ next[t] = "aggregate"
    /\ next' = [next EXCEPT ![t] = "crossed"]
    /\ building' = building \cup {t}
    /\ UNCHANGED <<run, stage, pool, linked, lock, worker, crashes, losses>>

\* ... and its own transaction then moves the trip, unless the request dies.
BuildCommit(t) ==
    /\ t \in building
    /\ building' = building \ {t}
    /\ stage' \in {stage, [stage EXCEPT ![t] = "shortlisting"]}
    /\ UNCHANGED <<run, next, pool, linked, lock, worker, crashes, losses>>

\* A build under way writes its checkpoints whether or not the thread was
\* erased meanwhile.
BuildRestores(t) ==
    /\ t \in building
    /\ next[t] = "empty"
    /\ next' = [next EXCEPT ![t] = "crossed"]
    /\ UNCHANGED <<run, stage, pool, linked, building, lock, worker, crashes, losses>>

\* delete_personal_data of a joined member deletes the trip's run, and the
\* request then the graph's thread; the trip's status and its cards stay.  The
\* deleted row is locked from the first to the commit after the second.
EraseRun(t) ==
    /\ t \in Shared
    /\ status[t] # "none"
    /\ status' = [status EXCEPT ![t] = "erased"]
    /\ retries' = [retries EXCEPT ![t] = 0]
    /\ age' = [age EXCEPT ![t] = 0]
    /\ next' = [next EXCEPT ![t] = "empty"]
    /\ UNCHANGED <<stage, pool, linked, building, lock, worker, crashes, losses>>

-----------------------------------------------------------------------------
(***************************************************************************)
(* Claiming a run                                                          *)
(***************************************************************************)
Poll(w) ==
    /\ pc[w] = "idle"
    /\ PendingRuns # {}
    /\ found' = [found EXCEPT ![w] = PendingRuns]
    /\ Goto(w, "scanning")
    /\ UNCHANGED <<run, trip, lock, job, beat, pulsed, crashes, losses>>

\* Mutant of TryLock: the answer of pg_try_advisory_lock is not looked at.
TryLockAnyway(w, t) ==
    /\ pc[w] = "scanning"
    /\ t \in found[w]
    /\ found' = [found EXCEPT ![w] = @ \ {t}]
    /\ lock' = [lock EXCEPT ![t] = w]
    /\ job' = [job EXCEPT ![w] = t]
    /\ Goto(w, "locked")
    /\ UNCHANGED <<run, trip, beat, pulsed, crashes, losses>>

\* own_gather on the next candidate; one whose lock is taken is passed over.
TryLock(w, t) ==
    /\ pc[w] = "scanning"
    /\ t \in found[w]
    /\ found' = [found EXCEPT ![w] = @ \ {t}]
    /\ IF lock[t] = None
       THEN /\ lock' = [lock EXCEPT ![t] = w]
            /\ job' = [job EXCEPT ![w] = t]
            /\ Goto(w, "locked")
       ELSE UNCHANGED <<lock, job, pc>>
    /\ UNCHANGED <<run, trip, beat, pulsed, crashes, losses>>

\* No candidate is left: work_one returns, and main polls again.
ScanEnd(w) ==
    /\ pc[w] = "scanning"
    /\ found[w] = {}
    /\ Goto(w, "idle")
    /\ UNCHANGED <<run, trip, lock, found, job, beat, pulsed, crashes, losses>>

\* Unlocks the trip if the connection is still there.
Unlock(w) == lock' = IF Connected(w) THEN [lock EXCEPT ![job[w]] = None] ELSE lock

\* Mutant of Recheck: the row that pending() returned is trusted.
RecheckTrusted(w) ==
    /\ pc[w] = "locked"
    /\ Goto(w, "claimed")
    /\ UNCHANGED <<run, trip, lock, found, job, beat, pulsed, crashes, losses>>

\* Under the lock the row is read again: it may have ended since the poll.
Recheck(w) ==
    /\ pc[w] = "locked"
    /\ status[job[w]] # "erased"
    /\ IF status[job[w]] \in {"queued", "running"}
       THEN Goto(w, "claimed") /\ UNCHANGED <<lock, job>>
       ELSE /\ Goto(w, "scanning")
            /\ Unlock(w)
            /\ job' = [job EXCEPT ![w] = None]
    /\ UNCHANGED <<run, trip, found, beat, pulsed, crashes, losses>>

\* The row is marked running, and both tasks are created.
Begin(w) ==
    /\ pc[w] = "claimed"
    /\ status[job[w]] # "erased"
    /\ status' = [status EXCEPT ![job[w]] = "running"]
    /\ age' = [age EXCEPT ![job[w]] = 0]
    /\ beat' = [beat EXCEPT ![w] = TRUE]
    /\ pulsed' = [pulsed EXCEPT ![w] = FALSE]
    /\ found' = [found EXCEPT ![w] = {}]
    /\ Goto(w, "starting")
    /\ UNCHANGED <<retries, trip, lock, job, crashes, losses>>

\* get or change finds no row any more: the attribute read of None ends the
\* process, which is started again.
RowMissing(w) ==
    /\ pc[w] \in {"locked", "claimed"}
    /\ status[job[w]] = "erased"
    /\ found' = [found EXCEPT ![w] = {}]
    /\ Unlock(w)
    /\ job' = [job EXCEPT ![w] = None]
    /\ Goto(w, "idle")
    /\ UNCHANGED <<run, trip, beat, pulsed, crashes, losses>>

-----------------------------------------------------------------------------
(***************************************************************************)
(* Executing a run                                                         *)
(***************************************************************************)

\* Mutant of ReadCheckpoint: any checkpoint with values is resumed, so the
\* interrupt after badges is crossed by a second execution.
ReadCheckpointCrosses(w) ==
    /\ pc[w] = "starting"
    /\ next' = IF next[job[w]] = "aggregate" THEN [next EXCEPT ![job[w]] = "crossed"]
               ELSE next
    /\ Goto(w, CASE next[job[w]] = "empty"     -> "resolving"
                 [] next[job[w]] = "gather"    -> "gather"
                 [] next[job[w]] = "badges"    -> "badges"
                 [] next[job[w]] = "aggregate" -> "checking"
                 [] next[job[w]] = "crossed"  -> "failing")
    /\ UNCHANGED <<run, stage, pool, linked, building, lock, found, job, beat, pulsed, crashes, losses>>

\* _execute_run resumes where the checkpoint stands, but nothing past the
\* swipe interrupt.
ReadCheckpoint(w) ==
    /\ pc[w] = "starting"
    /\ Goto(w, CASE next[job[w]] = "empty"     -> "resolving"
                 [] next[job[w]] = "gather"    -> "gather"
                 [] next[job[w]] = "badges"    -> "badges"
                 [] next[job[w]] = "aggregate" -> "checking"
                 [] next[job[w]] = "crossed"  -> "failing")
    /\ UNCHANGED <<run, trip, lock, found, job, beat, pulsed, crashes, losses>>

\* Before the first checkpoint the snapshot's pending links are resolved one by
\* one, each in its own transaction, to a card or to nothing ...
ResolveLink(w) ==
    /\ pc[w] = "resolving"
    /\ job[w] \notin linked
    /\ linked' = linked \cup {job[w]}
    /\ UNCHANGED <<run, stage, next, pool, building, lock, worker, crashes, losses>>

\* ... and the input checkpoint follows them.
StoreInput(w) ==
    /\ pc[w] = "resolving"
    /\ next' = [next EXCEPT ![job[w]] = "gather"]
    /\ Goto(w, "gather")
    /\ UNCHANGED <<run, stage, pool, linked, building, lock, found, job, beat, pulsed, crashes, losses>>

\* gather_node: an earlier attempt may have left the pool.
GatherRead(w) ==
    /\ pc[w] = "gather"
    /\ Goto(w, IF pool[job[w]] > 0 THEN "gathered" ELSE "discovering")
    /\ UNCHANGED <<run, trip, lock, found, job, beat, pulsed, crashes, losses>>

\* discover_candidates: minutes of searches.  It outlasts the first heartbeat.
Discover(w) ==
    /\ pc[w] = "discovering"
    /\ pulsed[w]
    /\ Goto(w, "storing")
    /\ UNCHANGED <<run, trip, lock, found, job, beat, pulsed, crashes, losses>>

\* Each phase of it is recorded in the row, whoever holds the lock by now, which
\* counts as a touch.
Progress(w) ==
    /\ pc[w] = "discovering"
    /\ age[job[w]] > 0
    /\ age' = [age EXCEPT ![job[w]] = 0]
    /\ UNCHANGED <<status, retries, trip, lock, worker, crashes, losses>>

\* The storing transaction looks again, without a lock, for the pool of another
\* gather that finished meanwhile ...
StoreRead(w) ==
    /\ pc[w] = "storing"
    /\ Goto(w, IF pool[job[w]] > 0 THEN "gathered" ELSE "inserting")
    /\ UNCHANGED <<run, trip, lock, found, job, beat, pulsed, crashes, losses>>

\* ... and inserts the candidates, of which the dietary filter may have left none.
StoreCommit(w) ==
    /\ pc[w] = "inserting"
    /\ pool' \in {pool, [pool EXCEPT ![job[w]] = @ + 1]}
    /\ Goto(w, "gathered")
    /\ UNCHANGED <<run, stage, next, linked, building, lock, found, job, beat, pulsed, crashes, losses>>

\* The node has returned and its checkpoint is written.
GatherDone(w) ==
    /\ pc[w] = "gathered"
    /\ next' = [next EXCEPT ![job[w]] = "badges"]
    /\ Goto(w, "badges")
    /\ UNCHANGED <<run, stage, pool, linked, building, lock, found, job, beat, pulsed, crashes, losses>>

\* badge_node replaces the trip's badges; the graph stops after it.
BadgesDone(w) ==
    /\ pc[w] = "badges"
    /\ next' = [next EXCEPT ![job[w]] = "aggregate"]
    /\ Goto(w, "checking")
    /\ UNCHANGED <<run, stage, pool, linked, building, lock, found, job, beat, pulsed, crashes, losses>>

\* The checkpoint is read once more: it must stand at the swipe interrupt.
CheckStopped(w) ==
    /\ pc[w] = "checking"
    /\ Goto(w, IF next[job[w]] = "aggregate" THEN "finishing" ELSE "failing")
    /\ UNCHANGED <<run, trip, lock, found, job, beat, pulsed, crashes, losses>>

\* A row that is gone is not written to.
Completed(w) == IF status[job[w]] = "erased" THEN status
                ELSE [status EXCEPT ![job[w]] = "completed"]

\* Mutant of Finish: the deck is not looked at.
FinishUnread(w) ==
    /\ pc[w] = "finishing"
    /\ stage' = [stage EXCEPT ![job[w]] = "swiping"]
    /\ status' = Completed(w)
    /\ age' = [age EXCEPT ![job[w]] = 0]
    /\ Goto(w, "releasing")
    /\ UNCHANGED <<retries, next, pool, linked, building, lock, found, job, beat, pulsed, crashes, losses>>

\* The last transaction: the trip opens for swiping and the run is completed,
\* together.  A deck with no card fails instead.
Finish(w) ==
    /\ pc[w] = "finishing"
    /\ IF Deck(job[w])
       THEN /\ stage' = [stage EXCEPT ![job[w]] = "swiping"]
            /\ status' = Completed(w)
            /\ age' = [age EXCEPT ![job[w]] = 0]
            /\ Goto(w, "releasing")
       ELSE Goto(w, "failing") /\ UNCHANGED <<stage, status, age>>
    /\ UNCHANGED <<retries, next, pool, linked, building, lock, found, job, beat, pulsed, crashes, losses>>

\* A provider, the budget, the consent check or the database fails the graph.
ExecutionFails(w) ==
    /\ pc[w] \in Executing
    /\ Goto(w, "failing")
    /\ UNCHANGED <<run, trip, lock, found, job, beat, pulsed, crashes, losses>>

\* The failure is recorded, over "running" only.
RecordFailure(w) ==
    /\ pc[w] = "failing"
    /\ IF status[job[w]] = "running"
       THEN /\ status' = [status EXCEPT ![job[w]] = "failed"]
            /\ age' = [age EXCEPT ![job[w]] = 0]
       ELSE UNCHANGED <<status, age>>
    /\ Goto(w, "releasing")
    /\ UNCHANGED <<retries, trip, lock, found, job, beat, pulsed, crashes, losses>>

\* Both tasks have ended; the lock goes last.
Release(w) ==
    /\ pc[w] = "releasing"
    /\ Unlock(w)
    /\ job' = [job EXCEPT ![w] = None]
    /\ Goto(w, "idle")
    /\ UNCHANGED <<run, trip, found, beat, pulsed, crashes, losses>>

-----------------------------------------------------------------------------
(***************************************************************************)
(* Heartbeats, time and faults                                             *)
(***************************************************************************)

\* Mutant of Heartbeat: the lock connection is not probed.
HeartbeatUnprobed(w) ==
    /\ pc[w] \in Executing
    /\ ~beat[w]
    /\ beat' = [beat EXCEPT ![w] = TRUE]
    /\ pulsed' = [pulsed EXCEPT ![w] = TRUE]
    /\ age' = [age EXCEPT ![job[w]] = 0]
    /\ UNCHANGED <<status, retries, trip, lock, pc, found, job, crashes, losses>>

\* The heartbeat probes the lock connection and touches the row.  When the
\* connection is gone it cancels the graph and leaves the run running.
Heartbeat(w) ==
    /\ pc[w] \in Executing
    /\ ~beat[w]
    /\ beat' = [beat EXCEPT ![w] = TRUE]
    /\ IF Connected(w)
       THEN /\ age' = [age EXCEPT ![job[w]] = 0]
            /\ pulsed' = [pulsed EXCEPT ![w] = TRUE]
            /\ UNCHANGED <<pc, job>>
       ELSE /\ Goto(w, "idle")
            /\ job' = [job EXCEPT ![w] = None]
            /\ UNCHANGED <<age, pulsed>>
    /\ UNCHANGED <<status, retries, trip, lock, found, crashes, losses>>

\* The heartbeat's own transaction fails while the lock is held: the graph is
\* cancelled just the same, and the lock released after it.
HeartbeatFails(w) ==
    /\ losses < MaxLosses
    /\ pc[w] \in Executing
    /\ ~beat[w]
    /\ losses' = losses + 1
    /\ beat' = [beat EXCEPT ![w] = TRUE]
    /\ Unlock(w)
    /\ job' = [job EXCEPT ![w] = None]
    /\ Goto(w, "idle")
    /\ UNCHANGED <<run, trip, found, pulsed, crashes>>

\* A heartbeat period passes.  It cannot pass a prompt worker by: that worker
\* has sent its heartbeat, and is in none of the steps that take no time.
Tick ==
    /\ \A w \in Prompt : /\ pc[w] \in Executing => beat[w]
                         /\ pc[w] \notin Brief
    /\ age' = [t \in Trip |-> IF Stale(t) \/ status[t] # "running" THEN age[t] ELSE age[t] + 1]
    /\ beat' = [w \in Worker |-> FALSE]
    /\ UNCHANGED <<status, retries, trip, lock, pc, found, job, pulsed, crashes, losses>>

\* A worker process dies, and is started again.  The server releases its lock.
Crash(w) ==
    /\ crashes < MaxCrashes
    /\ pc[w] # "idle"
    /\ crashes' = crashes + 1
    /\ lock' = [t \in Trip |-> IF lock[t] = w THEN None ELSE lock[t]]
    /\ pc' = [pc EXCEPT ![w] = "idle"]
    /\ found' = [found EXCEPT ![w] = {}]
    /\ job' = [job EXCEPT ![w] = None]
    /\ UNCHANGED <<run, trip, beat, pulsed, losses>>

\* The server drops a lock connection whose worker lives on.
LoseLock(w) ==
    /\ losses < MaxLosses
    /\ job[w] # None /\ Connected(w)
    /\ losses' = losses + 1
    /\ lock' = [lock EXCEPT ![job[w]] = None]
    /\ UNCHANGED <<run, trip, worker, crashes>>

-----------------------------------------------------------------------------
ClaimStep(w) ==
    \/ Poll(w) \/ ScanEnd(w) \/ Recheck(w) \/ Begin(w) \/ RowMissing(w)
    \/ \E t \in Trip : TryLock(w, t)

GraphStep(w) ==
    \/ ReadCheckpoint(w) \/ ResolveLink(w) \/ StoreInput(w) \/ GatherRead(w) \/ Discover(w)
    \/ StoreRead(w) \/ StoreCommit(w) \/ GatherDone(w) \/ BadgesDone(w)
    \/ CheckStopped(w) \/ Finish(w)

WorkerStep(w) == ClaimStep(w) \/ GraphStep(w) \/ RecordFailure(w) \/ Release(w)

Request(t) ==
    \/ StartFirst(t) \/ StartAgain(t) \/ EraseRun(t)
    \/ BuildResume(t) \/ BuildCommit(t) \/ BuildRestores(t)

Next ==
    \/ \E t \in Trip : Request(t)
    \/ \E w \in Worker :
          \/ WorkerStep(w) \/ Progress(w) \/ Heartbeat(w) \/ ExecutionFails(w)
          \/ HeartbeatFails(w) \/ Crash(w) \/ LoseLock(w)
    \/ Tick

Spec == Init /\ [][Next]_vars

\* A worker process that lives runs its tasks on.  Time passes: main sleeps two
\* seconds between two polls that found nothing, so a worker that polls for
\* ever does not hold it back.  Nothing makes the leader retry or the group
\* build its shortlist.
FairSpec ==
    /\ Spec
    /\ \A w \in Worker : WF_vars(WorkerStep(w)) /\ WF_vars(Heartbeat(w))
    /\ SF_vars(Tick)
-----------------------------------------------------------------------------
(***************************************************************************)
(* Properties                                                              *)
(***************************************************************************)

\* The variables have the types of their columns and locals.
TypeOK ==
    /\ status \in [Trip -> {"none", "queued", "running", "completed", "failed", "erased"}]
    /\ retries \in [Trip -> 0..MaxRetries]
    /\ age \in [Trip -> 0..StaleAfter]
    /\ stage \in [Trip -> {"draft", "gathering", "swiping", "shortlisting"}]
    /\ next \in [Trip -> {"empty", "gather", "badges", "aggregate", "crossed"}]
    /\ pool \in [Trip -> Nat]
    /\ linked \subseteq Trip /\ building \subseteq Trip
    /\ lock \in [Trip -> Worker \cup {None}]
    /\ pc \in [Worker -> {"idle"} \cup Brief \cup Executing]
    /\ found \in [Worker -> SUBSET Trip]
    /\ job \in [Worker -> Trip \cup {None}]
    /\ beat \in [Worker -> BOOLEAN] /\ pulsed \in [Worker -> BOOLEAN]
    /\ crashes \in 0..MaxCrashes /\ losses \in 0..MaxLosses

\* "Permit a bounded retry without creating a second trip or duplicate
\* candidate set" (the discovery plan): however often the gather node runs,
\* dies after its insert and runs again, by one worker or by two, the trip
\* gets the discovered pool once.
PoolOnce == \A t \in Trip : pool[t] <= 1

\* "Mark completion only after candidates are committed and trip status is
\* swiping": a completed run has left a deck and an open trip behind; and a trip
\* open for swiping has cards, also when its run was erased under the worker that
\* opened it, or since.
CompletedMeansDeck ==
    \A t \in Trip :
        /\ status[t] = "completed" => stage[t] \in {"swiping", "shortlisting"}
        /\ status[t] = "completed" \/ stage[t] = "swiping" => Deck(t)

\* "Never cross the human swipe interrupt" (_execute_run): no resumption of a
\* worker, first or repeated, takes the graph past it; the group's request does.
OnlyGroupCrosses ==
    [][\A t \in Trip : next[t] # "crossed" /\ next'[t] = "crossed" => t \in building']_vars

\* A slow worker is never overtaken: while its lock connection lives, however
\* long it stalls and however stale its row, no other worker executes the run
\* (own_gather: "a heartbeat never steals ownership").  Where connections are
\* lost, each lets one worker more execute beside the owner, until it notices.
ExclusiveExecution == \A t \in Trip : Cardinality(Executors(t)) <= 1 + losses

\* A completed run stays completed as long as it is there, whatever workers still
\* hold of it from polls before.
CompletedIsFinal ==
    [][\A t \in Trip : status[t] = "completed" => status'[t] \in {"completed", "erased"}]_vars

\* Every run that was started or requeued ends, through crashes and lost
\* connections at any moment: nothing strands it but its deletion.
EveryRunEnds ==
    \A t \in Trip :
        status[t] \in {"queued", "running"} ~> status[t] \in {"completed", "failed", "erased"}

-----------------------------------------------------------------------------
(***************************************************************************)
(* The queue implements DiscoveryPromise, while no connection is lost: of  *)
(* all that workers do only their commits to the row, the checkpoint and   *)
(* the deck are visible steps.                                             *)
(***************************************************************************)
Phase == [none |-> "draft", queued |-> "discovering", running |-> "discovering",
          completed |-> "ready", failed |-> "failed", erased |-> "erased"]

Point == [empty |-> "before", gather |-> "before", badges |-> "before",
          aggregate |-> "vote", crossed |-> "past"]

Promise == INSTANCE DiscoveryPromise WITH
    phase <- [t \in Trip |-> Phase[status[t]]],
    point <- [t \in Trip |-> Point[next[t]]],
    pools <- pool,
    links <- linked

\* Polls, claims, stalls, crashes and repeated executions are invisible to the
\* group: the discovery adds no card once the graph stopped for the vote or the run
\* ended, and no second pool; no deck opens empty; and no end is taken back but a
\* failure, by the leader's retry, and any of them by an erased run, which is never
\* discovered again.
KeepsPromise == Promise!Spec

=============================================================================
