# Syncinerary in TLA+

Syncinerary plans a group's trip: it discovers candidate places, lets every
traveler swipe on them, has the group confirm a shortlist, solves an itinerary,
and afterwards puts every change of that itinerary - a disruption, a traveler's
revision, a manual edit - to the group as a proposal.  The server is a FastAPI
application with Postgres, Redis and a LangGraph thread per trip; discovery runs
in worker processes of their own.  The iOS app is a client.

The specifications here are about the parts of it that are hard to test.  Most
are about several requests and workers acting on the rows and the graph thread
of one trip, with provider calls of many seconds between what they read and what
they write.  Others are about loops and budgets: searches that decide the next
search, two solver stages that repair each other, a chain of providers of which
any may fail, a run that may be stopped at any call.

## Inventory

| Component | State | Operations | Why it is hard | What makes it correct |
|---|---|---|---|---|
| **Version chain and approval gate** (`agents/rescue.py`, `agents/manual_itinerary.py`, `agents/solver/stage2_route.py`, `api/routers/replans.py`, `itinerary_edits.py`) | `itinerary_version` rows in one chain, `replan_event` rows | plan, disruption, revision, edit, approve, reject | read, seconds of provider calls, then lock and recheck; numbers without a lock under a unique index; publication before or after a commit | one active version, one line of history, a proposal is fresh when it appears, events agree with versions, requests end |
| **Discovery queue and workers** (`workers/gather.py`, `store/repositories/gather.py`, `api/routers/gather.py`) | `gather_run` rows, advisory locks, heartbeats | start, retry, poll, claim, execute, heartbeat, end, fail | crashes, connections lost unnoticed, stalls, staleness, resuming from any checkpoint | one pool, no overtaking of a slow worker, completion means a deck, every run ends |
| **Shortlist review** (`api/routers/trips.py`, `agents/shortlist.py`) | the `shortlist_state` row, the graph thread | build, edit, confirm, plan; a member leaves | unlocked reads of the row and of the checkpoint by five kinds of request | acknowledgments are of the selection they stand beside; only a confirmed selection is planned |
| **Graph thread** (`agents/graph.py`) | a checkpoint: next node and state | resume, interrupt | a node may run twice; nobody locks the thread | the interrupts before aggregate and softpref hold |
| **Candidate discovery** (`agents/gather/live.py`, `social*.py`, `guides.py`) | the candidate pool; per city a search state and a share of the place checks | searches, checks, selection of the pool | one ceiling shared by cities that return what they leave; streaks over failing searches; one place found for two cities; a node that commits and dies | the pool is stored once, feeds every city's days and keeps its share; the ceiling holds; a city is called dry on evidence |
| **Admission, dedup, dietary filter** (`agents/gather/admission.py`, `dedup.py`, `dietary.py`) | none | pure functions | used by discovery, rescue and deck, on different sets | one card a place, nothing admitted or added that a rule excludes |
| **Personal links and attachments** (`agents/gather/personal.py`, `attachments.py`) | `source_attachment` rows | paste, name, screenshot, resolve | resolved inside a tracked run that may be stopped at any call; pasted while the inputs are frozen | no link is left pending; harmless links do not look like a loop |
| **Solver** (`agents/solver/`) | facts learned, best plan so far | assign days, route, meal breaks, repair | Stage 1 is told what Stage 2 refused, under three budgets; meal hours are reserved, not saved, and found again | every place is planned or explained, facts are true, must-go places stay, the hours found are those reserved |
| **Rescue alternatives and diff** (`agents/rescue.py`, `rescue_alternatives.py`, `diff/`) | the proposal's stops | disrupt, search, propose | half a day is rebuilt between bookings and what was already visited | nothing lost, nothing twice, nobody's diet broken, and the diff applied to the old plan gives the new one |
| **Harness** (`harness/`) | run budget, call history, the `agent_run` row | charge, detect loops, guard a call | bodies that catch errors and go on; crashes between charge and save | a call is made within the limits and after it is saved; every run ends |
| **Group** (`api/routers/group.py`, `store/repositories/group.py`) | members, invites, links, consent, the frozen inputs | invite, join, paste, consent, start, delete an account | two people claim the last use; consent is checked before the lock; an account goes while a worker holds its data | uses are joins; what was frozen is the group's; nobody's data is shared without consent; a gathering trip has a run |
| **Voting and deck** (`api/routers/trips.py`, `agents/aggregate.py`) | votes, badges | badge, swipe, note, leave, score | notes parsed for seconds; cards, votes and members read one after another | no lane has a head start; one vote a card; a swipe in favour never costs a card its place |
| **Accounts, sessions, social sign-in** (`api/routers/accounts.py`, `social_accounts.py`, `store/repositories/credentials.py`) | account rows, codes, challenges, sessions | register, sign in, reset, sign out, delete | hashing between a check and a write | no session outlives its password or account; a code works once |
| **Checklist and hotels** (`api/routers/checklist.py`, `booked_hotels.py`) | rows with a revision, the selected hotel | prepare, edit, remove, book, select | edits of an old copy, suggestions made again | no update is lost silently; what was removed stays removed; booked means confirmed |
| **Transit fallback** (`tools/transit/`) | a cache, what each provider declined | resolve the arcs of a day over providers | partial answers, a provider that fails one day and not the next | every provider is tried before an estimate; a leg is of its own departure |
| **Provider tools, migrations, evaluation, tracing, localization** | none of their own | I/O and text | - | - |

Components meet in four places: the `trip.status` column, the graph thread's
checkpoint (worker, build and plan all resume the same thread), the
`itinerary_version` chain (written by the graph's solver node and by three
request handlers), and the trip's Redis channel.  `PROJECT.json` lists the
components with what is modelled of each, and the hazards with the line where
each one bites.

## Modules

| Module | Models | Actions and the code |
|---|---|---|
| `PlanApproval` | what the gate promises the group, without a database: one current plan, drafts, adoption or refusal of a draft while its basis is current | - |
| `DiscoveryPromise` | what discovery promises the group, without a queue: a started trip is discovered until it is ready, has failed or is erased with a member's account; cards come only meanwhile and before the vote, the pool once; what was under way when it was erased may still land | - |
| `AccountPromise` | what signing in promises a person, without hashing and locks: every request takes effect in one step, on the account of that step; a challenge opens one session or none | - |
| `ReplanGate` | the version chain of one trip | `ProposalStart`, `RescueLock`, `Flush`, `RescuePublish`, `RescueCommit`: `_build_replan_proposal` and its two endpoints; `EditLock`, `EditCommit`, `EditPublish`: `propose_edit` and its endpoint; `PlanStart`, `PlanResume`, `SoftprefDone`, `Solver*`: `plan_trip`, the graph behind it and `solver_node`'s transaction; `Approve`, `Reject`: `decide_replan`; `Abort`: a failure before a commit, or between the solver's commit and its checkpoint |
| `GatherQueue` | `gather_run`, the leader's start, the workers and the group's early build | `StartFirst`, `StartAgain`: `GatherRunRepository.start`; `EraseRun`: `delete_personal_data` of a joined member and `delete_account`; `BuildResume`, `BuildCommit`, `BuildRestores`: `build_trip_shortlist`; `Poll`, `TryLock`, `Recheck`, `Begin`, `ScanEnd`: `main`, `own_gather`, `_run_once` and `begin`; `ReadCheckpoint` to `Finish`: `_execute_run` and the nodes it drives; `RowMissing`: a claim whose row was erased; `Heartbeat`, `HeartbeatFails`: the second task; `RecordFailure`, `Release`; `Crash`, `LoseLock`, `Tick`: the environment |
| `ShortlistReview` | the shortlist row and the graph thread between the swipe interrupt and the itinerary | `BuildStart/End`, `PlanStart/Update/End`, `EditRead/Write`, `Confirm`: the four endpoints; `LeaveRead/Erase/Commit`: `_scrub_shared_references` and `delete_account`; `Resume` to `ExplainDone`: the graph run of a builder or planner |
| `TripGroup` | the group of one trip, what it pastes, and the run it pays for | `CreateInvite` to `Join`: invites and `claim`; `GrantConsent` to `RemoveKey`; `SetPreferences`, `AttachLink`, `PostLink`, `NamePlace`, `AttachScreenshot`; `StartCheck`, `StartNew`, `StartAgain`: `start_gather` around its lock; `Worker*`: what `_execute_run` reads and sends; `DeleteMember`, `DeleteLeader`: `delete_personal_data` |
| `SignIn` | one person's two accounts | `Register`, `Forgot`, `StartReset/Consume/FinishReset`, `StartSignIn/LockAndRecheck/Issue`, `StartSocial/Upsert/IssueSocial`, `StartDelete/Match/FinishDelete`, each cut where it hashes or calls out; `Abandon`: a rollback |
| `Harness` | one tracked run | `HarnessStep`: `call_llm`, `guarded_call`, the budget and the loop detector; `Crash` |
| `LinkResolution` | the worker's resolution of pasted links, on top of `Harness` | `BeginLink`, `ReadAnswered`, `NamesFound`, `NamesNothing`, `CoverRead`, `SearchAnswered`, `LinkCallFails`: `resolve_link_attachment`; `LinkRaises`, `LinkBoundary`: how an error leaves it |
| `SocialDiscovery` | the social searches of a trip's cities and their place checks | `OpenCity`, `Plan`, `Search`, `Check`, `CheckRest`, `CloseCity`: `plan_next_search`, the mining loop and its rounds of checks |
| `CityPool` | what discovery finds and keeps | `Start`, `SocialFinds`, `SearchCity`, `SearchAround`, `ProfileFinds`, `Dedup`, `Select`, `Save`, `Lose`: `discover_candidates` and `gather_node` |
| `RoutingRepair` | `solve_full_routes` | `Assign`, `RouteAll`, `Learn`, `Reassign`, `Reroute`, `OutOfRounds`, `RepairRaise` |
| `DaySchedule` | what `solve_day` may publish and `available_meal_breaks` finds | `AddStop`, `Publish` |
| `TransitChain` | `FallbackTransitResolver` | `RequestDay`, `PassOver`, `ProviderAnswers`, `ProviderFails`, `Estimate`, `CacheExpires` |
| `DayRescue` | what a rescue proposes and its diff | `Disrupt`, `SearchNearby`, `Propose`, `GiveUp`, `Decide`; `OthersStore`: the rows that overlapping requests store |
| `TripPreparation` | checklist and hotels | `Prepare`, `CreateItem`, `EditItem`, `RemoveItem`; `DiscoverHotels`, `SaveBooked`, `SelectLodging` |
| `Ballot` | badges, deck, votes and tally | `ReadForBadges`, `ReplaceBadges`; `CastVote`, `SendNote`, `FinishNote`; `Leave`, `AddCard`; `ReadCards`, `ReadVotes`, `CountAndKeep`: the three reads of `aggregate_node` |
| `MCComponents` | the last twelve, one at a time | the initial state picks a part, and only that part moves |
| `MCReplanGate`, `MCGatherQueue`, `MCShortlistReview`, `MCTripGroup`, `MCLinkResolution` | small instances | symmetry sets, constant values |
| `ReplanGateProofs`, `ReplanHistoryProofs`, `GatherQueueProofs`, `ShortlistReviewProofs`, `SignInProofs`, `TripGroupProofs` | theorems about the module each is named after (`ReplanHistoryProofs`: `ReplanGate` and `PlanApproval`; `ShortlistReviewProofs` and `TripGroupProofs` also: `Ballot` and `TripPreparation`) | - |
| `DiscoveryProofs` | theorems about `Harness`, `LinkResolution`, `SocialDiscovery` and `CityPool` | - |
| `PlanningProofs` | theorems about `TransitChain`, `RoutingRepair`, `DayRescue` and `DaySchedule` | - |

The map in `PROJECT.json` names the lines each definition stands for.  Operators
introduced by "Mutant of" are variants with a plausible bug, used to see that a
property can fail; no specification refers to them.

The modules do not share variables, except that `LinkResolution` extends
`Harness`: its calls are the harness's calls.  The graph thread appears in three of
them from the side that matters there: in `GatherQueue` everything behind the
swipe interrupt is one place, `"crossed"`; `ShortlistReview` begins at that
interrupt; `ReplanGate` begins at the review interrupt, and its planning runs
refine what `ShortlistReview` sees as one `SolverCommit`.

Two subjects are modelled from two sides.  A discovery run is a queue entry with
crashes and stalls in `GatherQueue`, and a reader of the group's rows in
`TripGroup`, which keeps of the queue only that a run is taken, ends, fails or is
lost.  A rescue is a transaction in `ReplanGate` and a choice of stops in
`DayRescue`.

### Choices worth knowing

* **A version and its event carry the name of the request that inserts them.**  A
  request inserts at most one, so no identifiers are generated.
* **Transactions.**  Postgres READ COMMITTED: a statement sees what is committed; a
  row lock is held from the statement that takes it to the end of the
  transaction; an uncommitted insert holds its key in the unique index.  A
  handler is cut at every point where another can interleave - between
  transactions, and inside one where it waits or reads without a lock.
* **`get_active` is a nondeterministic choice** among the active rows, because the
  query has no ORDER BY; it matters only when there are two.
* **A graph node and its checkpoint are two steps.**  A run that dies between them
  runs the node again, and `ainvoke(None)` resumes from the checkpoint as it
  stands when it is called, not as the handler saw it.
* **The heartbeat clock.**  `Tick` is one heartbeat period (10 s).  A run untouched
  for `StaleAfter` periods is offered again; the code's 60 s are six periods,
  the runs use two, the least that lets a heartbeat happen between a touch and
  staleness.

* **A search is any answer.**  What CP-SAT chooses in `RoutingRepair` and
  `DaySchedule` is any answer its hard constraints allow, within its work limit or
  not, so the properties cannot rest on its objective.  What a provider or a
  model answers is any of the answers the code tells apart.
* **Classes instead of names.**  `SocialDiscovery` counts the names a search finds
  by what the code asks of them (backed by a Reel, a hidden gem, neither), and
  `Harness` knows a call by the fingerprint the loop detector computes.
* **An erased run.**  `delete_personal_data` deletes the `gather_run` row, and
  `delete_account` the graph's thread before the request's transaction commits.
  The deleted row is locked all that time, and nobody who reads it without the lock
  (`Poll`, `Recheck`) looks at the thread, so `EraseRun` is one step.  It erases what a worker holds at
  any moment: the worker then finds no row, or finishes and writes to none.
  Deleting the leader's account deletes the trip itself; that, and a deletion that
  dies after the thread and before its commit, are not in `GatherQueue`.
  `ShortlistReview` does cut the deletion there, since its row is read
  long before it is written.
* **Histories.**  `acked`, `quorate`, `strayed`, `willing`, `unasked`, `joins`,
  `resets`, `recent` and `confirmed` are not in the program; they remember what a
  property speaks of.  `strayed` are the travelers whose acknowledgment a deletion
  wrote back beside a newer selection than it had read, `unasked` those whose data was
  sent though they had not agreed when the work began.

## Runs

| Run | Instance | Shows |
|---|---|---|
| `gate_mixed` | 1 plan, 2 rescues, 1 edit | one active version, one line of history, fresh proposals, an edit proposes alone, an edit's notice is durable, and the gate implements `PlanApproval` |
| `gate_two_plans` | 2 plans, 1 rescue, 1 edit, `FairSpec` | with the graph resumed twice, version numbers and the agreement of events with versions still hold, and no request waits for ever |
| `gather_faults` | 1 trip, shared, 2 prompt workers, 1 crash, 1 lost connection, `FairSpec` | one pool, a completed run and an open trip have a deck, only the group crosses the swipe interrupt, every run ends or is erased |
| `gather_stalls` | 1 trip, shared, 2 workers that stall at will, 1 crash | a stale row alone never gives a run to a second worker, and the queue implements `DiscoveryPromise`: no second pool, no late card, no end taken back, also by the failure an older execution records late |
| `review` | 3 travelers of whom one may leave, 2 selections, 1 build, 1 edit, 1 plan | acknowledgments match the selection; what is solved had the quorum |
| `components` | twelve instances, one module each, `HarnessStep` weakly fair | the properties of the twelve modules, one to three each, below |
| `group_no_run` | 2 accounts, 1 invite | **fails** `GatheringHasRun` |
| `links_no_progress` | 3 links, the code's own window, thresholds and limits | **fails** `BenignLinksProgress` |
| `gate_two_disruptions` | 1 plan, 2 rescues | **fails** `AtMostOnePending` |
| `gate_double_plan` | 2 plans | **fails** `SingleActive` |
| `review_two_builds` | 2 builds | **fails** `GroupOpensTheGate` |
| `review_lost_ack` | 1 build, 1 edit | **fails** `AckSurvives` |

Why these bounds are enough to be interesting:

* Two rescues and an edit are two proposers of each kind of conflict
  (rescue/rescue, rescue/edit), with the version that one of them supersedes
  under the other.  Each request is used once; more requests of a kind repeat
  the same handler, and the theorems below hold for any number of them.
* Two workers are a worker and its successor; a third could only be a successor
  again.  The queue has no state that relates two trips, except the order in which a
  worker tries the runs a poll returned, so one trip is used.
  `MaxCrashes` and `MaxLosses` bound the environment, not the code: with
  the two retries the code allows, a crash or a loss can hit any
  of the three attempts at any step.  `MaxRetries` is the code's own limit.
* Three travelers make the quorum two: neither one nor all, so a second
  acknowledgment can be lost or matter.  Two selections distinguish "the
  selection changed" from "it did not"; the build and the edit can each write it around a
  confirmation, and one deletion can begin before and end after both.  Two edits
  at once, which only repeat each other, are covered by the theorems.

What `components` checks, and its bounds:

* `RoutingRepair` - `EveryPlaceAccounted`, `OneReplacementPerHole`, `FactsHold`.
  Two days; a must-go place, two that cannot share a day, a restaurant that no meal serves, and
  a reserve: each reason to refuse a place occurs, and three rounds let the best plan be
  an earlier one than the last.
* `DaySchedule` - `MealBreaksAgree`.  Half-slots, so that travel is off the grid; one
  visit with two opening intervals; a cap shorter than the day.
* `SocialDiscovery` - `ChecksWithinCeiling`, `DryOnEvidence`, `NoIdleChecks`.  Two cities
  of one and two days and a ceiling of four, less than the sum of what they want;
  all thresholds as small as they can be and still differ.
* `CityPool` - `EveryCityCovered`.  Two cities with a place near both, a pair of
  duplicates, a diet conflict, an inadmissible listing, a pasted card.
* `TransitChain` - `EveryProviderTried`, `LegsOfThisDeparture`.  Three stops, two
  providers of which one takes two locations and the other two arcs, two
  departures, two requests.
* `TripGroup` - `UsesAreJoins`, `SnapshotIsGroup`, `SharedWithConsent`.  Three
  accounts, one invite of one use, so two race for it; one of them pastes.
* `Harness` - `CallsAccounted`, `HarnessRunEnds`; `LinkResolution` - `NoneLeftPending`.
  A budget of four steps and a window of two: every fault occurs.
* `SignIn` - `NoSessionLeftBehind`, `CodeWorksOnce`, `ActsOnTheMoment` (it implements
  `AccountPromise`).  Two requests at once, three
  passwords, two codes and two challenges: an old and a new one of each.
* `DayRescue` - `RescueSound`.  Five slots a day; a booking in the
  middle of the disrupted day; two listings of one bar, a copy of the garden and
  food nobody eats among what a search finds, and one of the bar's listings may be
  stored by somebody else at any moment; two rescues, one after the other.
* `TripPreparation` - `PreparationAgrees`.  Two members, two rows, two revisions, two
  hotels.
* `Ballot` - `BallotFair`.  Seven cards over four lanes, two voters, two swipes,
  one seat on the shortlist: one swipe decides, and the second may come while the first is
  counted.  The order of the lanes is checked on the deck before the first swipe.

`links_no_progress` uses the code's values (window 6, three repeats, 50
steps), so that its failure is not one of the bounds.

Deadlock checking is off: the instances hold finitely many requests, and when
all have ended, and no traveler has anything left to decide, the system
really stops.

### Assumptions of the runs

* *Prompt workers* (`gather_faults`): a heartbeat is sent in each period; the
  steps named in `Brief`, a few statements without a provider call, see no
  period end; a discovery lasts long enough for one heartbeat.  The run asks
  what crashes and dropped connections can do to workers that are otherwise on
  time.  `gather_stalls` drops all of this and keeps the connections instead.
  With both dropped `PoolOnce` fails: a worker that lost its lock and stalls
  between the second look at the pool and the insert meets its successor there,
  since that second look takes no lock.  The window is a stall of a minute
  in two statements, and no document claims more.  With prompt workers and two
  lost connections it fails as well, so one loss is part of the premise: the
  late failure of a worker without its lock ends the run its successor
  executes, the leader retries at once, and the third worker does not wait for
  a period in which the second one would notice.
* Nobody joins once discovery has started, as the code enforces; members may
  leave.  The leader does not, since the trip goes with the leader's account.
* The constants of a module are restricted by one named assumption each, the
  premises of its theorems.  Most say that limits are natural numbers and that
  what a trip holds is finite.  Six say more.  `HarnessAssumption`: the window and
  the thresholds are positive.  `LinkCallsAssumption`: the calls the worker makes are
  among those the harness knows.  `DiscoveryAssumption`: the guides' share is
  within the budget and the budget within the ceiling, as
  `config/gather.py` computes them, and a question may be asked at least once.  `RescueAssumption`: the first plan is
  a feasible one over rows of the pool, as the solver leaves it.  Nothing is assumed of listings: the
  pool may hold one place twice, as pasted cards are told apart by `place_id`
  alone and overlapping rescues store a row each.  `ScheduleAssumption`: visits and breaks are whole slots of the publication
  grid, as `config/schedule.py` and `MEAL_BREAK_MINUTES` have them; travel need not be.
  `BallotAssumption`: a card's lane is one `deck_lane` returns, lanes have different
  priorities, and no two cards share a place in the sort by evidence, which is
  stable.
* A trip has one `gather_run` row ever, since `start` requeues the row it finds, and
  refuses when the row was erased.

### Fairness

* `ReplanGate.FairSpec`: weak fairness of the steps of each accepted request.  The
  event loop resumes a handler whose awaited call has returned, provider
  clients have timeouts, and Postgres grants a row lock to its waiters.
  Sending a request and deciding a proposal are users' acts and have none.
* `GatherQueue.FairSpec`: weak fairness of the steps of each worker and of its
  heartbeat, since `main` loops for ever and a crashed process is started
  again; strong fairness of `Tick`, since a worker that polls an empty queue sleeps two
  seconds between polls, so it does not keep time from passing.  The leader's retry,
  the group's build and every fault have none.
* `components`: weak fairness of `HarnessStep` only.  A run is one task; each of
  its calls returns or times out, and nobody has to act for it to go on.  A crash
  is not fair.  That such a run ends is what the step budget is for: the body may
  catch every error and try again for ever.
* `ShortlistReview` has no liveness property: every step of it waits for a
  person.  The other modules have none either: they are about what a finite
  piece of work leaves behind, or wait for people.

## Proofs

All of it holds for any sets of requests, travelers, selections, accounts, invites
and links, and any limits.

* **`ReplanGateProofs`** needs `RequestAssumption` only.  `TypeOK` is inductive.
  The strengthening is `Memory`: every version a request has read, locked or
  replaces is a committed one, and the version it was built on has taken effect.
  Neither the locks nor the events can be reasoned about without it.
  From `Memory`, `LockHeld`: a version is locked by one
  request at a time, and stays active while a rescue or an edit holds it -
  hence `FreshProposal`, since the commit that shows a proposal
  happens under that lock.  `GateRecordsAgree` follows from `Memory`
  as each decision writes the event and the version in one step.
  `NumberedOnce` rests on `Numbering`: a request in its writing transaction holds
  a number no higher than the next one, and exactly the next one from its insert
  on; the unique index lets one insert be in flight at a time, so a commit
  appends the version at its number.
* **`ReplanHistoryProofs`** assumes `OnePlan`: there is at most one planning
  request, and any number of rescues and edits.  `gate_double_plan` shows that
  the theorems fail with two, since the code does not keep two planning runs
  apart.  Its `History` says that the adopted versions form a line that ends
  in the active one; from it follow `SingleActive`, `LinearHistory`,
  `EditProposesAlone`, and `ApprovalRefined`: `ReplanGate` implements
  `PlanApproval`, with every commit a visible step and every other step a
  stutter.
* **`GatherQueueProofs`** needs `GatherAssumption` only.  An *orphan* is a worker
  whose lock's connection is gone and that has not noticed.  `QueueInv` says where a
  worker may be with and without a trip (`WorkersPlaced`), that each orphan was paid for
  with a lost connection (`OrphansCounted`), and that nothing runs for a trip
  that was not started (`Started`).  From it: `TypeOK`, `CompletedMeansDeck`,
  `OnlyGroupCrosses`, and `ExclusiveExecution`, which bounds the workers on a trip
  by the losses, whatever stalls.  (The run that checks it loses no connection: the
  bound says something of a loss only for more workers than two.)  Where no connection is lost, `ClaimStands` says that
  nobody but its owner touches the row of a claimed run, hence `CompletedIsFinal`.
  `PromiseKept` is the refinement of `DiscoveryPromise` under the same premise.  Beside
  `ClaimStands` it needs that a worker which executes works on a running row, at the
  checkpoint it has read (`Positions`), and that links are resolved before there is a
  pool (`LinksFirst`).  `Phase` and `Point` are the mapping: queued and running are one
  phase, the checkpoints before the swipe interrupt are one point.  With a connection lost the
  refinement fails: an orphan records a failure after its successor has looked at the row
  and before it begins the run, so a failed discovery goes on that nobody asked for again.
  `PoolOnce` holds without losses, and with one loss under `Outpaced` (prompt workers,
  staleness of two periods or more).  Its `PoolInv` adds that two workers
  far enough to store never execute one run (`NoRivals`), that whoever
  inserts found no pool (`FirstInsert`), that before a loss an executing worker
  keeps its row fresh (`RowsFresh`), and that after it the orphan's next
  heartbeat is due before a successor is far enough to store (`OrphanOutrun`).
* **`ShortlistReviewProofs`** needs `ReviewAssumption` only, and for two
  theorems `OneBuild`.  `Loaded` says which
  places in a handler hold a selection, and gives `TypeOK`.  `RowsBacked` extends
  `AcksMatchSelection` from the row to the copies of it that editors and deletions
  have read - the property is not inductive without them, because such a copy is
  written back.  `OneBuild` is the premise that `review_two_builds` shows to be
  needed: under it, `GateInv` says that a confirmed row had its quorum
  (`RowsQuorate`), that the build stops at the review interrupt (`BuildStops`)
  and that a plan past its check resumes with a selection that had one
  (`PlansQuorate`).  From these: `PlannedHadQuorum` and `GroupOpensTheGate`.

  `Ballot` is proved here as well, from `BallotAssumption`.  `BallotInv` is short: a
  member has one row for a card, and rows are of members who are there.  The rest is
  about the two orders.  *Deck* (`LanesMixAnyDeck`): `Earlier` is a strict total order on the
  cards nobody pasted (`EarlierThrough`, by the fractions' cross products), so a card's
  place tells which cards are up; of each lane those are its strongest ones
  (`LaneSeen`), up to half a card of that lane (`LaneShare`), which for
  three lanes is less than a card in all (`GapFromShares`).  The mixing bound is thus one of
  three lanes, which the code has.  *Shortlist*: a vote moves
  its own card's score one way (`ScoreMoves`) and no other (`OthersKeepScore`), so
  the cards ahead of it are the same ones or fewer (`HigherKeepsSeat`).
* **`SignInProofs`** needs `SignInAssumption` only.  The account row's lock carries the
  argument: `RowHeld` says that whoever holds the row is at a stage that works on
  it and that the account is there, and `SeenStands` that the password or code
  it compared when it took the lock is still the row's.  So `Issue` opens a
  session with the current password, and `FinishReset` uses the current code,
  which `CodesSpent` puts ahead of every code that has worked: the row's code is
  the latest one mailed or none.  From these:
  `NoSessionLeftBehind` and `CodeWorksOnce`.
  `ActsOnTheMomentHolds` is the refinement of `AccountPromise`: a request's commit is the
  visible step, and what it read, hashed and locked before is a stutter.  A
  challenge that a request has taken still counts as unused until the request
  commits (the mapping's `Proving`); `ChallengesOnce` says that it is then
  that request's alone, so that the session uses it up.
* **`TripGroupProofs`** needs `GroupAssumption` only.  `UsesAreJoins` rests on
  `Joined`: whoever an invite brought is a member or deleted, so a pair is
  counted once.  `SnapshotInd` adds to `SnapshotIsGroup` that a run or a working
  worker means the trip has left draft, where nobody joins and nobody changes a
  diet, and that a worker on a run that is still there holds its inputs.
  `ConsentInd` goes on from there: once the worker has checked consent, all
  members were willing and nobody can join, so whatever it sends has an owner who
  was or has been deleted.

  `TripPreparation` is proved here as well, from `PreparationAssumption`:
  `ListStands` says that a suggestion's key is on one row and that no copy is ahead of
  its row, `LodgingStands` that only hotels are stored and that the record of
  what was confirmed agrees with the row.
* **`PlanningProofs`**.  *Transit* (`ChainInv`): every provider before
  the current one was asked about every arc that is still open, and nothing is estimated while
  the chain is walked (`Walked`), and a
  cached leg is one a provider gave for its own departure (`CacheHonest`).
  *Repair* (`RepairInv`): the best plan and the current one account for every
  place (`PlansStand`: the wishlist is what Stage 1 left over and what Stage 2 refused,
  and `AccountsClose` shows that this is every shortlisted place that is on no day), a block is true of the place's own hours and a
  capacity of the day's clock (`FactsSound`), and every reserve called in was paid for by a
  place that the known blocks leave no day (`HolesPaid`).  *Rescue* (`RescueInv`): itinerary and proposal can be
  walked (`Walkable`), of two listings of one place that a rescue may plan both are
  among the rows it read (`ListingsRead`), whatever others stored since, and a
  rescue under way holds offers that are in the pool, new to the itinerary and fit to
  eat (`UnderWay`).  *Meal breaks* (`DayInv`): stops are on the grid, one after another
  with the journey between them, nothing is travelled to the first, and what was
  published is within the cap and reservable.  `FirstFreeIsFirst` says that stepping over
  such stops ends at the earliest free hour from a time on (`Climb` over the stops, the
  induction principle this module derives from well-ordering); hence an hour found
  is no later than the one reserved.  `OneSpanHoldsAll` names a span that
  holds every reserved hour, so the span the API settles on holds them all
  (`AnswerIsSpan`), and no other meal.
* **`DiscoveryProofs`**.  *Harness* (`HarnessInv`): the row runs as long as the run
  does, and a run goes on within its limits only (`WithinLimits`).
  `LinksAreHarnessed` is a refinement: every step of `LinkResolution` is a step
  of the harness or none, so `CallsAccounted` carries over; `LinkInv` adds which link
  is at work and that all before it are answered.  *City search*: `DryInv` relates
  the streak counters to the window of remembered answers, which forgets while they do
  not.  `CheckInv` says that what earlier cities spent, what they left and what this
  city may spend stay within the sum of the ceilings of the cities opened so
  far; that these sums grow is the one induction over data (`Climb`, by
  well-ordering), and `GrownWithin`, `LanesAddUp` and `BatchFits` carry the arithmetic of an
  allowance that grows and of a batch over two lanes.  From it: `ChecksWithinCeiling`
  and `NoIdleChecks`.  *Pool* (`CityCovered`): quotas fit the share of a city, so
  the essential cards and the options fit together, by counting.

Only model-checked are the liveness properties `AcceptedRequestsEnd`, `EveryRunEnds` and
`HarnessRunEnds`, which need fairness and `ENABLED`: every other property of a
passing run is a theorem.

Conversely the type invariants of all modules are proved (`TypeCorrect`,
`SignInTypeCorrect` and their like) and therefore not checked by a run, and neither is
`CompletedIsFinal`, which `KeepsPromise` implies.

## Findings

Each is a run that fails; `PROJECT.json` quotes the lines.

1. **Two pending proposals** (`gate_two_disruptions`).  A rescue checks for a
   pending event before its provider calls and not again under the lock, though
   a manual edit does.  Two disruptions reported together both become pending;
   after one is approved, the other can be neither approved nor rejected, and
   every later proposal is answered 409.
2. **Two active versions** (`gate_double_plan`).  Two planning runs that both
   passed the check of the checkpoint both find no active version and both
   append one.
3. **The review gate is passed by nobody's confirmation** (`review_two_builds`).
   A second build resumes from the checkpoint that the first has moved behind
   the review interrupt.
4. **A lost acknowledgment** (`review_lost_ack`).  An edit that changes nothing
   writes back the acknowledgments it read without the row lock.
5. **A gathering trip without a run** (`group_no_run`).  When a member who joined
   deletes the account, the trip's run and thread are deleted and the trip
   stays in `gathering`: the leader's start is refused, and so is the legacy one.
6. **Three harmless links look like a loop** (`links_no_progress`).  The state
   that caption extraction shows the loop detector names the platform and not the
   link, so the third link of a platform fails the run.

Behaviour met while modelling that no document contradicts, so that it is
described and not counted: a disruption is published before its transaction
commits, so a quick device may find no proposal; a build that crosses the
swipe interrupt before the worker has ended sees its `shortlisting` overwritten
with the worker's `swiping`; the legacy `POST /gather` takes no advisory lock and
sets a planned trip back to swiping; a failure between aggregate and shortlist,
or in the solver or explain node, leaves a checkpoint that neither build nor
plan accepts; a confirmation does not say which selection it is for; `POST
/plan` on a finished thread answers with the version in the checkpoint.  In the
parts modelled later: a must-have counts only its bonus and not as a positive vote
(`agents/aggregate.py:67-77`, while `eval/scorers.py:111` counts it as one), so with
three travelers or fewer it scores less than a like; a pasted card that
conflicts with a hard diet is hidden from the deck (`trips.py:337`) but scored
like any other (`aggregate.py:143-148`); the cities'
shares of the check ceiling may add up to more than it, since a share below one counts as
one; two rescues that overlap each store a row for the same found place
(`rescue.py:313`); a rescue compares stored places by id only, so another listing
of a closed place that was already in the pool may be offered in its stead
(`rescue.py:275-292`); a place reported closed is unavailable to its own rescue
only; deleting an account reads the shortlist row without its lock and rewrites
`confirmed_by` alone (`store/repositories/group.py:240-252`), so acknowledgments
may end beside a selection nobody gave them for and `confirmed_at` may stand for a
smaller group; a profile card without a city is in no city's pool; an account
deleted while a worker holds its data is not asked again; and a worker that fails after
it has lost its lock still marks the run failed if the row says running
(`workers/gather.py:190`), though a successor may be executing it - the comment
above (`workers/gather.py:162-164`) calls the loss of ownership recoverable.

Met, contradicted by documents, and stated as the exception of a property in place of
a run of its own:

* A chat link posted after discovery is resolved at once
  (`routers/group.py:261-262`), without asking for anybody's consent and outside the
  credential scope of the trip's creator, so `make_messages_client` falls back on the
  server's key.  `docs/PRIVACY_POLICY.md:44-47` says "Withdrawing permission prevents
  new AI work for shared trips that include that member until permission is granted
  again", and `docs/ANTHROPIC_BYOK.md:23-25` that a trip owned by an account "is
  explicitly prevented from falling back to that server key".  `SharedWithConsent`
  speaks of the worker's and the plan's own checks and names `chat` as the exception.
* A hotel that was booked keeps the candidate's "discovery" source and gets a
  "personal" one beside it (`booked_hotels.py:110-112`, `live.py:171-177`), so
  `_pool_already_discovered` (`live.py:596-617`) takes a pool with nothing but that
  hotel for a discovered one: the run skips the search and ends without usable
  places, against the docstring of that function.  It is why `DiscoverHotels` is
  guarded by an empty table of hotels, and `CityPool` leaves out hotels booked
  before discovery.

## Not modelled

* What a language model, a provider or CP-SAT answers: any answer the code
  tells apart.  Objectives, scores of places and wording are left out, so nothing
  here says that a plan is good.
* The guides baseline (`agents/gather/guides.py`) is a number of place checks in
  `SocialDiscovery`; `solve_routes` (`stage2_route.py`) is called by tests only.
* Cities, localization, source language and preferences rewrite text.  Migrations,
  evaluation and tracing keep no state that the rest depends on.
* The HTTP clients of the providers, rate limits, token signatures and the
  storage of pictures.
* The legacy `POST /gather`, which serves trips older than the queue.
* The iOS app, which only calls the API.

## Plan

Done, in this order: `ReplanGate` with `PlanApproval`, `GatherQueue` and
`ShortlistReview`; the twelve modules of `components`; the proofs above.

What is left, the most valuable first:

1. The composition of `GatherQueue` with `TripGroup`: one worker that both keeps the queue's
   promises and reads the group's rows.
2. The solver's objective, as an order on the answers of `RoutingRepair`, to say
   that an optional place is never preferred to one that somebody must have.
