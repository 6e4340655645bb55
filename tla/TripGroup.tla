------------------------------ MODULE TripGroup ------------------------------
(***************************************************************************)
(* The group of one trip: invites, membership, preferences, pasted links   *)
(* and the chat that carries them, consent to share data with the model    *)
(* provider, the leader's key that pays for it, the leader's start of      *)
(* discovery, and what deleting an account does to all of them.            *)
(*                                                                         *)
(* Joining, pasting, naming and starting serialize on the trip row;        *)
(* deleting an account and consent do not.  The leader's request checks    *)
(* consent before it takes the row, so others may act in between.  The     *)
(* worker is here only as what it reads and sends: the queue itself is     *)
(* GatherQueue.                                                            *)
(***************************************************************************)
EXTENDS Integers, FiniteSets

CONSTANTS
    Account,
    Leader,        \* the account that created the trip
    Invite,
    MaxUses,       \* [Invite -> Nat]
    Active,        \* bound: the accounts that set preferences and paste a link
    MaxRestarts    \* the leader's restarts of a failed run: 2

ASSUME GroupAssumption ==
    /\ IsFiniteSet(Account) /\ Leader \in Account
    /\ Active \subseteq Account /\ MaxUses \in [Invite -> Nat] /\ MaxRestarts \in Nat

VARIABLES
    tripStatus,   \* "draft", "gathering", "swiping" and what follows it, or "gone"
    members,      \* accounts with a traveler on the trip
    consent,      \* accounts whose stored consent is current
    key,          \* the leader has a stored key; nobody else's is ever read
    deleted,      \* accounts that no longer exist
    invites,      \* [Invite -> "unsent", "open", "off" or "gone"]
    uses,         \* [Invite -> Nat]
    joins,        \* history: <<account, invite>> that became a member
    diet,         \* members with a dietary constraint
    link,         \* [Active -> status of the link the account pasted, or "none"]
    named,        \* accounts whose link has a submitted place name
    posted,       \* accounts whose link a chat message carries
    starting,     \* the leader's start request: "no" or "checked"
    job,          \* gather_run: "none", "queued", "running", "failed", "completed"
    restarts,
    snapshot,     \* the run's frozen inputs: who, whose diet, which links
    begun,        \* the graph's thread has a checkpoint
    workerAt,     \* the worker: "idle", "claimed", "resolving" links, "resuming"
                  \* a thread that has begun, or "gathered"
    held,         \* the worker's copy of those inputs
    willing,      \* the consents the worker found when it checked
    unasked       \* history: <<account, way>>: the model was called for a trip that
                  \* includes the account, whose consent was not there when the work
                  \* began; the way is a "run", a "paste" or a link in the "chat"

people == <<members, deleted, joins>>
choice == <<consent, key>>
inviteRows == <<invites, uses>>
inputs == <<diet, link, named, posted>>
run == <<job, restarts, snapshot>>
worker == <<begun, workerAt, held, willing, unasked>>
\* What a link that is pasted, named or resolved leaves alone.
beyondLinks == <<tripStatus, people, choice, inviteRows, diet, starting, run, begun, workerAt, held,
                willing>>
groupVars == <<tripStatus, people, choice, inviteRows, inputs, starting, run, worker>>

NoInputs == [people |-> {}, diet |-> {}, links |-> {}]

Live == Account \ deleted

-----------------------------------------------------------------------------
GroupInit ==
    /\ tripStatus = "draft" /\ members = {Leader}
    /\ consent = {} /\ key = FALSE /\ deleted = {} /\ joins = {}
    /\ invites = [i \in Invite |-> "unsent"] /\ uses = [i \in Invite |-> 0]
    /\ diet \in SUBSET (Active \cap {Leader})
    /\ link = [a \in Active |-> "none"] /\ named = {} /\ posted = {}
    /\ starting = "no" /\ job = "none" /\ restarts = 0 /\ snapshot = NoInputs
    /\ begun = FALSE /\ workerAt = "idle" /\ held = NoInputs
    /\ willing = {} /\ unasked = {}

CreateInvite(i) ==
    /\ tripStatus # "gone" /\ invites[i] = "unsent"
    /\ invites' = [invites EXCEPT ![i] = "open"]
    /\ UNCHANGED <<tripStatus, people, choice, uses, inputs, starting, run, worker>>

\* Turned off by a member, or past its expiry.
CloseInvite(i) ==
    /\ invites[i] = "open"
    /\ invites' = [invites EXCEPT ![i] = "off"]
    /\ UNCHANGED <<tripStatus, people, choice, uses, inputs, starting, run, worker>>

\* Mutant of Claimable: the cap is read by the application beforehand.
ClaimableAnyUses(i) == invites[i] = "open"

\* The WHERE clause of claim: the row decides, so one use is spent once.
Claimable(i) == invites[i] = "open" /\ uses[i] < MaxUses[i]

JoinOpen == tripStatus = "draft"

\* join_trip by somebody new; a member who reopens the link changes nothing.
Join(a, i) ==
    /\ a \in Live \ members /\ JoinOpen /\ Claimable(i)
    /\ uses' = [uses EXCEPT ![i] = @ + 1]
    /\ members' = members \cup {a} /\ joins' = joins \cup {<<a, i>>}
    /\ UNCHANGED <<tripStatus, choice, deleted, invites, inputs, starting, run, worker>>

GrantConsent(a) ==
    /\ a \in Live
    /\ consent' = consent \cup {a}
    /\ UNCHANGED <<tripStatus, people, key, inviteRows, inputs, starting, run, worker>>

RevokeConsent(a) ==
    /\ a \in consent /\ consent' = consent \ {a}
    /\ UNCHANGED <<tripStatus, people, key, inviteRows, inputs, starting, run, worker>>

\* save_credential: saving a key grants consent with it.
SaveKey ==
    /\ Leader \in Live
    /\ key' = TRUE /\ consent' = consent \cup {Leader}
    /\ UNCHANGED <<tripStatus, people, inviteRows, inputs, starting, run, worker>>

RemoveKey ==
    /\ key /\ key' = FALSE
    /\ UNCHANGED <<tripStatus, people, consent, inviteRows, inputs, starting, run, worker>>

\* missing_anthropic_consent_for_trip: over the travelers there are now.
Missing == members \ consent

\* Mutant of MissingAtWork: the worker trusts the check of the start request.
MissingUnchecked == {}

MissingAtWork == Missing

-----------------------------------------------------------------------------
\* What the travelers put in: preferences and links

\* PUT preferences: a member says what they do not eat, or that they eat all.
SetPreferences(a) ==
    /\ a \in Active \cap members /\ tripStatus = "draft"
    /\ diet' \in {diet \cup {a}, diet \ {a}}
    /\ UNCHANGED <<tripStatus, people, choice, inviteRows, link, named, posted, starting, run, worker>>

\* resolve_link_attachment for the link of p.  A submitted name is looked up as
\* it is; otherwise the post is read, and its text goes to the model if there
\* is any and it can be paid for: a call that missing says who has not allowed.
\* An unreadable platform leaves it pending.
Resolve(p, hasName, paid, missing) ==
    \/ /\ hasName
       /\ \E end \in {"ready", "failed"} : link' = [link EXCEPT ![p] = end]
       /\ UNCHANGED unasked
    \/ /\ ~hasName
       /\ \E end \in {"pending", "failed"} : link' = [link EXCEPT ![p] = end]
       /\ UNCHANGED unasked
    \/ /\ ~hasName /\ paid
       /\ \E end \in {"ready", "failed"} : link' = [link EXCEPT ![p] = end]
       /\ unasked' = unasked \cup missing

\* Mutant of Frozen: a second paste may still add a name.
NeverFrozen == FALSE

\* The run reads the links as they were when it started.
Frozen == tripStatus = "gathering"

\* attach_link.  Before discovery a link is only stored; during it a new one is
\* stored for later and one already there is left as it is; afterwards it is
\* resolved at once, with the leader's key and everybody's consent.
AttachLink(a, hint) ==
    /\ a \in Active \cap members
    /\ link[a] # "none" => ~Frozen /\ link[a] # "ready"
    /\ named' = IF hint THEN named \cup {a} ELSE named
    /\ IF tripStatus = "swiping"
       THEN Missing = {} /\ Resolve(a, a \in named', key, Missing \X {"paste"})
       ELSE /\ link' = IF link[a] = "none" THEN [link EXCEPT ![a] = "pending"] ELSE link
            /\ UNCHANGED unasked
    /\ UNCHANGED <<beyondLinks, posted>>

\* post_message with a link in it.  One already attached is carried as it is; a
\* new one is resolved after discovery, outside the leader's credential scope:
\* nobody's consent is asked, and the server's key, where it has one, pays.
PostLink(a) ==
    /\ a \in Active \cap members
    /\ posted' = posted \cup {a}
    /\ IF link[a] = "none" /\ tripStatus = "swiping"
       THEN Resolve(a, FALSE, TRUE, Missing \X {"chat"})
       ELSE /\ link' = IF link[a] = "none" THEN [link EXCEPT ![a] = "pending"] ELSE link
            /\ UNCHANGED unasked
    /\ UNCHANGED <<beyondLinks, named>>

\* name_place_for_message: any member names the place of a link in the chat.
NamePlace(p) ==
    /\ p \in posted /\ ~Frozen
    /\ named' = named \cup {p}
    /\ IF tripStatus = "swiping" THEN Resolve(p, TRUE, FALSE, {})
       ELSE UNCHANGED <<link, unasked>>
    /\ UNCHANGED <<beyondLinks, posted>>

\* attach_screenshot: after discovery the poster's own picture is read by the
\* model, whatever became of the link before.
AttachScreenshot(a) ==
    /\ a \in Active \cap members /\ link[a] # "none" /\ tripStatus = "swiping"
    /\ Missing = {} /\ key
    /\ link' = [link EXCEPT ![a] = "ready"]
    /\ unasked' = unasked \cup (Missing \X {"paste"})
    /\ UNCHANGED <<beyondLinks, named, posted>>

-----------------------------------------------------------------------------
\* start_gather: the checks, then GatherRunRepository.start under the row lock

StartCheck ==
    /\ Leader \in Live /\ tripStatus # "gone" /\ starting = "no" /\ key /\ Missing = {}
    /\ starting' = "checked"
    /\ UNCHANGED <<tripStatus, people, choice, inviteRows, inputs, run, worker>>

\* GatherInput, as the row lock's holder reads it.
Inputs ==
    [people |-> members, diet |-> diet,
     links |-> {<<p, p \in named>> : p \in {a \in Active : link[a] # "none"}}]

\* The first start: the inputs are frozen.
StartNew ==
    /\ starting = "checked" /\ job = "none" /\ tripStatus = "draft"
    /\ job' = "queued" /\ snapshot' = Inputs /\ tripStatus' = "gathering"
    /\ starting' = "no"
    /\ UNCHANGED <<people, choice, inviteRows, inputs, restarts, worker>>

\* A failed run is queued again, with the inputs it had.
StartAgain ==
    /\ starting = "checked" /\ job = "failed" /\ restarts < MaxRestarts
    /\ job' = "queued" /\ restarts' = restarts + 1 /\ starting' = "no"
    /\ UNCHANGED <<tripStatus, people, choice, inviteRows, inputs, snapshot, worker>>

\* The run there is is returned, or 409: "Discovery has already started".
StartChangesNothing ==
    /\ starting = "checked"
    /\ IF job = "none" THEN tripStatus # "draft"
       ELSE job # "failed" \/ restarts = MaxRestarts
    /\ starting' = "no"
    /\ UNCHANGED <<tripStatus, people, choice, inviteRows, inputs, run, worker>>

-----------------------------------------------------------------------------
\* The worker, as far as it touches the group

\* It loads the run, inputs included, and marks it running.
WorkerTakes ==
    /\ job \in {"queued", "running"} /\ workerAt = "idle"
    /\ job' = "running" /\ workerAt' = "claimed" /\ held' = snapshot
    /\ UNCHANGED <<tripStatus, people, choice, inviteRows, inputs, starting, restarts, snapshot, begun,
                   willing, unasked>>

\* execute_run checks consent once more, for the travelers there are now, and
\* reads the leader's key; then a thread that has begun is resumed.
WorkerChecks ==
    /\ workerAt = "claimed" /\ MissingAtWork = {} /\ key
    /\ workerAt' = IF begun THEN "resuming" ELSE "resolving"
    /\ willing' = consent
    /\ UNCHANGED <<tripStatus, people, choice, inviteRows, inputs, starting, run, begun, held, unasked>>

\* The travelers of the run whose consent the worker did not find.
Unwilling == (held.people \ willing) \X {"run"}

\* A frozen link that is still there and pending is resolved, as it was frozen.
WorkerResolves(p) ==
    /\ workerAt = "resolving" /\ link[p] = "pending"
    /\ \E hasName \in BOOLEAN :
          <<p, hasName>> \in held.links /\ Resolve(p, hasName, TRUE, Unwilling)
    /\ UNCHANGED <<beyondLinks, named, posted>>

\* The graph runs on the inputs it was given.
WorkerShares ==
    /\ workerAt \in {"resolving", "resuming"} /\ workerAt' = "gathered" /\ begun' = TRUE
    /\ unasked' = unasked \cup Unwilling
    /\ UNCHANGED <<tripStatus, people, choice, inviteRows, inputs, starting, run, held, willing>>

WorkerIdle == workerAt' = "idle" /\ held' = NoInputs /\ willing' = {}

\* A row that is gone is not updated; the trip's status is set all the same.
WorkerCompletes ==
    /\ workerAt = "gathered" /\ WorkerIdle
    /\ job' = IF job = "none" THEN "none" ELSE "completed"
    /\ tripStatus' = IF tripStatus = "gone" THEN "gone" ELSE "swiping"
    /\ UNCHANGED <<people, choice, inviteRows, inputs, starting, restarts, snapshot, begun, unasked>>

\* Consent missing, credential missing, or any error of the run.
WorkerFails ==
    /\ workerAt # "idle" /\ WorkerIdle
    /\ job' = IF job = "running" THEN "failed" ELSE job
    /\ UNCHANGED <<tripStatus, people, choice, inviteRows, inputs, starting, restarts, snapshot, begun, unasked>>

\* Crash or lost connection: the row stays "running" for the next worker.
WorkerLost ==
    /\ workerAt # "idle" /\ WorkerIdle
    /\ UNCHANGED <<tripStatus, people, choice, inviteRows, inputs, starting, run, begun, unasked>>

-----------------------------------------------------------------------------
\* delete_personal_data

\* Somebody who joined: their traveler with all they put in, their messages and
\* invites, and the trip's run and thread go.
DeleteMember(a) ==
    /\ a \in (Live \cap members) \ {Leader}
    /\ deleted' = deleted \cup {a} /\ members' = members \ {a}
    /\ consent' = consent \ {a}
    /\ \E mine \in SUBSET {i \in Invite : invites[i] # "unsent"} :
          invites' = [i \in Invite |-> IF i \in mine THEN "gone" ELSE invites[i]]
    /\ diet' = diet \ {a} /\ named' = named \ {a} /\ posted' = posted \ {a}
    /\ link' = [p \in Active |-> IF p = a THEN "none" ELSE link[p]]
    /\ job' = "none" /\ restarts' = 0 /\ snapshot' = NoInputs /\ begun' = FALSE
    /\ UNCHANGED <<tripStatus, joins, key, uses, starting, workerAt, held, willing, unasked>>

\* The leader: the whole trip goes, and the key with the account.
DeleteLeader ==
    /\ Leader \in Live
    /\ deleted' = deleted \cup {Leader} /\ members' = {} /\ consent' = consent \ {Leader}
    /\ key' = FALSE /\ invites' = [i \in Invite |-> "gone"]
    /\ diet' = {} /\ named' = {} /\ posted' = {} /\ link' = [p \in Active |-> "none"]
    /\ job' = "none" /\ restarts' = 0 /\ snapshot' = NoInputs /\ begun' = FALSE
    /\ tripStatus' = "gone" /\ starting' = "no"
    /\ UNCHANGED <<joins, uses, workerAt, held, willing, unasked>>

GroupNext ==
    \/ \E i \in Invite : CreateInvite(i) \/ CloseInvite(i)
    \/ \E a \in Account, i \in Invite : Join(a, i)
    \/ \E a \in Account : GrantConsent(a) \/ RevokeConsent(a) \/ DeleteMember(a)
    \/ SaveKey \/ RemoveKey
    \/ \E a \in Active :
          \/ SetPreferences(a) \/ PostLink(a) \/ NamePlace(a) \/ AttachScreenshot(a)
          \/ WorkerResolves(a)
          \/ \E hint \in BOOLEAN : AttachLink(a, hint)
    \/ StartCheck \/ StartNew \/ StartAgain \/ StartChangesNothing
    \/ WorkerTakes \/ WorkerChecks \/ WorkerShares \/ WorkerCompletes
    \/ WorkerFails \/ WorkerLost \/ DeleteLeader

GroupSpec == GroupInit /\ [][GroupNext]_groupVars

-----------------------------------------------------------------------------
\* Properties

GroupTypeOK ==
    /\ tripStatus \in {"draft", "gathering", "swiping", "gone"}
    /\ members \subseteq Account /\ consent \subseteq Account
    /\ deleted \subseteq Account
    /\ invites \in [Invite -> {"unsent", "open", "off", "gone"}]
    /\ uses \in [Invite -> Nat]
    /\ joins \subseteq Account \X Invite
    /\ key \in BOOLEAN /\ diet \subseteq Active
    /\ link \in [Active -> {"none", "pending", "ready", "failed"}]
    /\ named \subseteq Active /\ posted \subseteq Active
    /\ starting \in {"no", "checked"}
    /\ job \in {"none", "queued", "running", "failed", "completed"}
    /\ restarts \in Nat
    /\ {snapshot, held} \subseteq
          [people : SUBSET Account, diet : SUBSET Active, links : SUBSET (Active \X BOOLEAN)]
    /\ begun \in BOOLEAN
    /\ workerAt \in {"idle", "claimed", "resolving", "resuming", "gathered"}
    /\ willing \subseteq Account /\ unasked \subseteq Account \X {"run", "paste", "chat"}

\* Every use of an invite brought exactly one member, and an invite never
\* brings more than its cap, whoever opens it at the same time.
UsesAreJoins ==
    \A i \in Invite :
        /\ uses[i] = Cardinality({join \in joins : join[2] = i})
        /\ uses[i] <= MaxUses[i]

\* The frozen inputs are the group's: its members and what they do not eat for
\* good, and, while discovery runs, the links and the names given to them; what
\* is pasted meanwhile waits untouched.
SnapshotIsGroup ==
    job # "none" =>
        /\ snapshot.people = members /\ snapshot.diet = diet
        /\ tripStatus = "gathering" =>
              \A p \in Active :
                  \/ <<p, p \in named>> \in snapshot.links /\ link[p] # "none"
                  \/ (\A l \in snapshot.links : l[1] # p) /\ link[p] \in {"none", "pending"}

\* What is asked of the model for a trip includes nobody whose consent was not
\* there when the work began: the join or the withdrawal that slips in after the
\* leader's check is caught by the worker's.  Two ways are left open: an account
\* deleted while the worker holds its data is not asked, and a link posted in
\* the chat after discovery is read without asking anybody.
SharedWithConsent == \A who \in unasked : who[2] = "chat" \/ who[1] \in deleted

\* "gathering: leader has started discovery and the input snapshot is fixed
\* for this run": a trip that is gathering has a run.
GatheringHasRun == tripStatus = "gathering" => job # "none"
=============================================================================
