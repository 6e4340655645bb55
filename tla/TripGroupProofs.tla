---------------------------- MODULE TripGroupProofs ----------------------------
(***************************************************************************)
(* Proofs about TripGroup, for any number of accounts, invites and links,  *)
(* and about TripPreparation, for any checklist and any hotels.            *)
(* Three facts carry the first: nobody joins once the trip has left draft, *)
(* a run that is there holds what the worker holds, and whatever the       *)
(* worker sends was checked against the consent of the members it was read *)
(* from.                                                                   *)
(***************************************************************************)
EXTENDS TripGroup, TripPreparation, FiniteSetTheorems, TLAPS

LinkStates == {"none", "pending", "ready", "failed"}

-----------------------------------------------------------------------------
\* Invites

\* Whoever an invite brought is a member or deleted, as long as the trip is there.
Joined ==
    /\ uses \in [Invite -> Nat] /\ IsFiniteSet(joins)
    /\ tripStatus # "gone" => \A join \in joins : join[1] \in members \cup deleted

InviteInd == Joined /\ UsesAreJoins

LEMMA InviteInit == GroupInit => InviteInd
  <1> SUFFICES ASSUME GroupInit PROVE InviteInd
    OBVIOUS
  <1>1. joins = {} /\ uses = [i \in Invite |-> 0]
    BY DEF GroupInit
  <1>2. \A i \in Invite : {join \in joins : join[2] = i} = {}
    BY <1>1
  <1>3. Cardinality({}) = 0 /\ IsFiniteSet({})
    BY FS_EmptySet
  <1>4. \A i \in Invite : 0 <= MaxUses[i]
    BY GroupAssumption
  <1>5. QED
    BY <1>1, <1>2, <1>3, <1>4 DEF InviteInd, Joined, UsesAreJoins

\* A join counts once more, for a pair that was not there.
LEMMA JoinCounts ==
    ASSUME InviteInd, NEW a \in Account, NEW i \in Invite, Join(a, i)
    PROVE  InviteInd'
  <1> DEFINE by(k) == {join \in joins : join[2] = k}
  <1>1. /\ uses' = [uses EXCEPT ![i] = @ + 1] /\ joins' = joins \cup {<<a, i>>}
        /\ members' = members \cup {a} /\ a \notin members /\ a \notin deleted
        /\ tripStatus = "draft" /\ UNCHANGED <<tripStatus, deleted>>
        /\ uses[i] < MaxUses[i]
    BY DEF Join, JoinOpen, Claimable, Live
  <1>2. <<a, i>> \notin joins
    BY <1>1 DEF InviteInd, Joined
  <1>3. \A k \in Invite : IsFiniteSet(by(k)) /\ Cardinality(by(k)) = uses[k]
    BY FS_Subset DEF InviteInd, Joined, UsesAreJoins
  <1>4. ASSUME NEW k \in Invite
        PROVE  uses'[k] = Cardinality(by(k)') /\ uses'[k] <= MaxUses[k]
    <2>1. CASE k = i
      <3>1. by(k)' = by(k) \cup {<<a, i>>} /\ <<a, i>> \notin by(k)
        BY <1>1, <1>2, <2>1
      <3>2. Cardinality(by(k)') = Cardinality(by(k)) + 1
        <4> HIDE DEF by
        <4>1. QED
          BY <1>3, <3>1, FS_AddElement
      <3>3. uses'[k] = uses[k] + 1 /\ uses[k] \in Nat /\ MaxUses[k] \in Nat
        BY <1>1, <2>1, GroupAssumption DEF InviteInd, Joined
      <3>4. uses'[k] <= MaxUses[k]
        BY <1>1, <2>1, <3>3
      <3>5. QED
        <4> HIDE DEF by
        <4>1. QED
          BY <1>3, <3>2, <3>3, <3>4
    <2>2. CASE k # i
      <3>1. {join \in joins \cup {<<a, i>>} : join[2] = k} = by(k)
        BY <2>2
      <3>2. by(k)' = by(k)
        BY <1>1, <3>1
      <3>3. uses'[k] = uses[k]
        BY <1>1, <2>2 DEF InviteInd, Joined
      <3>4. QED
        BY <1>3, <3>2, <3>3 DEF InviteInd, UsesAreJoins
    <2>3. QED
      BY <2>1, <2>2
  <1>5. IsFiniteSet(joins')
    BY <1>1, FS_AddElement DEF InviteInd, Joined
  <1>6. uses' \in [Invite -> Nat]
    BY <1>1 DEF InviteInd, Joined
  <1>7. \A join \in joins' : join[1] \in members' \cup deleted'
    BY <1>1 DEF InviteInd, Joined
  <1>8. QED
    BY <1>4, <1>5, <1>6, <1>7 DEF InviteInd, Joined, UsesAreJoins

LEMMA InviteStep == InviteInd /\ [GroupNext]_groupVars => InviteInd'
  <1> SUFFICES ASSUME InviteInd, [GroupNext]_groupVars PROVE InviteInd'
    OBVIOUS
  <1>1. CASE \E a \in Account, i \in Invite : Join(a, i)
    BY <1>1, JoinCounts
  <1>2. CASE ~\E a \in Account, i \in Invite : Join(a, i)
    <2>1. UNCHANGED <<uses, joins>>
      BY <1>2
      DEF GroupNext, groupVars, CreateInvite, CloseInvite, GrantConsent, RevokeConsent,
          DeleteMember, SaveKey, RemoveKey, SetPreferences, PostLink, NamePlace,
          AttachScreenshot, WorkerResolves, AttachLink, StartCheck, StartNew, StartAgain,
          StartChangesNothing, WorkerTakes, WorkerChecks, WorkerShares, WorkerCompletes,
          WorkerFails, WorkerLost, DeleteLeader, beyondLinks, people, inviteRows
    <2>2. tripStatus' # "gone" => /\ tripStatus # "gone"
                                  /\ members \cup deleted \subseteq members' \cup deleted'
      BY <1>2
      DEF GroupNext, groupVars, CreateInvite, CloseInvite, GrantConsent, RevokeConsent,
          DeleteMember, SaveKey, RemoveKey, SetPreferences, PostLink, NamePlace,
          AttachScreenshot, WorkerResolves, AttachLink, StartCheck, StartNew, StartAgain,
          StartChangesNothing, WorkerTakes, WorkerChecks, WorkerShares, WorkerCompletes,
          WorkerFails, WorkerLost, DeleteLeader, beyondLinks, people
    <2>3. QED
      BY <2>1, <2>2 DEF InviteInd, Joined, UsesAreJoins
  <1>3. QED
    BY <1>1, <1>2

\* Every use of an invite brought exactly one member, and none brings more than
\* its cap: claim's WHERE clause decides, however many open it at once.
THEOREM UsesAreJoinsHolds == GroupSpec => []UsesAreJoins
  <1>1. InviteInd => UsesAreJoins
    BY DEF InviteInd
  <1>2. QED
    BY InviteInit, InviteStep, <1>1, PTL DEF GroupSpec

-----------------------------------------------------------------------------
\* Types

LEMMA GroupTypeInit == GroupInit => GroupTypeOK
  <1> SUFFICES ASSUME GroupInit PROVE GroupTypeOK
    OBVIOUS
  <1>1. NoInputs \in [people : SUBSET Account, diet : SUBSET Active,
                      links : SUBSET (Active \X BOOLEAN)]
    BY DEF NoInputs
  <1>2. QED
    BY <1>1, GroupAssumption DEF GroupInit, GroupTypeOK

\* What the travelers and the leader put in.
LEMMA GroupTypeInputs ==
    ASSUME GroupTypeOK, NEW a \in Active,
           \/ SetPreferences(a) \/ PostLink(a) \/ NamePlace(a) \/ AttachScreenshot(a)
           \/ WorkerResolves(a)
           \/ \E hint \in BOOLEAN : AttachLink(a, hint)
    PROVE  GroupTypeOK'
  <1> USE DEF GroupTypeOK, people, choice, inviteRows, run, worker, beyondLinks
  <1>1. a \in Account
    BY GroupAssumption
  <1>2. CASE SetPreferences(a)
    BY <1>2 DEF SetPreferences
  <1>3. CASE PostLink(a)
    BY <1>1, <1>3 DEF PostLink, Resolve, Missing
  <1>4. CASE NamePlace(a)
    BY <1>1, <1>4 DEF NamePlace, Resolve
  <1>5. CASE AttachScreenshot(a)
    BY <1>1, <1>5 DEF AttachScreenshot, Missing
  <1>6. CASE WorkerResolves(a)
    BY <1>1, <1>6 DEF WorkerResolves, Resolve, Unwilling
  <1>7. ASSUME NEW hint \in BOOLEAN, AttachLink(a, hint) PROVE GroupTypeOK'
    BY <1>1, <1>7 DEF AttachLink, Resolve, Missing
  <1>8. QED
    BY <1>2, <1>3, <1>4, <1>5, <1>6, <1>7

LEMMA GroupTypeStep == GroupTypeOK /\ [GroupNext]_groupVars => GroupTypeOK'
  <1> SUFFICES ASSUME GroupTypeOK, [GroupNext]_groupVars PROVE GroupTypeOK'
    OBVIOUS
  <1> USE DEF people, choice, inviteRows, inputs, run, worker
  <1>1. NoInputs \in [people : SUBSET Account, diet : SUBSET Active,
                      links : SUBSET (Active \X BOOLEAN)]
    BY DEF NoInputs
  <1>2. ASSUME \/ \E i \in Invite : CreateInvite(i) \/ CloseInvite(i)
               \/ \E a \in Account, i \in Invite : Join(a, i)
        PROVE  GroupTypeOK'
    BY <1>2 DEF CreateInvite, CloseInvite, Join, Live, GroupTypeOK
  <1>3. ASSUME NEW a \in Account, GrantConsent(a) \/ RevokeConsent(a) PROVE GroupTypeOK'
    BY <1>3 DEF GrantConsent, RevokeConsent, GroupTypeOK
  <1>4. CASE SaveKey \/ RemoveKey
    <2>1. Leader \in Account /\ key' \in BOOLEAN
      BY <1>4, GroupAssumption, Zenon DEF SaveKey, RemoveKey
    <2>2. consent' \subseteq Account
      BY <1>4, <2>1 DEF SaveKey, RemoveKey, GroupTypeOK
    <2>3. UNCHANGED <<tripStatus, people, inviteRows, inputs, starting, run, worker>>
      BY <1>4 DEF SaveKey, RemoveKey
    <2>4. QED
      BY <2>1, <2>2, <2>3 DEF GroupTypeOK
  <1>5. ASSUME NEW a \in Account, DeleteMember(a) PROVE GroupTypeOK'
    <2>1. invites' \in [Invite -> {"unsent", "open", "off", "gone"}]
      <3>1. PICK mine \in SUBSET {i \in Invite : invites[i] # "unsent"} :
                  invites' = [i \in Invite |-> IF i \in mine THEN "gone" ELSE invites[i]]
        BY <1>5 DEF DeleteMember
      <3>2. QED
        BY <3>1 DEF GroupTypeOK
    <2>2. link' \in [Active -> {"none", "pending", "ready", "failed"}]
      BY <1>5 DEF DeleteMember, GroupTypeOK
    <2>3. QED
      BY <1>1, <1>5, <2>1, <2>2 DEF DeleteMember, GroupTypeOK
  <1>6. CASE DeleteLeader
    BY <1>1, <1>6, GroupAssumption DEF DeleteLeader, GroupTypeOK
  <1>7. CASE StartCheck \/ StartAgain \/ StartChangesNothing
    BY <1>7 DEF StartCheck, StartAgain, StartChangesNothing, GroupTypeOK
  <1>8. CASE StartNew
    <2>1. Inputs \in [people : SUBSET Account, diet : SUBSET Active,
                      links : SUBSET (Active \X BOOLEAN)]
      <3>1. \A p \in Active : (p \in named) \in BOOLEAN
        OBVIOUS
      <3>2. {<<p, p \in named>> : p \in {a \in Active : link[a] # "none"}}
               \subseteq Active \X BOOLEAN
        <4>1. ASSUME NEW p \in Active PROVE <<p, p \in named>> \in Active \X BOOLEAN
          BY <3>1, Zenon
        <4>2. QED
          BY <4>1, Zenon
      <3>3. QED
        BY <3>2 DEF Inputs, GroupTypeOK
    <2>2. QED
      BY <1>8, <2>1 DEF StartNew, GroupTypeOK
  <1>9. CASE WorkerTakes
    BY <1>9 DEF WorkerTakes, GroupTypeOK
  <1>10. CASE WorkerChecks \/ WorkerShares
    BY <1>10 DEF WorkerChecks, WorkerShares, Unwilling, GroupTypeOK
  <1>11. CASE WorkerCompletes \/ WorkerFails \/ WorkerLost
    BY <1>1, <1>11 DEF WorkerCompletes, WorkerFails, WorkerLost, WorkerIdle, GroupTypeOK
  <1>12. CASE UNCHANGED groupVars
    BY <1>12 DEF groupVars, GroupTypeOK
  <1>13. QED
    BY <1>2, <1>3, <1>4, <1>5, <1>6, <1>7, <1>8, <1>9, <1>10, <1>11, <1>12, GroupTypeInputs
       DEF GroupNext

\* The group's rows and the worker's copy of them keep their types, and what is
\* frozen is of the group's accounts.
THEOREM GroupTypeCorrect == GroupSpec => []GroupTypeOK
  <1> QED
    BY GroupTypeInit, GroupTypeStep, PTL DEF GroupSpec

-----------------------------------------------------------------------------
\* The frozen inputs

LinksStand ==
    \A p \in Active :
        \/ <<p, p \in named>> \in snapshot.links /\ link[p] # "none"
        \/ (\A l \in snapshot.links : l[1] # p) /\ link[p] \in {"none", "pending"}

\* A run, or a worker on one, means that the trip has left draft for good, and
\* a worker on a run that is still there holds its inputs.
SnapshotInd ==
    /\ link \in [Active -> LinkStates]
    /\ job # "none" \/ workerAt # "idle" => tripStatus # "draft"
    /\ job # "none" /\ workerAt # "idle" => held = snapshot
    /\ SnapshotIsGroup

LEMMA SnapshotInit == GroupInit => SnapshotInd
  BY DEF GroupInit, SnapshotInd, SnapshotIsGroup, LinkStates

\* A link that is pasted, carried by a message or named leaves the run alone,
\* and during discovery touches only what was not frozen with it.
LEMMA PastesKeepSnapshot ==
    ASSUME SnapshotInd, NEW p \in Active,
           \/ \E hint \in BOOLEAN : AttachLink(p, hint)
           \/ PostLink(p) \/ NamePlace(p) \/ AttachScreenshot(p)
    PROVE  SnapshotInd'
  <1>1. UNCHANGED <<tripStatus, members, diet, job, snapshot, workerAt, held>>
    BY DEF AttachLink, PostLink, NamePlace, AttachScreenshot, beyondLinks, people, run
  <1>2. /\ link' \in [Active -> LinkStates]
        /\ \A x \in Active \ {p} : link'[x] = link[x] /\ (x \in named' <=> x \in named)
    BY DEF AttachLink, PostLink, NamePlace, AttachScreenshot, beyondLinks, Resolve, SnapshotInd,
           LinkStates
  <1>3. tripStatus = "gathering" =>
            \/ link[p] = "none" /\ link'[p] = "pending"
            \/ link'[p] = link[p] /\ (p \in named' <=> p \in named)
    <2>1. ASSUME NEW hint \in BOOLEAN, AttachLink(p, hint), tripStatus = "gathering"
          PROVE  link[p] = "none" /\ link'[p] = "pending"
      BY <2>1 DEF AttachLink, Frozen, SnapshotInd
    <2>2. ASSUME PostLink(p), tripStatus = "gathering"
          PROVE  \/ link[p] = "none" /\ link'[p] = "pending"
                 \/ link'[p] = link[p] /\ (p \in named' <=> p \in named)
      BY <2>2 DEF PostLink, SnapshotInd
    <2>3. QED
      BY <2>1, <2>2 DEF NamePlace, AttachScreenshot, Frozen
  <1>4. QED
    <2>1. ASSUME job # "none", tripStatus = "gathering" PROVE LinksStand'
      <3>1. LinksStand
        BY <2>1 DEF SnapshotInd, SnapshotIsGroup, LinksStand
      <3>2. SUFFICES ASSUME NEW x \in Active
                     PROVE  \/ <<x, x \in named'>> \in snapshot.links /\ link'[x] # "none"
                            \/ (\A l \in snapshot.links : l[1] # x) /\ link'[x] \in {"none", "pending"}
        BY <1>1 DEF LinksStand
      <3>3. CASE link'[x] = link[x] /\ (x \in named' <=> x \in named)
        <4>1. (x \in named') = (x \in named)
          BY <3>3
        <4>2. QED
          BY <3>1, <3>3, <4>1 DEF LinksStand
      <3>4. CASE x = p /\ link[p] = "none" /\ link'[p] = "pending"
        BY <3>1, <3>4 DEF LinksStand
      <3>5. QED
        BY <1>2, <1>3, <2>1, <3>3, <3>4
    <2>2. QED
      BY <1>1, <1>2, <2>1 DEF SnapshotInd, SnapshotIsGroup, LinksStand

\* The first start freezes what the group is.
LEMMA StartFreezes == SnapshotInd /\ StartNew => SnapshotInd'
  <1> SUFFICES ASSUME SnapshotInd, StartNew PROVE SnapshotInd'
    OBVIOUS
  <1>1. /\ snapshot' = Inputs /\ UNCHANGED <<members, diet, link, named, workerAt>>
        /\ tripStatus = "draft" /\ tripStatus' = "gathering"
    BY DEF StartNew, people, inputs, worker
  <1>2. LinksStand'
    <2> SUFFICES ASSUME NEW p \in Active
                 PROVE  \/ <<p, p \in named>> \in Inputs.links /\ link[p] # "none"
                        \/ (\A l \in Inputs.links : l[1] # p) /\ link[p] \in {"none", "pending"}
      BY <1>1 DEF LinksStand
    <2>1. Inputs.links = {<<x, x \in named>> : x \in {a \in Active : link[a] # "none"}}
      BY DEF Inputs
    <2>2. QED
      BY <2>1
  <1>3. QED
    BY <1>1, <1>2 DEF SnapshotInd, SnapshotIsGroup, LinksStand, Inputs

LEMMA SnapshotStep == SnapshotInd /\ [GroupNext]_groupVars => SnapshotInd'
  <1> SUFFICES ASSUME SnapshotInd, [GroupNext]_groupVars PROVE SnapshotInd'
    OBVIOUS
  <1>1. ASSUME \/ \E i \in Invite : CreateInvite(i) \/ CloseInvite(i)
               \/ \E a \in Account : GrantConsent(a) \/ RevokeConsent(a)
               \/ SaveKey \/ RemoveKey \/ StartCheck \/ StartChangesNothing
               \/ WorkerChecks \/ WorkerShares \/ WorkerFails \/ WorkerLost
               \/ StartAgain \/ WorkerCompletes \/ WorkerTakes
               \/ UNCHANGED groupVars
        PROVE  SnapshotInd'
    <2>1. /\ UNCHANGED <<members, diet, link, named, snapshot>>
          /\ job = "none" <=> job' = "none"
          /\ tripStatus' = "draft" => tripStatus = "draft"
          /\ tripStatus' = "gathering" => tripStatus = "gathering"
      BY <1>1
      DEF CreateInvite, CloseInvite, GrantConsent, RevokeConsent, SaveKey, RemoveKey, StartCheck,
          StartChangesNothing, WorkerChecks, WorkerShares, WorkerFails, WorkerLost, StartAgain,
          WorkerCompletes, WorkerTakes, WorkerIdle, groupVars, people, inputs, run, worker,
          SnapshotInd
    <2>2. /\ workerAt' # "idle" => tripStatus' # "draft"
          /\ workerAt' # "idle" /\ job' # "none" => held' = snapshot
      BY <1>1, <2>1
      DEF CreateInvite, CloseInvite, GrantConsent, RevokeConsent, SaveKey, RemoveKey, StartCheck,
          StartChangesNothing, WorkerChecks, WorkerShares, WorkerFails, WorkerLost, StartAgain,
          WorkerCompletes, WorkerTakes, WorkerIdle, groupVars, worker, run, SnapshotInd
    <2>3. QED
      BY <2>1, <2>2 DEF SnapshotInd, SnapshotIsGroup
  <1>2. ASSUME NEW a \in Account, NEW i \in Invite, Join(a, i) PROVE SnapshotInd'
    BY <1>2 DEF Join, JoinOpen, SnapshotInd, SnapshotIsGroup, inputs, run, worker
  <1>3. ASSUME NEW a \in Active, SetPreferences(a) PROVE SnapshotInd'
    BY <1>3 DEF SetPreferences, SnapshotInd, SnapshotIsGroup, run, worker, people
  <1>4. ASSUME NEW p \in Active, WorkerResolves(p) PROVE SnapshotInd'
    <2>1. /\ UNCHANGED <<tripStatus, members, diet, job, snapshot, workerAt, held, named>>
          /\ workerAt # "idle"
      BY <1>4 DEF WorkerResolves, beyondLinks, people, run
    <2>2. PICK hasName \in BOOLEAN :
              /\ <<p, hasName>> \in held.links
              /\ \E end \in LinkStates \ {"none"} : link' = [link EXCEPT ![p] = end]
      BY <1>4 DEF WorkerResolves, Resolve, LinkStates
    <2>3. /\ link' \in [Active -> LinkStates] /\ link'[p] # "none" /\ link[p] = "pending"
          /\ \A x \in Active \ {p} : link'[x] = link[x]
      BY <1>4, <2>2 DEF SnapshotInd, LinkStates, WorkerResolves
    <2>4. ASSUME job # "none", tripStatus = "gathering" PROVE LinksStand'
      <3>1. LinksStand /\ held = snapshot
        BY <2>1, <2>4 DEF SnapshotInd, SnapshotIsGroup, LinksStand
      <3>2. <<p, p \in named>> \in snapshot.links
        BY <2>2, <3>1 DEF LinksStand
      <3>3. QED
        BY <2>1, <2>3, <3>1, <3>2 DEF LinksStand
    <2>5. QED
      BY <2>1, <2>3, <2>4 DEF SnapshotInd, SnapshotIsGroup, LinksStand
  <1>5. CASE StartNew
    BY <1>5, StartFreezes
  <1>6. ASSUME NEW a \in Account, DeleteMember(a) PROVE SnapshotInd'
    BY <1>6 DEF DeleteMember, SnapshotInd, SnapshotIsGroup, LinkStates
  <1>7. CASE DeleteLeader
    BY <1>7 DEF DeleteLeader, SnapshotInd, SnapshotIsGroup, LinkStates
  <1>8. QED
    BY <1>1, <1>2, <1>3, <1>4, <1>5, <1>6, <1>7, PastesKeepSnapshot DEF GroupNext

\* The inputs a run froze stay the group's own: its members, what they do not
\* eat and, while it gathers, their links, whatever they paste or delete.
THEOREM SnapshotIsGroupHolds == GroupSpec => []SnapshotIsGroup
  <1>1. SnapshotInd => SnapshotIsGroup
    BY DEF SnapshotInd
  <1>2. QED
    BY SnapshotInit, SnapshotStep, <1>1, PTL DEF GroupSpec

-----------------------------------------------------------------------------
\* Consent

\* The stages of the worker after it checked consent.
Checked == {"resolving", "resuming", "gathered"}

\* Whose data the worker holds is a member or deleted, as nobody leaves in
\* another way; once it has checked, it found the consent of those who are not
\* deleted.
ConsentInd ==
    /\ SnapshotInd
    /\ key => Leader \notin deleted
    /\ workerAt # "idle" /\ Leader \notin deleted => held.people \subseteq members \cup deleted
    /\ workerAt \in Checked => held.people \subseteq willing \cup deleted
    /\ SharedWithConsent

LEMMA ConsentInit == GroupInit => ConsentInd
  BY SnapshotInit DEF GroupInit, ConsentInd, SharedWithConsent, Checked

\* After discovery a paste and a screenshot ask everybody first; only a link in
\* the chat does not.
LEMMA PastesKeepConsent ==
    ASSUME ConsentInd, SnapshotInd', NEW p \in Active,
           \/ \E hint \in BOOLEAN : AttachLink(p, hint)
           \/ PostLink(p) \/ NamePlace(p) \/ AttachScreenshot(p)
    PROVE  ConsentInd'
  <1>1. UNCHANGED <<members, deleted, key, workerAt, held, willing>>
    BY DEF AttachLink, PostLink, NamePlace, AttachScreenshot, beyondLinks, people, choice
  <1>2. ASSUME NEW hint \in BOOLEAN, AttachLink(p, hint) PROVE unasked' = unasked
    BY <1>2 DEF AttachLink, Resolve
  <1>3. ASSUME PostLink(p) PROVE unasked' \subseteq unasked \cup (Missing \X {"chat"})
    BY <1>3 DEF PostLink, Resolve
  <1>4. ASSUME NamePlace(p) PROVE unasked' = unasked
    BY <1>4 DEF NamePlace, Resolve
  <1>5. ASSUME AttachScreenshot(p) PROVE unasked' = unasked
    BY <1>5 DEF AttachScreenshot
  <1>6. unasked' \subseteq unasked \cup (Missing \X {"chat"})
    BY <1>2, <1>3, <1>4, <1>5
  <1>7. QED
    BY <1>1, <1>6 DEF ConsentInd, SharedWithConsent

\* The worker's stages: what it takes is the members' own, its check finds the
\* consent of them all, and only then does anything go to the model.
LEMMA WorkerKeepsConsent ==
    ASSUME ConsentInd, SnapshotInd',
           \/ WorkerTakes \/ WorkerChecks \/ WorkerShares \/ WorkerCompletes
           \/ WorkerFails \/ WorkerLost \/ \E p \in Active : WorkerResolves(p)
    PROVE  ConsentInd'
  <1>1. UNCHANGED <<members, deleted, consent, key>>
    BY DEF WorkerTakes, WorkerChecks, WorkerShares, WorkerCompletes, WorkerFails, WorkerLost,
           WorkerResolves, beyondLinks, people, choice
  <1>2. ASSUME WorkerTakes PROVE ConsentInd'
    <2>1. held' = snapshot /\ job # "none" /\ workerAt' = "claimed" /\ unasked' = unasked
      BY <1>2 DEF WorkerTakes
    <2>2. snapshot.people = members
      BY <2>1 DEF ConsentInd, SnapshotInd, SnapshotIsGroup
    <2>3. QED
      BY <1>1, <2>1, <2>2 DEF ConsentInd, SharedWithConsent, Checked
  <1>3. ASSUME WorkerChecks PROVE ConsentInd'
    <2>1. /\ members \subseteq consent /\ key /\ workerAt = "claimed" /\ willing' = consent
          /\ UNCHANGED <<unasked, held>>
      BY <1>3 DEF WorkerChecks, MissingAtWork, Missing
    <2>2. held.people \subseteq members \cup deleted
      BY <2>1 DEF ConsentInd
    <2>3. QED
      BY <1>1, <2>1, <2>2 DEF ConsentInd, SharedWithConsent
  <1>4. ASSUME workerAt \in Checked, unasked' \subseteq unasked \cup Unwilling
        PROVE  SharedWithConsent'
    BY <1>1, <1>4 DEF Unwilling, ConsentInd, SharedWithConsent
  <1>5. ASSUME WorkerShares PROVE ConsentInd'
    <2>1. /\ workerAt \in Checked /\ workerAt' \in Checked
          /\ unasked' = unasked \cup Unwilling /\ UNCHANGED <<held, willing>>
      BY <1>5 DEF WorkerShares, Checked
    <2>2. QED
      BY <1>1, <1>4, <2>1 DEF ConsentInd, Checked
  <1>6. ASSUME WorkerCompletes \/ WorkerFails \/ WorkerLost PROVE ConsentInd'
    BY <1>1, <1>6
    DEF WorkerCompletes, WorkerFails, WorkerLost, WorkerIdle, ConsentInd, SharedWithConsent,
        Checked
  <1>7. ASSUME NEW p \in Active, WorkerResolves(p) PROVE ConsentInd'
    <2>1. workerAt \in Checked /\ UNCHANGED <<workerAt, held, willing>>
      BY <1>7 DEF WorkerResolves, beyondLinks, Checked
    <2>2. unasked' \subseteq unasked \cup Unwilling
      BY <1>7 DEF WorkerResolves, Resolve
    <2>3. QED
      BY <1>1, <1>4, <2>1, <2>2 DEF ConsentInd
  <1>8. QED
    BY <1>2, <1>3, <1>5, <1>6, <1>7

LEMMA ConsentStep == ConsentInd /\ [GroupNext]_groupVars => ConsentInd'
  <1> SUFFICES ASSUME ConsentInd, [GroupNext]_groupVars PROVE ConsentInd'
    OBVIOUS
  <1>0. SnapshotInd'
    BY SnapshotStep DEF ConsentInd
  <1>1. ASSUME \/ \E i \in Invite : CreateInvite(i) \/ CloseInvite(i)
               \/ \E a \in Active : SetPreferences(a)
               \/ \E a \in Account : GrantConsent(a) \/ RevokeConsent(a)
               \/ StartCheck \/ StartNew \/ StartAgain \/ StartChangesNothing
               \/ UNCHANGED groupVars
        PROVE  ConsentInd'
    <2>1. UNCHANGED <<members, deleted, key, workerAt, held, willing, unasked>>
      BY <1>1
      DEF CreateInvite, CloseInvite, SetPreferences, GrantConsent, RevokeConsent, StartCheck,
          StartNew, StartAgain, StartChangesNothing, groupVars, people, choice, worker
    <2>2. QED
      BY <1>0, <2>1 DEF ConsentInd, SharedWithConsent
  <1>2. ASSUME NEW a \in Account, NEW i \in Invite, Join(a, i) PROVE ConsentInd'
    <2>1. /\ members \subseteq members'
          /\ UNCHANGED <<deleted, key, workerAt, held, willing, unasked>>
      BY <1>2 DEF Join, choice, worker
    <2>2. QED
      BY <1>0, <2>1 DEF ConsentInd, SharedWithConsent
  <1>3. ASSUME SaveKey \/ RemoveKey PROVE ConsentInd'
    BY <1>0, <1>3 DEF SaveKey, RemoveKey, Live, ConsentInd, SharedWithConsent, people, worker
  <1>4. ASSUME NEW a \in Account, DeleteMember(a) PROVE ConsentInd'
    <2>1. /\ a # Leader /\ deleted' = deleted \cup {a} /\ members' = members \ {a}
          /\ UNCHANGED <<key, workerAt, held, willing, unasked>>
      BY <1>4 DEF DeleteMember
    <2>2. QED
      BY <1>0, <2>1 DEF ConsentInd, SharedWithConsent
  <1>5. ASSUME DeleteLeader PROVE ConsentInd'
    BY <1>0, <1>5 DEF DeleteLeader, ConsentInd, SharedWithConsent
  <1>6. QED
    BY <1>0, <1>1, <1>2, <1>3, <1>4, <1>5, PastesKeepConsent, WorkerKeepsConsent
    DEF GroupNext

\* Whatever the model is asked for a trip, the members whose consent had lapsed
\* or was never given are asked first, but for links in the chat and for those
\* whose account was deleted while the worker held their data: the worker's own
\* check covers what the leader's request checked too early.
THEOREM SharedWithConsentHolds == GroupSpec => []SharedWithConsent
  <1>1. ConsentInd => SharedWithConsent
    BY DEF ConsentInd
  <1>2. QED
    BY ConsentInit, ConsentStep, <1>1, PTL DEF GroupSpec

-----------------------------------------------------------------------------
\* The checklist and the hotel

ItemRow == [key : PlanKeys \cup {"hotel", OwnItem}, title : Title \cup {"suggested"},
            revision : 1..MaxRevision, deleted : BOOLEAN]

\* No two rows suggest the same thing.
KeysSpent(rows) ==
    \A i, j \in DOMAIN rows : rows[i].key = rows[j].key => i = j \/ rows[i].key = OwnItem

\* What a device shows is a row as it is or was: revisions only grow.
CopiesBehind(seen, rows) ==
    \A i \in DOMAIN seen :
        /\ i \in DOMAIN rows
        /\ seen[i].revision \in Nat /\ seen[i].revision <= rows[i].revision
        /\ seen[i].revision = rows[i].revision => seen[i] = rows[i]

\* A confirmation is about the selected hotel.
LodgingStands ==
    /\ hotels \subseteq Hotel
    /\ lodging \in [hotel : Hotel \cup {NoHotel}, booked : BOOLEAN]
    /\ confirmed \in {<<>>, <<lodging.hotel>>}
    /\ lodging.booked <=> confirmed = <<lodging.hotel>>

ListStands ==
    /\ checklist \in Seq(ItemRow) /\ KeysSpent(checklist)
    /\ copies = [m \in Companion |-> copies[m]]
    /\ \A m \in Companion : CopiesBehind(copies[m], checklist)

PreparationInd == ListStands /\ LodgingStands

LEMMA PreparationStarts == PreparationInit => PreparationInd
  <1> SUFFICES ASSUME PreparationInit PROVE PreparationInd
    OBVIOUS
  <1>1. LodgingStands
    <2>1. lodging = [hotel |-> NoHotel, booked |-> FALSE] /\ hotels = {} /\ confirmed = <<>>
      BY DEF PreparationInit
    <2>2. lodging \in [hotel : Hotel \cup {NoHotel}, booked : BOOLEAN]
      BY <2>1
    <2>3. lodging.hotel = NoHotel /\ lodging.booked = FALSE /\ <<>> # <<lodging.hotel>>
      BY <2>1
    <2>4. QED
      BY <2>1, <2>2, <2>3 DEF LodgingStands
  <1>2. ListStands
    BY DEF PreparationInit, ListStands, KeysSpent, CopiesBehind
  <1>3. QED
    BY <1>1, <1>2 DEF PreparationInd

\* The members of a finite set in a row.
LEMMA InARow ==
    ASSUME NEW S, IsFiniteSet(S)
    PROVE  /\ SetToSeq(S) \in [1..Cardinality(S) -> S] /\ Cardinality(S) \in Nat
           /\ \A i, j \in 1..Cardinality(S) : SetToSeq(S)[i] = SetToSeq(S)[j] => i = j
  <1> DEFINE n == Cardinality(S)
  <1>1. n \in Nat
    BY FS_CardinalityType
  <1>2. ExistsBijection(1..n, S)
    BY FS_CardinalityType
  <1>3. PICK g \in Bijection(1..n, S) : TRUE
    BY <1>2 DEF ExistsBijection
  <1>4. g \in [1..n -> S] /\ IsInjective(g)
    BY <1>3 DEF Bijection, Injection
  <1>5. SetToSeq(S) \in [1..n -> S] /\ IsInjective(SetToSeq(S))
    BY <1>4 DEF SetToSeq
  <1>6. QED
    BY <1>1, <1>5 DEF IsInjective

LEMMA NewItem ==
    ASSUME NEW k \in PlanKeys \cup {"hotel", OwnItem}, NEW t \in Title \cup {"suggested"}
    PROVE  /\ Item(k, t) \in ItemRow /\ Item(k, t).key = k /\ Item(k, t).revision = 1
  <1>1. 1 \in 1..MaxRevision
    BY PreparationAssumption
  <1>2. QED
    BY <1>1 DEF Item, ItemRow

\* A suggestion appends rows with keys of their own and touches no other row.
LEMMA Suggestions ==
    ASSUME NEW rows \in Seq(ItemRow), KeysSpent(rows),
           NEW keys \in SUBSET (PlanKeys \cup {"hotel"})
    PROVE  LET later == Suggest(rows, keys)
           IN  /\ later \in Seq(ItemRow) /\ KeysSpent(later)
               /\ DOMAIN rows \subseteq DOMAIN later
               /\ \A i \in DOMAIN rows : later[i] = rows[i]
  <1> DEFINE missing == MissingFrom(rows, keys)
             items == {Item(k, "suggested") : k \in missing}
             added == SetToSeq(items)
             later == Suggest(rows, keys)
             c == Cardinality(items)
  <1>1. missing \subseteq PlanKeys \cup {"hotel"}
        /\ \A k \in missing : \A i \in DOMAIN rows : rows[i].key # k
    BY DEF MissingFrom
  <1>2. IsFiniteSet(missing)
    BY <1>1, PreparationAssumption, FS_Subset, FS_AddElement
  <1>3. IsFiniteSet(items)
    <2> DEFINE item == [k \in missing |-> Item(k, "suggested")]
    <2>1. item \in Surjection(missing, items)
      BY DEF Surjection
    <2>2. QED
      BY <1>2, <2>1, FS_Surjection DEF ExistsSurjection
  <1>4. \A k \in missing : /\ Item(k, "suggested") \in ItemRow
                           /\ Item(k, "suggested").key = k
    BY <1>1, NewItem
  <1>5. /\ added \in [1..c -> items] /\ c \in Nat
        /\ \A i, j \in 1..c : added[i] = added[j] => i = j
    BY <1>3, InARow
  <1>6. /\ \A it \in items : it \in ItemRow /\ it.key \in missing
        /\ \A x, y \in items : x.key = y.key => x = y
    BY <1>4
  <1>7. /\ added \in Seq(ItemRow) /\ Len(added) = c
        /\ \A i \in 1..c : added[i] \in ItemRow /\ added[i].key \in missing
        /\ \A i, j \in 1..c : added[i].key = added[j].key => i = j
    <2>1. \A i \in 1..c : added[i] \in items
      BY <1>5
    <2>2. added \in [1..c -> ItemRow]
      BY <1>5, <1>6
    <2> HIDE DEF added, items, c
    <2>3. added \in Seq(ItemRow) /\ Len(added) = c
      BY <1>5, <2>2
    <2>4. QED
      BY <1>5, <1>6, <2>1, <2>3
  <1>8. later = rows \o added
    BY DEF Suggest
  <1> HIDE DEF missing, added, later, c
  <1>9. Len(rows) \in Nat /\ DOMAIN rows = 1..Len(rows)
    OBVIOUS
  <1>10. /\ later \in Seq(ItemRow) /\ DOMAIN later = 1..(Len(rows) + c)
         /\ \A i \in 1..Len(rows) : later[i] = rows[i]
         /\ \A i \in (Len(rows) + 1)..(Len(rows) + c) : later[i] = added[i - Len(rows)]
    BY <1>5, <1>7, <1>8, <1>9
  <1>11. KeysSpent(later)
    <2> SUFFICES ASSUME NEW i \in DOMAIN later, NEW j \in DOMAIN later,
                        later[i].key = later[j].key
                 PROVE  i = j \/ later[i].key = OwnItem
      BY DEF KeysSpent
    <2>1. \A p \in 1..(Len(rows) + c) :
              \/ p \in 1..Len(rows)
              \/ p \in (Len(rows) + 1)..(Len(rows) + c) /\ p - Len(rows) \in 1..c
      BY <1>5, <1>9
    <2>2. CASE i \in 1..Len(rows) /\ j \in 1..Len(rows)
      BY <2>2, <1>9, <1>10 DEF KeysSpent
    <2>3. CASE i \notin 1..Len(rows) /\ j \notin 1..Len(rows)
      <3>1. i - Len(rows) = j - Len(rows)
        BY <2>1, <2>3, <1>7, <1>10
      <3>2. QED
        BY <3>1, <1>5, <1>9, <1>10
    <2>4. CASE i \in 1..Len(rows) /\ j \notin 1..Len(rows)
      BY <2>1, <2>4, <1>1, <1>7, <1>9, <1>10
    <2>5. CASE i \notin 1..Len(rows) /\ j \in 1..Len(rows)
      BY <2>1, <2>5, <1>1, <1>7, <1>9, <1>10
    <2>6. QED
      BY <2>2, <2>3, <2>4, <2>5
  <1>12. DOMAIN rows \subseteq DOMAIN later
    BY <1>5, <1>9, <1>10
  <1>13. QED
    BY <1>9, <1>10, <1>11, <1>12 DEF later
LEMMA FreshCopies ==
    ASSUME NEW rows \in Seq(ItemRow), NEW D \in SUBSET (DOMAIN rows)
    PROVE  CopiesBehind([i \in D |-> rows[i]], rows)
  <1>1. \A i \in DOMAIN rows : rows[i] \in ItemRow
    OBVIOUS
  <1>2. MaxRevision \in Nat
    BY PreparationAssumption
  <1>3. \A i \in DOMAIN rows : rows[i].revision \in Nat
    BY <1>1, <1>2 DEF ItemRow
  <1>4. QED
    BY <1>3 DEF CopiesBehind

\* A row changes only with its revision, so whoever has not seen the change holds
\* an older one.
LEMMA CopiesFallBehind ==
    ASSUME NEW seen, NEW rows \in Seq(ItemRow), NEW later \in Seq(ItemRow),
           CopiesBehind(seen, rows), DOMAIN rows \subseteq DOMAIN later,
           \A i \in DOMAIN rows :
               later[i] = rows[i] \/ later[i].revision = rows[i].revision + 1
    PROVE  CopiesBehind(seen, later)
  <1>1. \A i \in DOMAIN rows : rows[i] \in ItemRow
    OBVIOUS
  <1>2. MaxRevision \in Nat
    BY PreparationAssumption
  <1>3. \A i \in DOMAIN rows : rows[i].revision \in Nat
    BY <1>1, <1>2 DEF ItemRow
  <1>4. QED
    BY <1>3 DEF CopiesBehind

\* What the member is answered with is the row.
LEMMA OneLearned ==
    ASSUME NEW m \in Companion, NEW rows \in Seq(ItemRow), NEW i \in DOMAIN rows,
           copies = [p \in Companion |-> copies[p]],
           \A p \in Companion : CopiesBehind(copies[p], rows), Learns(m, i, rows[i])
    PROVE  /\ copies' = [p \in Companion |-> copies'[p]]
           /\ \A p \in Companion : CopiesBehind(copies'[p], rows)
  <1> DEFINE mine == [j \in DOMAIN copies[m] \cup {i} |-> IF j = i THEN rows[i] ELSE copies[m][j]]
  <1>1. copies' = [copies EXCEPT ![m] = mine]
    BY DEF Learns
  <1>2. CopiesBehind([j \in {i} |-> rows[j]], rows)
    BY FreshCopies
  <1>3. CopiesBehind(mine, rows)
    BY <1>2 DEF CopiesBehind
  <1> HIDE DEF mine
  <1>4. QED
    BY <1>1, <1>3

LEMMA PrepareKept ==
    ASSUME ListStands, NEW m \in Companion, Prepare(m)
    PROVE  ListStands'
  <1>1. PICK scheduled \in SUBSET PlanKeys :
            /\ checklist' = Suggest(checklist, {"hotel"} \cup scheduled)
            /\ copies' = [copies EXCEPT ![m] = [i \in Shown(checklist') |-> checklist'[i]]]
    BY DEF Prepare
  <1> DEFINE later == checklist'
             shown == [i \in Shown(later) |-> later[i]]
  <1>2. /\ later \in Seq(ItemRow) /\ KeysSpent(later) /\ DOMAIN checklist \subseteq DOMAIN later
        /\ \A i \in DOMAIN checklist : later[i] = checklist[i]
    BY <1>1, Suggestions DEF ListStands
  <1> HIDE DEF later
  <1>3. CopiesBehind(shown, later)
    BY <1>2, FreshCopies DEF Shown
  <1>4. \A p \in Companion : CopiesBehind(copies[p], later)
    BY <1>2, CopiesFallBehind DEF ListStands
  <1>5. copies' = [copies EXCEPT ![m] = shown]
    BY <1>1 DEF later
  <1> HIDE DEF shown
  <1>6. /\ copies' = [p \in Companion |-> copies'[p]]
        /\ \A p \in Companion : CopiesBehind(copies'[p], later)
    BY <1>3, <1>4, <1>5 DEF ListStands
  <1>7. QED
    BY <1>2, <1>6 DEF ListStands, later

LEMMA CreateKept ==
    ASSUME ListStands, NEW m \in Companion, NEW title \in Title, CreateItem(m, title)
    PROVE  ListStands'
  <1> DEFINE item == Item(OwnItem, title)
             i == Len(checklist) + 1
             later == Append(checklist, item)
  <1>1. checklist' = later /\ Learns(m, i, item)
    BY DEF CreateItem
  <1>2. item \in ItemRow /\ item.key = OwnItem
    BY NewItem
  <1> HIDE DEF item
  <1>3. checklist \in Seq(ItemRow) /\ Len(checklist) \in Nat /\ DOMAIN checklist = 1..Len(checklist)
    BY DEF ListStands
  <1>4. /\ later \in Seq(ItemRow) /\ DOMAIN later = 1..i /\ i \in DOMAIN later /\ later[i] = item
        /\ \A j \in DOMAIN checklist : later[j] = checklist[j]
        /\ DOMAIN checklist \subseteq DOMAIN later
        /\ \A j \in DOMAIN later : j = i \/ j \in DOMAIN checklist
    BY <1>2, <1>3
  <1> HIDE DEF later, i
  <1>5. KeysSpent(later)
    BY <1>2, <1>4 DEF ListStands, KeysSpent
  <1>6. \A p \in Companion : CopiesBehind(copies[p], later)
    BY <1>3, <1>4, CopiesFallBehind DEF ListStands
  <1>7. /\ copies' = [p \in Companion |-> copies'[p]]
        /\ \A p \in Companion : CopiesBehind(copies'[p], later)
    BY <1>1, <1>4, <1>6, OneLearned DEF ListStands
  <1>8. QED
    BY <1>1, <1>4, <1>5, <1>7 DEF ListStands

\* The UPDATE leaves the key alone and moves the revision on.
LEMMA ChangeKept ==
    ASSUME ListStands, NEW m \in Companion, NEW i \in DOMAIN copies[m], NEW row \in ItemRow,
           Change(m, i, row), row.key = checklist[i].key,
           row.revision = checklist[i].revision + 1
    PROVE  /\ i \in DOMAIN checklist /\ checklist' \in Seq(ItemRow) /\ KeysSpent(checklist')
           /\ i \in DOMAIN checklist' /\ checklist'[i] = row
           /\ \A p \in Companion : CopiesBehind(copies[p], checklist')
  <1>1. i \in DOMAIN checklist /\ checklist \in Seq(ItemRow)
    BY DEF ListStands, CopiesBehind
  <1>2. checklist' = [checklist EXCEPT ![i] = row]
    BY DEF Change
  <1>3. /\ checklist' \in Seq(ItemRow) /\ DOMAIN checklist' = DOMAIN checklist
        /\ checklist'[i] = row
        /\ \A j \in DOMAIN checklist : j # i => checklist'[j] = checklist[j]
    BY <1>1, <1>2
  <1>4. KeysSpent(checklist')
    BY <1>1, <1>3 DEF ListStands, KeysSpent
  <1>5. \A p \in Companion : CopiesBehind(copies[p], checklist')
    BY <1>1, <1>3, CopiesFallBehind DEF ListStands
  <1>6. QED
    BY <1>1, <1>3, <1>4, <1>5

LEMMA NextRevision ==
    ASSUME NEW n \in 1..MaxRevision, n + 1 <= MaxRevision
    PROVE  n + 1 \in 1..MaxRevision
  BY PreparationAssumption

LEMMA RowsTyped ==
    ASSUME NEW row \in ItemRow, NEW later, row.revision + 1 <= MaxRevision,
           \/ \E title \in Title : later = [row EXCEPT !.title = title, !.revision = @ + 1]
           \/ later = [row EXCEPT !.deleted = TRUE, !.revision = @ + 1]
    PROVE  later \in ItemRow /\ later.key = row.key /\ later.revision = row.revision + 1
  <1>1. MaxRevision \in Nat
    BY PreparationAssumption
  <1>2. row.revision \in 1..MaxRevision
    BY DEF ItemRow
  <1>3. row.revision + 1 \in 1..MaxRevision
    BY <1>2, NextRevision
  <1>4. later.key = row.key /\ later.revision = row.revision + 1
    BY DEF ItemRow
  <1>5. later \in ItemRow
    BY <1>3 DEF ItemRow
  <1>6. QED
    BY <1>4, <1>5

LEMMA EditKept ==
    ASSUME ListStands, NEW m \in Companion, NEW i \in DOMAIN copies[m],
           \/ RemoveItem(m, i)
           \/ \E title \in Title : EditItem(m, i, title)
    PROVE  ListStands'
  <1>1. PICK row :
            /\ \/ \E title \in Title :
                     row = [checklist[i] EXCEPT !.title = title, !.revision = @ + 1]
               \/ row = [checklist[i] EXCEPT !.deleted = TRUE, !.revision = @ + 1]
            /\ Change(m, i, row)
            /\ \/ Learns(m, i, row)
               \/ copies' = copies
               \/ copies' = [copies EXCEPT ![m] = [j \in DOMAIN copies[m] \ {i} |-> copies[m][j]]]
    <2>1. CASE RemoveItem(m, i)
      <3>1. copies' = [copies EXCEPT ![m] = [j \in DOMAIN @ \ {i} |-> @[j]]] \/ copies' = copies
        BY <2>1 DEF RemoveItem
      <3>2. [copies EXCEPT ![m] = [j \in DOMAIN @ \ {i} |-> @[j]]]
                = [copies EXCEPT ![m] = [j \in DOMAIN copies[m] \ {i} |-> copies[m][j]]]
        BY DEF ListStands
      <3>3. QED
        BY <2>1, <3>1, <3>2 DEF RemoveItem
    <2>2. CASE \E title \in Title : EditItem(m, i, title)
      BY <2>2 DEF EditItem
    <2>3. QED
      BY <2>1, <2>2
  <1>2. checklist \in Seq(ItemRow) /\ i \in DOMAIN checklist /\ checklist[i] \in ItemRow
    BY DEF ListStands, CopiesBehind
  <1>3. row.revision = checklist[i].revision + 1 /\ row.revision <= MaxRevision
    BY <1>1, <1>2 DEF ItemRow, Change
  <1>4. row \in ItemRow /\ row.key = checklist[i].key
    BY <1>1, <1>2, <1>3, RowsTyped
  <1>5. /\ checklist' \in Seq(ItemRow) /\ KeysSpent(checklist')
        /\ i \in DOMAIN checklist' /\ checklist'[i] = row
        /\ \A p \in Companion : CopiesBehind(copies[p], checklist')
    BY <1>1, <1>3, <1>4, ChangeKept
  <1>6. /\ copies' = [p \in Companion |-> copies'[p]]
        /\ \A p \in Companion : CopiesBehind(copies'[p], checklist')
    <2>1. CASE Learns(m, i, row)
      BY <2>1, <1>5, OneLearned DEF ListStands
    <2>2. CASE copies' = copies
      BY <2>2, <1>5 DEF ListStands
    <2>3. CASE copies' = [copies EXCEPT ![m] = [j \in DOMAIN copies[m] \ {i} |-> copies[m][j]]]
      <3> DEFINE mine == [j \in DOMAIN copies[m] \ {i} |-> copies[m][j]]
      <3>1. CopiesBehind(mine, checklist')
        BY <1>5 DEF CopiesBehind
      <3>2. copies' = [copies EXCEPT ![m] = mine]
        BY <2>3
      <3> HIDE DEF mine
      <3>3. QED
        BY <3>1, <3>2, <1>5 DEF ListStands
    <2>4. QED
      BY <1>1, <2>1, <2>2, <2>3
  <1>7. QED
    BY <1>5, <1>6 DEF ListStands

\* A booking stands or falls with the selection.
LEMMA HotelKept ==
    ASSUME LodgingStands, DiscoverHotels \/ \E h \in Hotel : SaveBooked(h) \/ SelectLodging(h)
    PROVE  LodgingStands'
  <1>1. CASE DiscoverHotels
    BY <1>1 DEF DiscoverHotels, LodgingStands, Lookup
  <1>2. ASSUME NEW h \in Hotel, SaveBooked(h) PROVE LodgingStands'
    <2>1. /\ hotels' = hotels \cup {h} /\ lodging' = [hotel |-> h, booked |-> TRUE]
          /\ confirmed' = <<h>>
      BY <1>2 DEF SaveBooked, Choice
    <2>2. lodging' \in [hotel : Hotel \cup {NoHotel}, booked : BOOLEAN]
      BY <2>1
    <2>3. lodging'.hotel = h /\ lodging'.booked = TRUE
      BY <2>1
    <2>4. QED
      BY <2>1, <2>2, <2>3 DEF LodgingStands
  <1>3. ASSUME NEW h \in Hotel, SelectLodging(h) PROVE LodgingStands'
    <2> DEFINE kept == lodging.hotel = h /\ lodging.booked
    <2>1. /\ h \in hotels /\ hotels' = hotels /\ lodging' = [hotel |-> h, booked |-> kept]
          /\ confirmed' = IF <<h>> = confirmed THEN confirmed ELSE <<>>
      BY <1>3 DEF SelectLodging, Choice
    <2>2. kept \in BOOLEAN
      OBVIOUS
    <2>3. kept <=> <<h>> = confirmed
      <3>1. CASE lodging.hotel = h
        BY <3>1 DEF LodgingStands
      <3>2. CASE lodging.hotel # h
        <4>1. <<h>> # <<lodging.hotel>> /\ <<h>> # <<>>
          BY <3>2
        <4>2. QED
          BY <3>2, <4>1 DEF LodgingStands
      <3>3. QED
        BY <3>1, <3>2
    <2> HIDE DEF kept
    <2>4. lodging' \in [hotel : Hotel \cup {NoHotel}, booked : BOOLEAN]
      BY <2>1, <2>2
    <2>5. lodging'.hotel = h /\ lodging'.booked = kept
      BY <2>1
    <2>6. confirmed' \in {<<>>, <<h>>} /\ (kept <=> confirmed' = <<h>>)
      <3>1. <<h>> # <<>>
        OBVIOUS
      <3>2. QED
        BY <2>1, <2>3, <3>1
    <2>7. QED
      BY <2>1, <2>4, <2>5, <2>6 DEF LodgingStands
  <1>4. QED
    BY <1>1, <1>2, <1>3

LEMMA PreparationStep == PreparationInd /\ [PreparationNext]_preparationVars => PreparationInd'
  <1> SUFFICES ASSUME PreparationInd, [PreparationNext]_preparationVars PROVE PreparationInd'
    OBVIOUS
  <1>1. ListStands' \/ UNCHANGED <<checklist, copies>>
    BY PrepareKept, CreateKept, EditKept
    DEF PreparationInd, PreparationNext, preparationVars, DiscoverHotels, SaveBooked, SelectLodging
  <1>2. LodgingStands' \/ UNCHANGED <<hotels, lodging, confirmed>>
    BY HotelKept
    DEF PreparationInd, PreparationNext, preparationVars, Prepare, CreateItem, EditItem, RemoveItem
  <1>3. ListStands'
    BY <1>1 DEF PreparationInd, ListStands
  <1>4. LodgingStands'
    BY <1>2 DEF PreparationInd, LodgingStands
  <1>5. QED
    BY <1>3, <1>4 DEF PreparationInd

LEMMA PreparationInvariant == PreparationSpec => []PreparationInd
  BY PreparationStarts, PreparationStep, PTL DEF PreparationSpec

\* Rows, copies and the selection keep the types of their columns.
THEOREM PreparationTypeCorrect == PreparationSpec => []PreparationTypeOK
  <1>1. PreparationInd => PreparationTypeOK
    <2> SUFFICES ASSUME PreparationInd PROVE PreparationTypeOK
      OBVIOUS
    <2>1. ASSUME NEW i \in DOMAIN checklist
          PROVE  /\ checklist[i].key \in PlanKeys \cup {"hotel", OwnItem}
                 /\ checklist[i].title \in Title \cup {"suggested"}
                 /\ checklist[i].revision \in 1..MaxRevision
                 /\ checklist[i].deleted \in BOOLEAN
      <3>1. checklist[i] \in ItemRow
        BY DEF PreparationInd, ListStands
      <3>2. QED
        BY <3>1 DEF ItemRow
    <2>2. QED
      BY <2>1 DEF PreparationInd, ListStands, LodgingStands, CopiesBehind, PreparationTypeOK
  <1>2. QED
    BY <1>1, PreparationInvariant, PTL

\* For any members, rows and hotels: nobody overwrites what they have not seen, a
\* suggestion is made once, and booked means confirmed
\* (ChecklistItemRepository.change, suggest; the lodging routes).
THEOREM PreparationAgreesHolds == PreparationSpec => []PreparationAgrees
  <1>1. PreparationInd => PreparationAgrees
    BY DEF PreparationInd, ListStands, LodgingStands, CopiesBehind, KeysSpent, PreparationAgrees
  <1>2. QED
    BY <1>1, PreparationInvariant, PTL

===============================================================================
