----------------------------- MODULE SignInProofs -----------------------------
(***************************************************************************)
(* Proofs about SignIn, for any number of requests, passwords, codes and   *)
(* challenges.  The account row's lock carries the argument: whoever holds *)
(* it acts on an account that is still there, with the password or the     *)
(* code it checked when it took the lock.                                  *)
(***************************************************************************)
EXTENDS SignIn, TLAPS

\* The row a stage of a request works on under its lock.
Locked(q, who) ==
    \/ who = "email" /\ req[q].stage \in {"consumed", "issuing", "deleting"}
    \/ who = "social" /\ req[q].stage \in {"creating", "deleting"}

\* A row is held by a request at a stage that holds it, on an account that is
\* there, unless that request is the one that creates it.
RowHeld ==
    \A who \in {"email", "social"} : \A q \in Request :
        holder[who] = q => /\ Locked(q, who)
                           /\ there[who] <=> req[q].stage # "creating"

\* A request at such a stage holds its row, and what it saw still stands.
SeenStands ==
    \A q \in Request :
        /\ req[q].stage = "issuing" => holder["email"] = q /\ password = req[q].seen
        /\ req[q].stage = "consumed" => holder["email"] = q /\ code = req[q].seen
        /\ req[q].stage = "creating" => holder["social"] = q
        /\ req[q].stage = "resetting" => req[q].seen \in 1..codes
        /\ req[q].stage = "consumed" => req[q].seen \in 1..codes

\* The row holds the last code mailed or none, and none that has worked.
CodesSpent ==
    /\ code \in {0, codes} /\ codes <= MaxCodes
    /\ \A c \in 1..MaxCodes : resets[c] # 0 => c <= codes /\ c # code

Ind == SignInTypeOK /\ RowHeld /\ SeenStands /\ NoSessionLeftBehind /\ CodesSpent

LEMMA IndInit == SignInInit => Ind
  <1> SUFFICES ASSUME SignInInit PROVE Ind
    OBVIOUS
  <1> USE SignInAssumption DEF SignInInit
  <1>1. SignInTypeOK
    BY DEF SignInTypeOK, Idle, Stages
  <1>2. RowHeld
    BY DEF RowHeld
  <1>3. SeenStands
    BY DEF SeenStands, Idle
  <1>4. NoSessionLeftBehind /\ CodesSpent
    BY DEF NoSessionLeftBehind, CodesSpent
  <1>5. QED
    BY <1>1, <1>2, <1>3, <1>4 DEF Ind

Requests == [Request -> [stage : Stages, seen : Nat]]
Holders == [{"email", "social"} -> Request \cup {NoRequest}]

\* A request that moves to a stage, or takes or gives back a row, keeps the
\* table of requests and of locks in their types.
LEMMA TablesTyped ==
    ASSUME req \in Requests, holder \in Holders, NEW q \in Request
    PROVE  /\ \A stage \in Stages, seen \in Nat :
                Becomes(q, stage, seen) => req' \in Requests
           /\ \A who \in {"email", "social"} : Holds(q, who) => holder' \in Holders
           /\ Releases(q) => holder' \in Holders
  <1>1. ASSUME NEW stage \in Stages, NEW seen \in Nat, Becomes(q, stage, seen)
        PROVE  req' \in Requests
    <2> DEFINE row == [stage |-> stage, seen |-> seen]
    <2>1. row \in [stage : Stages, seen : Nat]
      OBVIOUS
    <2>2. req' = [req EXCEPT ![q] = row]
      BY <1>1 DEF Becomes
    <2> HIDE DEF row
    <2>3. QED
      BY <2>1, <2>2 DEF Requests
  <1>2. ASSUME NEW who \in {"email", "social"}, Holds(q, who) PROVE holder' \in Holders
    BY <1>2 DEF Holds, Holders
  <1>3. ASSUME Releases(q) PROVE holder' \in Holders
    BY <1>3 DEF Releases, Holders
  <1>4. QED
    BY <1>1, <1>2, <1>3

\* Every action keeps the types.
LEMMA TypesKept == SignInTypeOK /\ [SignInNext]_signInVars => SignInTypeOK'
  <1> SUFFICES ASSUME SignInTypeOK, [SignInNext]_signInVars PROVE SignInTypeOK'
    OBVIOUS
  <1> USE SignInAssumption DEF secrets, proofs
  <1>0. /\ req \in Requests /\ holder \in Holders
        /\ \A q \in Request : req[q].seen \in Nat
        /\ password \in Nat /\ passwords \in Nat /\ code \in Nat /\ codes \in Nat
        /\ challenges \in Nat /\ 0 \in Nat
        /\ nonces \subseteq Nat
    BY DEF SignInTypeOK, Requests, Holders
  <1>1. /\ {"idle", "resetting", "consumed", "checked", "issuing"} \subseteq Stages
        /\ {"proved", "selecting", "creating", "matching", "deleting"} \subseteq Stages
    BY DEF Stages
  <1>2. CASE Register \/ Forgot \/ CodeExpires \/ Challenge \/ ChallengeExpires \/ EndSession
    <2>1. CASE Register
      <3>1. passwords + 1 \in Nat
        BY <1>0
      <3>2. QED
        BY <2>1, <3>1, <1>0 DEF Register, SignInTypeOK
    <2>2. CASE Forgot
      BY <2>2, <1>0 DEF Forgot, SignInTypeOK
    <2>3. CASE CodeExpires
      BY <2>3 DEF CodeExpires, SignInTypeOK
    <2>4. CASE Challenge
      BY <2>4, <1>0 DEF Challenge, SignInTypeOK
    <2>5. CASE ChallengeExpires \/ EndSession
      BY <2>5 DEF ChallengeExpires, EndSession, SignInTypeOK
    <2>6. QED
      BY <1>2, <2>1, <2>2, <2>3, <2>4, <2>5
  <1>3. ASSUME NEW q \in Request,
               \/ StartReset(q) \/ Consume(q) \/ FinishReset(q)
               \/ StartSignIn(q) \/ LockAndRecheck(q) \/ Issue(q)
               \/ StartSocial(q) \/ Upsert(q) \/ IssueSocial(q)
               \/ StartDelete(q) \/ Match(q) \/ FinishDelete(q) \/ Abandon(q)
        PROVE  SignInTypeOK'
    <2>1. req' \in Requests
      BY <1>0, <1>1, <1>3, TablesTyped
      DEF StartReset, Consume, FinishReset, StartSignIn, LockAndRecheck, Issue, StartSocial,
          Upsert, IssueSocial, StartDelete, Match, FinishDelete, Abandon
    <2>2. holder' \in Holders
      BY <1>0, <1>3, TablesTyped
      DEF StartReset, Consume, FinishReset, StartSignIn, LockAndRecheck, Issue, StartSocial,
          Upsert, IssueSocial, StartDelete, Match, FinishDelete, Abandon
    <2>3. there' \in [{"email", "social"} -> BOOLEAN]
      BY <1>3
      DEF SignInTypeOK, StartReset, Consume, FinishReset, StartSignIn, LockAndRecheck, Issue,
          StartSocial, Upsert, IssueSocial, StartDelete, Match, FinishDelete, Abandon
    <2>4. {password, passwords, code, codes, challenges}' \subseteq Nat
      BY <1>0, <1>3
      DEF StartReset, Consume, FinishReset, StartSignIn, LockAndRecheck, Issue,
          StartSocial, Upsert, IssueSocial, StartDelete, Match, FinishDelete, Abandon
    <2>5. nonces' \subseteq 1..MaxNonces
      BY <1>3
      DEF SignInTypeOK, StartReset, Consume, FinishReset, StartSignIn, LockAndRecheck, Issue,
          StartSocial, Upsert, IssueSocial, StartDelete, Match, FinishDelete, Abandon, Taken
    <2>6. sessions' \subseteq [who : {"email", "social"}, secret : Nat, proof : Nat]
      <3>1. CASE Issue(q) \/ IssueSocial(q)
        BY <1>0, <3>1 DEF Issue, IssueSocial, SignInTypeOK
      <3>2. CASE FinishReset(q) \/ FinishDelete(q)
        BY <3>2 DEF FinishReset, FinishDelete, SignInTypeOK
      <3>3. CASE ~(Issue(q) \/ IssueSocial(q) \/ FinishReset(q) \/ FinishDelete(q))
        BY <1>3, <3>3
        DEF SignInTypeOK, StartReset, Consume, StartSignIn, LockAndRecheck, StartSocial, Upsert,
            StartDelete, Match, Abandon
      <3>4. QED
        BY <3>1, <3>2, <3>3
    <2>7. resets' \in [1..MaxCodes -> Nat]
      <3>1. CASE FinishReset(q)
        <4>1. PICK c \in Nat : resets' = [resets EXCEPT ![c] = @ + 1]
          BY <1>0, <3>1 DEF FinishReset
        <4>2. \A d \in 1..MaxCodes : resets[d] \in Nat /\ resets[d] + 1 \in Nat
          BY DEF SignInTypeOK
        <4>3. QED
          BY <4>1, <4>2 DEF SignInTypeOK
      <3>2. CASE ~FinishReset(q)
        BY <1>3, <3>2
        DEF SignInTypeOK, StartReset, Consume, StartSignIn, LockAndRecheck, Issue, StartSocial,
            Upsert, IssueSocial, StartDelete, Match, FinishDelete, Abandon
      <3>3. QED
        BY <3>1, <3>2
    <2>8. QED
      BY <2>1, <2>2, <2>3, <2>4, <2>5, <2>6, <2>7 DEF SignInTypeOK, Requests, Holders
  <1>4. CASE UNCHANGED signInVars
    BY <1>4 DEF signInVars, SignInTypeOK
  <1>5. QED
    BY <1>2, <1>3, <1>4 DEF SignInNext

\* A request that moves, takes or gives back a row changes that entry alone.
LEMMA Entries ==
    ASSUME SignInTypeOK, NEW q \in Request
    PROVE  /\ \A stage, seen : Becomes(q, stage, seen) =>
                \A r \in Request :
                    /\ req'[r].stage = IF r = q THEN stage ELSE req[r].stage
                    /\ req'[r].seen = IF r = q THEN seen ELSE req[r].seen
           /\ \A who : Holds(q, who) =>
                \A w \in {"email", "social"} : holder'[w] = IF w = who THEN q ELSE holder[w]
           /\ Releases(q) =>
                \A w \in {"email", "social"} :
                    holder'[w] = IF holder[w] = q THEN NoRequest ELSE holder[w]
  BY DEF SignInTypeOK, Becomes, Holds, Releases

\* The stages at which a request holds a row.
LockStages == {"consumed", "issuing", "creating", "deleting"}

\* The three kinds of step of a request: it goes on without a row,
LEMMA Moves ==
    ASSUME SignInTypeOK, RowHeld, SeenStands, NEW q \in Request, NEW stage, NEW seen,
           req[q].stage \notin LockStages, stage \notin LockStages,
           stage = "resetting" => seen \in 1..codes,
           Becomes(q, stage, seen), UNCHANGED <<there, password, code, codes, holder>>
    PROVE  RowHeld' /\ SeenStands'
  <1>1. \A r \in Request : /\ req'[r].stage = IF r = q THEN stage ELSE req[r].stage
                           /\ req'[r].seen = IF r = q THEN seen ELSE req[r].seen
    BY Entries
  <1>2. holder["email"] # q /\ holder["social"] # q
    BY DEF RowHeld, Locked, LockStages
  <1>3. RowHeld'
    BY <1>1, <1>2 DEF RowHeld, Locked
  <1>4. SeenStands'
    BY <1>1 DEF SeenStands, LockStages
  <1>5. QED
    BY <1>3, <1>4

\* takes a free row on what it compares,
LEMMA Takes ==
    ASSUME SignInTypeOK, RowHeld, SeenStands, NEW q \in Request, NEW stage, NEW seen,
           NEW who \in {"email", "social"}, holder[who] = NoRequest,
           req[q].stage \notin LockStages,
           \/ /\ who = "email" /\ there["email"]
              /\ \/ stage = "consumed" /\ code = seen /\ seen \in 1..codes
                 \/ stage = "issuing" /\ password = seen
                 \/ stage = "deleting"
           \/ /\ who = "social"
              /\ \/ stage = "creating" /\ ~there["social"]
                 \/ stage = "deleting" /\ there["social"],
           Becomes(q, stage, seen), Holds(q, who), UNCHANGED <<there, password, code, codes>>
    PROVE  RowHeld' /\ SeenStands'
  <1>1. \A r \in Request : /\ req'[r].stage = IF r = q THEN stage ELSE req[r].stage
                           /\ req'[r].seen = IF r = q THEN seen ELSE req[r].seen
    BY Entries
  <1>2. \A w \in {"email", "social"} : holder'[w] = IF w = who THEN q ELSE holder[w]
    BY Entries
  <1>3. holder["email"] # q /\ holder["social"] # q
    BY DEF RowHeld, Locked, LockStages
  <1>4. \A r \in Request : holder[who] # r
    BY SignInAssumption
  <1>5. RowHeld'
    BY <1>1, <1>2, <1>3 DEF RowHeld, Locked
  <1>6. SeenStands'
    <2>1. ASSUME NEW r \in Request, r # q
          PROVE  \A w \in {"email", "social"} : holder[w] = r => holder'[w] = r
      BY <1>2, <1>4
    <2>2. QED
      BY <1>1, <1>2, <2>1 DEF SeenStands
  <1>7. QED
    BY <1>5, <1>6

\* or gives back what it holds, after changing the rows it held and no others.
LEMMA GivesBack ==
    ASSUME SignInTypeOK, RowHeld, SeenStands, NEW q \in Request,
           holder["email"] = q \/ UNCHANGED <<password, code>>,
           \A w \in {"email", "social"} : holder[w] = q \/ there'[w] = there[w],
           Becomes(q, "idle", 0), Releases(q), UNCHANGED codes
    PROVE  RowHeld' /\ SeenStands'
  <1>1. \A r \in Request : /\ req'[r].stage = IF r = q THEN "idle" ELSE req[r].stage
                           /\ req'[r].seen = IF r = q THEN 0 ELSE req[r].seen
    BY Entries
  <1>2. \A w \in {"email", "social"} : holder'[w] = IF holder[w] = q THEN NoRequest ELSE holder[w]
    BY Entries
  <1>3. RowHeld'
    BY <1>1, <1>2, SignInAssumption DEF RowHeld, Locked
  <1>4. SeenStands'
    BY <1>1, <1>2 DEF SeenStands
  <1>5. QED
    BY <1>3, <1>4

\* What the requests hold and what they saw of the rows still stands.
LEMMA LocksKept ==
    ASSUME SignInTypeOK, RowHeld, SeenStands, NoSessionLeftBehind, CodesSpent, [SignInNext]_signInVars
    PROVE  RowHeld' /\ SeenStands'
  <1> USE DEF At, Free, secrets, proofs
  <1>1. CASE Register \/ Forgot \/ CodeExpires
    <2>1. holder["email"] = NoRequest /\ UNCHANGED <<holder, req>> /\ there'["social"] = there["social"]
      BY <1>1 DEF Register, Forgot, CodeExpires, SignInTypeOK
    <2>2. \A r \in Request : holder["email"] # r
      BY <2>1, SignInAssumption
    <2>3. codes \in Nat /\ codes' \in Nat /\ codes <= codes'
      BY <1>1 DEF Register, Forgot, CodeExpires, SignInTypeOK
    <2>4. RowHeld'
      BY <2>1, <2>2 DEF RowHeld, Locked
    <2>5. SeenStands'
      BY <2>1, <2>2, <2>3 DEF SeenStands
    <2>6. QED
      BY <2>4, <2>5
  <1>2. CASE Challenge \/ ChallengeExpires \/ EndSession \/ UNCHANGED signInVars
    <2>1. UNCHANGED <<there, password, code, codes, holder, req>>
      BY <1>2 DEF Challenge, ChallengeExpires, EndSession, signInVars
    <2>2. QED
      BY <2>1 DEF RowHeld, SeenStands, Locked
  <1>3. ASSUME NEW q \in Request, StartReset(q) PROVE RowHeld' /\ SeenStands'
    <2>1. code \in 1..codes
      BY <1>3 DEF StartReset, CodesSpent, SignInTypeOK
    <2>2. QED
      BY <1>3, <2>1, Moves DEF StartReset, LockStages
  <1>4. ASSUME NEW q \in Request, StartSignIn(q) \/ StartSocial(q) PROVE RowHeld' /\ SeenStands'
    BY <1>4, Moves DEF StartSignIn, StartSocial, LockStages
  <1>5. ASSUME NEW q \in Request, Consume(q) PROVE RowHeld' /\ SeenStands'
    <2>1. CASE CodeIsCurrent(q)
      <3>1. there["email"] /\ code = req[q].seen /\ req[q].seen \in 1..codes
        BY <1>5, <2>1 DEF Consume, CodeIsCurrent, SeenStands
      <3>2. QED
        BY <1>5, <2>1, <3>1, Takes DEF Consume, LockStages
    <2>2. CASE ~CodeIsCurrent(q)
      BY <1>5, <2>2, Moves DEF Consume, LockStages
    <2>3. QED
      BY <2>1, <2>2
  <1>6. ASSUME NEW q \in Request, LockAndRecheck(q) PROVE RowHeld' /\ SeenStands'
    <2>1. CASE StillCurrent(q)
      BY <1>6, <2>1, Takes DEF LockAndRecheck, StillCurrent, LockStages
    <2>2. CASE ~StillCurrent(q)
      BY <1>6, <2>2, Moves DEF LockAndRecheck, LockStages
    <2>3. QED
      BY <2>1, <2>2
  <1>7. ASSUME NEW q \in Request, Upsert(q) PROVE RowHeld' /\ SeenStands'
    <2>1. CASE there["social"]
      BY <1>7, <2>1, Moves DEF Upsert, LockStages
    <2>2. CASE ~there["social"]
      BY <1>7, <2>2, Takes DEF Upsert, LockStages
    <2>3. QED
      BY <2>1, <2>2
  <1>8. ASSUME NEW q \in Request, Match(q) PROVE RowHeld' /\ SeenStands'
    <2>1. CASE there["social"]
      BY <1>8, <2>1, Takes DEF Match, LockStages
    <2>2. CASE ~there["social"]
      BY <1>8, <2>2, Moves DEF Match, LockStages
    <2>3. QED
      BY <2>1, <2>2
  <1>9. ASSUME NEW q \in Request, StartDelete(q) PROVE RowHeld' /\ SeenStands'
    <2>1. CASE UNCHANGED holder /\ \E n \in nonces : Becomes(q, "matching", n)
      BY <1>9, <2>1, Moves DEF StartDelete, LockStages
    <2>2. ASSUME NEW s \in sessions, s.who = "email", Free("email"), Holds(q, "email"),
                 Becomes(q, "deleting", 0)
          PROVE  RowHeld' /\ SeenStands'
      BY <1>9, <2>2, Takes DEF StartDelete, LockStages, NoSessionLeftBehind
    <2>3. QED
      BY <1>9, <2>1, <2>2 DEF StartDelete
  <1>10. ASSUME NEW q \in Request, FinishReset(q) \/ Issue(q) PROVE RowHeld' /\ SeenStands'
    <2>1. holder["email"] = q
      BY <1>10 DEF FinishReset, Issue, SeenStands
    <2>2. QED
      BY <1>10, <2>1, GivesBack DEF FinishReset, Issue
  <1>11. ASSUME NEW q \in Request, IssueSocial(q) PROVE RowHeld' /\ SeenStands'
    <2>1. \A w \in {"email", "social"} : holder[w] = q \/ there'[w] = there[w]
      BY <1>11 DEF IssueSocial, SeenStands, SignInTypeOK
    <2>2. QED
      BY <1>11, <2>1, GivesBack DEF IssueSocial
  <1>12. ASSUME NEW q \in Request, FinishDelete(q) PROVE RowHeld' /\ SeenStands'
    <2>1. /\ \A w \in {"email", "social"} : holder[w] = q \/ there'[w] = there[w]
          /\ holder["email"] = q \/ code' = code
      BY <1>12 DEF FinishDelete, SignInTypeOK
    <2>2. QED
      BY <1>12, <2>1, GivesBack DEF FinishDelete
  <1>13. ASSUME NEW q \in Request, Abandon(q) PROVE RowHeld' /\ SeenStands'
    BY <1>13, GivesBack DEF Abandon
  <1>14. QED
    BY <1>1, <1>2, <1>3, <1>4, <1>5, <1>6, <1>7, <1>8, <1>9, <1>10, <1>11, <1>12, <1>13
    DEF SignInNext

\* A session is opened by whoever holds the row, on what it saw under the lock;
\* what ends a password or an account ends its sessions in the same step.
LEMMA SessionsKept ==
    ASSUME SignInTypeOK, RowHeld, SeenStands, NoSessionLeftBehind, [SignInNext]_signInVars
    PROVE  NoSessionLeftBehind'
  <1> USE DEF NoSessionLeftBehind
  <1>1. CASE Register
    BY <1>1 DEF Register, SignInTypeOK
  <1>2. ASSUME NEW q \in Request, FinishReset(q) PROVE NoSessionLeftBehind'
    BY <1>2 DEF FinishReset, SignInTypeOK
  <1>3. ASSUME NEW q \in Request, Issue(q) PROVE NoSessionLeftBehind'
    <2>1. there["email"] /\ password = req[q].seen
      BY <1>3 DEF Issue, At, RowHeld, SeenStands
    <2>2. QED
      BY <1>3, <2>1 DEF Issue, secrets
  <1>4. ASSUME NEW q \in Request, IssueSocial(q) PROVE NoSessionLeftBehind'
    <2>1. password' = password /\ there'["social"] /\ there'["email"] = there["email"]
      BY <1>4 DEF IssueSocial, secrets, SignInTypeOK
    <2>2. \A s \in sessions' : s \in sessions \/ s = [who |-> "social", secret |-> 0, proof |-> req[q].seen]
      BY <1>4 DEF IssueSocial
    <2>3. \A s \in sessions : s.who \in {"email", "social"}
      BY DEF SignInTypeOK
    <2>4. QED
      BY <2>1, <2>2, <2>3
  <1>5. ASSUME NEW q \in Request, FinishDelete(q) PROVE NoSessionLeftBehind'
    BY <1>5 DEF FinishDelete, SignInTypeOK
  <1>6. CASE EndSession
    BY <1>6 DEF EndSession, secrets
  <1>7. ASSUME \/ Forgot \/ CodeExpires \/ Challenge \/ ChallengeExpires \/ UNCHANGED signInVars
               \/ \E q \in Request :
                     \/ StartReset(q) \/ Consume(q) \/ StartSignIn(q) \/ LockAndRecheck(q)
                     \/ StartSocial(q) \/ Upsert(q) \/ StartDelete(q) \/ Match(q) \/ Abandon(q)
        PROVE  UNCHANGED <<there, password, sessions>>
    BY <1>7 DEF Forgot, CodeExpires, Challenge, ChallengeExpires, signInVars, StartReset, Consume,
                StartSignIn, LockAndRecheck, StartSocial, Upsert, StartDelete, Match, Abandon,
                secrets
  <1>8. QED
    BY <1>1, <1>2, <1>3, <1>4, <1>5, <1>6, <1>7 DEF SignInNext

\* What a step may do to the password by a code.
LatestOnce ==
    \A c \in 1..MaxCodes : resets'[c] # resets[c] => resets[c] = 0 /\ c = codes

\* A code that works was the row's, which holds none when it has.
LEMMA CodesKept ==
    ASSUME SignInTypeOK, SeenStands, CodesSpent, [SignInNext]_signInVars
    PROVE  CodesSpent' /\ LatestOnce
  <1> USE SignInAssumption DEF CodesSpent, LatestOnce
  <1>0. code \in Nat /\ codes \in Nat /\ resets \in [1..MaxCodes -> Nat]
    BY DEF SignInTypeOK
  <1>1. CASE Register
    BY <1>0, <1>1 DEF Register
  <1>2. CASE Forgot
    BY <1>0, <1>2 DEF Forgot
  <1>3. CASE CodeExpires
    BY <1>0, <1>3 DEF CodeExpires
  <1>4. ASSUME NEW q \in Request, FinishReset(q) PROVE CodesSpent' /\ LatestOnce
    <2>1. PICK c \in 1..codes : code = c /\ resets' = [resets EXCEPT ![c] = @ + 1]
      BY <1>4 DEF FinishReset, At, SeenStands
    <2>2. c \in 1..MaxCodes /\ resets[c] = 0 /\ c = codes
      BY <1>0, <2>1
    <2>3. code' = 0 /\ codes' = codes
      BY <1>4 DEF FinishReset
    <2>4. QED
      BY <1>0, <2>1, <2>2, <2>3
  <1>5. ASSUME NEW q \in Request, FinishDelete(q) PROVE CodesSpent' /\ LatestOnce
    <2>1. code' \in {0, code} /\ UNCHANGED <<codes, resets>>
      BY <1>5 DEF FinishDelete
    <2>2. QED
      BY <1>0, <2>1
  <1>6. ASSUME \/ Challenge \/ ChallengeExpires \/ EndSession \/ UNCHANGED signInVars
               \/ \E q \in Request :
                     \/ StartReset(q) \/ Consume(q) \/ StartSignIn(q) \/ LockAndRecheck(q)
                     \/ Issue(q) \/ StartSocial(q) \/ Upsert(q) \/ IssueSocial(q)
                     \/ StartDelete(q) \/ Match(q) \/ Abandon(q)
        PROVE  UNCHANGED <<code, codes, resets>>
    BY <1>6 DEF Challenge, ChallengeExpires, EndSession, signInVars, StartReset, Consume,
                StartSignIn, LockAndRecheck, Issue, StartSocial, Upsert, IssueSocial, StartDelete,
                Match, Abandon, secrets
  <1>7. QED
    BY <1>1, <1>2, <1>3, <1>4, <1>5, <1>6 DEF SignInNext

LEMMA IndStep == Ind /\ [SignInNext]_signInVars => Ind'
  BY TypesKept, LocksKept, SessionsKept, CodesKept DEF Ind

\* The invariant holds in every behaviour.
THEOREM IndHolds == SignInSpec => []Ind
  <1> QED
    BY IndInit, IndStep, PTL DEF SignInSpec

\* Rows, challenges, requests and sessions keep their types.
THEOREM SignInTypeCorrect == SignInSpec => []SignInTypeOK
  <1>1. Ind => SignInTypeOK
    BY DEF Ind
  <1>2. QED
    BY IndHolds, <1>1, PTL

\* A session that is alive belongs to an account that is there and was opened
\* with its password of now: sign_in's lock and recheck, finish_code's
\* revocation and delete_account's cascade leave none behind in any order.
THEOREM NoSessionLeftBehindHolds == SignInSpec => []NoSessionLeftBehind
  <1>1. Ind => NoSessionLeftBehind
    BY DEF Ind
  <1>2. QED
    BY IndHolds, <1>1, PTL

\* Only the last code mailed changes the password, and once, however often and
\* by however many requests it and older ones are submitted: consume_code's
\* WHERE clause, and the lock from there to the commit.
THEOREM CodeWorksOnceHolds == SignInSpec => CodeWorksOnce
  <1>1. Ind /\ [SignInNext]_signInVars => [LatestOnce]_signInVars
    BY CodesKept DEF Ind
  <1>2. QED
    BY IndHolds, <1>1, PTL DEF SignInSpec, CodeWorksOnce, LatestOnce

-----------------------------------------------------------------------------
(***************************************************************************)
(* Sign-in implements AccountPromise.                                      *)
(***************************************************************************)
ProvingStages == {"proved", "selecting", "creating"}

\* The challenges taken by requests that will open a session with them.
Pending == {req[q].seen : q \in Proving}
PendingBut(q) == {req[r].seen : r \in Proving \ {q}}

\* A taken challenge is no request's but one's.
ChallengesOnce ==
    /\ nonces \subseteq 1..challenges
    /\ \A q \in Proving : /\ req[q].seen \in 1..challenges /\ req[q].seen \notin nonces
                          /\ \A r \in Proving : r # q => req[r].seen # req[q].seen

\* What the step of one request does to the challenges that are pending.
LEMMA PendingNow ==
    ASSUME NEW q \in Request
    PROVE  Pending = PendingBut(q) \cup (IF q \in Proving THEN {req[q].seen} ELSE {})
  BY DEF Pending, PendingBut

LEMMA PendingNext ==
    ASSUME SignInTypeOK, NEW q \in Request, NEW stage, NEW seen, Becomes(q, stage, seen)
    PROVE  /\ Pending' = PendingBut(q) \cup (IF stage \in ProvingStages THEN {seen} ELSE {})
           /\ Proving' = (Proving \ {q}) \cup (IF stage \in ProvingStages THEN {q} ELSE {})
           /\ req'[q].seen = seen
           /\ \A r \in Request \ {q} : req'[r].seen = req[r].seen
  <1>1. \A r \in Request : /\ req'[r].stage = IF r = q THEN stage ELSE req[r].stage
                           /\ req'[r].seen = IF r = q THEN seen ELSE req[r].seen
    BY Entries
  <1>2. Proving' = (Proving \ {q}) \cup (IF stage \in ProvingStages THEN {q} ELSE {})
    BY <1>1 DEF Proving, ProvingStages
  <1>3. Pending' = PendingBut(q) \cup (IF stage \in ProvingStages THEN {seen} ELSE {})
    <2>1. Pending' = {req'[r].seen : r \in Proving'}
      BY DEF Pending
    <2>2. Proving \subseteq Request
      BY DEF Proving
    <2>3. \A r \in Proving \ {q} : req'[r].seen = req[r].seen
      BY <1>1, <2>2
    <2>4. CASE stage \in ProvingStages
      BY <1>1, <1>2, <2>1, <2>3, <2>4 DEF PendingBut
    <2>5. CASE stage \notin ProvingStages
      BY <1>1, <1>2, <2>1, <2>3, <2>5 DEF PendingBut
    <2>6. QED
      BY <2>4, <2>5
  <1>4. QED
    BY <1>1, <1>2, <1>3

\* A challenge is handed from the store to one request, and from it to nobody.
LEMMA ChallengesOnceKept ==
    ASSUME SignInTypeOK, ChallengesOnce, [SignInNext]_signInVars
    PROVE  ChallengesOnce'
  <1>0. challenges \in Nat /\ Proving \subseteq Request
    BY DEF SignInTypeOK, Proving
  <1> USE DEF ChallengesOnce
  <1>1. CASE Challenge
    <2>1. challenges' = challenges + 1 /\ nonces' = nonces \cup {challenges + 1} /\ req' = req
      BY <1>1 DEF Challenge
    <2>2. Proving' = Proving
      BY <2>1 DEF Proving
    <2>3. nonces' \subseteq 1..challenges'
      BY <1>0, <2>1
    <2>4. \A q \in Proving : req[q].seen \in 1..challenges' /\ req[q].seen \notin nonces'
      BY <1>0, <2>1
    <2>5. QED
      BY <2>1, <2>2, <2>3, <2>4
  <1>2. CASE \/ Register \/ Forgot \/ CodeExpires \/ ChallengeExpires \/ EndSession
             \/ UNCHANGED signInVars
    <2>1. challenges' = challenges /\ nonces' \subseteq nonces /\ req' = req
      BY <1>2 DEF Register, Forgot, CodeExpires, ChallengeExpires, EndSession, signInVars, proofs
    <2>2. Proving' = Proving
      BY <2>1 DEF Proving
    <2>3. QED
      BY <2>1, <2>2
  <1>3. ASSUME NEW q \in Request, StartSocial(q) PROVE ChallengesOnce'
    <2>1. PICK n \in nonces : nonces' = nonces \ {n} /\ Becomes(q, "proved", n)
      BY <1>3 DEF StartSocial, Taken
    <2>2. challenges' = challenges /\ q \notin Proving
      BY <1>3 DEF StartSocial, At, Proving
    <2>3. /\ Proving' = Proving \cup {q} /\ req'[q].seen = n
          /\ \A r \in Request \ {q} : req'[r].seen = req[r].seen
      BY <2>1, <2>2, PendingNext DEF ProvingStages
    <2>4. QED
      BY <1>0, <2>1, <2>2, <2>3
  <1>4. ASSUME NEW q \in Request,
               \/ StartReset(q) \/ Consume(q) \/ FinishReset(q)
               \/ StartSignIn(q) \/ LockAndRecheck(q) \/ Issue(q)
               \/ Upsert(q) \/ IssueSocial(q)
               \/ StartDelete(q) \/ Match(q) \/ FinishDelete(q) \/ Abandon(q)
        PROVE  ChallengesOnce'
    <2>1. /\ challenges' = challenges /\ nonces' \subseteq nonces
          /\ \E stage, seen : /\ Becomes(q, stage, seen)
                              /\ stage \in ProvingStages => q \in Proving /\ seen = req[q].seen
      <3>1. challenges' = challenges /\ nonces' \subseteq nonces
        BY <1>4 DEF StartReset, Consume, FinishReset, StartSignIn, LockAndRecheck, Issue,
              Upsert, IssueSocial, StartDelete, Match, FinishDelete, Abandon, proofs, Taken
      <3>2. CASE Upsert(q)
        <4>1. /\ q \in Proving
              /\ Becomes(q, "selecting", req[q].seen) \/ Becomes(q, "creating", req[q].seen)
          BY <3>2 DEF Upsert, At, Proving
        <4>2. QED
          BY <3>1, <4>1
      <3>3. CASE ~Upsert(q)
        <4>1. \/ \E seen : \E stage \in {"resetting", "consumed", "checked", "issuing"} :
                    Becomes(q, stage, seen)
              \/ \E seen : \E stage \in {"matching", "deleting", "idle"} : Becomes(q, stage, seen)
          BY <1>4, <3>3 DEF StartReset, Consume, FinishReset, StartSignIn, LockAndRecheck, Issue,
                            IssueSocial, StartDelete, Match, FinishDelete, Abandon
        <4>2. \A stage \in ProvingStages :
                  /\ stage \notin {"resetting", "consumed", "checked", "issuing"}
                  /\ stage \notin {"matching", "deleting", "idle"}
          BY DEF ProvingStages
        <4>3. QED
          BY <3>1, <4>1, <4>2
      <3>4. QED
        BY <3>2, <3>3
    <2>2. PICK stage, seen :
             /\ Becomes(q, stage, seen)
             /\ stage \in ProvingStages => q \in Proving /\ seen = req[q].seen
      BY <2>1
    <2>3. /\ Proving' \subseteq Proving
          /\ \A r \in Proving' : req'[r].seen = req[r].seen
      <3>1. /\ Proving' = (Proving \ {q}) \cup (IF stage \in ProvingStages THEN {q} ELSE {})
            /\ req'[q].seen = seen
            /\ \A r \in Request \ {q} : req'[r].seen = req[r].seen
        BY <2>2, PendingNext
      <3>2. QED
        BY <1>0, <2>2, <3>1
    <2>4. QED
      BY <1>0, <2>1, <2>3
  <1>5. QED
    BY <1>1, <1>2, <1>3, <1>4 DEF SignInNext

\* The challenges that may still open a session.
Unused == nonces \cup Pending

\* What a request turns its challenge into, if it had or has one.
LEMMA UnusedMoves ==
    ASSUME SignInTypeOK, ChallengesOnce, NEW q \in Request, NEW stage, NEW seen,
           Becomes(q, stage, seen)
    PROVE  /\ (q \notin Proving /\ stage \notin ProvingStages /\ nonces' = nonces)
                 => Unused' = Unused
           /\ \A n \in nonces :
                 /\ (q \notin Proving /\ stage \notin ProvingStages /\ nonces' = nonces \ {n})
                        => Unused' = Unused \ {n} /\ n \in Unused
                 /\ (q \notin Proving /\ stage \in ProvingStages /\ seen = n
                        /\ nonces' = nonces \ {n}) => Unused' = Unused
           /\ \A n : (q \in Proving /\ n = req[q].seen /\ nonces' = nonces) =>
                 /\ stage \notin ProvingStages => Unused' = Unused \ {n} /\ n \in Unused
                 /\ (stage \in ProvingStages /\ seen = n) => Unused' = Unused
  <1>1. /\ Unused = nonces \cup PendingBut(q) \cup (IF q \in Proving THEN {req[q].seen} ELSE {})
        /\ Unused' = nonces' \cup PendingBut(q) \cup (IF stage \in ProvingStages THEN {seen} ELSE {})
    BY PendingNow, PendingNext DEF Unused
  <1>2. \A n \in nonces : n \notin PendingBut(q)
    BY DEF ChallengesOnce, PendingBut
  <1>3. q \in Proving => req[q].seen \notin nonces /\ req[q].seen \notin PendingBut(q)
    BY DEF ChallengesOnce, PendingBut
  <1>4. QED
    BY <1>1, <1>2, <1>3

\* A step of the account is a step of the promise.
LEMMA AccountStep ==
    ASSUME \/ Accounts!Register \/ Accounts!SignInNow \/ Accounts!MailCode
           \/ Accounts!ForgetCode \/ Accounts!ResetPassword \/ Accounts!GiveChallenge
           \/ Accounts!SpendChallenge \/ Accounts!ProviderSignIn \/ Accounts!EndSession
           \/ \E who \in {"email", "social"} : Accounts!Delete(who)
    PROVE  Accounts!Next
  BY DEF Accounts!Next

\* What happens at once in the code happens at once in the promise.
LEMMA AtOnce ==
    ASSUME SignInTypeOK, ChallengesOnce,
           Register \/ Forgot \/ CodeExpires \/ Challenge \/ ChallengeExpires \/ EndSession
    PROVE  Accounts!Next
  <1> USE DEF secrets, proofs
  <1>0. challenges \in Nat /\ Proving \subseteq Request
    BY DEF SignInTypeOK, Proving
  <1>1. Pending' = Pending
    <2>1. req' = req
      BY DEF Register, Forgot, CodeExpires, Challenge, ChallengeExpires, EndSession
    <2>2. QED
      BY <2>1 DEF Pending, Proving
  <1>2. nonces' = nonces => Unused' = Unused
    BY <1>1 DEF Unused
  <1>3. CASE Register
    <2>1. Accounts!Register
      BY <1>2, <1>3 DEF Register, Accounts!Register, Accounts!NewPassword, Unused, Pending
    <2>2. QED
      BY <2>1, AccountStep
  <1>4. CASE Forgot
    <2>1. Accounts!MailCode
      BY <1>2, <1>4 DEF Forgot, Accounts!MailCode, Unused, Pending
    <2>2. QED
      BY <2>1, AccountStep
  <1>5. CASE CodeExpires
    <2>1. Accounts!ForgetCode
      BY <1>2, <1>5 DEF CodeExpires, Accounts!ForgetCode, Unused, Pending
    <2>2. QED
      BY <2>1, AccountStep
  <1>6. CASE Challenge
    <2>1. Unused' = Unused \cup {challenges + 1}
      BY <1>1, <1>6 DEF Challenge, Unused
    <2>2. Accounts!GiveChallenge
      BY <1>6, <2>1 DEF Challenge, Accounts!GiveChallenge, Unused, Pending
    <2>3. QED
      BY <2>2, AccountStep
  <1>7. CASE ChallengeExpires
    <2>1. PICK n \in nonces : nonces' = nonces \ {n}
      BY <1>7 DEF ChallengeExpires
    <2>2. n \notin Pending
      BY DEF ChallengesOnce, Pending
    <2>3. n \in Unused /\ Unused' = Unused \ {n}
      BY <1>1, <2>1, <2>2 DEF Unused
    <2>4. Accounts!SpendChallenge
      BY <1>7, <2>3 DEF ChallengeExpires, Accounts!SpendChallenge, Unused, Pending
    <2>5. QED
      BY <2>4, AccountStep
  <1>8. CASE EndSession
    <2>1. Accounts!EndSession
      BY <1>2, <1>8 DEF EndSession, Accounts!EndSession, Unused, Pending
    <2>2. QED
      BY <2>1, AccountStep
  <1>9. QED
    BY <1>3, <1>4, <1>5, <1>6, <1>7, <1>8

\* What a request reads, checks, locks and looks up is nobody's business.
LEMMA NotYet ==
    ASSUME SignInTypeOK, ChallengesOnce, NEW q \in Request,
           \/ StartReset(q) \/ Consume(q) \/ StartSignIn(q) \/ LockAndRecheck(q)
           \/ StartSocial(q) \/ Upsert(q) \/ Match(q)
    PROVE  UNCHANGED Accounts!vars
  <1> USE DEF secrets, proofs
  <1>1. UNCHANGED <<there, password, passwords, code, codes, challenges, sessions>>
    BY DEF StartReset, Consume, StartSignIn, LockAndRecheck, StartSocial, Upsert, Match
  <1>2. Unused' = Unused
    <2>1. CASE StartReset(q) \/ Consume(q) \/ StartSignIn(q) \/ LockAndRecheck(q) \/ Match(q)
      <3>1. q \notin Proving /\ nonces' = nonces
        BY <2>1 DEF StartReset, Consume, StartSignIn, LockAndRecheck, Match, At, Proving
      <3>2. PICK stage, seen : Becomes(q, stage, seen) /\ stage \notin ProvingStages
        BY <2>1 DEF StartReset, Consume, StartSignIn, LockAndRecheck, Match, ProvingStages
      <3>3. QED
        BY <3>1, <3>2, UnusedMoves
    <2>2. CASE StartSocial(q)
      <3>1. q \notin Proving
        BY <2>2 DEF StartSocial, At, Proving
      <3>2. PICK n \in nonces : nonces' = nonces \ {n} /\ Becomes(q, "proved", n)
        BY <2>2 DEF StartSocial, Taken
      <3>3. QED
        BY <3>1, <3>2, UnusedMoves DEF ProvingStages
    <2>3. CASE Upsert(q)
      <3>1. PICK n : n = req[q].seen
        OBVIOUS
      <3>2. q \in Proving /\ nonces' = nonces
        BY <2>3 DEF Upsert, At, Proving
      <3>3. PICK stage \in ProvingStages : Becomes(q, stage, n)
        BY <2>3, <3>1 DEF Upsert, ProvingStages
      <3>4. QED
        BY <3>1, <3>2, <3>3, UnusedMoves
    <2>4. QED
      BY <2>1, <2>2, <2>3
  <1>3. QED
    BY <1>1, <1>2 DEF Accounts!vars, Unused, Pending

\* A request that never held a challenge and holds none keeps them all.
LEMMA NoChallenge ==
    ASSUME SignInTypeOK, ChallengesOnce, NEW q \in Request,
           FinishReset(q) \/ Issue(q) \/ FinishDelete(q)
    PROVE  Unused' = Unused
  <1>1. q \notin Proving /\ nonces' = nonces /\ Becomes(q, "idle", 0)
    BY DEF FinishReset, Issue, FinishDelete, At, Proving, proofs
  <1>2. QED
    BY <1>1, UnusedMoves DEF ProvingStages

\* What a request commits is a step on the account of the moment: the lock has
\* kept what it saw.
LEMMA Commits ==
    ASSUME Ind, ChallengesOnce, NEW q \in Request,
           FinishReset(q) \/ Issue(q) \/ IssueSocial(q) \/ FinishDelete(q)
    PROVE  Accounts!Next
  <1>0. SignInTypeOK /\ RowHeld /\ SeenStands
    BY DEF Ind
  <1> USE DEF secrets, proofs, Accounts!Of
  <1>1. CASE FinishReset(q)
    <2>1. there["email"] /\ code # 0
      BY <1>0, <1>1 DEF FinishReset, At, RowHeld, SeenStands, SignInTypeOK
    <2>2. sessions' = sessions \ {s \in sessions : s.who = "email"}
      BY <1>1 DEF FinishReset
    <2>3. Accounts!ResetPassword
      BY <1>0, <1>1, <2>1, <2>2, NoChallenge
      DEF FinishReset, Accounts!ResetPassword, Accounts!NewPassword, Unused, Pending
    <2>4. QED
      BY <2>3, AccountStep
  <1>2. CASE Issue(q)
    <2>1. there["email"] /\ password = req[q].seen
      BY <1>0, <1>2 DEF Issue, At, RowHeld, SeenStands
    <2>2. sessions' = sessions \cup {[who |-> "email", secret |-> password, proof |-> 0]}
      BY <1>2, <2>1 DEF Issue
    <2>3. Accounts!SignInNow
      BY <1>0, <1>2, <2>1, <2>2, NoChallenge DEF Issue, Accounts!SignInNow, Unused, Pending
    <2>4. QED
      BY <2>3, AccountStep
  <1>3. CASE IssueSocial(q)
    <2>1. PICK n : n = req[q].seen
      OBVIOUS
    <2>2. q \in Proving /\ nonces' = nonces /\ Becomes(q, "idle", 0)
      BY <1>3 DEF IssueSocial, At, Proving
    <2>3. n \in Unused /\ Unused' = Unused \ {n}
      BY <1>0, <2>1, <2>2, UnusedMoves DEF ProvingStages
    <2>4. sessions' = sessions \cup {[who |-> "social", secret |-> 0, proof |-> n]}
      BY <1>3, <2>1 DEF IssueSocial
    <2>5. there' = [there EXCEPT !["social"] = TRUE]
      <3>1. CASE there["social"] /\ there' = there
        BY <1>0, <3>1 DEF SignInTypeOK
      <3>2. QED
        BY <1>3, <3>1 DEF IssueSocial
    <2>6. Accounts!ProviderSignIn
      BY <1>3, <2>3, <2>4, <2>5 DEF IssueSocial, Accounts!ProviderSignIn, Unused, Pending
    <2>7. QED
      BY <2>6, AccountStep
  <1>4. CASE FinishDelete(q)
    <2>1. PICK who \in {"email", "social"} :
             /\ holder[who] = q
             /\ there' = [there EXCEPT ![who] = FALSE]
             /\ sessions' = {s \in sessions : s.who # who}
             /\ code' = IF who = "email" THEN 0 ELSE code
      BY <1>0, <1>4 DEF FinishDelete, SignInTypeOK
    <2>2. there[who]
      BY <1>0, <1>4, <2>1 DEF FinishDelete, At, RowHeld
    <2>3. sessions' = sessions \ {s \in sessions : s.who = who}
      BY <2>1
    <2>4. Accounts!Delete(who)
      BY <1>0, <1>4, <2>1, <2>2, <2>3, NoChallenge
      DEF FinishDelete, Accounts!Delete, Unused, Pending
    <2>5. QED
      BY <2>4, AccountStep
  <1>5. QED
    BY <1>1, <1>2, <1>3, <1>4

\* A challenge is also spent on a deletion, or with a request that fails.
LEMMA Spends ==
    ASSUME SignInTypeOK, ChallengesOnce, NEW q \in Request, StartDelete(q) \/ Abandon(q)
    PROVE  Accounts!Next \/ UNCHANGED Accounts!vars
  <1> USE DEF secrets, proofs
  <1>1. UNCHANGED <<there, password, passwords, code, codes, challenges, sessions>>
    BY DEF StartDelete, Abandon
  <1>2. Unused' = Unused \/ \E n \in Unused : Unused' = Unused \ {n}
    <2>1. CASE StartDelete(q)
      <3>1. q \notin Proving
        BY <2>1 DEF StartDelete, At, Proving
      <3>2. CASE Becomes(q, "deleting", 0) /\ nonces' = nonces
        BY <3>1, <3>2, UnusedMoves DEF ProvingStages
      <3>3. ASSUME NEW n \in nonces, nonces' = nonces \ {n}, Becomes(q, "matching", n)
            PROVE  n \in Unused /\ Unused' = Unused \ {n}
        BY <3>1, <3>3, UnusedMoves DEF ProvingStages
      <3>4. QED
        BY <2>1, <3>2, <3>3 DEF StartDelete, Taken
    <2>2. CASE Abandon(q)
      <3>1. PICK n : n = req[q].seen
        OBVIOUS
      <3>2. nonces' = nonces /\ Becomes(q, "idle", 0)
        BY <2>2 DEF Abandon
      <3>3. QED
        BY <3>1, <3>2, UnusedMoves DEF ProvingStages
    <2>3. QED
      BY <2>1, <2>2
  <1>3. CASE Unused' = Unused
    BY <1>1, <1>3 DEF Accounts!vars, Unused, Pending
  <1>4. CASE \E n \in Unused : Unused' = Unused \ {n}
    <2>1. Accounts!SpendChallenge
      BY <1>1, <1>4 DEF Accounts!SpendChallenge, Unused, Pending
    <2>2. QED
      BY <2>1, AccountStep
  <1>5. QED
    BY <1>2, <1>3, <1>4

\* However requests interleave with their hashing and their calls to a
\* provider, each takes effect at once, when it commits, on the account as it
\* is then; and a challenge opens one session or none.
THEOREM ActsOnTheMomentHolds == SignInSpec => ActsOnTheMoment
  <1>1. SignInInit => Ind /\ ChallengesOnce /\ Accounts!Init
    <2> SUFFICES ASSUME SignInInit PROVE Ind /\ ChallengesOnce /\ Accounts!Init
      OBVIOUS
    <2>1. Proving = {} /\ Pending = {}
      BY DEF SignInInit, Proving, Pending, Idle
    <2>2. ChallengesOnce
      BY <2>1 DEF SignInInit, ChallengesOnce
    <2>3. Accounts!Init
      BY <2>1 DEF SignInInit, Accounts!Init, Pending
    <2>4. QED
      BY <2>2, <2>3, IndInit
  <1>2. Ind /\ ChallengesOnce /\ [SignInNext]_signInVars => Ind' /\ ChallengesOnce'
    BY IndStep, ChallengesOnceKept DEF Ind
  <1>3. Ind /\ ChallengesOnce /\ [SignInNext]_signInVars => [Accounts!Next]_(Accounts!vars)
    <2> SUFFICES ASSUME Ind, ChallengesOnce, [SignInNext]_signInVars
                 PROVE  Accounts!Next \/ UNCHANGED Accounts!vars
      OBVIOUS
    <2>1. SignInTypeOK
      BY DEF Ind
    <2>2. CASE UNCHANGED signInVars
      BY <2>2 DEF signInVars, Accounts!vars, Proving
    <2>3. QED
      BY <2>1, <2>2, AtOnce, NotYet, Commits, Spends DEF SignInNext
  <1>4. QED
    BY <1>1, <1>2, <1>3, PTL DEF SignInSpec, ActsOnTheMoment, Accounts!Spec


===============================================================================
