-------------------------------- MODULE SignIn --------------------------------
(***************************************************************************)
(* One person's two accounts: one with a password, one that signs in with  *)
(* a provider.  Registration, sign-in, password reset by a mailed code,    *)
(* sign-out, and deletion of the account.                                  *)
(*                                                                         *)
(* A request is one database transaction that commits when it ends; what   *)
(* it read before it hashed or called out may have changed.  The account   *)
(* row serializes those that lock it.  Passwords, codes and challenges are *)
(* numbers: whoever knows one may use it in any number of requests at      *)
(* once.  Rate limits, and what proves a provider's token, are left out.   *)
(***************************************************************************)
EXTENDS Integers, FiniteSets

CONSTANTS
    Request,      \* requests that may be under way at the same time
    NoRequest,
    MaxPasswords, MaxCodes, MaxNonces    \* bounds of the model

ASSUME SignInAssumption ==
    /\ NoRequest \notin Request
    /\ MaxPasswords \in Nat /\ MaxCodes \in Nat /\ MaxNonces \in Nat

VARIABLES
    there,       \* [{"email", "social"} -> BOOLEAN]: the account row is there
    password,    \* the row's password hash: number of the latest password
    passwords,   \* passwords ever set
    code,        \* the row's reset digest: number of the latest code, 0 if none
    codes,       \* codes ever mailed
    nonces,      \* challenges not taken yet
    challenges,  \* challenges ever given
    holder,      \* [{"email", "social"} -> Request or NoRequest]: the row lock
    req,         \* [Request -> [stage, seen]]
    sessions,    \* live sessions: [who, secret, proof]
    resets       \* history: [code -> times it changed the password]

signInVars == <<there, password, passwords, code, codes, nonces, challenges,
                holder, req, sessions, resets>>
secrets == <<password, passwords, code, codes, resets>>
proofs == <<nonces, challenges>>

Idle == [stage |-> "idle", seen |-> 0]

Becomes(q, stage, seen) == req' = [req EXCEPT ![q] = [stage |-> stage, seen |-> seen]]
At(q, stage) == req[q].stage = stage
Free(who) == holder[who] = NoRequest
Holds(q, who) == holder' = [holder EXCEPT ![who] = q]
Releases(q) == holder' = [w \in DOMAIN holder |-> IF holder[w] = q THEN NoRequest ELSE holder[w]]

SignInInit ==
    /\ there = [w \in {"email", "social"} |-> FALSE]
    /\ password = 0 /\ passwords = 0 /\ code = 0 /\ codes = 0
    /\ nonces = {} /\ challenges = 0
    /\ holder = [w \in {"email", "social"} |-> NoRequest]
    /\ req = [q \in Request |-> Idle]
    /\ sessions = {} /\ resets = [c \in 1..MaxCodes |-> 0]

-----------------------------------------------------------------------------
\* The account with a password

Register ==
    /\ ~there["email"] /\ Free("email") /\ passwords < MaxPasswords
    /\ there' = [there EXCEPT !["email"] = TRUE]
    /\ passwords' = passwords + 1 /\ password' = passwords + 1 /\ code' = 0
    /\ sessions' = sessions \cup {[who |-> "email", secret |-> passwords + 1, proof |-> 0]}
    /\ UNCHANGED <<codes, proofs, holder, req, resets>>

\* A new code replaces the one before.  A mail that is not sent rolls it back.
Forgot ==
    /\ there["email"] /\ Free("email") /\ codes < MaxCodes
    /\ codes' = codes + 1 /\ code' = codes + 1
    /\ UNCHANGED <<there, password, passwords, proofs, holder, req, sessions, resets>>

CodeExpires ==
    /\ code # 0 /\ Free("email") /\ code' = 0
    /\ UNCHANGED <<there, password, passwords, codes, proofs, holder, req, sessions, resets>>

\* finish_code, up to the hashing of the new password.
StartReset(q) ==
    /\ At(q, "idle") /\ there["email"] /\ code # 0
    /\ Becomes(q, "resetting", code)
    /\ UNCHANGED <<there, secrets, proofs, holder, sessions>>

\* Mutant of CodeIsCurrent: the check before the hashing is enough.
CodeWasCurrent(q) == there["email"]

\* The WHERE clause of consume_code.
CodeIsCurrent(q) == there["email"] /\ code = req[q].seen

Consume(q) ==
    /\ At(q, "resetting") /\ Free("email")
    /\ IF CodeIsCurrent(q)
       THEN /\ passwords < MaxPasswords
            /\ Holds(q, "email") /\ Becomes(q, "consumed", req[q].seen)
       ELSE Becomes(q, "idle", 0) /\ UNCHANGED holder
    /\ UNCHANGED <<there, secrets, proofs, sessions>>

\* revoke_all, over the sessions there are now, and the commit.
FinishReset(q) ==
    /\ At(q, "consumed")
    /\ passwords' = passwords + 1 /\ password' = passwords + 1 /\ code' = 0
    /\ resets' = [resets EXCEPT ![req[q].seen] = @ + 1]
    /\ sessions' = {s \in sessions : s.who # "email"}
    /\ Releases(q) /\ Becomes(q, "idle", 0)
    /\ UNCHANGED <<there, codes, proofs>>

\* sign_in: the password is checked against the hash read before.
StartSignIn(q) ==
    /\ At(q, "idle") /\ there["email"]
    /\ Becomes(q, "checked", password)
    /\ UNCHANGED <<there, secrets, proofs, holder, sessions>>

\* Mutant of StillCurrent: the hash is not read again.
CurrentOnce(q) == there["email"]

\* "Lock and recheck before issuing a session so its revocation cannot miss
\* this new session."
StillCurrent(q) == there["email"] /\ password = req[q].seen

LockAndRecheck(q) ==
    /\ At(q, "checked") /\ Free("email")
    /\ IF StillCurrent(q)
       THEN Holds(q, "email") /\ Becomes(q, "issuing", req[q].seen)
       ELSE Becomes(q, "idle", 0) /\ UNCHANGED holder
    /\ UNCHANGED <<there, secrets, proofs, sessions>>

Issue(q) ==
    /\ At(q, "issuing")
    /\ sessions' = sessions \cup {[who |-> "email", secret |-> req[q].seen, proof |-> 0]}
    /\ Releases(q) /\ Becomes(q, "idle", 0)
    /\ UNCHANGED <<there, secrets, proofs>>

-----------------------------------------------------------------------------
\* The account with a provider: a challenge, then a token that carries it

Challenge ==
    /\ challenges < MaxNonces
    /\ challenges' = challenges + 1 /\ nonces' = nonces \cup {challenges + 1}
    /\ UNCHANGED <<there, secrets, holder, req, sessions>>

ChallengeExpires ==
    /\ \E n \in nonces : nonces' = nonces \ {n}
    /\ UNCHANGED <<there, secrets, challenges, holder, req, sessions>>

\* Mutant of Taken: the challenge is looked up and left.
TakenNot(n) == nonces \cup {n}

\* GETDEL
Taken(n) == nonces \ {n}

StartSocial(q) ==
    /\ At(q, "idle")
    /\ \E n \in nonces : nonces' = Taken(n) /\ Becomes(q, "proved", n)
    /\ UNCHANGED <<there, secrets, challenges, holder, sessions>>

\* INSERT ... ON CONFLICT DO NOTHING: the new row is its own until it commits.
Upsert(q) ==
    /\ At(q, "proved") /\ Free("social")
    /\ IF there["social"] THEN Becomes(q, "selecting", req[q].seen) /\ UNCHANGED holder
       ELSE Becomes(q, "creating", req[q].seen) /\ Holds(q, "social")
    /\ UNCHANGED <<there, secrets, proofs, sessions>>

\* The session names the row, which must still be there; a lock is waited for.
IssueSocial(q) ==
    /\ \/ At(q, "creating") /\ there' = [there EXCEPT !["social"] = TRUE]
       \/ At(q, "selecting") /\ Free("social") /\ there["social"] /\ UNCHANGED there
    /\ sessions' = sessions \cup {[who |-> "social", secret |-> 0, proof |-> req[q].seen]}
    /\ Releases(q) /\ Becomes(q, "idle", 0)
    /\ UNCHANGED <<secrets, proofs>>

-----------------------------------------------------------------------------
\* The end of a session, an account, a request

\* sign_out, or its time is up.
EndSession ==
    /\ \E s \in sessions : sessions' = sessions \ {s}
    /\ UNCHANGED <<there, secrets, proofs, holder, req>>

\* delete_account: by a live session, with the row locked, on fresh proof.
StartDelete(q) ==
    /\ At(q, "idle")
    /\ \E s \in sessions :
          \/ s.who = "social" /\ \E n \in nonces :
                nonces' = Taken(n) /\ Becomes(q, "matching", n) /\ UNCHANGED holder
          \/ /\ s.who = "email" /\ Free("email")
             /\ Holds(q, "email") /\ Becomes(q, "deleting", 0) /\ UNCHANGED nonces
    /\ UNCHANGED <<there, secrets, challenges, sessions>>

\* Another identity, or an account that is gone, does not match.
Match(q) ==
    /\ At(q, "matching") /\ Free("social")
    /\ IF there["social"] THEN Holds(q, "social") /\ Becomes(q, "deleting", 0)
       ELSE Becomes(q, "idle", 0) /\ UNCHANGED holder
    /\ UNCHANGED <<there, secrets, proofs, sessions>>

\* The row goes, and its sessions with it.
FinishDelete(q) ==
    /\ At(q, "deleting")
    /\ \E who \in DOMAIN there :
          /\ holder[who] = q
          /\ there' = [there EXCEPT ![who] = FALSE]
          /\ sessions' = {s \in sessions : s.who # who}
          /\ code' = IF who = "email" THEN 0 ELSE code
    /\ Releases(q) /\ Becomes(q, "idle", 0)
    /\ UNCHANGED <<password, passwords, codes, resets, proofs>>

\* A wrong password or code, a dead connection, a crash: all is rolled back.
Abandon(q) ==
    /\ ~At(q, "idle") /\ Releases(q) /\ Becomes(q, "idle", 0)
    /\ UNCHANGED <<there, secrets, proofs, sessions>>

SignInNext ==
    \/ Register \/ Forgot \/ CodeExpires \/ Challenge \/ ChallengeExpires \/ EndSession
    \/ \E q \in Request :
          \/ StartReset(q) \/ Consume(q) \/ FinishReset(q)
          \/ StartSignIn(q) \/ LockAndRecheck(q) \/ Issue(q)
          \/ StartSocial(q) \/ Upsert(q) \/ IssueSocial(q)
          \/ StartDelete(q) \/ Match(q) \/ FinishDelete(q) \/ Abandon(q)

SignInSpec == SignInInit /\ [][SignInNext]_signInVars

-----------------------------------------------------------------------------
\* Properties

Stages == {"idle", "resetting", "consumed", "checked", "issuing", "proved", "selecting",
           "creating", "matching", "deleting"}

SignInTypeOK ==
    /\ there \in [{"email", "social"} -> BOOLEAN]
    /\ {password, passwords, code, codes, challenges} \subseteq Nat
    /\ nonces \subseteq 1..MaxNonces
    /\ holder \in [{"email", "social"} -> Request \cup {NoRequest}]
    /\ req \in [Request -> [stage : Stages, seen : Nat]]
    /\ sessions \subseteq [who : {"email", "social"}, secret : Nat, proof : Nat]
    /\ resets \in [1..MaxCodes -> Nat]

\* A live session belongs to an account that is there, and was opened with the
\* password it has now: neither a reset nor a deletion leaves one behind,
\* however long the sign-in had been hashing.
NoSessionLeftBehind ==
    \A s \in sessions : there[s.who] /\ (s.who = "email" => s.secret = password)

\* "It expires in 15 minutes and works once": the code that changes the password
\* has not done so before and is the last one mailed, whatever is mailed or
\* submitted while the new password is hashed.
CodeWorksOnce ==
    [][\A c \in 1..MaxCodes : resets'[c] # resets[c] => resets[c] = 0 /\ c = codes]_signInVars
-----------------------------------------------------------------------------
(***************************************************************************)
(* Sign-in implements AccountPromise: a request takes effect at once, when *)
(* it commits, although it read the row before it hashed or called out.    *)
(***************************************************************************)

\* Requests that will open a session with the challenge they have taken.
Proving == {q \in Request : req[q].stage \in {"proved", "selecting", "creating"}}

Accounts == INSTANCE AccountPromise WITH
    unused <- nonces \cup {req[q].seen : q \in Proving},
    given  <- challenges,
    live   <- sessions

\* No request acts on what it remembers: every session that opens, every
\* password that is set and every account that goes is a step on the account
\* of that moment, and no challenge opens two sessions.
ActsOnTheMoment == Accounts!Spec

=============================================================================
