--------------------------- MODULE AccountPromise ---------------------------
(***************************************************************************)
(* What signing in promises a person, with no hashing, no transaction and  *)
(* no lock in it: everything happens in one step, on the account as it is  *)
(* at that step.  A session opens with the password of the moment, a       *)
(* mailed code works while it is the latest, a new password or the end of  *)
(* the account ends the sessions there are, and a provider's challenge     *)
(* opens one session or none.                                              *)
(***************************************************************************)
EXTENDS Naturals

VARIABLES
    there,      \* [{"email", "social"} -> BOOLEAN]
    password,   \* the account's password: the number of the latest one
    passwords,  \* passwords ever set
    code,       \* the mailed code that still works, 0 if none
    codes,      \* codes ever mailed
    unused,     \* challenges that may still open a session
    given,      \* challenges ever given
    live        \* sessions: [who, secret, proof]

vars == <<there, password, passwords, code, codes, unused, given, live>>

Of(who) == {s \in live : s.who = who}

Init ==
    /\ there = [who \in {"email", "social"} |-> FALSE]
    /\ password = 0 /\ passwords = 0 /\ code = 0 /\ codes = 0
    /\ unused = {} /\ given = 0
    /\ live = {}

\* The next password is set.
NewPassword == passwords' = passwords + 1 /\ password' = passwords + 1 /\ code' = 0

Register ==
    /\ ~there["email"]
    /\ there' = [there EXCEPT !["email"] = TRUE]
    /\ NewPassword
    /\ live' = live \cup {[who |-> "email", secret |-> password', proof |-> 0]}
    /\ UNCHANGED <<codes, unused, given>>

SignInNow ==
    /\ there["email"]
    /\ live' = live \cup {[who |-> "email", secret |-> password, proof |-> 0]}
    /\ UNCHANGED <<there, password, passwords, code, codes, unused, given>>

MailCode ==
    /\ there["email"]
    /\ codes' = codes + 1 /\ code' = codes + 1
    /\ UNCHANGED <<there, password, passwords, unused, given, live>>

ForgetCode ==
    /\ code' = 0
    /\ UNCHANGED <<there, password, passwords, codes, unused, given, live>>

\* With the latest code; nobody who was signed in stays so.
ResetPassword ==
    /\ there["email"] /\ code # 0
    /\ NewPassword
    /\ live' = live \ Of("email")
    /\ UNCHANGED <<there, codes, unused, given>>

GiveChallenge ==
    /\ given' = given + 1 /\ unused' = unused \cup {given + 1}
    /\ UNCHANGED <<there, password, passwords, code, codes, live>>

\* It expires, proves somebody's right to delete, or its request fails.
SpendChallenge ==
    /\ \E n \in unused : unused' = unused \ {n}
    /\ UNCHANGED <<there, password, passwords, code, codes, given, live>>

\* The first session makes the account.
ProviderSignIn ==
    /\ \E n \in unused :
          /\ unused' = unused \ {n}
          /\ live' = live \cup {[who |-> "social", secret |-> 0, proof |-> n]}
    /\ there' = [there EXCEPT !["social"] = TRUE]
    /\ UNCHANGED <<password, passwords, code, codes, given>>

EndSession ==
    /\ \E s \in live : live' = live \ {s}
    /\ UNCHANGED <<there, password, passwords, code, codes, unused, given>>

Delete(who) ==
    /\ there[who]
    /\ there' = [there EXCEPT ![who] = FALSE]
    /\ live' = live \ Of(who)
    /\ code' = IF who = "email" THEN 0 ELSE code
    /\ UNCHANGED <<password, passwords, codes, unused, given>>

Next ==
    \/ Register \/ SignInNow \/ MailCode \/ ForgetCode \/ ResetPassword
    \/ GiveChallenge \/ SpendChallenge \/ ProviderSignIn \/ EndSession
    \/ \E who \in {"email", "social"} : Delete(who)

Spec == Init /\ [][Next]_vars

=============================================================================
