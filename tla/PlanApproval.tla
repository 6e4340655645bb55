---------------------------- MODULE PlanApproval ----------------------------
(***************************************************************************)
(* What the approval gate promises the group, with no database in it: one  *)
(* plan is current; anybody may draft a change to the current plan; a      *)
(* draft is adopted or declined once, and only while the plan it was drawn *)
(* on is still the current one.                                            *)
(***************************************************************************)
CONSTANTS
    Plan,   \* plans and drafts
    None    \* no plan, and not in Plan

VARIABLES
    current,  \* the plan the group follows
    fate,     \* what became of each plan
    basis     \* the plan a draft was drawn on

vars == <<current, fate, basis>>

Fate == {"unwritten", "draft", "adopted", "declined"}

TypeOK ==
    /\ current \in Plan \cup {None}
    /\ fate \in [Plan -> Fate]
    /\ basis \in [Plan -> Plan \cup {None}]

Init ==
    /\ current = None
    /\ fate = [p \in Plan |-> "unwritten"]
    /\ basis = [p \in Plan |-> None]

\* The first plan needs nobody's approval.
FirstPlan(p) ==
    /\ current = None
    /\ fate[p] = "unwritten"
    /\ current' = p
    /\ fate' = [fate EXCEPT ![p] = "adopted"]
    /\ UNCHANGED basis

Draft(p) ==
    /\ current # None
    /\ fate[p] = "unwritten"
    /\ fate' = [fate EXCEPT ![p] = "draft"]
    /\ basis' = [basis EXCEPT ![p] = current]
    /\ UNCHANGED current

Adopt(p) ==
    /\ fate[p] = "draft"
    /\ basis[p] = current
    /\ current' = p
    /\ fate' = [fate EXCEPT ![p] = "adopted"]
    /\ UNCHANGED basis

Decline(p) ==
    /\ fate[p] = "draft"
    /\ basis[p] = current
    /\ fate' = [fate EXCEPT ![p] = "declined"]
    /\ UNCHANGED <<current, basis>>

Next == \E p \in Plan : FirstPlan(p) \/ Draft(p) \/ Adopt(p) \/ Decline(p)

Spec == Init /\ [][Next]_vars

=============================================================================
