---------------------------- MODULE LinkResolution ----------------------------
(***************************************************************************)
(* How the worker turns pasted links into cards before discovery: for each *)
(* pending link, read what its platform publishes, extract the places the  *)
(* caption names (from the cover too, when the caption names none), and    *)
(* take the first that is found in a city of the trip.  The body of a      *)
(* tracked run: every call passes the harness.                             *)
(*                                                                         *)
(* A link's outcome is one transaction after its last call.  The links     *)
(* here are of one platform and name different places, so that no call is  *)
(* asked twice with the same arguments.                                    *)
(***************************************************************************)
EXTENDS Harness

CONSTANTS
    Link,
    Named,      \* links whose place a member has typed in
    Covered,    \* links with a cover to read
    CityCount,  \* cities of the trip, searched in order
    MaxNames    \* most places one caption names

ASSUME LinkAssumption ==
    /\ Named \subseteq Link /\ Covered \subseteq Link
    /\ CityCount \in Nat \ {0} /\ MaxNames \in Nat
    /\ Link # {}

VARIABLES
    at,        \* the call the body waits for, or "loop"
    current,   \* the link being resolved
    asking,    \* [name, city, names]: the place search under way
    links,     \* [Link -> "pending", "ready" or "failed"], as saved
    todo,      \* links of the frozen inputs not looked at yet
    unread     \* history: links whose platform could not be asked

linkVars == <<at, current, asking, links, todo, unread>>

\* What the calls show the detector: the state slices name no link.
CaptionSlice == "caption"
CoverReadSlice == "cover read"
CoverTextSlice == "cover text"
ReadTool(l) == <<"read", l>>
CoverTool(l) == <<"cover", l>>
FindTool(l, n, c) == <<"find", l, n, c>>

\* The names one link's search may hold.
NamesOf(l) == 1..(IF l \in Named THEN 1 ELSE MaxNames)

ASSUME LinkCallsAssumption ==
    /\ {CaptionSlice, CoverReadSlice, CoverTextSlice} \subseteq State
    /\ \A l \in Link : \A n \in NamesOf(l), c \in 1..CityCount : FindTool(l, n, c) \in Tool
    /\ \A l \in Link \ Named : ReadTool(l) \in Tool
    /\ \A l \in Covered \ Named : CoverTool(l) \in Tool

NoSearch == [name |-> 0, city |-> 0, names |-> 0]

LinkInit ==
    /\ at = "loop" /\ current \in {CHOOSE l \in Link : TRUE} /\ asking = NoSearch
    /\ links \in [Link -> {"pending", "failed"}]
    /\ todo = Link /\ unread = {}

-----------------------------------------------------------------------------
\* The searches and the outcomes

Extracts(stage) ==
    /\ Enter("llm", CaptionSlice, NoTool) /\ at' = stage
    /\ UNCHANGED <<current, asking, links, todo, unread>>

\* The n-th of k names, in the c-th city.
Finds(n, c, k) ==
    /\ Enter("tool", NoState, FindTool(current', n, c)) /\ at' = "find"
    /\ asking' = [name |-> n, city |-> c, names |-> k]
    /\ UNCHANGED <<links, unread>>

\* Mutant of Closed: a link that names no place is left as it was.
ClosedIfReady(status) ==
    IF status = "ready" THEN [links EXCEPT ![current] = status] ELSE links

Closed(status) == [links EXCEPT ![current] = status]

Closes(status) ==
    /\ pc = "body" /\ links' = Closed(status) /\ at' = "loop"
    /\ UNCHANGED <<harnessVars, current, asking, todo, unread>>

-----------------------------------------------------------------------------
\* The worker's loop and resolve_link_attachment

\* Saved as resolved or failed in the meantime: skipped.
SkipLink ==
    /\ pc = "body" /\ at = "loop"
    /\ \E l \in todo : links[l] # "pending" /\ todo' = todo \ {l}
    /\ UNCHANGED <<harnessVars, at, current, asking, links, unread>>

BeginLink ==
    /\ at = "loop"
    /\ \E l \in todo :
          /\ links[l] = "pending" /\ todo' = todo \ {l} /\ current' = l
          /\ \/ l \in Named /\ Finds(1, 1, 1)
             \/ /\ l \notin Named /\ Enter("tool", NoState, ReadTool(l)) /\ at' = "read"
                /\ UNCHANGED <<asking, links, unread>>

\* A caption, or a post that publishes none.
ReadAnswered == at = "read" /\ (Extracts("extract") \/ Closes("failed"))

\* No verdict about the post leaves the link pending; a post that is gone or
\* private fails it.  Errors of the other calls unwind the run.
LinkCallFails ==
    /\ CallFails
    /\ IF pc' = "body"
       THEN /\ at = "read" /\ at' = "loop"
            /\ \/ unread' = unread \cup {current} /\ UNCHANGED links
               \/ links' = Closed("failed") /\ UNCHANGED unread
            /\ UNCHANGED <<current, asking, todo>>
       ELSE UNCHANGED linkVars

\* The names of the caption, or of caption and cover.
NamesFound ==
    /\ at \in {"extract", "again"} /\ UNCHANGED <<current, todo>>
    /\ \E k \in 1..MaxNames : Finds(1, 1, k)

NamesNothing ==
    \/ at = "again" /\ Closes("failed")
    \/ at = "extract" /\ current \notin Covered /\ Closes("failed")
    \/ /\ at = "extract" /\ current \in Covered
       /\ Enter("tool", CoverReadSlice, CoverTool(current)) /\ at' = "cover"
       /\ UNCHANGED <<current, asking, links, todo, unread>>

\* The cover is transcribed, has been transcribed this week, or is not there.
CoverRead ==
    \/ /\ at = "cover" /\ Enter("llm", CoverTextSlice, NoTool) /\ at' = "vision"
       /\ UNCHANGED <<current, asking, links, todo, unread>>
    \/ at \in {"cover", "vision"} /\ (Extracts("again") \/ Closes("failed"))

\* The first city with a match decides; a match that is no place to visit, or
\* no match in any city, leaves the next name.
SearchAnswered ==
    /\ at = "find"
    /\ \/ Closes("ready")
       \/ /\ asking.city < CityCount /\ UNCHANGED <<current, todo>>
          /\ Finds(asking.name, asking.city + 1, asking.names)
       \/ /\ asking.name < asking.names /\ UNCHANGED <<current, todo>>
          /\ Finds(asking.name + 1, 1, asking.names)
       \/ asking.name = asking.names /\ Closes("failed")

\* A refusal or a reply that cannot be read.
LinkRaises == at \in {"extract", "vision", "again"} /\ BodyRaises /\ UNCHANGED linkVars

\* The graph runs next: its calls are not followed here.
LinksDone == at = "loop" /\ todo = {} /\ BodyReturns /\ UNCHANGED linkVars

LinkBoundary ==
    /\ \/ StartRun \/ Persist \/ PersistFails \/ ToolAnswers \/ ModelAnswers \/ Meter
       \/ Settle \/ SettleFails \/ Crash
    /\ UNCHANGED linkVars

LinkNext ==
    \/ SkipLink \/ BeginLink \/ ReadAnswered \/ LinkCallFails \/ NamesFound \/ NamesNothing
    \/ CoverRead \/ SearchAnswered \/ LinkRaises \/ LinksDone \/ LinkBoundary

LinkSpec == HarnessInit /\ LinkInit /\ [][LinkNext]_<<harnessVars, linkVars>>

-----------------------------------------------------------------------------
\* Properties

LinkTypeOK ==
    /\ HarnessTypeOK
    /\ at \in {"loop", "read", "extract", "cover", "vision", "again", "find"}
    /\ current \in Link /\ links \in [Link -> {"pending", "ready", "failed"}]
    /\ asking \in [name : Nat, city : 0..CityCount, names : Nat]
    /\ todo \subseteq Link /\ unread \subseteq Link

\* "Every path out of here is terminal": a run that ends ok leaves no link
\* pending but those whose platform could not be asked at all.
NoneLeftPending ==
    row.status = "ok" => \A l \in Link : links[l] = "pending" => l \in unread

\* "No NoProgress or ToolCycle on a benign fixture", where the benign fixture
\* is a list of different links, each resolved once.
BenignLinksProgress == row.status \notin {"no_progress", "tool_cycle"}
=============================================================================
