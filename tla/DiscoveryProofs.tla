--------------------------- MODULE DiscoveryProofs ---------------------------
(***************************************************************************)
(* Proofs about the parts of discovery: the harness every tracked run      *)
(* passes, the pasted links resolved under it, the social search of a      *)
(* city and the pool the trip's cards are picked from.                     *)
(***************************************************************************)
EXTENDS LinkResolution, SocialDiscovery, CityPool, FiniteSetTheorems, SequenceTheorems,
        TLAPS

(***************************************************************************)
(* The harness                                                             *)
(***************************************************************************)

\* A row is running until the run is over, and a run only goes on within its
\* limits: the gate stops the call after the last step, the meter the run after
\* the last price.
WithinLimits ==
    /\ pc \in {"body", "gate", "call", "meter", "unwind"} => row.status = "running"
    /\ pc = "gate" /\ fault = "none" => steps <= MaxSteps
    /\ pc \in {"idle", "body", "gate", "call"} => cost <= MaxCost
    /\ pc = "meter" /\ fault = "none" => cost <= MaxCost

HarnessInv == HarnessTypeOK /\ WithinLimits /\ CallsAccounted

\* The detector's deque holds the last Window items.
LEMMA SeenTyped ==
    ASSUME NEW S, NEW window \in Seq(S), Len(window) <= Window, NEW item \in S
    PROVE  Seen(window, item) \in Seq(S) /\ Len(Seen(window, item)) <= Window
  <1>1. Window \in Nat \ {0}
    BY HarnessAssumption
  <1>2. CASE Len(window) < Window
    BY <1>1, <1>2 DEF Seen
  <1>3. CASE ~(Len(window) < Window)
    <2>1. window # <<>>
      BY <1>1, <1>3
    <2>2. Tail(window) \in Seq(S) /\ Len(Tail(window)) = Len(window) - 1
      BY <2>1
    <2>3. QED
      BY <1>1, <1>3, <2>2 DEF Seen
  <1>4. QED
    BY <1>2, <1>3

LEMMA HarnessStarts == HarnessInit => HarnessInv
  BY HarnessAssumption
  DEF HarnessInit, HarnessInv, HarnessTypeOK, WithinLimits, CallsAccounted, Faults

\* A call that enters the gate is charged, and passes it only within the limit.
LEMMA EnterKept ==
    ASSUME HarnessInv, NEW k \in {"llm", "tool"}, NEW s \in State \cup {NoState},
           NEW t \in Tool \cup {NoTool}, Enter(k, s, t)
    PROVE  HarnessInv'
  <1>1. /\ pc = "body" /\ pc' = "gate" /\ kind' = k /\ steps' = steps + 1
        /\ cost' = cost /\ row' = row
        /\ fault' \in {"budget_exceeded", "no_progress", "tool_cycle", "none"}
        /\ fault' = "none" => ~(steps + 1 > MaxSteps)
        /\ seenStates' = seenStates \/ (s # NoState /\ seenStates' = Seen(seenStates, s))
        /\ seenTools' = seenTools \/ (t # NoTool /\ seenTools' = Seen(seenTools, t))
    BY DEF Enter, Charged, OverSteps
  <1>2. HarnessTypeOK'
    <2>1. seenStates' \in Seq(State) /\ Len(seenStates') <= Window
      BY <1>1, SeenTyped DEF HarnessInv, HarnessTypeOK
    <2>2. seenTools' \in Seq(Tool) /\ Len(seenTools') <= Window
      BY <1>1, SeenTyped DEF HarnessInv, HarnessTypeOK
    <2>3. QED
      BY <1>1, <2>1, <2>2 DEF HarnessInv, HarnessTypeOK, Faults
  <1>3. WithinLimits' /\ CallsAccounted'
    BY <1>1, HarnessAssumption DEF HarnessInv, HarnessTypeOK, WithinLimits, CallsAccounted
  <1>4. QED
    BY <1>2, <1>3 DEF HarnessInv

LEMMA HarnessStepKept == HarnessInv /\ [HarnessNext]_harnessVars => HarnessInv'
  <1> SUFFICES ASSUME HarnessInv, [HarnessNext]_harnessVars
               PROVE  HarnessInv'
    OBVIOUS
  <1> USE DEF HarnessInv, HarnessTypeOK, WithinLimits, CallsAccounted, Faults
  <1>0. MaxSteps \in Nat /\ MaxCost \in Nat /\ CallCost \subseteq Nat
    BY HarnessAssumption
  <1>1. CASE UNCHANGED harnessVars
    BY <1>1 DEF harnessVars
  <1>2. CASE StartRun
    BY <1>2 DEF StartRun, counters, detector
  <1>3. CASE Persist
    BY <1>3 DEF Persist, Saved, counters, detector
  <1>4. CASE PersistFails
    BY <1>4 DEF PersistFails, counters, detector
  <1>5. CASE ToolAnswers
    BY <1>5 DEF ToolAnswers, counters, detector
  <1>6. CASE ModelAnswers
    <2>1. PICK c \in CallCost :
              /\ cost' = cost + c
              /\ fault' = IF OverCost(cost + c) THEN "budget_exceeded" ELSE "none"
      BY <1>6 DEF ModelAnswers
    <2>2. cost + c \in Nat
      BY <1>0
    <2>3. QED
      BY <1>0, <1>6, <2>1, <2>2 DEF ModelAnswers, OverCost, detector
  <1>7. CASE Meter
    BY <1>7 DEF Meter, Saved, counters, detector
  <1>8. CASE CallFails
    BY <1>8 DEF CallFails, counters, detector
  <1>9. CASE Settle
    BY <1>9 DEF Settle, Saved, counters, detector
  <1>10. CASE SettleFails \/ Crash
    BY <1>10 DEF SettleFails, Crash, counters, detector
  <1>11. CASE AnyCall
    <2>1. NoTool \in Tool \cup {NoTool} /\ Tool \subseteq Tool \cup {NoTool}
      OBVIOUS
    <2>2. PICK k \in {"llm", "tool"}, s \in State \cup {NoState}, t \in Tool \cup {NoTool} :
              Enter(k, s, t)
      BY <1>11, <2>1, Zenon DEF AnyCall
    <2>3. QED
      BY <2>2, EnterKept
  <1>12. CASE BodyRaises \/ BodyReturns \/ Retype
    BY <1>12 DEF BodyRaises, BodyReturns, Retype, counters, detector
  <1>13. QED
    BY <1>1, <1>2, <1>3, <1>4, <1>5, <1>6, <1>7, <1>8, <1>9, <1>10, <1>11, <1>12
    DEF HarnessNext, HarnessStep, Boundary

\* Whatever a body asks for, the counters, the deques and the row keep their
\* types.
THEOREM HarnessTypeCorrect == HarnessSpec => []HarnessTypeOK
  <1>1. HarnessInv => HarnessTypeOK
    BY DEF HarnessInv
  <1>2. QED
    BY <1>1, HarnessStarts, HarnessStepKept, PTL DEF HarnessSpec

\* No provider is called beyond the limits, or before the call is in the saved
\* row, whatever the body and whatever fails.
THEOREM CallsAccountedHolds == HarnessSpec => []CallsAccounted
  <1>1. HarnessInv => CallsAccounted
    BY DEF HarnessInv
  <1>2. QED
    BY <1>1, HarnessStarts, HarnessStepKept, PTL DEF HarnessSpec

(***************************************************************************)
(* Pasted links, a body of a tracked run                                   *)
(***************************************************************************)

\* The calls a link's search still makes are calls it may make.
SearchStands ==
    /\ at \in {"read", "extract", "cover", "vision", "again"} => current \notin Named
    /\ at = "find" => /\ asking.name \in NamesOf(current) /\ asking.names \in NamesOf(current)
                      /\ asking.city \in 1..CityCount

\* A pending link is one to come, the one in hand or one that could not be read;
\* and the run is only over when none is to come or in hand.
NoneForgotten ==
    /\ \A l \in Link : links[l] = "pending" =>
          l \in unread \/ l \in todo \/ (at # "loop" /\ l = current)
    /\ pc = "unwind" /\ fault = "none" => at = "loop" /\ todo = {}
    /\ row.status = "ok" => pc = "over" /\ at = "loop" /\ todo = {}

LinkInv == HarnessInv /\ LinkTypeOK /\ SearchStands /\ NoneForgotten

LEMMA LinksStart == HarnessInit /\ LinkInit => LinkInv
  <1> SUFFICES ASSUME HarnessInit, LinkInit PROVE LinkInv
    OBVIOUS
  <1>1. HarnessInv
    BY HarnessStarts
  <1>2. current \in Link
    BY LinkAssumption DEF LinkInit
  <1>3. LinkTypeOK
    BY <1>1, <1>2, LinkAssumption DEF HarnessInv, LinkInit, LinkTypeOK, NoSearch
  <1>4. SearchStands /\ NoneForgotten
    BY DEF HarnessInit, LinkInit, SearchStands, NoneForgotten
  <1>5. QED
    BY <1>1, <1>3, <1>4 DEF LinkInv

\* A place search asks for one of its link's names.
LEMMA FindsAsk ==
    ASSUME NEW n, NEW c \in 1..CityCount, NEW k, current' \in Link,
           n \in NamesOf(current'), k \in NamesOf(current'), Finds(n, c, k)
    PROVE  /\ AnyCall
           /\ asking' \in [name : Nat, city : 0..CityCount, names : Nat]
           /\ asking'.name = n /\ asking'.city = c /\ asking'.names = k
  <1>1. FindTool(current', n, c) \in Tool
    BY LinkCallsAssumption
  <1>2. Enter("tool", NoState, FindTool(current', n, c))
    BY DEF Finds
  <1>3. AnyCall
    BY <1>1, <1>2 DEF AnyCall
  <1>4. n \in Nat /\ k \in Nat /\ CityCount \in Nat
    BY LinkAssumption DEF NamesOf
  <1>5. QED
    BY <1>3, <1>4 DEF Finds

\* What a step of the body that makes a call, or answers for a link, leaves alone.
LEMMA EnterControl ==
    ASSUME NEW k, NEW s, NEW t, Enter(k, s, t)
    PROVE  pc' = "gate" /\ row' = row
  BY DEF Enter

LEMMA ClosesKept ==
    ASSUME LinkInv, NEW status \in {"ready", "failed"}, Closes(status)
    PROVE  LinkInv' /\ UNCHANGED harnessVars
  <1>1. /\ pc = "body" /\ links' = [links EXCEPT ![current] = status] /\ at' = "loop"
        /\ UNCHANGED harnessVars
        /\ current' = current /\ asking' = asking /\ todo' = todo /\ unread' = unread
    BY DEF Closes, Closed
  <1>2. HarnessInv'
    BY <1>1, HarnessStepKept DEF LinkInv
  <1>3. LinkTypeOK'
    BY <1>1, <1>2 DEF HarnessInv, LinkInv, LinkTypeOK
  <1>4. SearchStands' /\ NoneForgotten'
    BY <1>1 DEF harnessVars, LinkInv, LinkTypeOK, HarnessTypeOK, SearchStands, NoneForgotten
  <1>5. QED
    BY <1>1, <1>2, <1>3, <1>4 DEF LinkInv

LEMMA ExtractsKept ==
    ASSUME LinkInv, NEW turn \in {"extract", "again"}, Extracts(turn),
           at \in {"read", "cover", "vision"}
    PROVE  LinkInv' /\ AnyCall
  <1>1. /\ Enter("llm", CaptionSlice, NoTool) /\ at' = turn
        /\ current' = current /\ asking' = asking /\ links' = links /\ todo' = todo
        /\ unread' = unread
    BY DEF Extracts
  <1>2. AnyCall
    BY <1>1, LinkCallsAssumption DEF AnyCall
  <1>3. HarnessInv'
    BY <1>2, HarnessStepKept DEF LinkInv, HarnessNext, HarnessStep
  <1>4. LinkTypeOK'
    BY <1>1, <1>3 DEF HarnessInv, LinkInv, LinkTypeOK
  <1>5. SearchStands' /\ NoneForgotten'
    BY <1>1, EnterControl DEF LinkInv, SearchStands, NoneForgotten
  <1>6. QED
    BY <1>2, <1>3, <1>4, <1>5 DEF LinkInv

LEMMA FindsKept ==
    ASSUME LinkInv, NEW n, NEW c \in 1..CityCount, NEW k, current' = current, todo' = todo,
           at # "loop",
           n \in NamesOf(current), k \in NamesOf(current), Finds(n, c, k)
    PROVE  LinkInv' /\ AnyCall
  <1>1. /\ Enter("tool", NoState, FindTool(current', n, c)) /\ at' = "find"
        /\ links' = links /\ unread' = unread
    BY DEF Finds
  <1>2. /\ AnyCall
        /\ asking' \in [name : Nat, city : 0..CityCount, names : Nat]
        /\ asking'.name = n /\ asking'.city = c /\ asking'.names = k
    BY FindsAsk DEF LinkInv, LinkTypeOK
  <1>3. HarnessInv'
    BY <1>2, HarnessStepKept DEF LinkInv, HarnessNext, HarnessStep
  <1>4. LinkTypeOK'
    BY <1>1, <1>2, <1>3 DEF HarnessInv, LinkInv, LinkTypeOK
  <1>5. SearchStands' /\ NoneForgotten'
    BY <1>1, <1>2, EnterControl DEF LinkInv, SearchStands, NoneForgotten
  <1>6. QED
    BY <1>2, <1>3, <1>4, <1>5 DEF LinkInv

LEMMA BeginKept ==
    ASSUME LinkInv, BeginLink
    PROVE  LinkInv' /\ AnyCall
  <1>1. PICK l \in todo :
            /\ links[l] = "pending" /\ todo' = todo \ {l} /\ current' = l
            /\ \/ l \in Named /\ Finds(1, 1, 1)
               \/ /\ l \notin Named /\ Enter("tool", NoState, ReadTool(l)) /\ at' = "read"
                  /\ UNCHANGED <<asking, links, unread>>
    BY DEF BeginLink
  <1>2. l \in Link /\ at = "loop" /\ CityCount \in Nat \ {0}
    BY LinkAssumption DEF BeginLink, LinkInv, LinkTypeOK
  <1>3. AnyCall
    <2>1. CASE l \in Named /\ Finds(1, 1, 1)
      <3>1. 1 \in NamesOf(l) /\ 1 \in 1..CityCount
        BY <1>2, <2>1 DEF NamesOf
      <3>2. QED
        BY <1>1, <1>2, <2>1, <3>1, FindsAsk
    <2>2. CASE l \notin Named /\ Enter("tool", NoState, ReadTool(l))
      BY <1>2, <2>2, LinkCallsAssumption DEF AnyCall
    <2>3. QED
      BY <1>1, <2>1, <2>2
  <1>4. HarnessInv'
    BY <1>3, HarnessStepKept DEF LinkInv, HarnessNext, HarnessStep
  <1>5. /\ links' = links /\ unread' = unread /\ pc' = "gate" /\ row' = row
        /\ at' \in {"read", "find"}
    BY <1>1, EnterControl DEF Finds
  <1>6. asking' \in [name : Nat, city : 0..CityCount, names : Nat] /\ SearchStands'
    <2>1. CASE l \in Named /\ Finds(1, 1, 1)
      <3>1. 1 \in NamesOf(l) /\ 1 \in 1..CityCount
        BY <1>2, <2>1 DEF NamesOf
      <3>2. /\ asking' \in [name : Nat, city : 0..CityCount, names : Nat]
            /\ asking'.name = 1 /\ asking'.city = 1 /\ asking'.names = 1 /\ at' = "find"
        BY <1>1, <1>2, <2>1, <3>1, FindsAsk DEF Finds
      <3>3. QED
        BY <1>1, <3>1, <3>2 DEF SearchStands
    <2>2. CASE l \notin Named /\ at' = "read" /\ UNCHANGED <<asking, links, unread>>
      BY <1>1, <2>2 DEF LinkInv, LinkTypeOK, SearchStands
    <2>3. QED
      BY <1>1, <2>1, <2>2
  <1>7. LinkTypeOK'
    BY <1>1, <1>2, <1>4, <1>5, <1>6 DEF HarnessInv, LinkInv, LinkTypeOK
  <1>8. NoneForgotten'
    BY <1>1, <1>2, <1>5 DEF LinkInv, LinkTypeOK, NoneForgotten
  <1>9. QED
    BY <1>3, <1>4, <1>6, <1>7, <1>8 DEF LinkInv

\* Every step of the body keeps the invariant and is a step of the harness.
LEMMA LinkStep ==
    ASSUME LinkInv, [LinkNext]_<<harnessVars, linkVars>>
    PROVE  LinkInv' /\ [HarnessNext]_harnessVars
  <1>0. /\ CityCount \in Nat \ {0} /\ MaxNames \in Nat
        /\ current \in Link /\ asking \in [name : Nat, city : 0..CityCount, names : Nat]
        /\ \A l \in Link \ Named : NamesOf(l) = 1..MaxNames
    BY LinkAssumption DEF LinkInv, LinkTypeOK, NamesOf
  <1>a. AnyCall => HarnessNext
    BY DEF HarnessNext, HarnessStep
  <1>1. CASE UNCHANGED <<harnessVars, linkVars>>
    <2>1. UNCHANGED harnessVars /\ UNCHANGED linkVars
      BY <1>1
    <2>2. HarnessInv'
      BY <2>1, HarnessStepKept DEF LinkInv
    <2>3. LinkTypeOK' /\ SearchStands' /\ NoneForgotten'
      BY <2>1, <2>2 DEF harnessVars, linkVars, HarnessInv, LinkInv, LinkTypeOK, SearchStands,
                       NoneForgotten
    <2>4. QED
      BY <2>1, <2>2, <2>3 DEF LinkInv
  <1>2. CASE SkipLink
    <2>1. UNCHANGED harnessVars
      BY <1>2 DEF SkipLink
    <2>2. HarnessInv'
      BY <2>1, HarnessStepKept DEF LinkInv
    <2>3. LinkTypeOK' /\ SearchStands' /\ NoneForgotten'
      BY <1>2, <2>1, <2>2 DEF SkipLink, harnessVars, HarnessInv, LinkInv, LinkTypeOK, SearchStands,
                              NoneForgotten
    <2>4. QED
      BY <2>1, <2>2, <2>3 DEF LinkInv
  <1>3. CASE BeginLink
    BY <1>3, <1>a, BeginKept
  <1>4. CASE ReadAnswered
    BY <1>4, <1>a, ClosesKept, ExtractsKept DEF ReadAnswered
  <1>5. CASE LinkCallFails
    <2>1. /\ CallFails /\ pc = "call" /\ row' = row
          /\ pc' \in {"body", "unwind"} /\ (pc' = "unwind" => fault' = "failed")
      BY <1>5 DEF LinkCallFails, CallFails
    <2>2. HarnessNext /\ HarnessInv'
      BY <2>1, HarnessStepKept DEF LinkInv, HarnessNext, HarnessStep, Boundary
    <2>3. CASE pc' = "body"
      <3>1. /\ at = "read" /\ at' = "loop"
            /\ \/ unread' = unread \cup {current} /\ links' = links
               \/ links' = [links EXCEPT ![current] = "failed"] /\ unread' = unread
            /\ current' = current /\ asking' = asking /\ todo' = todo
        BY <1>5, <2>3 DEF LinkCallFails, Closed
      <3>2. LinkTypeOK'
        BY <1>0, <2>2, <3>1 DEF HarnessInv, LinkInv, LinkTypeOK
      <3>3. SearchStands' /\ NoneForgotten'
        BY <1>0, <2>1, <2>3, <3>1 DEF LinkInv, LinkTypeOK, SearchStands, NoneForgotten
      <3>4. QED
        BY <2>2, <3>2, <3>3 DEF LinkInv
    <2>4. CASE pc' = "unwind"
      <3>1. UNCHANGED linkVars
        BY <1>5, <2>4 DEF LinkCallFails
      <3>2. LinkTypeOK' /\ SearchStands' /\ NoneForgotten'
        BY <2>1, <2>2, <2>4, <3>1
        DEF linkVars, HarnessInv, LinkInv, LinkTypeOK, SearchStands, NoneForgotten
      <3>3. QED
        BY <2>2, <3>2 DEF LinkInv
    <2>5. QED
      BY <2>1, <2>3, <2>4
  <1>6. CASE NamesFound
    <2>1. PICK k \in 1..MaxNames : Finds(1, 1, k)
      BY <1>6 DEF NamesFound
    <2>2. current \notin Named
      BY <1>6 DEF NamesFound, LinkInv, SearchStands
    <2>3. 1 \in NamesOf(current) /\ k \in NamesOf(current) /\ 1 \in 1..CityCount
      BY <1>0, <2>2
    <2>4. QED
      BY <1>6, <1>a, <2>1, <2>3, FindsKept DEF NamesFound
  <1>7. CASE NamesNothing
    <2>1. CASE Closes("failed")
      BY <2>1, ClosesKept
    <2>2. CASE /\ at = "extract" /\ current \in Covered
               /\ Enter("tool", CoverReadSlice, CoverTool(current)) /\ at' = "cover"
               /\ UNCHANGED <<current, asking, links, todo, unread>>
      <3>1. current \notin Named
        BY <2>2 DEF LinkInv, SearchStands
      <3>2. AnyCall
        BY <2>2, <3>1, LinkCallsAssumption DEF AnyCall
      <3>3. HarnessInv'
        BY <1>a, <3>2, HarnessStepKept DEF LinkInv
      <3>4. LinkTypeOK'
        BY <2>2, <3>3 DEF HarnessInv, LinkInv, LinkTypeOK
      <3>5. SearchStands' /\ NoneForgotten'
        BY <2>2, EnterControl DEF LinkInv, SearchStands, NoneForgotten
      <3>6. QED
        BY <1>a, <3>2, <3>3, <3>4, <3>5 DEF LinkInv
    <2>3. QED
      BY <1>7, <2>1, <2>2 DEF NamesNothing
  <1>8. CASE CoverRead
    <2>1. CASE at \in {"cover", "vision"} /\ (Extracts("again") \/ Closes("failed"))
      BY <1>a, <2>1, ClosesKept, ExtractsKept
    <2>2. CASE /\ at = "cover" /\ Enter("llm", CoverTextSlice, NoTool) /\ at' = "vision"
               /\ UNCHANGED <<current, asking, links, todo, unread>>
      <3>1. AnyCall
        BY <2>2, LinkCallsAssumption DEF AnyCall
      <3>2. HarnessInv'
        BY <1>a, <3>1, HarnessStepKept DEF LinkInv
      <3>3. LinkTypeOK'
        BY <2>2, <3>2 DEF HarnessInv, LinkInv, LinkTypeOK
      <3>4. SearchStands' /\ NoneForgotten'
        BY <2>2, EnterControl DEF LinkInv, SearchStands, NoneForgotten
      <3>5. QED
        BY <1>a, <3>1, <3>2, <3>3, <3>4 DEF LinkInv
    <2>3. QED
      BY <1>8, <2>1, <2>2 DEF CoverRead
  <1>9. CASE SearchAnswered
    <2>1. at = "find"
      BY <1>9 DEF SearchAnswered
    <2>2. /\ asking.name \in NamesOf(current) /\ asking.names \in NamesOf(current)
          /\ asking.city \in 1..CityCount
      BY <2>1 DEF LinkInv, SearchStands
    <2>3. CASE Closes("ready") \/ Closes("failed")
      BY <2>3, ClosesKept
    <2>4. CASE /\ asking.city < CityCount /\ UNCHANGED <<current, todo>>
               /\ Finds(asking.name, asking.city + 1, asking.names)
      <3>1. asking.city + 1 \in 1..CityCount
        BY <1>0, <2>2, <2>4
      <3>2. QED
        BY <1>a, <2>1, <2>2, <2>4, <3>1, FindsKept
    <2>5. CASE /\ asking.name < asking.names /\ UNCHANGED <<current, todo>>
               /\ Finds(asking.name + 1, 1, asking.names)
      <3>1. asking.name + 1 \in NamesOf(current) /\ 1 \in 1..CityCount
        BY <1>0, <2>2, <2>5 DEF NamesOf
      <3>2. QED
        BY <1>a, <2>1, <2>2, <2>5, <3>1, FindsKept
    <2>6. QED
      BY <1>9, <2>3, <2>4, <2>5 DEF SearchAnswered
  <1>10. CASE LinkRaises \/ LinksDone
    <2>1. /\ HarnessNext /\ UNCHANGED linkVars /\ pc' = "unwind" /\ row' = row
          /\ pc = "body" /\ (fault' = "none" => at = "loop" /\ todo = {})
      BY <1>10 DEF LinkRaises, LinksDone, BodyRaises, BodyReturns, HarnessNext, HarnessStep
    <2>2. HarnessInv'
      BY <2>1, HarnessStepKept DEF LinkInv
    <2>3. LinkTypeOK' /\ SearchStands' /\ NoneForgotten'
      BY <2>1, <2>2 DEF linkVars, HarnessInv, LinkInv, LinkTypeOK, SearchStands, NoneForgotten
    <2>4. QED
      BY <2>1, <2>2, <2>3 DEF LinkInv
  <1>11. CASE LinkBoundary
    <2>1. HarnessNext /\ UNCHANGED linkVars
      BY <1>11 DEF LinkBoundary, HarnessNext, HarnessStep, Boundary
    <2>2. HarnessInv'
      BY <2>1, HarnessStepKept DEF LinkInv
    <2>3. /\ pc' = "unwind" /\ fault' = "none" => at = "loop" /\ todo = {}
          /\ row'.status = "ok" => pc' = "over" /\ at = "loop" /\ todo = {}
      <3>1. row \in [status : {"none", "running", "ok"} \cup Faults, steps : Nat, cost : Nat]
        BY DEF LinkInv, HarnessInv, HarnessTypeOK
      <3>2. CASE Settle
        <4>1. pc' = "over" /\ fault' = fault /\ pc = "unwind"
              /\ (fault # "none" => row'.status = fault)
          BY <3>1, <3>2 DEF Settle, Saved, counters, detector
        <4>2. fault \in Faults \cup {"none"} /\ "ok" \notin Faults
          BY DEF LinkInv, HarnessInv, HarnessTypeOK, Faults
        <4>3. fault = "none" => at = "loop" /\ todo = {}
          BY <4>1 DEF LinkInv, NoneForgotten
        <4>4. QED
          BY <4>1, <4>2, <4>3
      <3>3. CASE StartRun \/ Persist \/ Meter
        BY <3>1, <3>3 DEF StartRun, Persist, Meter, Saved, LinkInv, NoneForgotten
      <3>4. CASE PersistFails \/ ToolAnswers \/ ModelAnswers \/ SettleFails \/ Crash
        BY <3>4 DEF PersistFails, ToolAnswers, ModelAnswers, SettleFails, Crash, LinkInv,
                   NoneForgotten
      <3>5. QED
        BY <1>11, <3>2, <3>3, <3>4 DEF LinkBoundary
    <2>4. LinkTypeOK' /\ SearchStands' /\ NoneForgotten'
      BY <2>1, <2>2, <2>3 DEF linkVars, HarnessInv, LinkInv, LinkTypeOK, SearchStands, NoneForgotten
    <2>5. QED
      BY <2>1, <2>2, <2>4 DEF LinkInv
  <1>12. QED
    BY <1>1, <1>2, <1>3, <1>4, <1>5, <1>6, <1>7, <1>8, <1>9, <1>10, <1>11 DEF LinkNext

\* The body resolves links by calls of the harness alone: it implements a tracked
\* run, so what holds of every run's calls holds of it.
THEOREM LinksAreHarnessed == LinkSpec => HarnessInit /\ [][HarnessNext]_harnessVars
  <1>1. HarnessInit /\ LinkInit => LinkInv
    BY LinksStart
  <1>2. LinkInv /\ [LinkNext]_<<harnessVars, linkVars>> => LinkInv' /\ [HarnessNext]_harnessVars
    BY LinkStep
  <1>3. QED
    BY <1>1, <1>2, PTL DEF LinkSpec

LEMMA LinkInvariant == LinkSpec => []LinkInv
  <1>1. LinkInv /\ [LinkNext]_<<harnessVars, linkVars>> => LinkInv'
    BY LinkStep
  <1>2. QED
    BY <1>1, LinksStart, PTL DEF LinkSpec

\* However the calls answer, fail or are refused, the body's place in its search
\* is a call it may make.
THEOREM LinkTypeCorrect == LinkSpec => []LinkTypeOK
  <1>1. LinkInv => LinkTypeOK
    BY DEF LinkInv
  <1>2. QED
    BY <1>1, LinkInvariant, PTL

\* A run that ends ok has decided every link but those its platform could not be
\* asked about, for any number of links, names and cities.
THEOREM NoneLeftPendingHolds == LinkSpec => []NoneLeftPending
  <1>1. LinkInv => NoneLeftPending
    BY DEF LinkInv, NoneForgotten, NoneLeftPending
  <1>2. QED
    BY <1>1, LinkInvariant, PTL

\* And it makes no call beyond its run's limits or before the call is saved.
THEOREM LinkCallsAccounted == LinkSpec => []CallsAccounted
  <1>1. LinkInv => CallsAccounted
    BY DEF LinkInv, HarnessInv
  <1>2. QED
    BY <1>1, LinkInvariant, PTL

(***************************************************************************)
(* The social search of a city                                             *)
(***************************************************************************)

Answer == {"empty", "duplicate", "one", "many"}
LowAnswer == {"empty", "duplicate", "one"}

\* The last n answers of a window are of one kind.
LastOf(window, n, kinds) ==
    Len(window) >= n /\ \A i \in (Len(window) - n + 1)..Len(window) : window[i] \in kinds

\* The counters say what the window holds, as far as it reaches back: errors, in
\* neither, do not part them.
CountersTell ==
    /\ recent \in Seq(Answer) /\ Len(recent) <= MaxLowYield
    /\ low \in Nat /\ dups \in Nat /\ dups <= low
    /\ \A n \in 0..MaxLowYield : n <= low => LastOf(recent, n, LowAnswer)
    /\ \A n \in 0..MaxLowYield : n <= dups => LastOf(recent, n, {"duplicate"})

\* A reason stands for what was seen when it was given.
ReasonStands ==
    /\ mode \in {"open", "plan", "check"} => reason = "none"
    /\ reason = "low_yield" => PlatformExhausted
    /\ reason \in {"low_yield", "no_actions"} => OpeningQuestions = {}

DryInv == CountersTell /\ ReasonStands

\* The window kept of a city's answers: one more, and no more than MaxLowYield.
Slid(window, answer) ==
    LET all == Append(window, answer)
    IN SubSeq(all, Max({1, Len(all) - MaxLowYield + 1}), Len(all))

LEMMA LargerOfTwo ==
    ASSUME NEW x \in Int, NEW y \in Int
    PROVE  /\ x >= y => Max({x, y}) = x
           /\ y >= x => Max({x, y}) = y
  <1>1. \E z \in {x, y} : \A w \in {x, y} : z >= w
    OBVIOUS
  <1>2. Max({x, y}) \in {x, y} /\ \A w \in {x, y} : Max({x, y}) >= w
    BY <1>1 DEF Max
  <1>3. QED
    BY <1>2

LEMMA WindowSlides ==
    ASSUME NEW window \in Seq(Answer), Len(window) <= MaxLowYield, NEW answer \in Answer
    PROVE  /\ Slid(window, answer) \in Seq(Answer) /\ Len(Slid(window, answer)) <= MaxLowYield
           /\ \A kinds : \A n \in 0..MaxLowYield :
                 answer \in kinds /\ n < MaxLowYield /\ LastOf(window, n, kinds)
                     => LastOf(Slid(window, answer), n + 1, kinds)
  <1> DEFINE all == Append(window, answer)
             one == 1
             start == Len(all) - MaxLowYield + 1
  <1>1. /\ MaxLowYield \in Nat /\ Len(window) \in Nat
        /\ all \in Seq(Answer) /\ Len(all) = Len(window) + 1
        /\ \A i \in 1..Len(window) : all[i] = window[i]
        /\ all[Len(window) + 1] = answer
    BY DiscoveryAssumption
  <1>2. Slid(window, answer) = SubSeq(all, Max({one, start}), Len(all))
    BY DEF Slid
  <1>3. start \in Int /\ start = Len(window) - MaxLowYield + 2 /\ one \in Int /\ one = 1
    BY <1>1
  <1> HIDE DEF all, one, start
  <1>4. CASE Len(window) < MaxLowYield
    <2>a. one >= start
      BY <1>1, <1>3, <1>4
    <2>b. Max({one, start}) = one
      BY <1>3, <2>a, LargerOfTwo
    <2>1. Max({one, start}) = 1
      BY <1>3, <2>b
    <2>2. Slid(window, answer) = all
      BY <1>1, <1>2, <2>1, SubSeqFull
    <2>3. QED
      <3>1. ASSUME NEW kinds, NEW n \in 0..MaxLowYield, answer \in kinds, LastOf(window, n, kinds),
                   NEW i \in (Len(all) - (n + 1) + 1)..Len(all)
            PROVE  all[i] \in kinds
        <4>1. CASE i = Len(window) + 1
          BY <1>1, <3>1, <4>1
        <4>2. CASE i # Len(window) + 1
          <5>1. i \in (Len(window) - n + 1)..Len(window) /\ i \in 1..Len(window)
            BY <1>1, <3>1, <4>2 DEF LastOf
          <5>2. QED
            BY <1>1, <3>1, <5>1 DEF LastOf
        <4>3. QED
          BY <4>1, <4>2
      <3>2. \A n \in 0..MaxLowYield : Len(window) >= n => Len(all) >= n + 1
        BY <1>1
      <3>3. ASSUME NEW kinds, NEW n \in 0..MaxLowYield, answer \in kinds, LastOf(window, n, kinds)
            PROVE  LastOf(all, n + 1, kinds)
        BY <1>1, <3>1, <3>2, <3>3 DEF LastOf
      <3>4. QED
        BY <1>1, <1>4, <2>2, <3>3
  <1>5. CASE Len(window) = MaxLowYield
    <2>a. start >= one /\ start = 2
      BY <1>1, <1>3, <1>5
    <2>b. Max({one, start}) = start
      BY <1>3, <2>a, LargerOfTwo
    <2>1. Max({one, start}) = 2
      BY <2>a, <2>b
    <2>2. Slid(window, answer) = SubSeq(all, 2, Len(all))
      BY <1>2, <2>1
    <2>3. /\ Slid(window, answer) \in Seq(Answer) /\ Len(Slid(window, answer)) = Len(window)
          /\ \A i \in 1..Len(window) : Slid(window, answer)[i] = all[i + 1]
      BY <1>1, <2>2
    <2>4. ASSUME NEW kinds, NEW n \in 0..MaxLowYield,
                 answer \in kinds, n < MaxLowYield, LastOf(window, n, kinds)
          PROVE  LastOf(Slid(window, answer), n + 1, kinds)
      <3>1. ASSUME NEW i \in (Len(window) - n)..Len(window)
            PROVE  Slid(window, answer)[i] \in kinds
        <4>1. i \in 1..Len(window) /\ Slid(window, answer)[i] = all[i + 1]
          BY <1>1, <1>5, <2>3, <2>4
        <4>2. CASE i = Len(window)
          BY <1>1, <2>4, <4>1, <4>2
        <4>3. CASE i # Len(window)
          <5>1. i + 1 \in 1..Len(window) /\ i + 1 \in (Len(window) - n + 1)..Len(window)
            BY <1>1, <2>4, <4>1, <4>3
          <5>2. all[i + 1] = window[i + 1] /\ window[i + 1] \in kinds
            BY <1>1, <2>4, <5>1 DEF LastOf
          <5>3. QED
            BY <4>1, <5>2
        <4>4. QED
          BY <4>2, <4>3
      <3>2. Len(window) - (n + 1) + 1 = Len(window) - n /\ Len(window) >= n + 1
        BY <1>1, <1>5, <2>4
      <3>3. QED
        BY <2>3, <3>1, <3>2 DEF LastOf
    <2>5. QED
      BY <1>5, <2>3, <2>4
  <1>6. QED
    BY <1>1, <1>4, <1>5

\* An opening question nobody was asked can be asked of the Reel platform.
LEMMA OpeningsPut ==
    ASSUME OpeningQuestions = {}
    PROVE  \A i \in Intent : \E q \in asked : q[2] = i
  <1> DEFINE open == {k \in DOMAIN Opening : \A q \in asked : q[2] # Opening[k]}
             can == {k \in open : \E q \in Worded({"specific"}) : q[2] = Opening[k]}
  <1> SUFFICES ASSUME NEW i \in Intent, \A q \in asked : q[2] # i
               PROVE  FALSE
    OBVIOUS
  <1>1. PICK k \in DOMAIN Opening : Opening[k] = i
    <2>1. /\ DOMAIN Opening = 1..3
          /\ Opening[1] = "places" /\ Opening[2] = "food" /\ Opening[3] = "hidden_gems"
      BY DEF Opening
    <2>2. 1 \in DOMAIN Opening /\ 2 \in DOMAIN Opening /\ 3 \in DOMAIN Opening
      BY <2>1
    <2>3. QED
      BY <2>1, <2>2 DEF Intent
  <1> DEFINE q == <<ReelPlatform, i, "specific">>
  <1>2. q \in Question /\ q \notin asked /\ q[1] = ReelPlatform /\ q[2] = i /\ q[3] = "specific"
    BY DiscoveryAssumption DEF Question, Wording
  <1>3. Asked(q[1], q[2]) = {}
    BY <1>2 DEF Asked
  <1>4. Cardinality(Asked(q[1], q[2])) < MaxAttempts
    BY <1>3, FS_EmptySet, DiscoveryAssumption
  <1>5. q \in Worded({"specific"})
    BY <1>2, <1>4 DEF Worded, Available
  <1>6. k \in can
    BY <1>1, <1>2, <1>5
  <1>7. can \subseteq {1, 2, 3}
    BY DEF Opening
  <1>8. Min(can) \in can
    <2>1. \E x \in can : \A y \in can : x =< y
      BY <1>6, <1>7
    <2>2. QED
      BY <2>1 DEF Min
  <1>9. PICK r \in Worded({"specific"}) : r[2] = Opening[Min(can)]
    BY <1>8
  <1>10. QED
    BY <1>6, <1>9 DEF OpeningQuestions

LEMMA DryStarts == DiscoveryInit => DryInv
  BY DiscoveryAssumption
  DEF DiscoveryInit, DryInv, CountersTell, ReasonStands, LastOf, Answer

\* A search is counted as it is remembered, or not at all when it failed.
LEMMA SearchCounts ==
    ASSUME CountersTell, Search
    PROVE  CountersTell'
  <1>1. PICK q \in NextQuestions, result \in DOMAIN Yields :
            /\ low' = LowYieldAfter(result)
            /\ dups' = CASE result = "error" -> dups
                         [] result = "duplicate" -> dups + 1
                         [] OTHER -> 0
            /\ recent' = IF result = "error" THEN recent ELSE Slid(recent, result)
    BY DEF Search, Slid
  <1>2. result \in Answer \cup {"error"}
    BY DEF Yields, Answer
  <1>3. MaxLowYield \in Nat
    BY DiscoveryAssumption
  <1>4. /\ recent \in Seq(Answer) /\ Len(recent) <= MaxLowYield
        /\ low \in Nat /\ dups \in Nat /\ dups <= low
        /\ \A n \in 0..MaxLowYield : n <= low => LastOf(recent, n, LowAnswer)
        /\ \A n \in 0..MaxLowYield : n <= dups => LastOf(recent, n, {"duplicate"})
    BY DEF CountersTell
  <1>5. CASE result = "error"
    BY <1>1, <1>5 DEF LowYieldAfter, CountersTell
  <1>6. CASE result \in Answer
    <2>1. /\ recent' = Slid(recent, result) /\ recent' \in Seq(Answer)
          /\ Len(recent') <= MaxLowYield
      BY <1>1, <1>4, <1>6, WindowSlides DEF Answer
    <2>2. \A kinds : LastOf(recent', 0, kinds)
      <3>1. Len(recent') \in Nat
        BY <2>1
      <3>2. QED
        BY <3>1 DEF LastOf
    <2>3. ASSUME NEW kinds, NEW m \in Nat, NEW n \in 0..MaxLowYield, n <= m + 1,
                 result \in kinds,
                 \A k \in 0..MaxLowYield : k <= m => LastOf(recent, k, kinds)
          PROVE  LastOf(recent', n, kinds)
      <3>1. CASE n = 0
        BY <2>2, <3>1
      <3>2. CASE n # 0
        <4>1. n - 1 \in 0..MaxLowYield /\ n - 1 < MaxLowYield /\ n - 1 <= m /\ (n - 1) + 1 = n
          BY <1>3, <2>3, <3>2
        <4>2. LastOf(recent, n - 1, kinds)
          BY <2>3, <4>1
        <4>3. LastOf(Slid(recent, result), (n - 1) + 1, kinds)
          BY <1>4, <1>6, <2>3, <4>1, <4>2, WindowSlides
        <4>4. QED
          BY <2>1, <4>1, <4>3
      <3>3. QED
        BY <3>1, <3>2
    <2>4. \A n \in 0..MaxLowYield : n <= low' => LastOf(recent', n, LowAnswer)
      <3>1. CASE result \in LowAnswer
        <4>1. low' = low + 1
          BY <1>1, <3>1 DEF LowYieldAfter, LowAnswer
        <4>2. QED
          BY <1>4, <2>3, <3>1, <4>1
      <3>2. CASE result \notin LowAnswer
        <4>1. low' = 0
          BY <1>1, <1>6, <3>2 DEF LowYieldAfter, LowAnswer, Answer
        <4>2. QED
          BY <1>3, <2>2, <4>1
      <3>3. QED
        BY <3>1, <3>2
    <2>5. \A n \in 0..MaxLowYield : n <= dups' => LastOf(recent', n, {"duplicate"})
      <3>1. CASE result = "duplicate"
        BY <1>1, <1>4, <2>3, <3>1
      <3>2. CASE result # "duplicate"
        <4>1. dups' = 0
          BY <1>1, <1>6, <3>2 DEF Answer
        <4>2. QED
          BY <1>3, <2>2, <4>1
      <3>3. QED
        BY <3>1, <3>2
    <2>6. low' \in Nat /\ dups' \in Nat /\ dups' <= low'
      BY <1>1, <1>4, <1>6 DEF LowYieldAfter, Answer
    <2>7. QED
      BY <2>1, <2>4, <2>5, <2>6 DEF CountersTell
  <1>7. QED
    BY <1>2, <1>5, <1>6

LEMMA DryStep == DryInv /\ [DiscoveryNext]_discoveryVars => DryInv'
  <1> SUFFICES ASSUME DryInv, [DiscoveryNext]_discoveryVars
               PROVE  DryInv'
    OBVIOUS
  <1>1. ASSUME UNCHANGED search,
               mode' \in {"open", "plan", "check"} => mode \in {"open", "plan", "check"}
        PROVE  DryInv'
    BY <1>1 DEF search, DryInv, CountersTell, ReasonStands, PlatformExhausted, OpeningQuestions,
               Worded, Available, Asked
  <1>2. CASE UNCHANGED discoveryVars
    BY <1>1, <1>2 DEF discoveryVars
  <1>3. CASE OpenCity
    BY <1>1, <1>3 DEF OpenCity
  <1>4. CASE Plan
    <2>1. /\ asked' = asked /\ recent' = recent /\ low' = low /\ dups' = dups
          /\ mode' = "close"
      BY <1>4 DEF Plan, StopFirst, StopDry, Stop
    <2>2. \/ reason' \notin {"low_yield", "no_actions"}
          \/ /\ OpeningQuestions = {}
             /\ reason' = "low_yield" => PlatformExhausted
      BY <1>4 DEF Plan, StopFirst, StopDry, Stop
    <2>3. OpeningQuestions' = OpeningQuestions /\ PlatformExhausted' = PlatformExhausted
      BY <2>1 DEF PlatformExhausted, OpeningQuestions, Worded, Available, Asked
    <2>4. ReasonStands'
      BY <2>1, <2>2, <2>3 DEF ReasonStands
    <2>5. CountersTell'
      BY <2>1 DEF DryInv, CountersTell
    <2>6. QED
      BY <2>4, <2>5 DEF DryInv
  <1>5. CASE Search
    <2>1. mode = "plan" /\ mode' = "check" /\ reason' = reason
      BY <1>5 DEF Search
    <2>2. ReasonStands'
      BY <2>1 DEF DryInv, ReasonStands
    <2>3. QED
      BY <1>5, <2>2, SearchCounts DEF DryInv
  <1>6. CASE Check
    BY <1>1, <1>6 DEF Check
  <1>7. CASE CheckRest
    BY <1>1, <1>7 DEF CheckRest
  <1>8. CASE CloseCity
    <2>1. /\ recent' = <<>> /\ low' = 0 /\ dups' = 0 /\ reason' = "none"
      BY <1>8 DEF CloseCity, Forget
    <2>2. QED
      BY <2>1, DiscoveryAssumption DEF DryInv, CountersTell, ReasonStands, LastOf
  <1>9. QED
    BY <1>2, <1>3, <1>4, <1>5, <1>6, <1>7, <1>8 DEF DiscoveryNext

\* For any number of cities and any limits, a city is only called dry when the
\* searches it remembers were: the counters that stop it and the window of
\* answers agree, though only the window forgets.
THEOREM DryOnEvidenceHolds == DiscoverySpec => []DryOnEvidence
  <1>1. DryInv => DryOnEvidence
    <2> SUFFICES ASSUME DryInv PROVE DryOnEvidence
      OBVIOUS
    <2>0. /\ MaxLowYield \in Nat /\ MaxDuplicates \in Nat
          /\ low \in Nat /\ dups \in Nat /\ dups <= low
      BY DiscoveryAssumption DEF DryInv, CountersTell
    <2>1. ASSUME reason = "low_yield"
          PROVE  \/ LastOf(recent, MaxLowYield, {"empty", "duplicate", "one"})
                 \/ LastOf(recent, MaxDuplicates, {"duplicate"})
      <3>1. low >= MaxLowYield \/ dups >= MaxDuplicates
        BY <2>1 DEF DryInv, ReasonStands, PlatformExhausted
      <3>2. CASE low >= MaxLowYield
        BY <2>0, <3>2 DEF DryInv, CountersTell, LowAnswer
      <3>3. CASE ~(low >= MaxLowYield) /\ dups >= MaxDuplicates
        <4>1. MaxDuplicates \in 0..MaxLowYield /\ MaxDuplicates <= dups
          BY <2>0, <3>3
        <4>2. QED
          BY <4>1 DEF DryInv, CountersTell
      <3>4. QED
        BY <2>0, <3>1, <3>2, <3>3
    <2>2. reason \in {"low_yield", "no_actions"} => \A i \in Intent : \E q \in asked : q[2] = i
      BY OpeningsPut DEF DryInv, ReasonStands
    <2>3. QED
      BY <2>1, <2>2 DEF DryOnEvidence, LastOf
  <1>2. QED
    BY <1>1, DryStarts, DryStep, PTL DEF DiscoverySpec

-----------------------------------------------------------------------------
\* The checks of a trip

\* Step by step one reaches every number up to n: the smallest 0..m that ends
\* in one not reached cannot be.
LEMMA Climb ==
    ASSUME NEW n \in Nat, NEW S, 0 \in S, \A i \in 0..n : i \in S /\ i < n => i + 1 \in S
    PROVE  \A i \in 0..n : i \in S
  <1> SUFFICES ASSUME NEW j \in 0..n, j \notin S PROVE FALSE
    OBVIOUS
  <1> DEFINE T == {0..m : m \in {k \in 0..n : k \notin S}}
  <1>1. T \subseteq FiniteSubsetsOf(Nat)
    <2>1. ASSUME NEW m \in 0..n PROVE IsFiniteSet(0..m) /\ 0..m \subseteq Nat
      BY FS_Interval
    <2>2. QED
      BY <2>1 DEF FiniteSubsetsOf
  <1>2. 0..j \in T
    OBVIOUS
  <1>3. PICK U \in T : \A V \in T : <<V, U>> \notin StrictSubsetOrdering(Nat)
    BY <1>1, <1>2, FS_StrictSubsetOrderingWellFounded, WFMin
  <1>4. PICK m \in 0..n : U = 0..m /\ m \notin S
    BY <1>3
  <1>5. m # 0 /\ m - 1 \in 0..n /\ m - 1 < n /\ (m - 1) + 1 = m
    BY <1>4
  <1>6. m - 1 \notin S
    BY <1>4, <1>5
  <1>7. 0..(m - 1) \in T
    BY <1>5, <1>6
  <1>8. 0..(m - 1) \subseteq 0..m /\ m \in 0..m /\ m \notin 0..(m - 1)
    BY <1>5
  <1>9. 0..(m - 1) \in SUBSET Nat /\ 0..m \in SUBSET Nat
    OBVIOUS
  <1>10. <<0..(m - 1), 0..m>> \in StrictSubsetOrdering(Nat)
    BY <1>8, <1>9, Zenon DEF StrictSubsetOrdering
  <1>11. QED
    BY <1>3, <1>4, <1>7, <1>10

\* Adding the numbers of a sequence one by one is possible.
LEMMA Addable ==
    ASSUME NEW s \in Seq(Int)
    PROVE  \E f : f = [n \in 0..Len(s) |-> IF n = 0 THEN 0 ELSE f[n - 1] + s[n]]
  <1> DEFINE N == Len(s)
             Climbs(f, n) == /\ f \in [0..n -> Int] /\ f[0] = 0
                             /\ \A i \in 1..n : f[i] = f[i - 1] + s[i]
             S == {n \in 0..N : \E f : Climbs(f, n)}
  <1>1. N \in Nat /\ \A i \in 1..N : s[i] \in Int
    OBVIOUS
  <1>2. 0 \in S
    <2> DEFINE z == [n \in 0..0 |-> 0]
    <2>1. Climbs(z, 0)
      OBVIOUS
    <2> HIDE DEF z
    <2>2. \E f : Climbs(f, 0)
      BY <2>1
    <2>3. 0 \in 0..N
      BY <1>1
    <2>4. QED
      BY <2>2, <2>3
  <1>3. ASSUME NEW i \in 0..N, i \in S, i < N PROVE i + 1 \in S
    <2>1. PICK f : Climbs(f, i)
      BY <1>3
    <2> DEFINE g == [n \in 0..(i + 1) |-> IF n = i + 1 THEN f[i] + s[i + 1] ELSE f[n]]
    <2>2. i \in Nat /\ i + 1 \in 1..N /\ s[i + 1] \in Int /\ f[i] \in Int
      BY <1>1, <1>3, <2>1
    <2>3. g \in [0..(i + 1) -> Int] /\ g[0] = 0
      BY <2>1, <2>2
    <2>4. ASSUME NEW k \in 1..(i + 1) PROVE g[k] = g[k - 1] + s[k]
      <3>1. CASE k = i + 1
        <4>1. g[k] = f[i] + s[i + 1] /\ g[k - 1] = f[i]
          BY <2>2, <3>1
        <4>2. QED
          BY <3>1, <4>1
      <3>2. CASE k # i + 1
        <4>1. k \in 1..i /\ k \in 0..(i + 1) /\ k - 1 \in 0..(i + 1) /\ k - 1 # i + 1
          BY <2>2, <3>2
        <4>2. g[k] = f[k] /\ g[k - 1] = f[k - 1]
          BY <3>2, <4>1
        <4>3. QED
          BY <2>1, <4>1, <4>2
      <3>3. QED
        BY <3>1, <3>2
    <2>5. Climbs(g, i + 1)
      BY <2>3, <2>4
    <2>6. i + 1 \in 0..N
      BY <1>1, <2>2
    <2>7. QED
      BY <2>5, <2>6
  <1> HIDE DEF S, N
  <1>4. N \in S
    <2>1. \A i \in 0..N : i \in S
      BY <1>1, <1>2, <1>3, Climb
    <2>2. QED
      BY <1>1, <2>1
  <1>5. PICK f : Climbs(f, N)
    BY <1>4 DEF S
  <1>6. f = [n \in 0..N |-> IF n = 0 THEN 0 ELSE f[n - 1] + s[n]]
    <2>1. f = [n \in 0..N |-> f[n]]
      BY <1>5
    <2>2. \A n \in 0..N : n = 0 \/ n \in 1..N
      BY <1>1
    <2>3. \A n \in 0..N : f[n] = IF n = 0 THEN 0 ELSE f[n - 1] + s[n]
      BY <1>5, <2>2
    <2>4. QED
      BY <2>1, <2>3
  <1>7. QED
    BY <1>6 DEF N

LEMMA SumsAdd ==
    ASSUME NEW s \in Seq(Int)
    PROVE  /\ Sums(s)[0] = 0 /\ \A n \in 0..Len(s) : Sums(s)[n] \in Int
           /\ \A n \in 1..Len(s) : Sums(s)[n] = Sums(s)[n - 1] + s[n]
  <1> DEFINE f == Sums(s)
             N == Len(s)
  <1>1. N \in Nat /\ \A i \in 1..N : s[i] \in Int
    OBVIOUS
  <1>2. f = [n \in 0..N |-> IF n = 0 THEN 0 ELSE f[n - 1] + s[n]]
    BY Addable DEF Sums
  <1> HIDE DEF f
  <1>3. f[0] = 0 /\ \A n \in 1..N : f[n] = f[n - 1] + s[n]
    BY <1>1, <1>2
  <1> DEFINE S == {n \in 0..N : f[n] \in Int}
  <1>4. 0 \in S
    BY <1>1, <1>3
  <1>5. ASSUME NEW i \in 0..N, i \in S, i < N PROVE i + 1 \in S
    <2>1. i + 1 \in 1..N /\ (i + 1) - 1 = i /\ f[i] \in Int
      BY <1>1, <1>5
    <2>2. QED
      BY <1>1, <1>3, <2>1
  <1> HIDE DEF S
  <1>6. \A n \in 0..N : n \in S
    BY <1>1, <1>4, <1>5, Climb
  <1>7. \A n \in 0..N : f[n] \in Int
    BY <1>6 DEF S
  <1>8. QED
    BY <1>3, <1>7 DEF f

\* Sums of naturals grow.
LEMMA SumsGrow ==
    ASSUME NEW s \in Seq(Nat), NEW a \in 0..Len(s)
    PROVE  Sums(s)[a] \in Nat /\ \A n \in a..Len(s) : Sums(s)[n] >= Sums(s)[a]
  <1> DEFINE f == Sums(s)
             N == Len(s)
  <1>1. N \in Nat /\ s \in Seq(Int) /\ \A i \in 1..N : s[i] \in Nat
    OBVIOUS
  <1>2. /\ f[0] = 0 /\ \A n \in 0..N : f[n] \in Int
        /\ \A n \in 1..N : f[n] = f[n - 1] + s[n]
    BY <1>1, SumsAdd
  <1> HIDE DEF f, N
  <1>3. ASSUME NEW b \in 0..N PROVE \A n \in 0..N : n >= b => f[n] >= f[b]
    <2> DEFINE S == {n \in 0..N : n >= b => f[n] >= f[b]}
    <2>1. 0 \in S
      BY <1>1, <1>2
    <2>2. ASSUME NEW i \in 0..N, i \in S, i < N PROVE i + 1 \in S
      <3>1. i + 1 \in 1..N /\ i + 1 \in 0..N /\ (i + 1) - 1 = i
        BY <1>1, <2>2
      <3>2. f[i + 1] = f[i] + s[i + 1] /\ s[i + 1] \in Nat /\ f[i] \in Int
        BY <1>1, <1>2, <3>1
      <3>3. CASE b = i + 1
        BY <1>2, <3>1, <3>3
      <3>4. CASE b # i + 1
        <4>1. i + 1 >= b => f[i] >= f[b]
          BY <2>2, <3>4
        <4>2. QED
          BY <1>2, <3>1, <3>2, <4>1
      <3>5. QED
        BY <3>3, <3>4
    <2> HIDE DEF S
    <2>3. \A n \in 0..N : n \in S
      BY <1>1, <2>1, <2>2, Climb
    <2>4. QED
      BY <2>3 DEF S
  <1>4. a \in 0..N /\ 0 \in 0..N
    BY <1>1 DEF N
  <1>5. f[a] \in Nat
    BY <1>2, <1>3, <1>4
  <1>6. \A n \in a..N : f[n] >= f[a]
    BY <1>1, <1>3, <1>4
  <1>7. QED
    BY <1>5, <1>6 DEF f, N

LEMMA AtLeast ==
    ASSUME NEW x \in Int, NEW y \in Int
    PROVE  Max({x, y}) \in {x, y} /\ Max({x, y}) >= x /\ Max({x, y}) >= y
  <1>1. \E z \in {x, y} : \A w \in {x, y} : z >= w
    OBVIOUS
  <1>2. QED
    BY <1>1 DEF Max

LEMMA AtMost ==
    ASSUME NEW x \in Int, NEW y \in Int
    PROVE  Min({x, y}) \in {x, y} /\ Min({x, y}) <= x /\ Min({x, y}) <= y
  <1>1. \E z \in {x, y} : \A w \in {x, y} : z =< w
    OBVIOUS
  <1>2. QED
    BY <1>1 DEF Min

LEMMA DaysCounted ==
    /\ Len(DayCounts) \in Nat /\ Len(DayCounts) >= 1
    /\ DayCounts \in Seq(Nat) /\ DayCounts \in Seq(Int)
    /\ \A i \in 1..Len(DayCounts) : DayCounts[i] \in Nat /\ DayCounts[i] > 0
  <1> DEFINE n == Len(DayCounts)
  <1>1. DayCounts \in Seq(Nat \ {0}) /\ DayCounts # <<>>
    BY DiscoveryAssumption
  <1>2. n \in Nat /\ n >= 1 /\ DayCounts \in [1..n -> Nat \ {0}]
    BY <1>1
  <1>3. \A i \in 1..n : DayCounts[i] \in Nat /\ DayCounts[i] > 0
    BY <1>2
  <1>4. DayCounts \in [1..n -> Nat] /\ DayCounts \in [1..n -> Int]
    BY <1>2
  <1>5. DayCounts \in Seq(Nat) /\ DayCounts \in Seq(Int)
    BY <1>2, <1>4
  <1>6. QED
    BY <1>2, <1>3, <1>5

\* Shares are never negative, whatever there is to share.
LEMMA SharesNatural ==
    ASSUME NEW total \in Int
    PROVE  /\ Allocate(DayCounts, total) \in Seq(Nat)
           /\ Len(Allocate(DayCounts, total)) = Len(DayCounts)
  <1> DEFINE n == Len(DayCounts)
             all == Total(DayCounts)
             floors == [i \in 1..n |-> Max({1, (total * DayCounts[i]) \div all})]
             rest == [i \in 1..n |-> IF total * DayCounts[i] < all THEN 0
                                     ELSE (total * DayCounts[i]) % all]
             left == total - Total(floors)
             more == IF left >= 0 THEN left ELSE Max({0, n + left})
             before(i, j) == rest[i] > rest[j] \/ (rest[i] = rest[j] /\ i < j)
             extra == [i \in 1..n |->
                          IF Cardinality({j \in 1..n : before(j, i)}) < more THEN 1 ELSE 0]
             share == Allocate(DayCounts, total)
  <1>1. /\ n \in Nat /\ n >= 1 /\ DayCounts \in Seq(Nat) /\ DayCounts \in Seq(Int)
        /\ \A i \in 1..n : DayCounts[i] \in Nat /\ DayCounts[i] > 0
    BY DaysCounted
  <1>2. all \in Nat /\ all > 0
    <2> DEFINE f == Sums(DayCounts)
    <2>1. f[0] = 0 /\ f[1] = f[0] + DayCounts[1]
      BY <1>1, SumsAdd
    <2>2. 1 \in 0..n /\ n \in 1..n
      BY <1>1
    <2>3. f[1] \in Nat /\ f[n] >= f[1]
      BY <1>1, <2>2, SumsGrow
    <2>4. f[n] \in Nat
      BY <1>1, SumsGrow
    <2> HIDE DEF f
    <2>5. f[n] \in Nat /\ f[n] > 0
      BY <1>1, <2>1, <2>3, <2>4
    <2>6. QED
      BY <2>5 DEF f, Total
  <1>3. share = IF total <= n THEN [i \in 1..n |-> IF i <= total THEN 1 ELSE 0]
                ELSE [i \in 1..n |-> floors[i] + extra[i]]
    BY DEF Allocate
  <1>4. \A i \in 1..n : extra[i] \in Nat
    OBVIOUS
  <1> HIDE DEF extra, all, share
  <1>5. \A i \in 1..n : floors[i] \in Nat
    <2> SUFFICES ASSUME NEW i \in 1..n PROVE floors[i] \in Nat
      OBVIOUS
    <2> DEFINE x == (total * DayCounts[i]) \div all
               one == 1
    <2>1. x \in Int
      <3>1. total * DayCounts[i] \in Int
        BY <1>1
      <3>2. QED
        BY <1>2, <3>1
    <2>2. floors[i] = Max({one, x}) /\ one \in Int /\ one = 1
      OBVIOUS
    <2> HIDE DEF x, one, floors
    <2>3. Max({one, x}) \in {one, x} /\ Max({one, x}) >= one
      BY <2>1, <2>2, AtLeast
    <2>4. QED
      BY <2>1, <2>2, <2>3
  <1> HIDE DEF floors, n
  <1>6. share \in [1..n -> Nat]
    <2>1. CASE total <= n
      BY <1>3, <2>1
    <2>2. CASE ~(total <= n)
      BY <1>3, <1>4, <1>5, <2>2
    <2>3. QED
      BY <2>1, <2>2
  <1>7. share \in Seq(Nat) /\ Len(share) = n
    BY <1>1, <1>6
  <1>8. QED
    BY <1>7 DEF share, n

LEMMA GoalNatural ==
    ASSUME kept \in Nat, NEW c \in 1..Len(DayCounts)
    PROVE  CityGoal(c) \in Nat
  <1> DEFINE later == SubSeq(ReelTargets, c + 1, Len(ReelTargets))
             owed == ReelGoal - kept - Total(later)
             most == DayCounts[c] * PoolPerDay
             zero == 0
             open == Max({zero, owed})
  <1>1. /\ ReelGoal \in Nat /\ PoolPerDay \in Nat /\ DayCounts[c] \in Nat
    BY DiscoveryAssumption, DaysCounted
  <1>2. ReelTargets \in Seq(Nat) /\ Len(ReelTargets) = Len(DayCounts)
    <2>1. ReelGoal \in Int
      BY <1>1
    <2>2. QED
      BY <2>1, SharesNatural, Zenon DEF ReelTargets
  <1>3. later \in Seq(Nat)
    <2>1. c + 1 \in Nat \ {0} /\ Len(ReelTargets) \in Nat
      BY <1>2, DaysCounted
    <2>2. \A i \in (c + 1)..Len(ReelTargets) : ReelTargets[i] \in Nat
      BY <1>2, <2>1
    <2>3. QED
      BY <1>2, <2>1, <2>2
  <1>4. Total(later) \in Int
    <2>1. later \in Seq(Int) /\ Len(later) \in 0..Len(later)
      BY <1>3
    <2>2. QED
      BY <2>1, SumsAdd DEF Total
  <1>5. owed \in Int /\ most \in Nat /\ zero \in Int /\ zero = 0
    BY <1>1, <1>4
  <1>6. CityGoal(c) = Min({most, open})
    BY DEF CityGoal
  <1> HIDE DEF owed, most, zero, open
  <1>7. open \in Nat
    <2>1. open \in {zero, owed} /\ open >= zero
      BY <1>5, AtLeast DEF open
    <2>2. QED
      BY <1>5, <2>1
  <1>8. Min({most, open}) \in {most, open}
    BY <1>5, <1>7, AtMost
  <1>9. QED
    BY <1>5, <1>6, <1>7, <1>8

\* A city's allowance only grows, and not past its ceiling.
LEMMA GrownWithin ==
    ASSUME ceiling \in Nat, goal \in Nat, NEW b \in Nat, NEW tried \in Nat, NEW got \in Nat,
           b <= ceiling
    PROVE  Grown(b, tried, got) \in Nat /\ b <= Grown(b, tried, got)
           /\ Grown(b, tried, got) <= ceiling
  <1> DEFINE one == 1
             known == Max({one, got})
             extra == ((goal - got) * tried + known - 1) \div known
             step == Max({one, extra})
             cap == IF ceiling = 0 THEN b ELSE ceiling
             more == b + step
  <1>1. Grown(b, tried, got) = IF tried >= b /\ got < goal THEN Min({cap, more}) ELSE b
    BY DEF Grown
  <1>2. one \in Int /\ one = 1
    OBVIOUS
  <1>3. known \in Int /\ known > 0
    <2> HIDE DEF one
    <2>1. known \in {one, got} /\ known >= one
      BY <1>2, AtLeast
    <2>2. QED
      BY <1>2, <2>1
  <1> HIDE DEF known
  <1>4. extra \in Int
    <2>1. (goal - got) * tried \in Int
      OBVIOUS
    <2>2. (goal - got) * tried + known - 1 \in Int
      BY <1>3, <2>1
    <2>3. QED
      BY <1>3, <2>2
  <1> HIDE DEF extra, one
  <1>5. step \in Int /\ step >= 1
    <2>1. step \in {one, extra} /\ step >= one
      BY <1>2, <1>4, AtLeast
    <2>2. QED
      BY <1>2, <1>4, <2>1
  <1>6. more \in Int /\ more > b /\ cap \in Nat /\ b <= cap /\ cap <= ceiling
    BY <1>5
  <1> HIDE DEF step, cap, more
  <1>7. Min({cap, more}) \in {cap, more} /\ Min({cap, more}) <= cap
    BY <1>6, AtMost
  <1>8. QED
    BY <1>1, <1>6, <1>7

\* The lanes of a batch add up to it.
LEMMA LanesAddUp ==
    ASSUME NEW n \in Int, NEW gems \in Int, NEW others \in Int
    PROVE  /\ LaneSizes(n, gems, others)[1] \in Int /\ LaneSizes(n, gems, others)[2] \in Int
           /\ LaneSizes(n, gems, others)[1] + LaneSizes(n, gems, others)[2] = n
  <1> DEFINE trending == (n * 7 + 9) \div 10
             zero == 0
             short == n - trending - gems
             spare == Max({zero, short})
             given == trending + spare
             drawn == Min({given, others})
  <1>1. LaneSizes(n, gems, others) = <<drawn, n - drawn>>
    BY DEF LaneSizes
  <1>2. trending \in Int
    OBVIOUS
  <1> HIDE DEF trending
  <1>3. zero \in Int /\ short \in Int
    BY <1>2
  <1> HIDE DEF zero, short
  <1>4. spare \in Int
    BY <1>3, AtLeast
  <1> HIDE DEF spare
  <1>5. given \in Int
    BY <1>2, <1>4
  <1> HIDE DEF given
  <1>6. drawn \in Int
    BY <1>5, AtMost
  <1> HIDE DEF drawn
  <1>7. QED
    BY <1>1, <1>6

Names == [reel : Nat, gem : Nat, other : Nat]

CheckInv ==
    /\ city \in 0..Len(DayCounts)
    /\ mode \in {"open", "plan", "check", "close", "account", "done"}
    /\ guided \in Nat /\ guided <= CheckCeiling
    /\ attempts \in Nat /\ budget \in Nat /\ ceiling \in Nat /\ attempts <= budget /\ budget <= ceiling
    /\ reels \in Nat /\ goal \in Nat /\ kept \in Nat /\ spent \in Nat /\ released \in Nat
    /\ pending \in Names
    /\ mode \in {"open", "done"} =>
           ceiling = 0 /\ spent + released <= Sums(CityCeilings)[city]
    /\ mode \notin {"open", "done"} =>
           city # 0 /\ spent + ceiling <= Sums(CityCeilings)[city]

\* A batch fills its room, or is full, or takes all it may.
LEMMA BatchFits ==
    ASSUME CheckInv, NEW final \in BOOLEAN, NEW allowed \in Nat, attempts <= allowed,
           NEW took \in BatchOf(final, allowed)
    PROVE  LET n == took.reel + took.gem + took.other
               names == Eligible(final)
           IN  /\ took.reel \in 0..names.reel /\ took.gem \in 0..names.gem
               /\ took.other \in 0..names.other
               /\ attempts + n <= allowed
               /\ \/ attempts + n = allowed
                  \/ ~final /\ n = Batch
                  \/ n = names.reel + names.gem + names.other
  <1> DEFINE names == Eligible(final)
             zero == 0
             gap == allowed - attempts
             room == Max({zero, gap})
             limit == IF final THEN room ELSE Min({room, Batch})
             all == names.reel + names.gem + names.other
             n == Min({limit, all})
             lanes == LaneSizes(n, names.gem, names.reel + names.other)
  <1>1. /\ took.reel \in 0..names.reel /\ took.gem \in 0..names.gem
        /\ took.other \in 0..names.other
        /\ took.gem = lanes[2] /\ took.reel + took.other = lanes[1]
    BY DEF BatchOf
  <1>2. names.reel \in Nat /\ names.gem \in Nat /\ names.other \in Nat
    BY DEF Eligible, CheckInv, Names
  <1> HIDE DEF names
  <1>3. zero \in Int /\ zero = 0 /\ gap \in Int /\ gap >= 0 /\ attempts + gap = allowed
    BY DEF CheckInv
  <1> HIDE DEF zero, gap
  <1>4. room = gap
    BY <1>3, LargerOfTwo
  <1>5. Batch \in Int
    BY DiscoveryAssumption
  <1> HIDE DEF room
  <1>6. limit \in Int /\ limit <= gap /\ (limit = gap \/ (~final /\ limit = Batch))
    <2>1. Min({room, Batch}) \in {room, Batch} /\ Min({room, Batch}) <= room
      BY <1>3, <1>4, <1>5, AtMost
    <2>2. CASE final
      BY <1>3, <1>4, <2>2
    <2>3. CASE ~final
      BY <1>3, <1>4, <1>5, <2>1, <2>3
    <2>4. QED
      BY <2>2, <2>3
  <1> HIDE DEF limit
  <1>7. all \in Int
    BY <1>2
  <1>8. n \in {limit, all} /\ n <= limit
    BY <1>6, <1>7, AtMost
  <1>9. n \in Int
    BY <1>6, <1>7, <1>8
  <1> HIDE DEF n
  <1>10. lanes[1] \in Int /\ lanes[2] \in Int /\ lanes[1] + lanes[2] = n
    <2> DEFINE gems == names.gem
               others == names.reel + names.other
    <2>1. gems \in Int /\ others \in Int
      BY <1>2
    <2>2. lanes = LaneSizes(n, gems, others)
      OBVIOUS
    <2> HIDE DEF gems, others, lanes
    <2>3. n \in Int
      BY <1>9
    <2>4. /\ LaneSizes(n, gems, others)[1] \in Int /\ LaneSizes(n, gems, others)[2] \in Int
          /\ LaneSizes(n, gems, others)[1] + LaneSizes(n, gems, others)[2] = n
      BY <2>1, <2>3, LanesAddUp, Zenon
    <2>5. QED
      BY <2>2, <2>4
  <1> HIDE DEF lanes
  <1>11. took.reel + took.gem + took.other = n
    <2>1. took.reel \in Int /\ took.gem \in Int /\ took.other \in Int
      BY <1>1
    <2>2. QED
      BY <1>1, <1>10, <2>1
  <1>12. attempts \in Nat
    BY DEF CheckInv
  <1>13. /\ attempts + n <= allowed
         /\ attempts + n = allowed \/ (~final /\ n = Batch) \/ n = all
    BY <1>3, <1>6, <1>7, <1>8, <1>9, <1>12
  <1>14. QED
    BY <1>1, <1>11, <1>13 DEF names

\* Parts that add up to the whole are the whole of each.
LEMMA AllTaken ==
    ASSUME NEW a \in Nat, NEW b \in Nat, NEW c \in Nat,
           NEW x \in 0..a, NEW y \in 0..b, NEW z \in 0..c
    PROVE  x + y + z = a + b + c => x = a /\ y = b /\ z = c
  OBVIOUS

\* What one batch of checks leaves: the allowance grown and not overdrawn, and
\* nothing held back that could have been checked.
LEMMA BatchChecked ==
    ASSUME CheckInv, NEW final \in BOOLEAN, NEW took \in Batches, NEW accepted \in 0..pending.reel,
           CheckBatch(final, took, accepted), ceiling' = ceiling
    PROVE  /\ attempts' \in Nat /\ budget' \in Nat /\ reels' \in Nat /\ pending' \in Names
           /\ attempts' <= budget' /\ budget' <= ceiling
           /\ \/ ~final /\ attempts' = attempts + Batch
              \/ attempts' >= budget
              \/ /\ pending'.reel = 0
                 /\ (~final /\ reels < goal) \/ pending'.gem + pending'.other = 0
  <1> DEFINE allowed == Grown(budget, attempts, reels)
             n == took.reel + took.gem + took.other
             tried == attempts + took.reel + took.gem + took.other
             got == reels + accepted
             names == Eligible(final)
             left == [c \in DOMAIN pending |-> pending[c] - took[c]]
  <1>1. /\ took \in BatchOf(final, allowed)
        /\ attempts' = tried /\ reels' = got /\ pending' = left
        /\ budget' = Grown(allowed, tried, got)
    BY DEF CheckBatch
  <1>2. /\ attempts \in Nat /\ budget \in Nat /\ ceiling \in Nat /\ reels \in Nat /\ goal \in Nat
        /\ attempts <= budget /\ budget <= ceiling /\ pending \in Names
    BY DEF CheckInv
  <1>3. /\ pending = [reel |-> pending.reel, gem |-> pending.gem, other |-> pending.other]
        /\ pending.reel \in Nat /\ pending.gem \in Nat /\ pending.other \in Nat
        /\ DOMAIN pending = {"reel", "gem", "other"}
    BY <1>2 DEF Names
  <1>4. /\ took.reel \in 0..pending.reel /\ took.gem \in 0..pending.gem
        /\ took.other \in 0..pending.other
    BY DEF Batches
  <1>5. allowed \in Nat /\ budget <= allowed /\ allowed <= ceiling
    BY <1>2, GrownWithin
  <1> HIDE DEF allowed
  <1>6. attempts <= allowed
    BY <1>2, <1>5
  <1>7. /\ attempts + n <= allowed
        /\ \/ attempts + n = allowed
           \/ ~final /\ n = Batch
           \/ n = names.reel + names.gem + names.other
    BY <1>1, <1>5, <1>6, BatchFits
  <1>8. n \in Nat /\ tried = attempts + n /\ got \in Nat
    BY <1>2, <1>3, <1>4
  <1>9. attempts' \in Nat /\ attempts' = attempts + n /\ reels' \in Nat
    BY <1>1, <1>2, <1>8
  <1>10. tried \in Nat /\ tried <= allowed
    BY <1>2, <1>7, <1>8
  <1>11. budget' \in Nat /\ allowed <= budget' /\ budget' <= ceiling
    <2> HIDE DEF tried, got
    <2>2. QED
      BY <1>1, <1>2, <1>5, <1>8, <1>10, GrownWithin
  <1>12. /\ pending' \in Names
         /\ pending'.reel = pending.reel - took.reel /\ pending'.gem = pending.gem - took.gem
         /\ pending'.other = pending.other - took.other
    <2>1. /\ left = [reel |-> pending.reel - took.reel, gem |-> pending.gem - took.gem,
                     other |-> pending.other - took.other]
      BY <1>3
    <2>2. /\ pending.reel - took.reel \in Nat /\ pending.gem - took.gem \in Nat
          /\ pending.other - took.other \in Nat
      BY <1>3, <1>4
    <2> HIDE DEF left
    <2>3. QED
      BY <1>1, <2>1, <2>2 DEF Names
  <1>13. /\ names.reel = pending.reel
         /\ \/ names.gem = pending.gem /\ names.other = pending.other
            \/ ~final /\ reels < goal /\ names.gem = 0 /\ names.other = 0
    BY <1>2, <1>3 DEF Eligible
  <1>14. \/ ~final /\ attempts' = attempts + Batch
         \/ attempts' >= budget
         \/ /\ pending'.reel = 0
            /\ (~final /\ reels < goal) \/ pending'.gem + pending'.other = 0
    <2> HIDE DEF n, names, left, tried, got
    <2>1. CASE attempts + n = allowed
      BY <1>2, <1>5, <1>9, <2>1
    <2>2. CASE ~final /\ n = Batch
      BY <1>9, <2>2
    <2>3. CASE n = names.reel + names.gem + names.other
      <3>1. CASE names.gem = pending.gem /\ names.other = pending.other
        <4>1. took.reel = pending.reel /\ took.gem = pending.gem /\ took.other = pending.other
          BY <1>3, <1>4, <1>13, <2>3, <3>1, AllTaken DEF n
        <4>2. pending'.reel = 0 /\ pending'.gem = 0 /\ pending'.other = 0
          BY <1>3, <1>12, <4>1
        <4>3. QED
          BY <4>2
      <3>2. CASE ~final /\ reels < goal /\ names.gem = 0 /\ names.other = 0
        <4>1. took.reel \in 0..names.reel /\ took.gem \in 0..names.gem
              /\ took.other \in 0..names.other
          BY <1>1, <1>5, <1>6, BatchFits DEF names
        <4>2. took.gem = 0 /\ took.other = 0
          BY <3>2, <4>1
        <4>3. took.reel = pending.reel
          BY <1>3, <1>4, <1>13, <2>3, <3>2, <4>2 DEF n
        <4>4. pending'.reel = 0
          BY <1>3, <1>12, <4>3
        <4>5. QED
          BY <3>2, <4>4
      <3>3. QED
        BY <1>13, <3>1, <3>2
    <2>4. QED
      BY <1>7, <2>1, <2>2, <2>3
  <1>15. attempts' <= budget'
    BY <1>1, <1>5, <1>10, <1>11
  <1>16. QED
    BY <1>9, <1>11, <1>12, <1>14, <1>15

\* The limits are naturals.
LEMMA LimitsNatural ==
    /\ MaxNew \in Nat /\ Batch \in Nat /\ GuideBudget \in Nat /\ CheckBudget \in Nat
    /\ CheckCeiling \in Nat /\ ReelGoal \in Nat /\ PoolPerDay \in Nat
    /\ GuideBudget <= CheckBudget /\ CheckBudget <= CheckCeiling
  BY DiscoveryAssumption

\* The running sums of the ceilings, as far as the cities go.
LEMMA CeilingsSum ==
    ASSUME guided \in Nat
    PROVE  /\ CityCeilings \in Seq(Nat) /\ Len(CityCeilings) = Len(DayCounts)
           /\ Sums(CityCeilings)[0] = 0
           /\ \A c \in 0..Len(DayCounts) : Sums(CityCeilings)[c] \in Nat
           /\ \A c \in 1..Len(DayCounts) :
                 /\ Sums(CityCeilings)[c] = Sums(CityCeilings)[c - 1] + CityCeilings[c]
                 /\ CityCeilings[c] \in Nat
           /\ \A c \in 0..Len(DayCounts) :
                 Sums(CityCeilings)[c] <= Total(Allocate(DayCounts, CheckCeiling - guided))
  <1> DEFINE s == CityCeilings
             f == Sums(s)
             N == Len(DayCounts)
  <1>1. s = Allocate(DayCounts, CheckCeiling - guided)
    BY DEF CityCeilings
  <1>2. CheckCeiling - guided \in Int
    BY LimitsNatural
  <1>3. s \in Seq(Nat) /\ Len(s) = N /\ N \in Nat
    BY <1>1, <1>2, SharesNatural, DaysCounted, Zenon
  <1> HIDE DEF s
  <1>4. s \in Seq(Int) /\ \A c \in 1..N : s[c] \in Nat
    BY <1>3
  <1>5. /\ f[0] = 0
        /\ \A c \in 1..N : f[c] = f[c - 1] + s[c]
    BY <1>3, <1>4, SumsAdd
  <1>6. \A c \in 0..N : f[c] \in Nat /\ \A k \in c..N : f[k] >= f[c]
    BY <1>3, SumsGrow
  <1>7. Total(s) = f[N]
    BY <1>3 DEF Total
  <1> HIDE DEF f, N
  <1>8. \A c \in 0..N : f[c] <= Total(s)
    <2> SUFFICES ASSUME NEW c \in 0..N PROVE f[c] <= Total(s)
      OBVIOUS
    <2>1. N \in c..N /\ N \in 0..N
      BY <1>3
    <2>2. f[N] >= f[c] /\ f[N] \in Nat /\ f[c] \in Nat
      BY <1>6, <2>1
    <2>3. QED
      BY <1>7, <2>2
  <1>9. QED
    BY <1>1, <1>3, <1>4, <1>5, <1>6, <1>8 DEF s, f, N

LEMMA ChecksStart == DiscoveryInit => CheckInv
  <1> SUFFICES ASSUME DiscoveryInit PROVE CheckInv
    OBVIOUS
  <1>1. /\ city = 0 /\ mode = "open" /\ pending = NoNames /\ budget = 0 /\ ceiling = 0
        /\ attempts = 0 /\ reels = 0 /\ goal = 0 /\ spent = 0 /\ released = 0 /\ kept = 0
        /\ guided \in 0..(IF Chinese THEN GuideBudget ELSE 0)
    BY DEF DiscoveryInit
  <1>2. guided \in Nat /\ guided <= CheckCeiling
    BY <1>1, LimitsNatural
  <1>3. Sums(CityCeilings)[city] = 0
    BY <1>1, <1>2, CeilingsSum
  <1>4. pending \in Names /\ city \in 0..Len(DayCounts)
    BY <1>1, DaysCounted DEF NoNames, Names
  <1>5. QED
    BY <1>1, <1>2, <1>3, <1>4 DEF CheckInv

\* The city opened next may spend its own ceiling and what was left over.
LEMMA OpenKept ==
    ASSUME CheckInv, OpenCity
    PROVE  CheckInv'
  <1> DEFINE c == city + 1
             share == CityCeilings[c]
             most == share + released
             part == CityBudgets[c]
             base == part + released
             paid == Sums(CityCeilings)[city]
             due == Sums(CityCeilings)[c]
             first == Min({most, base})
             owed == CityGoal(c)
  <1>1. /\ mode = "open" /\ city < Len(DayCounts) /\ city' = c /\ mode' = "plan"
        /\ ceiling' = most /\ goal' = owed
        /\ budget' = IF first = 0 /\ owed > 0 /\ most > 0 THEN 1 ELSE first
        /\ pending' = pending /\ attempts' = attempts /\ reels' = reels
        /\ guided' = guided /\ spent' = spent /\ released' = released /\ kept' = kept
    BY DEF OpenCity, trip
  <1>2. /\ city \in 0..Len(DayCounts) /\ guided \in Nat /\ guided <= CheckCeiling
        /\ attempts \in Nat /\ budget \in Nat /\ ceiling \in Nat
        /\ attempts <= budget /\ budget <= ceiling
        /\ reels \in Nat /\ kept \in Nat /\ spent \in Nat /\ released \in Nat /\ pending \in Names
        /\ ceiling = 0 /\ spent + released <= paid
    BY <1>1 DEF CheckInv
  <1>3. c \in 1..Len(DayCounts) /\ c - 1 = city /\ c # 0 /\ c \in 0..Len(DayCounts)
    <2> DEFINE N == Len(DayCounts)
    <2>1. N \in Nat /\ city \in 0..N /\ city < N
      BY <1>1, <1>2, DaysCounted
    <2> HIDE DEF N
    <2>2. c \in 1..N /\ c - 1 = city /\ c # 0 /\ c \in 0..N
      BY <2>1
    <2>3. QED
      BY <2>2 DEF N
  <1>4. /\ share \in Nat /\ due = paid + share /\ paid \in Nat
    BY <1>2, <1>3, CeilingsSum
  <1>5. owed \in Nat
    BY <1>2, <1>3, GoalNatural
  <1>6. part \in Nat
    <2> DEFINE zero == 0
               open == CheckBudget - guided
               total == Max({zero, open})
    <2>1. zero \in Int /\ open \in Int
      BY <1>2, LimitsNatural
    <2>2. CityBudgets = Allocate(DayCounts, total)
      BY DEF CityBudgets
    <2> HIDE DEF zero, open
    <2>3. total \in Int
      BY <2>1, AtLeast
    <2> HIDE DEF total
    <2>4. CityBudgets \in Seq(Nat) /\ Len(CityBudgets) = Len(DayCounts)
      BY <2>2, <2>3, SharesNatural, Zenon
    <2>5. QED
      BY <1>3, <2>4
  <1>7. CityCeilings' = CityCeilings
    BY <1>1 DEF CityCeilings
  <1> HIDE DEF share, part, paid, due
  <1>8. most \in Nat /\ base \in Nat
    BY <1>2, <1>4, <1>6
  <1>9. first \in {most, base} /\ first <= most
    <2> HIDE DEF most, base
    <2>1. QED
      BY <1>8, AtMost
  <1> HIDE DEF first
  <1>10. budget' \in Nat /\ budget' <= most
    BY <1>1, <1>8, <1>9
  <1>11. attempts = 0
    BY <1>2
  <1>12. spent + most <= due
    BY <1>2, <1>4
  <1>13. Sums(CityCeilings)'[city'] = due
    BY <1>1, <1>7 DEF due
  <1> HIDE DEF most, c
  <1>14. QED
    BY <1>1, <1>2, <1>3, <1>5, <1>8, <1>10, <1>11, <1>12, <1>13 DEF CheckInv

\* A city closes with what it spent and what it leaves, together its ceiling.
LEMMA CloseKept ==
    ASSUME CheckInv, CloseCity
    PROVE  CheckInv'
  <1> DEFINE zero == 0
             gap == ceiling - attempts
             limit == DayCounts[city] * PoolPerDay
  <1>1. /\ mode = "account" /\ mode' \in {"open", "done"} /\ city' = city /\ guided' = guided
        /\ spent' = spent + attempts /\ released' = Max({zero, gap})
        /\ \E k \in 0..Min({reels, limit}) : kept' = kept + k
        /\ pending' = NoNames /\ budget' = 0 /\ ceiling' = 0 /\ attempts' = 0 /\ reels' = 0
        /\ goal' = 0
    BY DEF CloseCity, Forget
  <1>2. /\ city \in 0..Len(DayCounts) /\ guided \in Nat /\ guided <= CheckCeiling
        /\ attempts \in Nat /\ budget \in Nat /\ ceiling \in Nat
        /\ attempts <= budget /\ budget <= ceiling
        /\ reels \in Nat /\ kept \in Nat /\ spent \in Nat
        /\ city # 0 /\ spent + ceiling <= Sums(CityCeilings)[city]
    BY <1>1 DEF CheckInv
  <1>3. Sums(CityCeilings)[city] \in Nat
    BY <1>2, CeilingsSum
  <1>4. zero \in Int /\ zero = 0 /\ gap \in Int /\ gap >= 0 /\ attempts + gap = ceiling
    BY <1>2
  <1>5. limit \in Int
    <2>1. city \in 1..Len(DayCounts)
      BY <1>2, DaysCounted
    <2>2. DayCounts[city] \in Nat
      BY <2>1, DaysCounted
    <2>3. QED
      BY <2>2, LimitsNatural
  <1> HIDE DEF zero, gap, limit
  <1>6. released' = gap
    BY <1>1, <1>4, LargerOfTwo
  <1>7. kept' \in Nat
    BY <1>1, <1>2, <1>5, AtMost
  <1>8. Sums(CityCeilings)'[city'] = Sums(CityCeilings)[city]
    BY <1>1 DEF CityCeilings
  <1>9. spent' + released' <= Sums(CityCeilings)[city] /\ spent' \in Nat /\ released' \in Nat
    BY <1>1, <1>2, <1>3, <1>4, <1>6
  <1>10. pending' \in Names
    BY <1>1 DEF NoNames, Names
  <1>11. QED
    BY <1>1, <1>2, <1>7, <1>8, <1>9, <1>10 DEF CheckInv

\* A search adds names, and may put a Reel behind a place checked before.
LEMMA SearchKept ==
    ASSUME CheckInv, Search
    PROVE  CheckInv'
  <1>1. PICK q \in NextQuestions, result \in DOMAIN Yields :
           /\ pending' = Adds(q, Yields[result])
           /\ reels' \in IF result = "duplicate" /\ q[1] = ReelPlatform /\ reels < attempts
                         THEN {reels, reels + 1} ELSE {reels}
    BY DEF Search
  <1>2. /\ mode = "plan" /\ mode' = "check" /\ city' = city /\ budget' = budget
        /\ ceiling' = ceiling /\ attempts' = attempts /\ goal' = goal
        /\ guided' = guided /\ spent' = spent /\ released' = released /\ kept' = kept
    BY DEF Search, trip
  <1>3. reels \in Nat /\ pending \in Names
    BY DEF CheckInv
  <1>4. reels' \in Nat
    BY <1>1, <1>3
  <1>5. Yields[result] \in Nat
    BY <1>1, LimitsNatural DEF Yields
  <1>6. pending' \in Names
    BY <1>1, <1>3, <1>5 DEF Adds, Names
  <1>7. Sums(CityCeilings)' = Sums(CityCeilings)
    BY <1>2 DEF CityCeilings
  <1>8. QED
    BY <1>2, <1>4, <1>6, <1>7 DEF CheckInv

LEMMA BatchKept ==
    ASSUME CheckInv, Check \/ CheckRest
    PROVE  CheckInv'
  <1>1. PICK final \in BOOLEAN :
           \E took \in Batches, accepted \in 0..pending.reel : CheckBatch(final, took, accepted)
    BY DEF Check, CheckRest
  <1>2. PICK took \in Batches, accepted \in 0..pending.reel : CheckBatch(final, took, accepted)
    BY <1>1
  <1>3. /\ mode \in {"check", "close"} /\ mode' \in {"plan", "account"} /\ city' = city
        /\ ceiling' = ceiling /\ goal' = goal
        /\ guided' = guided /\ spent' = spent /\ released' = released /\ kept' = kept
    BY DEF Check, CheckRest, trip
  <1>4. /\ attempts' \in Nat /\ budget' \in Nat /\ reels' \in Nat /\ pending' \in Names
        /\ attempts' <= budget' /\ budget' <= ceiling
    BY <1>2, <1>3, BatchChecked
  <1>5. Sums(CityCeilings)' = Sums(CityCeilings)
    BY <1>3 DEF CityCeilings
  <1>6. QED
    BY <1>3, <1>4, <1>5 DEF CheckInv

LEMMA ChecksStep == CheckInv /\ [DiscoveryNext]_discoveryVars => CheckInv'
  <1> SUFFICES ASSUME CheckInv, [DiscoveryNext]_discoveryVars PROVE CheckInv'
    OBVIOUS
  <1>1. CASE UNCHANGED discoveryVars
    <2>1. /\ city' = city /\ mode' = mode /\ pending' = pending /\ budget' = budget
          /\ ceiling' = ceiling /\ attempts' = attempts /\ reels' = reels /\ goal' = goal
          /\ guided' = guided /\ spent' = spent /\ released' = released /\ kept' = kept
      BY <1>1 DEF discoveryVars, checks, trip
    <2>2. Sums(CityCeilings)' = Sums(CityCeilings)
      BY <2>1 DEF CityCeilings
    <2>3. QED
      BY <2>1, <2>2 DEF CheckInv
  <1>2. CASE Plan
    <2>1. /\ city' = city /\ mode = "plan" /\ mode' = "close" /\ pending' = pending
          /\ budget' = budget /\ ceiling' = ceiling /\ attempts' = attempts /\ reels' = reels
          /\ goal' = goal
          /\ guided' = guided /\ spent' = spent /\ released' = released /\ kept' = kept
      BY <1>2 DEF Plan, StopFirst, StopDry, Stop, checks, trip
    <2>2. Sums(CityCeilings)' = Sums(CityCeilings)
      BY <2>1 DEF CityCeilings
    <2>3. QED
      BY <2>1, <2>2 DEF CheckInv
  <1>3. QED
    BY <1>1, <1>2, OpenKept, SearchKept, BatchKept, CloseKept DEF DiscoveryNext

\* For any cities, days and limits: where the cities' shares add up to the
\* trip's ceiling, no order of searches, growths and hand-overs of unused checks
\* passes it, the guides' checks included.
THEOREM ChecksWithinCeilingHolds == DiscoverySpec => []ChecksWithinCeiling
  <1>1. CheckInv => ChecksWithinCeiling
    <2> SUFFICES ASSUME CheckInv,
                        Total(Allocate(DayCounts, CheckCeiling - guided)) <= CheckCeiling - guided
                 PROVE  guided + spent + attempts <= CheckCeiling
      BY DEF ChecksWithinCeiling
    <2> DEFINE paid == Sums(CityCeilings)[city]
               all == Total(Allocate(DayCounts, CheckCeiling - guided))
    <2>1. /\ guided \in Nat /\ spent \in Nat /\ attempts \in Nat /\ ceiling \in Nat
          /\ budget \in Nat /\ attempts <= budget /\ budget <= ceiling /\ released \in Nat
          /\ city \in 0..Len(DayCounts)
          /\ spent + ceiling <= paid \/ (ceiling = 0 /\ spent + released <= paid)
      BY DEF CheckInv
    <2>2. paid \in Nat /\ paid <= all
      BY <2>1, CeilingsSum
    <2>3. all <= CheckCeiling - guided /\ CheckCeiling \in Nat
      BY LimitsNatural
    <2>4. all \in Int
      <3>1. CityCeilings = Allocate(DayCounts, CheckCeiling - guided)
        BY DEF CityCeilings
      <3>2. CityCeilings \in Seq(Int) /\ Len(CityCeilings) \in 0..Len(CityCeilings)
        BY <2>1, CeilingsSum, DaysCounted
      <3>3. QED
        BY <3>1, <3>2, SumsAdd DEF Total
    <2> HIDE DEF paid, all
    <2>5. QED
      BY <2>1, <2>2, <2>3, <2>4
  <1>2. QED
    BY <1>1, ChecksStart, ChecksStep, PTL DEF DiscoverySpec

\* No batch of checks holds back a name it may check.
THEOREM NoIdleChecksHolds == DiscoverySpec => NoIdleChecks
  <1>1. ASSUME CheckInv, [DiscoveryNext]_discoveryVars
        PROVE  [(mode = "check" \/ mode = "close") =>
                  \/ mode = "check" /\ attempts' = attempts + Batch
                  \/ attempts' >= budget
                  \/ /\ pending'.reel = 0
                     /\ \/ mode = "check" /\ reels < goal
                        \/ pending'.gem + pending'.other = 0]_discoveryVars
    <2> SUFFICES ASSUME DiscoveryNext, mode = "check" \/ mode = "close"
                 PROVE  \/ mode = "check" /\ attempts' = attempts + Batch
                        \/ attempts' >= budget
                        \/ /\ pending'.reel = 0
                           /\ \/ mode = "check" /\ reels < goal
                              \/ pending'.gem + pending'.other = 0
      BY <1>1
    <2>1. (mode = "check" /\ Check) \/ (mode = "close" /\ CheckRest)
      BY DEF DiscoveryNext, OpenCity, Plan, Search, Check, CheckRest, CloseCity
    <2>2. PICK final \in BOOLEAN :
             /\ ~final => mode = "check"
             /\ \E took \in Batches, accepted \in 0..pending.reel :
                   CheckBatch(final, took, accepted)
      BY <2>1 DEF Check, CheckRest
    <2>3. PICK took \in Batches, accepted \in 0..pending.reel : CheckBatch(final, took, accepted)
      BY <2>2
    <2>4. ceiling' = ceiling
      BY <2>1 DEF Check, CheckRest
    <2>5. /\ \/ ~final /\ attempts' = attempts + Batch
             \/ attempts' >= budget
             \/ /\ pending'.reel = 0
                /\ (~final /\ reels < goal) \/ pending'.gem + pending'.other = 0
      BY <1>1, <2>3, <2>4, BatchChecked
    <2>6. QED
      BY <2>2, <2>5
  <1>2. QED
    BY <1>1, ChecksStart, ChecksStep, PTL DEF DiscoverySpec, NoIdleChecks

\* Only questions there are get asked.
AskedTyped == asked \subseteq Question /\ errors \in Nat

LEMMA NextAreQuestions == NextQuestions \subseteq Question
  <1>1. Available \subseteq Question
    BY DEF Available
  <1>2. \A ws : Worded(ws) \subseteq Question
    BY <1>1 DEF Worded
  <1>3. OpeningQuestions \subseteq Question
    BY <1>2 DEF OpeningQuestions
  <1>4. ReelQuestions \subseteq Question
    BY <1>2 DEF ReelQuestions
  <1>5. Remaining \subseteq Question
    BY <1>2 DEF Remaining, RecoveryQuestions
  <1>6. QED
    BY <1>2, <1>3, <1>4, <1>5 DEF NextQuestions

LEMMA AskedStep == AskedTyped /\ [DiscoveryNext]_discoveryVars => AskedTyped'
  <1> SUFFICES ASSUME AskedTyped, [DiscoveryNext]_discoveryVars PROVE AskedTyped'
    OBVIOUS
  <1>1. CASE UNCHANGED discoveryVars \/ OpenCity \/ Plan \/ Check \/ CheckRest
    BY <1>1 DEF AskedTyped, discoveryVars, search, OpenCity, Plan, StopFirst, StopDry, Check, CheckRest
  <1>2. CASE Search
    <2>1. PICK q \in NextQuestions : asked' = asked \cup {q}
      BY <1>2 DEF Search
    <2>2. errors' \in {0, errors + 1}
      BY <1>2 DEF Search
    <2>3. QED
      BY <2>1, <2>2, NextAreQuestions DEF AskedTyped
  <1>3. CASE CloseCity
    BY <1>3 DEF CloseCity, Forget, AskedTyped
  <1>4. QED
    BY <1>1, <1>2, <1>3 DEF DiscoveryNext

\* The counters, budgets and names of the social search stay natural numbers,
\* and only questions of the catalogue are put.
THEOREM DiscoveryTypeCorrect == DiscoverySpec => []DiscoveryTypeOK
  <1>1. DiscoveryInit => AskedTyped
    BY DEF DiscoveryInit, AskedTyped
  <1>2. CheckInv /\ DryInv /\ AskedTyped => DiscoveryTypeOK
    <2> SUFFICES ASSUME CheckInv, DryInv, AskedTyped PROVE DiscoveryTypeOK
      OBVIOUS
    <2>1. pending.reel \in Nat /\ pending.gem \in Nat /\ pending.other \in Nat
      BY DEF CheckInv, Names
    <2>2. QED
      BY <2>1 DEF CheckInv, DryInv, CountersTell, AskedTyped, DiscoveryTypeOK
  <1>3. QED
    BY <1>1, <1>2, ChecksStart, ChecksStep, DryStarts, DryStep, AskedStep, PTL DEF DiscoverySpec

(***************************************************************************)
(* The pool of a trip                                                      *)
(***************************************************************************)

\* Cardinalities of the parts a city's cards fall into.
LEMMA Parts ==
    ASSUME NEW S \in SUBSET Listing, NEW T \in SUBSET Listing, S \cap T = {}
    PROVE  /\ Cardinality(S) \in Nat /\ Cardinality(T) \in Nat
           /\ Cardinality(S \cup T) = Cardinality(S) + Cardinality(T)
  <1>1. IsFiniteSet(S) /\ IsFiniteSet(T)
    BY FS_Subset, CityPoolAssumption
  <1>2. Cardinality(S \cup T) = Cardinality(S) + Cardinality(T) - Cardinality(S \cap T)
    BY <1>1, FS_Union
  <1>3. Cardinality(S) \in Nat /\ Cardinality(T) \in Nat /\ Cardinality(S \cap T) = 0
    BY <1>1, FS_CardinalityType, FS_EmptySet
  <1>4. QED
    BY <1>2, <1>3

LEMMA SmallerPart ==
    ASSUME NEW S \in SUBSET Listing, NEW T \in SUBSET S
    PROVE  /\ Cardinality(S) \in Nat /\ Cardinality(T) \in Nat
           /\ Cardinality(T) <= Cardinality(S)
  BY FS_Subset, FS_CardinalityType, CityPoolAssumption

LEMMA KindsSplit ==
    ASSUME NEW S \in SUBSET Listing
    PROVE  Cardinality(S) = Cardinality(OfKind(S, "meal")) + Cardinality(OfKind(S, "sight"))
  <1>1. /\ OfKind(S, "meal") = S \cap Eatery /\ OfKind(S, "sight") = S \ Eatery
        /\ S = (S \cap Eatery) \cup (S \ Eatery)
    BY DEF OfKind
  <1>2. QED
    BY <1>1, Parts

\* What the days of a city ask for fits its share.
LEMMA QuotasFit ==
    ASSUME NEW c \in TripCity
    PROVE  /\ Quota(c, "meal") \in Nat /\ Quota(c, "sight") \in Nat /\ Target(c) \in Nat
           /\ Quota(c, "meal") + Quota(c, "sight") <= Target(c)
  <1>1. /\ DaysIn[c] \in Nat /\ MealsPerDay \in Nat /\ SightsPerDay \in Nat /\ CardsPerDay \in Nat
        /\ MealsPerDay + SightsPerDay <= CardsPerDay
    BY CityPoolAssumption
  <1>2. \A d, m, s, k \in Nat : m + s <= k => d * m + d * s <= d * k
    <2>1. SUFFICES ASSUME NEW d \in Nat, NEW m \in Nat, NEW s \in Nat, NEW k \in Nat, m + s <= k
                   PROVE  d * m + d * s <= d * k
      OBVIOUS
    <2>2. d * k = d * m + d * s + d * (k - (m + s)) /\ k - (m + s) \in Nat
      BY <2>1
    <2>3. d * (k - (m + s)) \in Nat /\ d * m \in Nat /\ d * s \in Nat
      BY <2>1, <2>2
    <2>4. QED
      BY <2>2, <2>3
  <1>3. /\ Quota(c, "meal") = DaysIn[c] * MealsPerDay
        /\ Quota(c, "sight") = DaysIn[c] * SightsPerDay
        /\ Target(c) = DaysIn[c] * CardsPerDay
    BY DEF Quota, Target
  <1>4. QED
    BY <1>1, <1>2, <1>3

\* What is picked for a kind out of o cards of profiles, p of posts and r others,
\* when it needs q: the least of what there is and what it needs, if so much of
\* the posts' (fp) and of the others (fr) is picked.
LEMMA Shares ==
    ASSUME NEW o \in Nat, NEW p \in Nat, NEW r \in Nat, NEW fp \in Nat, NEW fr \in Nat,
           NEW q \in Nat,
           fp >= Least(p, q), fr >= Least(r, AtLeast0(q - (o + p)))
    PROVE  o + fp + fr >= Least((o + p) + r, q)
  <1>1. CASE p < q
    BY <1>1 DEF Least, AtLeast0
  <1>2. CASE ~(p < q)
    BY <1>2 DEF Least, AtLeast0
  <1>3. QED
    BY <1>1, <1>2

LEMMA ReservedWithinQuota ==
    ASSUME NEW o \in Nat, NEW p \in Nat, NEW r \in Nat, NEW q \in Nat
    PROVE  /\ Least(p, q) \in Nat /\ Least(r, AtLeast0(q - (o + p))) \in Nat
           /\ Least(p, q) <= p /\ Least(r, AtLeast0(q - (o + p))) <= r
           /\ Least(p, q) + Least(r, AtLeast0(q - (o + p))) <= q
  BY DEF Least, AtLeast0

\* A city's cards of one kind, and what is picked of them.
LEMMA KindCovered ==
    ASSUME NEW c \in TripCity, NEW k \in Kind, NEW S \in SUBSET In(c), IsCityPool(S, c)
    PROVE  /\ Cardinality(OfKind(S, k)) >= Least(Cardinality(OfKind(In(c), k)), Quota(c, k))
           /\ Essential(c, k) \in Nat /\ Options(c, k) \in Nat
           /\ Essential(c, k) <= Cardinality(OfKind(Automatic(c), k))
           /\ Options(c, k) <= Cardinality(OfKind(Fallback(c), k))
           /\ Essential(c, k) + Options(c, k) <= Quota(c, k)
  <1> DEFINE own == OfKind(Own(c), k)
             posted == OfKind(Automatic(c), k)
             others == OfKind(Fallback(c), k)
             fromPosts == OfKind(S \cap Automatic(c), k)
             fromOthers == OfKind(S \cap Fallback(c), k)
             quota == Quota(c, k)
  <1>1. In(c) \subseteq Listing
    BY DEF In, Held
  <1>2. /\ Own(c) \subseteq In(c) /\ Automatic(c) \subseteq In(c) /\ Fallback(c) \subseteq In(c)
        /\ Own(c) \cap Automatic(c) = {}
        /\ (Own(c) \cup Automatic(c)) \cap Fallback(c) = {}
        /\ In(c) = (Own(c) \cup Automatic(c)) \cup Fallback(c)
    BY DEF Own, Automatic, Fallback
  <1>3. /\ own \subseteq Own(c) /\ posted \subseteq Automatic(c) /\ others \subseteq Fallback(c)
        /\ OfKind(Own(c) \cup Automatic(c), k) = own \cup posted
        /\ OfKind(In(c), k) = (own \cup posted) \cup others
        /\ fromPosts \subseteq posted /\ fromOthers \subseteq others
    BY <1>2 DEF OfKind
  <1>4. OfKind(S, k) = (own \cup fromPosts) \cup fromOthers
    <2>1. Own(c) \subseteq S
      BY DEF IsCityPool
    <2>2. QED
      BY <1>2, <2>1 DEF OfKind
  <1>5. quota \in Nat
    BY QuotasFit DEF Kind
  <1>6. /\ Cardinality(fromPosts) >= Essential(c, k)
        /\ Cardinality(fromOthers) >= Options(c, k)
    BY DEF IsCityPool
  <1>7. /\ Cardinality(own \cup posted) = Cardinality(own) + Cardinality(posted)
        /\ Cardinality(OfKind(In(c), k)) = Cardinality(own \cup posted) + Cardinality(others)
        /\ Cardinality(own) \in Nat /\ Cardinality(posted) \in Nat /\ Cardinality(others) \in Nat
    <2>1. /\ own \in SUBSET Listing /\ posted \in SUBSET Listing /\ others \in SUBSET Listing
          /\ own \cup posted \in SUBSET Listing
          /\ own \cap posted = {} /\ (own \cup posted) \cap others = {}
      BY <1>1, <1>2, <1>3
    <2>2. QED
      BY <1>3, <2>1, Parts
  <1>8. /\ Cardinality(OfKind(S, k)) =
              Cardinality(own) + Cardinality(fromPosts) + Cardinality(fromOthers)
        /\ Cardinality(fromPosts) \in Nat /\ Cardinality(fromOthers) \in Nat
    <2>1. /\ own \in SUBSET Listing /\ fromPosts \in SUBSET Listing
          /\ fromOthers \in SUBSET Listing /\ own \cup fromPosts \in SUBSET Listing
          /\ own \cap fromPosts = {} /\ (own \cup fromPosts) \cap fromOthers = {}
      BY <1>1, <1>2, <1>3
    <2>2. QED
      BY <1>4, <2>1, Parts
  <1>9. /\ Essential(c, k) = Least(Cardinality(posted), quota)
        /\ Needed(c, k) = AtLeast0(quota - Cardinality(own \cup posted))
        /\ Options(c, k) = Least(Cardinality(others), Needed(c, k))
    BY <1>3 DEF Essential, Needed, Options
  <1> DEFINE o == Cardinality(own)
             p == Cardinality(posted)
             r == Cardinality(others)
             fp == Cardinality(fromPosts)
             fr == Cardinality(fromOthers)
             q == Quota(c, k)
  <1>10. /\ o \in Nat /\ p \in Nat /\ r \in Nat /\ fp \in Nat /\ fr \in Nat /\ q \in Nat
         /\ Essential(c, k) = Least(p, q) /\ Options(c, k) = Least(r, AtLeast0(q - (o + p)))
         /\ fp >= Essential(c, k) /\ fr >= Options(c, k)
         /\ Cardinality(OfKind(In(c), k)) = (o + p) + r
         /\ Cardinality(OfKind(S, k)) = o + fp + fr
         /\ Cardinality(OfKind(Automatic(c), k)) = p /\ Cardinality(OfKind(Fallback(c), k)) = r
         /\ Quota(c, k) = q
    BY <1>5, <1>6, <1>7, <1>8, <1>9
  <1> HIDE DEF own, posted, others, fromPosts, fromOthers, quota, o, p, r, fp, fr, q
  <1>11. o + fp + fr >= Least((o + p) + r, q)
    BY <1>10, Shares
  <1>12. QED
    BY <1>10, <1>11, ReservedWithinQuota

\* Whatever is picked as select_city_pool picks it covers the city's days within
\* its share.
LEMMA CityCovered ==
    ASSUME NEW c \in TripCity, NEW S \in SUBSET In(c), IsCityPool(S, c)
    PROVE  /\ \A k \in Kind : Cardinality(OfKind(S, k))
                                >= Least(Cardinality(OfKind(In(c), k)), Quota(c, k))
           /\ Own(c) \subseteq S
           /\ Cardinality(S \ Own(c)) <= Target(c)
  <1> DEFINE ess == Essential(c, "meal") + Essential(c, "sight")
             opt == Options(c, "meal") + Options(c, "sight")
             posted == Cardinality(Automatic(c))
             others == Cardinality(Fallback(c))
  <1>1. "meal" \in Kind /\ "sight" \in Kind
    BY DEF Kind
  <1>2. /\ In(c) \subseteq Listing
        /\ Automatic(c) \in SUBSET Listing /\ Fallback(c) \in SUBSET Listing
        /\ Automatic(c) \cap Fallback(c) = {}
        /\ In(c) = Own(c) \cup Automatic(c) \cup Fallback(c)
        /\ Own(c) \cap Automatic(c) = {} /\ Own(c) \cap Fallback(c) = {}
    BY DEF In, Held, Own, Automatic, Fallback
  <1>3. /\ ess \in Nat /\ opt \in Nat /\ ess + opt <= Target(c) /\ Target(c) \in Nat
    BY <1>1, KindCovered, QuotasFit
  <1>4. /\ posted \in Nat /\ others \in Nat /\ ess <= posted /\ opt <= others
    <2>1. /\ Cardinality(OfKind(Automatic(c), "meal")) \in Nat
          /\ Cardinality(OfKind(Automatic(c), "sight")) \in Nat
          /\ Cardinality(OfKind(Fallback(c), "meal")) \in Nat
          /\ Cardinality(OfKind(Fallback(c), "sight")) \in Nat
      BY <1>2, SmallerPart DEF OfKind
    <2>2. /\ posted = Cardinality(OfKind(Automatic(c), "meal"))
                        + Cardinality(OfKind(Automatic(c), "sight"))
          /\ others = Cardinality(OfKind(Fallback(c), "meal"))
                        + Cardinality(OfKind(Fallback(c), "sight"))
      BY <1>2, KindsSplit
    <2>3. /\ Essential(c, "meal") \in Nat /\ Essential(c, "sight") \in Nat
          /\ Options(c, "meal") \in Nat /\ Options(c, "sight") \in Nat
          /\ Essential(c, "meal") <= Cardinality(OfKind(Automatic(c), "meal"))
          /\ Essential(c, "sight") <= Cardinality(OfKind(Automatic(c), "sight"))
          /\ Options(c, "meal") <= Cardinality(OfKind(Fallback(c), "meal"))
          /\ Options(c, "sight") <= Cardinality(OfKind(Fallback(c), "sight"))
      BY <1>1, KindCovered
    <2>4. QED
      BY <2>1, <2>2, <2>3
  <1>5. /\ Cardinality(S \cap Automatic(c)) = AutomaticPicked(c)
        /\ Cardinality(S \cap Fallback(c)) = FallbackPicked(c)
        /\ Own(c) \subseteq S
    BY DEF IsCityPool
  <1>6. Cardinality(S \ Own(c)) = AutomaticPicked(c) + FallbackPicked(c)
    <2>1. /\ S \ Own(c) = (S \cap Automatic(c)) \cup (S \cap Fallback(c))
          /\ (S \cap Automatic(c)) \cap (S \cap Fallback(c)) = {}
          /\ S \cap Automatic(c) \in SUBSET Listing /\ S \cap Fallback(c) \in SUBSET Listing
      BY <1>2
    <2>2. QED
      BY <1>5, <2>1, Parts
  <1>7. /\ Reserved(c) = opt + ess
        /\ AutomaticPicked(c) = ess + Least(posted - ess, AtLeast0(Target(c) - Reserved(c)))
        /\ FallbackPicked(c) =
              opt + Least(others - opt, AtLeast0(Target(c) - AutomaticPicked(c) - opt))
    <2>1. /\ Essential(c, "meal") \in Nat /\ Essential(c, "sight") \in Nat
          /\ Options(c, "meal") \in Nat /\ Options(c, "sight") \in Nat
      BY <1>1, KindCovered
    <2>2. QED
      BY <2>1 DEF Reserved, AutomaticPicked, FallbackPicked
  <1> HIDE DEF ess, opt, posted, others
  <1>8. Cardinality(S \ Own(c)) <= Target(c)
    BY <1>3, <1>4, <1>6, <1>7 DEF Least, AtLeast0
  <1>9. QED
    BY <1>5, <1>8, KindCovered

LEMMA PoolStarts == PoolInit => PoolTypeOK /\ EveryCityCovered
  BY CityPoolAssumption DEF PoolInit, PoolTypeOK, EveryCityCovered

LEMMA FindTyped ==
    ASSUME PoolTypeOK, NEW S \in SUBSET Listing, NEW source \in {"buzz", "google", "profile"},
           NEW citiesFor, Find(S, source, citiesFor)
    PROVE  /\ cards' \in [Listing -> SUBSET {"buzz", "google", "profile", "attached"}]
           /\ cityOf' \in [Listing -> TripCity \cup {NoCity}]
  BY DEF Find, PoolTypeOK

LEMMA PoolStep ==
    PoolTypeOK /\ EveryCityCovered /\ [PoolNext]_poolVars => PoolTypeOK' /\ EveryCityCovered'
  <1> SUFFICES ASSUME PoolTypeOK, EveryCityCovered, [PoolNext]_poolVars
               PROVE  PoolTypeOK' /\ EveryCityCovered'
    OBVIOUS
  <1>a. ASSUME NEW C, NEW social PROVE Admissible(C, social) \subseteq Listing
    BY DEF Admissible
  <1>1. CASE UNCHANGED poolVars
    <2>1. /\ stage' = stage /\ cards' = cards /\ cityOf' = cityOf /\ searched' = searched
          /\ chosen' = chosen /\ rows' = rows /\ losses' = losses
      BY <1>1 DEF poolVars
    <2>2. \A c : In(c)' = In(c) /\ Own(c)' = Own(c)
      BY <2>1 DEF In, Held, Own, From
    <2>3. EveryCityCovered'
      BY <2>1, <2>2 DEF EveryCityCovered
    <2>4. QED
      BY <2>1, <2>3 DEF PoolTypeOK
  <1>2. CASE Start
    BY <1>2 DEF Start, PoolTypeOK, EveryCityCovered
  <1>3. CASE SocialFinds
    <2>1. PICK S \in SUBSET Admissible(TripCity, TRUE) : Find(S, "buzz", NearCity)
      BY <1>3 DEF SocialFinds
    <2>2. QED
      BY <1>3, <1>a, <2>1, FindTyped DEF SocialFinds, PoolTypeOK, EveryCityCovered
  <1>4. ASSUME NEW c \in TripCity, NEW k \in Kind, SearchCity(c, k)
        PROVE  PoolTypeOK' /\ EveryCityCovered'
    <2>1. /\ cards' \in [Listing -> SUBSET {"buzz", "google", "profile", "attached"}]
          /\ cityOf' \in [Listing -> TripCity \cup {NoCity}]
      <3>1. CASE UNCHANGED <<cards, cityOf>>
        BY <3>1 DEF PoolTypeOK
      <3>2. CASE \E S \in SUBSET Admissible({c}, FALSE) :
                     Find(S, "google", [p \in Listing |-> {c}])
        BY <1>a, <3>2, FindTyped
      <3>3. QED
        BY <1>4, <3>1, <3>2 DEF SearchCity
    <2>2. QED
      BY <1>4, <2>1 DEF SearchCity, PoolTypeOK, EveryCityCovered
  <1>5. CASE SearchAround
    <2>1. PICK S \in SUBSET (Admissible(TripCity, FALSE) \ Held) :
              Find(S, "google", NearCity)
      BY <1>5 DEF SearchAround
    <2>2. QED
      BY <1>5, <1>a, <2>1, FindTyped DEF SearchAround, PoolTypeOK, EveryCityCovered
  <1>6. CASE ProfileFinds
    <2>1. PICK S \in SUBSET Admissible(TripCity, FALSE) : Find(S, "profile", NearCity)
      BY <1>6 DEF ProfileFinds
    <2>2. QED
      BY <1>6, <1>a, <2>1, FindTyped DEF ProfileFinds, PoolTypeOK, EveryCityCovered
  <1>7. CASE Dedup
    <2>1. PICK drop \in SUBSET Held :
              cards' = [p \in Listing |->
                 IF p \in drop THEN {}
                 ELSE cards[p] \cup UNION {cards[d] : d \in {e \in drop : {p, e} \in Twin}}]
      BY <1>7 DEF Dedup
    <2>2. cards' \in [Listing -> SUBSET {"buzz", "google", "profile", "attached"}]
      <3>1. cards \in [Listing -> SUBSET {"buzz", "google", "profile", "attached"}]
        BY DEF PoolTypeOK
      <3>2. \A p \in Listing :
               UNION {cards[d] : d \in {e \in drop : {p, e} \in Twin}}
                 \subseteq {"buzz", "google", "profile", "attached"}
        BY <3>1 DEF Held
      <3>3. QED
        BY <2>1, <3>1, <3>2
    <2>3. QED
      BY <1>7, <2>2 DEF Dedup, PoolTypeOK, EveryCityCovered
  <1>8. CASE Select
    <2>1. PICK S \in SUBSET Held :
              /\ \A c \in TripCity : IsCityPool(S \cap In(c), c)
              /\ chosen' = S /\ stage' \in {"failed", "save"}
      BY <1>8 DEF Select
    <2>2. cards' = cards /\ cityOf' = cityOf
      BY <1>8 DEF Select
    <2>3. PoolTypeOK'
      BY <1>8, <2>1 DEF Select, PoolTypeOK, Held
    <2>4. \A c \in TripCity :
             /\ \A k \in Kind : Cardinality(OfKind(S \cap In(c), k))
                                  >= Least(Cardinality(OfKind(In(c), k)), Quota(c, k))
             /\ Own(c) \subseteq S \cap In(c)
             /\ Cardinality((S \cap In(c)) \ Own(c)) <= Target(c)
      BY <2>1, CityCovered
    <2>5. \A c : In(c)' = In(c) /\ Own(c)' = Own(c)
      BY <2>2 DEF In, Held, Own, From
    <2>6. EveryCityCovered'
      BY <2>1, <2>4, <2>5 DEF EveryCityCovered
    <2>7. QED
      BY <2>3, <2>6
  <1>9. CASE Save
    BY <1>9 DEF Save, PoolTypeOK, EveryCityCovered
  <1>10. CASE Lose
    BY <1>10, CityPoolAssumption DEF Lose, PoolTypeOK, EveryCityCovered
  <1>11. QED
    BY <1>1, <1>2, <1>3, <1>4, <1>5, <1>6, <1>7, <1>8, <1>9, <1>10 DEF PoolNext

\* Found places, their cities and the saved rows keep their types.
THEOREM PoolTypeCorrect == PoolSpec => []PoolTypeOK
  BY PoolStarts, PoolStep, PTL DEF PoolSpec

\* For any listings, cities, days and shares with room for a day's meals and
\* sights, the pool covers every city's days within its share, from whichever
\* source the places came.
THEOREM EveryCityCoveredHolds == PoolSpec => []EveryCityCovered
  BY PoolStarts, PoolStep, PTL DEF PoolSpec

=============================================================================
