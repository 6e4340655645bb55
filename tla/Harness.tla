------------------------------- MODULE Harness -------------------------------
(***************************************************************************)
(* One tracked run: every model and tool call of its body passes a gate    *)
(* that charges a step, looks for repeated state and repeated arguments,   *)
(* and saves the counters before the provider is called; a model call is   *)
(* charged for its tokens afterwards.  What the body does between calls    *)
(* is up to the body: here anything, in LinkResolution one real body.      *)
(*                                                                         *)
(* A run is sequential, so a run is one process; a crash, a cancellation   *)
(* or a failed save can end it anywhere and the agent_run row then stays   *)
(* as it was last saved.                                                   *)
(***************************************************************************)
EXTENDS Integers, Sequences, FiniteSets

CONSTANTS
    State,         \* state slices the body shows the detector
    NoState,       \* a call that shows none
    Tool,          \* fingerprints of a tool call: its name and arguments
    NoTool,        \* a model call
    Window,        \* NO_PROGRESS_WINDOW
    StateRepeats,  \* LOOP_HASH_REPEAT_THRESHOLD
    ToolRepeats,   \* TOOL_ARG_CYCLE_THRESHOLD
    MaxSteps,      \* sync_max_steps, or gather_max_steps
    MaxCost,       \* sync_max_tokens_usd
    CallCost       \* what one model call can cost

ASSUME HarnessAssumption ==
    /\ NoState \notin State /\ NoTool \notin Tool
    /\ {Window, StateRepeats, ToolRepeats} \subseteq Nat \ {0}
    /\ Window >= StateRepeats /\ Window >= ToolRepeats
    /\ MaxSteps \in Nat /\ MaxCost \in Nat /\ CallCost \subseteq Nat

VARIABLES
    pc,      \* "idle", "body", "gate", "call", "meter", "unwind", "over", "lost"
    kind,    \* the call at the gate: "llm" or "tool"
    fault,   \* what unwinds the run: "none" or the status it is saved with
    steps, cost,               \* RunBudget
    seenStates, seenTools,     \* the detector's two deques
    row      \* agent_run: [status, steps, cost]

harnessVars == <<pc, kind, fault, steps, cost, seenStates, seenTools, row>>
detector == <<seenStates, seenTools>>
counters == <<steps, cost>>

Faults == {"budget_exceeded", "no_progress", "tool_cycle", "failed"}

HarnessInit ==
    /\ pc = "idle" /\ kind = "tool" /\ fault = "none"
    /\ steps = 0 /\ cost = 0 /\ seenStates = <<>> /\ seenTools = <<>>
    /\ row = [status |-> "none", steps |-> 0, cost |-> 0]

StartRun ==
    /\ pc = "idle" /\ pc' = "body"
    /\ row' = [row EXCEPT !.status = "running"]
    /\ UNCHANGED <<kind, fault, counters, detector>>

-----------------------------------------------------------------------------
\* The gate: RunLedger.before_call

\* deque(maxlen=window_size).append
Seen(window, item) ==
    IF Len(window) < Window THEN Append(window, item) ELSE Append(Tail(window), item)

Repeats(window, item) == Cardinality({i \in DOMAIN window : window[i] = item})

OverSteps(n) == n > MaxSteps

\* Mutant of Charged: only model calls count.
ChargedForModel(k) == IF k = "llm" THEN steps + 1 ELSE steps

Charged(k) == steps + 1

\* charge_step, observe_state, observe_tool: the first that raises is the
\* fault, and the ones after it see nothing of the call.
Enter(k, s, t) ==
    LET over == OverSteps(Charged(k))
        states == IF over \/ s = NoState THEN seenStates ELSE Seen(seenStates, s)
        stuck == ~over /\ s # NoState /\ Repeats(states, s) >= StateRepeats
        tools == IF over \/ stuck \/ t = NoTool THEN seenTools ELSE Seen(seenTools, t)
        cycling == ~over /\ ~stuck /\ t # NoTool /\ Repeats(tools, t) >= ToolRepeats
    IN /\ pc = "body" /\ pc' = "gate" /\ kind' = k
       /\ steps' = Charged(k) /\ seenStates' = states /\ seenTools' = tools
       /\ fault' = CASE over -> "budget_exceeded"
                     [] stuck -> "no_progress"
                     [] cycling -> "tool_cycle"
                     [] OTHER -> "none"
       /\ UNCHANGED <<cost, row>>

\* Mutant of Saved: the counters are saved when the run ends.
SavedAtEnd == row

Saved == [row EXCEPT !.steps = steps, !.cost = cost]

\* The finally of before_call: saved whether or not the gate let it pass.
Persist ==
    /\ pc = "gate" /\ row' = Saved
    /\ pc' = IF fault = "none" THEN "call" ELSE "unwind"
    /\ UNCHANGED <<kind, fault, counters, detector>>

\* The save itself fails, or the row is gone: that error replaces the other.
PersistFails ==
    /\ pc \in {"gate", "meter"} /\ pc' = "unwind" /\ fault' = "failed"
    /\ UNCHANGED <<kind, counters, detector, row>>

-----------------------------------------------------------------------------
\* The call

\* Mutant of OverCost: the last price is forgiven.
OverCostByOne(c) == c > MaxCost + 1

OverCost(c) == c > MaxCost

ToolAnswers ==
    /\ pc = "call" /\ kind = "tool" /\ pc' = "body"
    /\ UNCHANGED <<kind, fault, counters, detector, row>>

\* The tokens of a model call are charged after it.
ModelAnswers ==
    /\ pc = "call" /\ kind = "llm" /\ pc' = "meter"
    /\ \E c \in CallCost :
          /\ cost' = cost + c
          /\ fault' = IF OverCost(cost + c) THEN "budget_exceeded" ELSE "none"
    /\ UNCHANGED <<kind, steps, detector, row>>

Meter ==
    /\ pc = "meter" /\ row' = Saved
    /\ pc' = IF fault = "none" THEN "body" ELSE "unwind"
    /\ UNCHANGED <<kind, fault, counters, detector>>

\* A provider error, an invalid output, or a reply without usage to charge:
\* the body recovers from some, others unwind it.
CallFails ==
    /\ pc = "call"
    /\ \E caught \in BOOLEAN :
          /\ pc' = IF caught THEN "body" ELSE "unwind"
          /\ fault' = IF caught THEN "none" ELSE "failed"
    /\ UNCHANGED <<kind, counters, detector, row>>

-----------------------------------------------------------------------------
\* The end: tracked_run

BodyRaises ==
    /\ pc = "body" /\ pc' = "unwind" /\ fault' = "failed"
    /\ UNCHANGED <<kind, counters, detector, row>>

BodyReturns ==
    /\ pc = "body" /\ pc' = "unwind"
    /\ UNCHANGED <<kind, fault, counters, detector, row>>

\* A manual edit catches RuntimeError, the harness's own faults among them,
\* and raises an input error in their place.
Retype ==
    /\ pc = "unwind" /\ fault \in Faults \ {"failed"} /\ fault' = "failed"
    /\ UNCHANGED <<pc, kind, counters, detector, row>>

Settle ==
    /\ pc = "unwind" /\ pc' = "over"
    /\ row' = [Saved EXCEPT !.status = IF fault = "none" THEN "ok" ELSE fault]
    /\ UNCHANGED <<kind, fault, counters, detector>>

SettleFails ==
    /\ pc = "unwind" /\ pc' = "lost"
    /\ UNCHANGED <<kind, fault, counters, detector, row>>

\* The process dies, or the task is cancelled: no handler of tracked_run runs.
Crash ==
    /\ pc \notin {"idle", "over", "lost"} /\ pc' = "lost"
    /\ UNCHANGED <<kind, fault, counters, detector, row>>

\* The gate and the provider, whatever the body is.
Boundary ==
    \/ StartRun \/ Persist \/ PersistFails \/ ToolAnswers \/ ModelAnswers \/ Meter
    \/ CallFails \/ Settle \/ SettleFails

AnyCall ==
    \/ \E s \in State \cup {NoState} : Enter("llm", s, NoTool)
    \/ \E s \in State \cup {NoState}, t \in Tool : Enter("tool", s, t)

HarnessStep == Boundary \/ AnyCall \/ BodyRaises \/ BodyReturns \/ Retype

HarnessNext == HarnessStep \/ Crash

HarnessSpec == HarnessInit /\ [][HarnessNext]_harnessVars /\ WF_harnessVars(HarnessStep)

-----------------------------------------------------------------------------
\* Properties

HarnessTypeOK ==
    /\ pc \in {"idle", "body", "gate", "call", "meter", "unwind", "over", "lost"}
    /\ kind \in {"llm", "tool"} /\ fault \in Faults \cup {"none"}
    /\ steps \in Nat /\ cost \in Nat
    /\ seenStates \in Seq(State) /\ Len(seenStates) <= Window
    /\ seenTools \in Seq(Tool) /\ Len(seenTools) <= Window
    /\ row \in [status : {"none", "running", "ok"} \cup Faults, steps : Nat, cost : Nat]

\* A provider is only called by a run that is within its limits, and the call
\* is in the saved row before it is made: a crash never loses one.
CallsAccounted ==
    pc = "call" =>
        /\ row = [status |-> "running", steps |-> steps, cost |-> cost]
        /\ steps <= MaxSteps /\ cost <= MaxCost

\* Whatever the body does, and however many errors it recovers from, the run
\* comes to an end: the step budget is the only thing that sees to it.
RunEnds == <>(pc \in {"over", "lost"})
=============================================================================
