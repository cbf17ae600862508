------------------------------ MODULE AgentRun ------------------------------
(***************************************************************************)
(* The agent loop: Orchestrator::run_loop, its turns and tool dispatch     *)
(* (nerve-agent/src/orchestrator/mod.rs, turn.rs), the compaction of the   *)
(* history and the recovery from a context overflow (compaction.rs,        *)
(* overflow.rs), with_retry around each request (provider/retry.rs), the   *)
(* cost budget that cancels the run (nerve-workstation/src/cost.rs), and   *)
(* the session that keeps the history of a run that returned Ok            *)
(* (subagent/mod.rs run_collecting, session_manager/mod.rs run_turn).      *)
(*                                                                         *)
(* The model behind the provider is external: it answers with any number   *)
(* of tool calls, or fails.  A message has a role, the number of calls it  *)
(* makes or the call it answers, and a body that counts by its size only.  *)
(***************************************************************************)
EXTENDS Naturals, Sequences, FiniteSetsExt

CONSTANTS
    Defs,               \* the agent definitions a run may have
    MaxRuns,            \* bound: runs on one session's history
    MaxCalls,           \* bound: tool calls in one response
    MaxRetries,         \* RetryPolicy::max_retries
    KeepPrefix,         \* HISTORY_KEEP_PREFIX
    KeepRecent,         \* HISTORY_KEEP_RECENT
    Threshold,          \* compact_threshold_tokens
    Ceiling             \* the context window less the response reserve

\* max_requests_per_turn and cost_budget_usd (in responses) are None when 0.
AgentDef == [max_turns : Nat \ {0}, max_requests : Nat, max_tool_failures : Nat,
             verify_completion : BOOLEAN, cost_budget : Nat]

ASSUME AgentRunAssumption ==
    /\ Defs \subseteq AgentDef
    /\ MaxRuns \in Nat /\ MaxCalls \in Nat /\ MaxRetries \in Nat
    /\ KeepPrefix \in Nat /\ KeepRecent \in Nat
    /\ Threshold \in Nat /\ Ceiling \in Nat

VARIABLES
    pc,             \* where the loop stands
    def,            \* the run's AgentDef
    history,        \* the orchestrator's messages
    saved,          \* the messages the session keeps
    runs,           \* runs begun
    turn, requests, failures, verified,     \* locals of run_loop
    pending,        \* tool calls of the last response not yet dispatched
    attempts,       \* retries of the request in progress
    retried,        \* was this turn's request resent after an overflow?
    spent,          \* the cost so far
    cancel,         \* the run's CancelToken
    afterCancel,    \* history: roles of the messages added since the token was cancelled
    cut             \* history: a guard stopped a run with calls undispatched

locals == <<turn, requests, failures, verified, pending, attempts, retried, spent>>
agentVars == <<pc, def, history, saved, runs, locals, cancel, afterCancel, cut>>

(***************************************************************************)
(* Messages                                                                *)
(***************************************************************************)
Message(role, calls, answers, body) ==
    [role |-> role, calls |-> calls, answers |-> answers, body |-> body]
User == Message("user", 0, 0, "text")
Assistant(calls) == Message("assistant", calls, 0, "text")
Tool(k, body) == Message("tool", 0, k, body)

Bodies == {"tiny", "big"}           \* what a tool returns
Size(body) == CASE body \in {"text", "tiny"} -> 1 [] body = "stub" -> 2 [] body = "big" -> 4
Tokens(h) == MapThenSumSet(LAMBDA i : Size(h[i].body), DOMAIN h)

(***************************************************************************)
(* compact_history: newest first, the tool bodies between the prefix and   *)
(* the recent window are stubbed until the budget is met.  The loop stops  *)
(* at the largest j from which stubbing is enough, and below all of them   *)
(* when no j is.  A stub may be larger than the body it replaces.          *)
(***************************************************************************)
Middle(h) == (KeepPrefix + 1)..(Len(h) - KeepRecent)
IsElidable(m) == m.role = "tool" /\ m.body # "stub"
Elidable(h) == {i \in DOMAIN h \cap Middle(h) : IsElidable(h[i])}
Stubbed(h, S) == [i \in DOMAIN h |-> IF i \in S THEN [h[i] EXCEPT !.body = "stub"] ELSE h[i]]
StubbedFrom(h, j) == Stubbed(h, {i \in Elidable(h) : i >= j})
Enough(h, budget) ==
    {j \in Elidable(h) \cup {Len(h) + 1} : Tokens(StubbedFrom(h, j)) <= budget}

\* MUTANT: the oldest bodies are stubbed first.
CompactOldest(h, budget) ==
    LET Upto(j) == Stubbed(h, {i \in Elidable(h) : i <= j})
        enough == {j \in Elidable(h) \cup {0} : Tokens(Upto(j)) <= budget}
    IN IF enough = {} THEN Upto(Len(h)) ELSE Upto(Min(enough))

Compact(h, budget) ==
    IF Enough(h, budget) = {} THEN StubbedFrom(h, 0)
    ELSE StubbedFrom(h, Max(Enough(h, budget)))

Preempt(h) == IF Tokens(h) > Ceiling THEN Compact(h, Ceiling) ELSE h

\* truncate_largest_tool_result: any tool body that is not a stub already.
Truncatable(h) == {i \in DOMAIN h : IsElidable(h[i])}
Largest(h) ==       \* max_by_key returns the last of the largest
    Max({i \in Truncatable(h) :
           \A j \in Truncatable(h) : Size(h[j].body) <= Size(h[i].body)})

(***************************************************************************)
(* The run                                                                 *)
(***************************************************************************)
\* A message of this role joins the history.
Added(role) == afterCancel' = IF cancel THEN Append(afterCancel, role) ELSE afterCancel

\* run returns.  The session keeps the history of Ok and forgets that of Err.
Returns(h) ==
    /\ pc' = "idle" /\ history' = h /\ saved' = h
    /\ UNCHANGED <<def, runs, locals, cancel>>

\* MUTANT: the session keeps the history of a run that failed.
FailKeepsHistory ==
    /\ pc' = "idle" /\ saved' = history
    /\ UNCHANGED <<def, history, runs, locals, cancel, afterCancel, cut>>

Fail ==
    /\ pc' = "idle"
    /\ UNCHANGED <<def, history, saved, runs, locals, cancel, afterCancel, cut>>

BeginRun(d) ==
    /\ pc = "idle" /\ runs < MaxRuns
    /\ pc' = "turn" /\ def' = d /\ runs' = runs + 1
    /\ history' = Append(saved, User)
    /\ turn' = 1 /\ requests' = 0 /\ failures' = 0 /\ verified' = FALSE
    /\ pending' = <<>> /\ attempts' = 0 /\ retried' = FALSE /\ spent' = 0
    /\ cancel' = FALSE /\ afterCancel' = <<>>
    /\ UNCHANGED <<saved, cut>>

\* Someone interrupts the run.
Interrupt ==
    /\ pc # "idle" /\ ~cancel
    /\ cancel' = TRUE
    /\ UNCHANGED <<pc, def, history, saved, runs, locals, afterCancel, cut>>

TurnCancelled == pc = "turn" /\ cancel /\ Fail

StartTurn ==
    /\ pc = "turn" /\ ~cancel
    /\ pc' = "send"
    /\ history' = Preempt(history)
    /\ attempts' = 0 /\ retried' = FALSE
    /\ UNCHANGED <<def, saved, runs, turn, requests, failures, verified, pending,
                   spent, cancel, afterCancel, cut>>

(***************************************************************************)
(* send_with_overflow_retry around with_retry.  The token is looked at     *)
(* before every attempt and during the pauses between them.                *)
(***************************************************************************)
SendCancelled == pc = "send" /\ cancel /\ Fail

Attempt ==
    /\ pc = "send" /\ ~cancel
    /\ pc' = "wait"
    /\ UNCHANGED <<def, history, saved, runs, locals, cancel, afterCancel, cut>>

\* MUTANT: a transient failure is retried without counting it.
TransientFailureUncounted ==
    /\ pc = "wait"
    /\ pc' = "send"
    /\ UNCHANGED <<def, history, saved, runs, locals, cancel, afterCancel, cut>>

TransientFailure ==
    /\ pc = "wait"
    /\ IF attempts < MaxRetries
       THEN /\ pc' = "send" /\ attempts' = attempts + 1
            /\ UNCHANGED <<def, history, saved, runs, turn, requests, failures,
                           verified, pending, retried, spent, cancel, afterCancel, cut>>
       ELSE Fail

FatalFailure == pc = "wait" /\ Fail

Overflow ==
    /\ pc = "wait"
    /\ IF ~retried /\ Truncatable(history) # {}
       THEN /\ pc' = "send" /\ retried' = TRUE /\ attempts' = 0
            /\ history' = Stubbed(history, {Largest(history)})
            /\ UNCHANGED <<def, saved, runs, turn, requests, failures, verified,
                           pending, spent, cancel, afterCancel, cut>>
       ELSE Fail

\* The token is looked at once more when the response is there.
ResponseCancelled == pc = "wait" /\ cancel /\ Fail

AcceptResponse ==
    /\ pc = "wait" /\ ~cancel
    /\ pc' = "accepted"
    /\ UNCHANGED <<def, history, saved, runs, locals, cancel, afterCancel, cut>>

\* The assistant message is added without another look at the token, then the
\* usage event reaches the cost hook.
Respond(calls) ==
    /\ pc = "accepted"
    /\ history' = Append(history, Assistant(calls))
    /\ Added("assistant")
    /\ requests' = requests + 1 /\ spent' = spent + 1
    /\ cancel' = (cancel \/ def.cost_budget \in 1..spent)

\* Tool calls, or none but another finish reason.
CallsRequested(n) ==
    /\ Respond(n)
    /\ pc' = "tools"
    /\ pending' = [k \in 1..n |-> k]
    /\ UNCHANGED <<def, saved, runs, turn, failures, verified, attempts, retried, cut>>

\* No calls and the finish reason Stop.
FinalResponse ==
    /\ Respond(0)
    /\ pc' = "stop"
    /\ UNCHANGED <<def, saved, runs, turn, failures, verified, pending, attempts,
                   retried, cut>>

Completed ==
    /\ pc = "stop"
    /\ verified \/ ~def.verify_completion
    /\ Returns(history) /\ UNCHANGED <<afterCancel, cut>>

\* The first completion is sent back for a check when the definition says so.
\* The loop's continue skips the limit on requests.
VerifyCompletion ==
    /\ pc = "stop"
    /\ def.verify_completion /\ ~verified
    /\ verified' = TRUE
    /\ history' = Compact(Append(history, User), Threshold)
    /\ Added("user")
    /\ pc' = "next"
    /\ UNCHANGED <<def, saved, runs, turn, requests, failures, pending, attempts, retried,
                   spent, cancel, cut>>

(***************************************************************************)
(* dispatch_tool_calls                                                     *)
(***************************************************************************)
ToolCancelled == pc = "tools" /\ pending # <<>> /\ cancel /\ Fail

\* MUTANT: the token is not looked at between the calls of one response.
StartToolUnchecked ==
    /\ pc = "tools" /\ pending # <<>>
    /\ pc' = "tool"
    /\ UNCHANGED <<def, history, saved, runs, locals, cancel, afterCancel, cut>>

StartTool ==
    /\ pc = "tools" /\ pending # <<>> /\ ~cancel
    /\ pc' = "tool"
    /\ UNCHANGED <<def, history, saved, runs, locals, cancel, afterCancel, cut>>

ToolSucceeds(body) ==
    /\ pc = "tool"
    /\ pc' = "tools"
    /\ failures' = 0
    /\ history' = Append(history, Tool(Head(pending), body))
    /\ Added("tool")
    /\ pending' = Tail(pending)
    /\ UNCHANGED <<def, saved, runs, turn, requests, verified, attempts, retried,
                   spent, cancel, cut>>

ToolFails ==
    /\ pc = "tool" /\ failures < def.max_tool_failures
    /\ pc' = "tools"
    /\ failures' = failures + 1
    /\ history' = Append(history, Tool(Head(pending), "tiny"))
    /\ Added("tool")
    /\ pending' = Tail(pending)
    /\ UNCHANGED <<def, saved, runs, turn, requests, verified, attempts, retried,
                   spent, cancel, cut>>

\* The failure guard returns at once: the calls after this one get no result.
FailureGuard ==
    /\ pc = "tool" /\ failures >= def.max_tool_failures
    /\ cut' = (cut \/ Len(pending) > 1)
    /\ Returns(Append(history, Tool(Head(pending), "tiny")))
    /\ Added("tool")

RequestLimit == def.max_requests > 0 /\ requests >= def.max_requests

StopAtRequestLimit ==
    /\ pc = "tools" /\ pending = <<>> /\ RequestLimit
    /\ Returns(history) /\ UNCHANGED <<afterCancel, cut>>

EndTurn ==
    /\ pc = "tools" /\ pending = <<>> /\ ~RequestLimit
    /\ pc' = "next"
    /\ history' = Compact(history, Threshold)
    /\ UNCHANGED <<def, saved, runs, locals, cancel, afterCancel, cut>>

NextTurn ==
    /\ pc = "next" /\ turn < def.max_turns
    /\ pc' = "turn" /\ turn' = turn + 1
    /\ UNCHANGED <<def, history, saved, runs, requests, failures, verified, pending,
                   attempts, retried, spent, cancel, afterCancel, cut>>

StopAtMaxTurns ==
    /\ pc = "next" /\ turn = def.max_turns
    /\ Returns(history) /\ UNCHANGED <<afterCancel, cut>>

-----------------------------------------------------------------------------
AgentInit ==
    /\ pc = "idle" /\ def \in Defs /\ history = <<>> /\ saved = <<>> /\ runs = 0
    /\ turn = 1 /\ requests = 0 /\ failures = 0 /\ verified = FALSE
    /\ pending = <<>> /\ attempts = 0 /\ retried = FALSE /\ spent = 0
    /\ cancel = FALSE /\ afterCancel = <<>> /\ cut = FALSE

\* What the run does by itself; the provider and the tools answer in time
\* because their requests have timeouts.
Step ==
    \/ TurnCancelled \/ StartTurn
    \/ SendCancelled \/ Attempt
    \/ TransientFailure \/ FatalFailure \/ Overflow \/ ResponseCancelled
    \/ AcceptResponse \/ \E n \in 0..MaxCalls : CallsRequested(n)
    \/ FinalResponse \/ Completed \/ VerifyCompletion
    \/ ToolCancelled \/ StartTool
    \/ \E b \in Bodies : ToolSucceeds(b)
    \/ ToolFails \/ FailureGuard
    \/ StopAtRequestLimit \/ EndTurn \/ NextTurn \/ StopAtMaxTurns

AgentNext == (\E d \in Defs : BeginRun(d)) \/ Interrupt \/ Step

AgentSpec == AgentInit /\ [][AgentNext]_agentVars
AgentFairSpec == AgentSpec /\ WF_agentVars(Step)

-----------------------------------------------------------------------------
\* Every call of an assistant message is answered by the tool messages that
\* follow it, in order, and no tool message answers anything else.
Paired(h) ==
    /\ \A i \in DOMAIN h : \A k \in 1..h[i].calls :
         i + k \in DOMAIN h /\ h[i + k].role = "tool" /\ h[i + k].answers = k
    /\ \A i \in DOMAIN h : h[i].role = "tool" =>
         h[i].answers < i /\ h[i - h[i].answers].calls >= h[i].answers

\* Type correctness of the loop's state.
AgentTypeOK ==
    /\ pc \in {"idle", "turn", "send", "wait", "accepted", "stop", "tools", "tool", "next"}
    /\ def \in Defs /\ runs \in 0..MaxRuns
    /\ turn \in 1..def.max_turns /\ attempts \in 0..MaxRetries
    /\ requests \in 0..def.max_turns /\ failures \in 0..def.max_tool_failures
    /\ Len(pending) <= MaxCalls /\ spent = requests
    /\ verified \in BOOLEAN /\ retried \in BOOLEAN /\ cancel \in BOOLEAN

\* A request never carries an unanswered tool call (the providers refuse such
\* a request), across runs that were cancelled, failed or hit a limit in the
\* middle of a response's calls, and whatever was stubbed or truncated.  The
\* exception is the failure guard, which leaves calls unanswered.
RequestsPaired == pc \in {"send", "wait"} /\ ~cut => Paired(history)

\* Once the token is cancelled, by an operator or by the cost hook, wherever the
\* loop stands, the history gains no more than the result of the call that was
\* running, or the response that had just been accepted and, if that one was
\* final, the prompt to verify it.
CancelBoundsWork ==
    afterCancel \in {<<>>, <<"tool">>, <<"assistant">>, <<"user">>, <<"assistant", "user">>}

\* After a turn the history is within its budget or has nothing left to give
\* in the middle, and what was stubbed there was stubbed newest first: a body
\* that survives is older than every body stubbed by this pass, so that the
\* provider's cached prefix stays as long as possible.  The prefix and the
\* recent window are untouched.
CompactionSound ==
    [][/\ pc # "next" /\ pc' = "next" =>
            Tokens(history') <= Threshold \/ Elidable(history') = {}
       /\ \A i \in DOMAIN history :
            pc \in {"turn", "tools", "stop"} /\ pc' # "idle" /\ history'[i] # history[i] =>
              /\ i \in Middle(history')
              /\ history'[i] = [history[i] EXCEPT !.body = "stub"]
              /\ \A j \in Elidable(history') : j < i]_agentVars

\* Every run ends: retries, overflow recovery, the completion check and the
\* turns are all bounded, whatever the model and the tools answer.
RunEnds == pc # "idle" ~> pc = "idle"
=============================================================================
