---------------------------- MODULE FlowDriver ------------------------------
(***************************************************************************)
(* One flow.start job (flow_job/mod.rs, flow/driver, worker/budget.rs):    *)
(* the engine thread steps a Pipeline or a Parallel strategy, admits each  *)
(* wave against the worker ceiling, fans it out over threads, and folds    *)
(* the results in declared order into the budget, while flow.steer jobs    *)
(* run extra turns on the frontier session, and flow.close, job cancel and *)
(* budget exhaustion trip tokens.                                          *)
(*                                                                         *)
(* Nodes are numbered in declared order.  The USD budget is kept, where a  *)
(* worker may report a cost of 0 or none; the token budget follows the     *)
(* same rules, but takes a count of 0 for no report and never warns.       *)
(* Prompts, events and the tape are left out.                              *)
(***************************************************************************)
EXTENDS Naturals, FiniteSets, FiniteSetsExt

CONSTANTS
    N,              \* number of declared nodes
    Strategies,     \* the strategies tried: "pipeline", "parallel"
    Needed,         \* branches the join wants ok: N for All, 1 for FirstOk
    Writers,        \* nodes with Edit or Full autonomy
    Concurrency,    \* threads of one chunk of a wave
    MaxWorkers,     \* the worker ceiling
    Limit,          \* the budget
    Costs,          \* what a turn may report
    NoUsage,        \* the cost of a turn that reported none
    Steers,         \* flow.steer jobs
    NoNode

Nodes == 1..N

ASSUME FlowAssumption ==
    /\ Strategies \subseteq {"pipeline", "parallel"}
    /\ N \in Nat \ {0} /\ Needed \in Nodes
    /\ Writers \subseteq Nodes /\ Concurrency \in Nat \ {0}
    /\ MaxWorkers \in Nat /\ Limit \in Nat \ {0} /\ Costs \subseteq Nat
    /\ NoNode \notin Nodes /\ NoUsage \notin Nat

VARIABLES
    strategy,       \* the strategy of the flow's definition
    pc,             \* the engine thread
    node,           \* node -> where it stands
    run,            \* node -> how its turn ended and what it cost
    result,         \* FlowState.results
    session,        \* node -> its live worker session
    frontier,       \* the node registered for steering
    drained,        \* the node close_all has taken out and not yet closed
    lease,          \* the writer node holding the flow root's lease
    live,           \* the worker semaphore's count
    budget,         \* the BudgetLedger's state
    token,          \* which cancel tokens are tripped
    outcome,        \* what the driver returned
    reported,       \* the terminal flow event
    steer,          \* steer job -> where it stands
    target          \* steer job -> the node it resolved

vars == <<strategy, pc, node, run, result, session, frontier, drained, lease, live,
          budget, token, outcome, reported, steer, target>>
engine == <<pc, outcome, reported>>
sessions == <<session, frontier, drained>>

Usage == Costs \cup {NoUsage}
Ends == {"none", "ok", "notok", "failed", "unresolved", "cancelled", "panicked"}
Refused == {n \in Nodes : node[n] = "refused"}
InState(s) == {n \in Nodes : node[n] = s}

Init ==
    /\ strategy \in Strategies
    /\ pc = "loop"
    /\ node = [n \in Nodes |-> "idle"]
    /\ run = [n \in Nodes |-> [end |-> "none", cost |-> NoUsage]]
    /\ result = [n \in Nodes |-> "none"]
    /\ session = [n \in Nodes |-> "none"]
    /\ frontier = NoNode /\ drained = NoNode /\ lease = NoNode
    /\ live = 0
    /\ budget = [spent |-> 0, exhausted |-> FALSE, warned |-> FALSE]
    /\ token = [run |-> FALSE, registry |-> FALSE, job |-> FALSE]
    /\ outcome = "none" /\ reported = "none"
    /\ steer = [s \in Steers |-> "idle"]
    /\ target = [s \in Steers |-> NoNode]

-----------------------------------------------------------------------------
(* The BudgetLedger.                                                       *)

\* MUTANT: a silent worker is free.
ChargeReported(cost) == IF cost = NoUsage THEN 0 ELSE cost

\* A worker that reports no cost is charged the whole limit.
Charge(cost) == IF cost = NoUsage THEN Limit ELSE cost

Spend(cost) ==
    LET spent == budget.spent + Charge(cost)
        over == budget.exhausted \/ spent > Limit
    IN  [spent |-> spent, exhausted |-> over,
         warned |-> budget.warned \/ (~over /\ 10 * spent >= 8 * Limit)]

is_exhausted == budget.exhausted \/ budget.spent >= Limit

-----------------------------------------------------------------------------
(* The step interpreter: pure in the results and the dispatched nodes.     *)

Dispatched(n) == node[n] # "idle"
DoneOk(n) == result[n] = "ok"
Failed == \E n \in Nodes : result[n] = "failed"

Starts ==
    IF strategy = "pipeline"
    THEN {n \in Nodes : ~Failed /\ ~Dispatched(n) /\ \A m \in 1..(n - 1) : DoneOk(m)}
    ELSE {n \in Nodes : ~Dispatched(n)}

Finished ==
    IF strategy = "pipeline"
    THEN Failed \/ \A n \in Nodes : DoneOk(n)
    ELSE \A n \in Nodes : result[n] # "none"

FinishedOk ==
    IF strategy = "pipeline"
    THEN \A n \in Nodes : DoneOk(n)
    ELSE Cardinality({n \in Nodes : DoneOk(n)}) >= Needed

-----------------------------------------------------------------------------
(* run_loop.                                                               *)

LoopCancelled ==
    /\ pc = "loop" /\ token.run
    /\ outcome' = "notok" /\ pc' = "teardown"
    /\ UNCHANGED <<strategy, node, run, result, sessions, lease, live, budget, token,
                   reported, steer, target>>

\* Every node of the wave is marked dispatched first.
LoopDispatch ==
    /\ pc = "loop" /\ ~token.run /\ Starts # {}
    /\ node' = [n \in Nodes |-> IF n \in Starts THEN "starts" ELSE node[n]]
    /\ pc' = "admit"
    /\ UNCHANGED <<strategy, run, result, sessions, lease, live, budget, token,
                   outcome, reported, steer, target>>

\* Emit and Terminate, or no action at all: the interpreter waits for a result it
\* will not get, and the loop breaks without an outcome.
LoopEnds ==
    /\ pc = "loop" /\ ~token.run /\ Starts = {}
    /\ outcome' = IF Finished /\ FinishedOk THEN "ok" ELSE "notok"
    /\ pc' = "teardown"
    /\ UNCHANGED <<strategy, node, run, result, sessions, lease, live, budget, token,
                   reported, steer, target>>

-----------------------------------------------------------------------------
(* dispatch_wave: partition_by_budget, bounded_fan_out, then the fold.     *)

\* may_spawn and acquire, node by node.  The headroom it looks at was carved when
\* the flow started (Limit > 0), so only the semaphore can refuse.
Admit ==
    /\ pc = "admit" /\ InState("starts") # {}
    /\ LET n == Min(InState("starts"))
       IN  IF live < MaxWorkers
           THEN /\ node' = [node EXCEPT ![n] = "admitted"]
                /\ live' = live + 1
           ELSE /\ node' = [node EXCEPT ![n] = "refused"]
                /\ UNCHANGED live
    /\ UNCHANGED <<strategy, engine, run, result, sessions, lease, budget, token,
                   steer, target>>

\* MUTANT: refused nodes get no result.
PartitionedForgets ==
    /\ pc = "admit" /\ InState("starts") = {}
    /\ pc' = IF InState("admitted") = {} THEN "loop" ELSE "fan"
    /\ UNCHANGED <<strategy, node, run, result, sessions, lease, live, budget, token,
                   outcome, reported, steer, target>>

\* Refused nodes are recorded as failures at once.
Partitioned ==
    /\ pc = "admit" /\ InState("starts") = {}
    /\ result' = [n \in Nodes |-> IF n \in Refused THEN "failed" ELSE result[n]]
    /\ pc' = IF InState("admitted") = {} THEN "loop" ELSE "fan"
    /\ UNCHANGED <<strategy, node, run, sessions, lease, live, budget, token, outcome,
                   reported, steer, target>>

\* The next Concurrency nodes in declared order.
Chunk ==
    {n \in InState("admitted") :
        Cardinality({m \in InState("admitted") : m < n}) < Concurrency}

\* MUTANT: the cancelled chunk keeps its worker slots.
FanCancelledLeak ==
    /\ pc = "fan" /\ InState("admitted") # {} /\ token.run
    /\ node' = [n \in Nodes |-> IF n \in Chunk THEN "ran" ELSE node[n]]
    /\ run' = [n \in Nodes |-> IF n \in Chunk THEN [end |-> "cancelled", cost |-> NoUsage]
                                              ELSE run[n]]
    /\ UNCHANGED <<strategy, engine, result, sessions, lease, live, budget, token,
                   steer, target>>

FanCancelled ==
    /\ pc = "fan" /\ InState("admitted") # {} /\ token.run
    /\ node' = [n \in Nodes |-> IF n \in Chunk THEN "ran" ELSE node[n]]
    /\ run' = [n \in Nodes |-> IF n \in Chunk THEN [end |-> "cancelled", cost |-> NoUsage]
                                              ELSE run[n]]
    /\ live' = live - Cardinality(Chunk)
    /\ UNCHANGED <<strategy, engine, result, sessions, lease, budget, token, steer,
                   target>>

FanSpawn ==
    /\ pc = "fan" /\ InState("admitted") # {} /\ ~token.run
    /\ node' = [n \in Nodes |-> IF n \in Chunk THEN "spawned" ELSE node[n]]
    /\ pc' = "join"
    /\ UNCHANGED <<strategy, run, result, sessions, lease, live, budget, token,
                   outcome, reported, steer, target>>

Join ==
    /\ pc = "join" /\ InState("spawned") \cup InState("leasing") \cup InState("turn") = {}
    /\ pc' = "fan"
    /\ UNCHANGED <<strategy, node, run, result, sessions, lease, live, budget, token,
                   outcome, reported, steer, target>>

FanDone ==
    /\ pc = "fan" /\ InState("admitted") = {}
    /\ pc' = "fold"
    /\ UNCHANGED <<strategy, node, run, result, sessions, lease, live, budget, token,
                   outcome, reported, steer, target>>

(* run_node on its own thread.                                             *)

\* No step or no worker for the node: its slot is dropped on return.
Unresolved(n) ==
    /\ node[n] = "spawned"
    /\ node' = [node EXCEPT ![n] = "ran"]
    /\ run' = [run EXCEPT ![n].end = "unresolved"]
    /\ live' = live - 1
    /\ UNCHANGED <<strategy, engine, result, sessions, lease, budget, token, steer,
                   target>>

\* The worker is resolved and the task built; the lease is still to come.
Resolved(n) ==
    /\ node[n] = "spawned"
    /\ node' = [node EXCEPT ![n] = "leasing"]
    /\ UNCHANGED <<strategy, engine, run, result, sessions, lease, live, budget, token,
                   steer, target>>

\* A writer waits for the lease, a reader takes none.
StartTurn(n) ==
    /\ node[n] = "leasing"
    /\ n \in Writers => lease = NoNode
    /\ lease' = IF n \in Writers THEN n ELSE lease
    /\ node' = [node EXCEPT ![n] = "turn"]
    /\ UNCHANGED <<strategy, engine, run, result, sessions, live, budget, token, steer,
                   target>>

\* MUTANT: the lease is held until the flow is over.
FreeLeaseLate(n) == lease' = lease

FreeLease(n) == lease' = IF lease = n THEN NoNode ELSE lease

\* The worker's turn ends with a live session, or with an error and none.
EndTurn(n, end, cost) ==
    /\ node[n] = "turn"
    /\ node' = [node EXCEPT ![n] = "ran"]
    /\ run' = [run EXCEPT ![n] = [end |-> end,
                                  cost |-> IF end = "failed" THEN NoUsage ELSE cost]]
    /\ session' = [session EXCEPT ![n] = IF end = "failed" THEN "none" ELSE "open"]
    /\ FreeLease(n)
    /\ UNCHANGED <<strategy, engine, result, frontier, drained, live, budget, token,
                   steer, target>>

\* The slot and the lease go with the unwinding thread.
PanicTurn(n) ==
    /\ node[n] = "turn"
    /\ node' = [node EXCEPT ![n] = "ran"]
    /\ run' = [run EXCEPT ![n].end = "panicked"]
    /\ live' = live - 1
    /\ FreeLease(n)
    /\ UNCHANGED <<strategy, engine, result, sessions, budget, token, steer, target>>

(* The fold, one node after the other in declared order.                   *)

Folding == Min(InState("ran"))
SlotHeldAtFold(n) == run[n].end \in {"ok", "notok", "failed"}
Steerable == strategy = "pipeline"

\* The tape and the debit; an exhausted budget cancels the run.
FoldDebit ==
    /\ pc = "fold" /\ InState("ran") # {}
    /\ budget' = Spend(run[Folding].cost)
    /\ token' = [token EXCEPT !.run = @ \/ budget'.exhausted]
    /\ pc' = "place"
    /\ UNCHANGED <<strategy, node, run, result, sessions, lease, live, outcome,
                   reported, steer, target>>

\* close_all drains the registry before the new frontier goes in.
DrainPrior ==
    /\ pc = "place" /\ session[Folding] = "open" /\ Steerable
    /\ drained' = frontier /\ frontier' = NoNode
    /\ pc' = "closePrior"
    /\ UNCHANGED <<strategy, node, run, result, session, lease, live, budget, token,
                   outcome, reported, steer, target>>

\* Each drained session is closed under its own lock: not during a steer's turn.
Idle(n) == \A s \in Steers : ~(steer[s] = "turn" /\ target[s] = n)

\* MUTANT: close without the session's lock.
CloseUnlocked(n) ==
    /\ session' = [m \in Nodes |-> IF m = n THEN "closed" ELSE session[m]]
    /\ drained' = NoNode

CloseDrained(n) ==
    /\ Idle(n)
    /\ session' = [m \in Nodes |-> IF m = n THEN "closed" ELSE session[m]]
    /\ drained' = NoNode

ClosePrior ==
    /\ pc = "closePrior"
    /\ CloseDrained(drained)
    /\ frontier' = Folding
    /\ pc' = "record"
    /\ UNCHANGED <<strategy, node, run, result, lease, live, budget, token, outcome,
                   reported, steer, target>>

\* Not steerable: the session, if any, is closed right away.
PlaceNone ==
    /\ pc = "place" /\ ~(session[Folding] = "open" /\ Steerable)
    /\ session' = [session EXCEPT ![Folding] = IF @ = "open" THEN "closed" ELSE @]
    /\ pc' = "record"
    /\ UNCHANGED <<strategy, node, run, result, frontier, drained, lease, live, budget,
                   token, outcome, reported, steer, target>>

\* The slot is dropped and the result recorded; a panicked thread's result goes
\* under NodeId::single(), which is no node of these strategies.
FoldRecord ==
    /\ pc = "record"
    /\ LET n == Folding
       IN  /\ live' = IF SlotHeldAtFold(n) THEN live - 1 ELSE live
           /\ result' = [result EXCEPT ![n] =
                           CASE run[n].end = "ok" -> "ok"
                             [] run[n].end = "panicked" -> "none"
                             [] OTHER -> "failed"]
           /\ node' = [node EXCEPT ![n] = "folded"]
    /\ pc' = "fold"
    /\ UNCHANGED <<strategy, run, sessions, lease, budget, token, outcome, reported,
                   steer, target>>

FoldDone ==
    /\ pc = "fold" /\ InState("ran") = {}
    /\ pc' = "loop"
    /\ UNCHANGED <<strategy, node, run, result, sessions, lease, live, budget, token,
                   outcome, reported, steer, target>>

-----------------------------------------------------------------------------
(* run's teardown and finish_flow.                                         *)

Teardown ==
    /\ pc = "teardown"
    /\ drained' = frontier /\ frontier' = NoNode
    /\ pc' = "closeLast"
    /\ UNCHANGED <<strategy, node, run, result, session, lease, live, budget, token,
                   outcome, reported, steer, target>>

CloseLast ==
    /\ pc = "closeLast"
    /\ CloseDrained(drained)
    /\ pc' = "finish"
    /\ UNCHANGED <<strategy, node, run, result, frontier, lease, live, budget, token,
                   outcome, reported, steer, target>>

\* Cancelled is read from the job's and the registry's token, the registry's is
\* tripped to end the watcher, the outcome is recorded and announced.
FinishFlow ==
    /\ pc = "finish"
    /\ reported' = IF token.job \/ token.registry THEN "cancelled"
                   ELSE IF outcome = "ok" THEN "completed" ELSE "failed"
    /\ token' = [token EXCEPT !.registry = TRUE]
    /\ pc' = "done"
    /\ UNCHANGED <<strategy, node, run, result, sessions, lease, live, budget, outcome,
                   steer, target>>

-----------------------------------------------------------------------------
(* Tokens: runtime/jobs/cancel, flow.close, and combined_cancel's watcher. *)

CancelJob ==
    /\ ~token.job /\ reported = "none"
    /\ token' = [token EXCEPT !.job = TRUE]
    /\ UNCHANGED <<strategy, engine, node, run, result, sessions, lease, live, budget,
                   steer, target>>

CloseFlow ==
    /\ ~token.registry /\ reported = "none"
    /\ token' = [token EXCEPT !.registry = TRUE]
    /\ UNCHANGED <<strategy, engine, node, run, result, sessions, lease, live, budget,
                   steer, target>>

Watch ==
    /\ token.job \/ token.registry
    /\ ~token.run
    /\ token' = [token EXCEPT !.run = TRUE]
    /\ UNCHANGED <<strategy, engine, node, run, result, sessions, lease, live, budget,
                   steer, target>>

-----------------------------------------------------------------------------
(* run_flow_steer and SteerRegistry::steer.                                *)

SteerTo(s, at) == steer' = [steer EXCEPT ![s] = at]

SteerCheck(s) ==
    /\ steer[s] = "idle" /\ reported = "none"
    /\ SteerTo(s, IF is_exhausted THEN "refused" ELSE "acquire")
    /\ UNCHANGED <<strategy, engine, node, run, result, sessions, lease, live, budget,
                   token, target>>

SteerAcquire(s) ==
    /\ steer[s] = "acquire"
    /\ IF live < MaxWorkers
       THEN SteerTo(s, "resolve") /\ live' = live + 1
       ELSE SteerTo(s, "refused") /\ UNCHANGED live
    /\ UNCHANGED <<strategy, engine, node, run, result, sessions, lease, budget, token,
                   target>>

SteerResolve(s) ==
    /\ steer[s] = "resolve"
    /\ target' = [target EXCEPT ![s] = frontier]
    /\ IF frontier = NoNode
       THEN SteerTo(s, "refused") /\ live' = live - 1
       ELSE SteerTo(s, "lock") /\ UNCHANGED live
    /\ UNCHANGED <<strategy, engine, node, run, result, sessions, lease, budget, token>>

\* The session's lock is free: the turn runs, unless the session is gone.
SteerLock(s) ==
    /\ steer[s] = "lock" /\ Idle(target[s])
    /\ IF session[target[s]] = "open"
       THEN SteerTo(s, "turn") /\ UNCHANGED live
       ELSE SteerTo(s, "refused") /\ live' = live - 1
    /\ UNCHANGED <<strategy, engine, node, run, result, sessions, lease, budget, token,
                   target>>

SteerTurnFails(s) ==
    /\ steer[s] = "turn"
    /\ SteerTo(s, "refused") /\ live' = live - 1
    /\ UNCHANGED <<strategy, engine, node, run, result, sessions, lease, budget, token,
                   target>>

\* Recorded; the session's lock is released.
SteerTurnOk(s) ==
    /\ steer[s] = "turn"
    /\ SteerTo(s, "debit")
    /\ UNCHANGED <<strategy, engine, node, run, result, sessions, lease, live, budget,
                   token, target>>

\* The token a steer trips on exhaustion is the registry's.
SteerDebit(s, cost) ==
    /\ steer[s] = "debit"
    /\ budget' = Spend(cost)
    /\ token' = [token EXCEPT !.registry = @ \/ budget'.exhausted]
    /\ SteerTo(s, "done") /\ live' = live - 1
    /\ UNCHANGED <<strategy, engine, node, run, result, sessions, lease, target>>

-----------------------------------------------------------------------------
EngineStep ==
    \/ LoopCancelled \/ LoopDispatch \/ LoopEnds \/ Admit \/ Partitioned
    \/ FanCancelled \/ FanSpawn \/ Join \/ FanDone
    \/ FoldDebit \/ DrainPrior \/ ClosePrior \/ PlaceNone \/ FoldRecord \/ FoldDone
    \/ Teardown \/ CloseLast \/ FinishFlow

NodeStep(n) ==
    \/ Unresolved(n) \/ Resolved(n) \/ StartTurn(n) \/ PanicTurn(n)
    \/ \E end \in {"ok", "notok", "failed"}, cost \in Usage : EndTurn(n, end, cost)

SteerStep(s) ==
    \/ SteerAcquire(s) \/ SteerResolve(s) \/ SteerLock(s)
    \/ SteerTurnFails(s) \/ SteerTurnOk(s)
    \/ \E cost \in Usage : SteerDebit(s, cost)

Next ==
    \/ EngineStep \/ CancelJob \/ CloseFlow \/ Watch
    \/ \E n \in Nodes : NodeStep(n)
    \/ \E s \in Steers : SteerCheck(s) \/ SteerStep(s)

Spec == Init /\ [][Next]_vars

\* Threads run, worker turns end, and a thread waiting for a mutex that stays free
\* gets it; nobody has to steer, close or cancel.
FairSpec ==
    /\ Spec
    /\ WF_vars(EngineStep) /\ WF_vars(Watch)
    /\ \A n \in Nodes : WF_vars(NodeStep(n))
    /\ \A s \in Steers : WF_vars(SteerStep(s))
-----------------------------------------------------------------------------
(* Properties.                                                             *)

\* Every variable keeps its type.
TypeOK ==
    /\ strategy \in Strategies
    /\ pc \in {"loop", "admit", "fan", "join", "fold", "place", "closePrior", "record",
              "teardown", "closeLast", "finish", "done"}
    /\ node \in [Nodes -> {"idle", "starts", "admitted", "refused", "spawned", "leasing",
                           "turn", "ran", "folded"}]
    /\ run \in [Nodes -> [end : Ends, cost : Usage]]
    /\ result \in [Nodes -> {"none", "ok", "failed"}]
    /\ session \in [Nodes -> {"none", "open", "closed"}]
    /\ {frontier, drained, lease} \subseteq Nodes \cup {NoNode}
    /\ live \in Nat
    /\ budget \in [spent : Nat, exhausted : BOOLEAN, warned : BOOLEAN]
    /\ token \in [run : BOOLEAN, registry : BOOLEAN, job : BOOLEAN]
    /\ outcome \in {"none", "ok", "notok"}
    /\ reported \in {"none", "completed", "failed", "cancelled"}
    /\ steer \in [Steers -> {"idle", "acquire", "resolve", "lock", "turn", "debit",
                             "done", "refused"}]
    /\ target \in [Steers -> Nodes \cup {NoNode}]

NodesWithSlot ==
    {n \in Nodes : \/ node[n] \in {"admitted", "spawned", "leasing", "turn"}
                   \/ node[n] = "ran" /\ SlotHeldAtFold(n)}
SteersWithSlot == {s \in Steers : steer[s] \in {"resolve", "lock", "turn", "debit"}}

\* The semaphore counts exactly the workers and steers under way, on every path
\* (refused, unresolved, panicked, cancelled), and never exceeds max_workers: no
\* slot leaks and no slot is freed twice.
SlotsExact ==
    /\ live = Cardinality(NodesWithSlot) + Cardinality(SteersWithSlot)
    /\ live <= MaxWorkers

\* "a steered session never outlives its flow", nor ends under a steer: an open
\* session is the frontier's, or about to be placed or closed by the engine, and none
\* is open at the end; a steer's turn runs alone on an open session, for teardown and
\* other steers wait for it.
SessionsOwned ==
    /\ \A n \in Nodes : session[n] = "open" =>
          /\ n \in {frontier, drained} \/ node[n] = "ran"
          /\ reported = "none"
    /\ \A s \in Steers : steer[s] = "turn" =>
          /\ session[target[s]] = "open"
          /\ \A r \in Steers \ {s} : ~(steer[r] = "turn" /\ target[r] = target[s])

\* "a silent worker can never run unbounded": two folded turns that reported no
\* cost exhaust any budget and trip the run's token.
SilentBrake ==
    Cardinality({n \in InState("folded") : run[n].cost = NoUsage}) >= 2 =>
        budget.exhausted /\ (token.run \/ token.registry)

\* Between waves every dispatched node has a result, so that the interpreter can
\* go on; only a panicked node has none (its result goes under another id).
DispatchedNodeFolds ==
    pc = "loop" => \A n \in Nodes : Dispatched(n) =>
        result[n] # "none" \/ run[n].end = "panicked"

\* Every flow ends and is reported, whatever fails or is cancelled, however steers
\* hold the sessions and slots it waits for, and however writers queue for the lease.
FlowEnds == <>(reported # "none")

=============================================================================
