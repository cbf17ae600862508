---------------------------- MODULE ApprovalHub -----------------------------
(***************************************************************************)
(* The approval round trip (session_manager/approval.rs): a gated tool     *)
(* call looks into the decision memory, else files a request in the hub,   *)
(* announces it and polls for the operator's answer until the turn is      *)
(* cancelled or the deadline passes; an "always" answer is remembered.     *)
(*                                                                         *)
(* The calls share one memory and one cancel token, as the node threads of *)
(* a flow do (flow_job/mod.rs gate_for_flow).  `pending' and the memory    *)
(* are behind mutexes; everything between two lock regions interleaves.    *)
(***************************************************************************)
EXTENDS Naturals, FiniteSets

CONSTANTS
    Calls,          \* the gated tool calls
    Tools,
    ToolOf,         \* the tool each call asks for
    NoDecision

Decisions == {"Allow", "Deny", "AllowAlways", "DenyAlways"}

ASSUME ApprovalAssumption ==
    /\ ToolOf \in [Calls -> Tools]
    /\ NoDecision \notin Decisions

VARIABLES
    pc,             \* call -> where its thread stands
    pending,        \* calls whose key is in the hub's map
    channel,        \* call -> the decision sent to it and not yet received
    decision,       \* call -> what request() returns
    memory,         \* tool -> the remembered decision
    result,         \* call -> what approve() returned
    expired,        \* call -> has its deadline passed
    cancelled,      \* the turn's token
    answered        \* call -> the answer respond() accepted for it

vars == <<pc, pending, channel, decision, memory, result, expired, cancelled, answered>>

allows(d) == d \in {"Allow", "AllowAlways"}
remember(d) == d \in {"AllowAlways", "DenyAlways"}
Verdict(d) == IF allows(d) THEN "allow" ELSE "deny"

Init ==
    /\ pc = [c \in Calls |-> "start"]
    /\ pending = {}
    /\ channel = [c \in Calls |-> NoDecision]
    /\ decision = [c \in Calls |-> NoDecision]
    /\ memory = [t \in Tools |-> "unset"]
    /\ result = [c \in Calls |-> "none"]
    /\ expired = [c \in Calls |-> FALSE]
    /\ cancelled = FALSE
    /\ answered = [c \in Calls |-> NoDecision]

Goto(c, at) == pc' = [pc EXCEPT ![c] = at]

-----------------------------------------------------------------------------
(* approve: the calling thread.                                            *)

\* A remembered decision answers without a prompt.
UseMemory(c) ==
    /\ pc[c] = "start" /\ memory[ToolOf[c]] # "unset"
    /\ result' = [result EXCEPT ![c] = memory[ToolOf[c]]]
    /\ Goto(c, "done")
    /\ UNCHANGED <<pending, channel, decision, memory, expired, cancelled, answered>>

NotRemembered(c) ==
    /\ pc[c] = "start" /\ memory[ToolOf[c]] = "unset"
    /\ Goto(c, "insert")
    /\ UNCHANGED <<pending, channel, decision, memory, result, expired, cancelled, answered>>

\* A fresh request id, and its sender under the map's lock.
FileRequest(c) ==
    /\ pc[c] = "insert"
    /\ pending' = pending \cup {c}
    /\ Goto(c, "announce")
    /\ UNCHANGED <<channel, decision, memory, result, expired, cancelled, answered>>

\* approval_requested goes out; the deadline is set.
Announce(c) ==
    /\ pc[c] = "announce"
    /\ Goto(c, "check")
    /\ UNCHANGED <<pending, channel, decision, memory, result, expired, cancelled, answered>>

\* MUTANT: an unanswered request is let through at its deadline.
GiveUpAllows(c) ==
    /\ pc[c] = "check" /\ (cancelled \/ expired[c])
    /\ decision' = [decision EXCEPT ![c] = IF cancelled THEN "Deny" ELSE "Allow"]
    /\ Goto(c, "remove")
    /\ UNCHANGED <<pending, channel, memory, result, expired, cancelled, answered>>

\* MUTANT: only the token ends the wait.
GiveUpOnCancel(c) ==
    /\ pc[c] = "check" /\ cancelled
    /\ decision' = [decision EXCEPT ![c] = "Deny"]
    /\ Goto(c, "remove")
    /\ UNCHANGED <<pending, channel, memory, result, expired, cancelled, answered>>

\* The top of the poll loop.
GiveUp(c) ==
    /\ pc[c] = "check" /\ (cancelled \/ expired[c])
    /\ decision' = [decision EXCEPT ![c] = "Deny"]
    /\ Goto(c, "remove")
    /\ UNCHANGED <<pending, channel, memory, result, expired, cancelled, answered>>

KeepWaiting(c) ==
    /\ pc[c] = "check" /\ ~cancelled /\ ~expired[c]
    /\ Goto(c, "wait")
    /\ UNCHANGED <<pending, channel, decision, memory, result, expired, cancelled, answered>>

\* recv_timeout: the decision if there is one, else around the loop.
Receive(c) ==
    /\ pc[c] = "wait" /\ channel[c] # NoDecision
    /\ decision' = [decision EXCEPT ![c] = channel[c]]
    /\ channel' = [channel EXCEPT ![c] = NoDecision]
    /\ Goto(c, "remove")
    /\ UNCHANGED <<pending, memory, result, expired, cancelled, answered>>

\* MUTANT: a poll that times out is taken for the deadline.
PollTimeoutDenies(c) ==
    /\ pc[c] = "wait" /\ channel[c] = NoDecision
    /\ decision' = [decision EXCEPT ![c] = "Deny"]
    /\ Goto(c, "remove")
    /\ UNCHANGED <<pending, channel, memory, result, expired, cancelled, answered>>

PollTimeout(c) ==
    /\ pc[c] = "wait" /\ channel[c] = NoDecision
    /\ Goto(c, "check")
    /\ UNCHANGED <<pending, channel, decision, memory, result, expired, cancelled, answered>>

RemoveKey(c) ==
    /\ pc[c] = "remove"
    /\ pending' = pending \ {c}
    /\ Goto(c, "record")
    /\ UNCHANGED <<channel, decision, memory, result, expired, cancelled, answered>>

\* MUTANT: every decision is remembered.
RecordAny(c) ==
    /\ pc[c] = "record"
    /\ memory' = [memory EXCEPT ![ToolOf[c]] = Verdict(decision[c])]
    /\ result' = [result EXCEPT ![c] = Verdict(decision[c])]
    /\ Goto(c, "done")
    /\ UNCHANGED <<pending, channel, decision, expired, cancelled, answered>>

\* An "always" answer of a turn that is not cancelled is remembered.
Record(c) ==
    /\ pc[c] = "record"
    /\ memory' = IF remember(decision[c]) /\ ~cancelled
                 THEN [memory EXCEPT ![ToolOf[c]] = Verdict(decision[c])]
                 ELSE memory
    /\ result' = [result EXCEPT ![c] = Verdict(decision[c])]
    /\ Goto(c, "done")
    /\ UNCHANGED <<pending, channel, decision, expired, cancelled, answered>>

-----------------------------------------------------------------------------
(* session.respond / flow.respond, from any client, at any time: the key   *)
(* is removed and the decision sent under the map's lock.  For a key that  *)
(* is not pending the call answers `responded: false' and changes nothing. *)

respond(c, d) ==
    /\ c \in pending
    /\ pending' = pending \ {c}
    /\ channel' = [channel EXCEPT ![c] = d]
    /\ answered' = [answered EXCEPT ![c] = d]
    /\ UNCHANGED <<pc, decision, memory, result, expired, cancelled>>

-----------------------------------------------------------------------------
(* The clock and the turn's token.                                         *)

DeadlinePasses(c) ==
    /\ pc[c] \in {"check", "wait"} /\ ~expired[c]
    /\ expired' = [expired EXCEPT ![c] = TRUE]
    /\ UNCHANGED <<pc, pending, channel, decision, memory, result, cancelled, answered>>

CancelTurn ==
    /\ ~cancelled
    /\ cancelled' = TRUE
    /\ UNCHANGED <<pc, pending, channel, decision, memory, result, expired, answered>>

-----------------------------------------------------------------------------
CallStep(c) ==
    \/ UseMemory(c) \/ NotRemembered(c) \/ FileRequest(c) \/ Announce(c)
    \/ GiveUp(c) \/ KeepWaiting(c) \/ Receive(c) \/ PollTimeout(c)
    \/ RemoveKey(c) \/ Record(c)

Next ==
    \/ \E c \in Calls : \/ CallStep(c) \/ DeadlinePasses(c)
                        \/ \E d \in Decisions : respond(c, d)
    \/ CancelTurn

Spec == Init /\ [][Next]_vars

-----------------------------------------------------------------------------
(* Properties.                                                             *)

\* Every variable keeps its type.
TypeOK ==
    /\ pc \in [Calls -> {"start", "insert", "announce", "check", "wait", "remove",
                         "record", "done"}]
    /\ pending \subseteq Calls
    /\ channel \in [Calls -> Decisions \cup {NoDecision}]
    /\ decision \in [Calls -> Decisions \cup {NoDecision}]
    /\ memory \in [Tools -> {"unset", "allow", "deny"}]
    /\ result \in [Calls -> {"none", "allow", "deny"}]
    /\ expired \in [Calls -> BOOLEAN]
    /\ cancelled \in BOOLEAN
    /\ answered \in [Calls -> Decisions \cup {NoDecision}]

AnsweredAlways(t, d) == \E c \in Calls : ToolOf[c] = t /\ answered[c] = d

\* No call runs without the operator: approve() returns true only for a call that
\* was itself answered with an allow, or whose tool was answered AllowAlways;
\* never because of a timeout, an interrupt or somebody else's one-shot allow.
AllowNeedsOperator ==
    \A c \in Calls : result[c] = "allow" =>
        allows(answered[c]) \/ AnsweredAlways(ToolOf[c], "AllowAlways")

\* The memory holds only what an operator asked to be remembered: not a one-shot
\* answer, not the deny of a timeout, not the deny of an interrupted turn.
MemoryFromOperator ==
    \A t \in Tools :
        /\ memory[t] = "allow" => AnsweredAlways(t, "AllowAlways")
        /\ memory[t] = "deny"  => AnsweredAlways(t, "DenyAlways")

\* Of several clients that answer one prompt at most one is told it responded:
\* an accepted answer is never replaced.
FirstAnswerStands ==
    [][\A c \in Calls : answered[c] # NoDecision => answered'[c] = answered[c]]_vars

\* "auto-denies rather than hanging the turn": every gated call returns, with
\* nobody answering.
EveryCallReturns ==
    \A c \in Calls : pc[c] # "start" ~> pc[c] = "done"

\* "session.respond pushes the decision into that channel -> allow/deny": an
\* accepted answer decides its call, however polls and answers interleave, unless
\* the turn was cancelled or the deadline has passed (the loop looks at these
\* before it looks at the channel, and drops an answer that was acknowledged).
AnswerDecides ==
    \A c \in Calls :
        answered[c] # NoDecision /\ pc[c] = "done" /\ ~cancelled /\ ~expired[c] =>
            result[c] = Verdict(answered[c])
=============================================================================
