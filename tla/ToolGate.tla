------------------------------ MODULE ToolGate ------------------------------
(***************************************************************************)
(* The policy gate around the tools of a session or flow                   *)
(* (policy/mod.rs, policy/classify.rs): a policy made of the operator's    *)
(* and the project's policy.json decides each call; a call it asks about   *)
(* goes through the approval round trip of ApprovalHub, which this module  *)
(* composes it with, and runs only if that returns true.                   *)
(*                                                                         *)
(* A rule is the set of tools its pattern matches and an action.  The      *)
(* files are read once; the mode is the one the turn began with.           *)
(* --allow-all exists only on the command line, which has another approver.*)
(***************************************************************************)
EXTENDS ApprovalHub, Sequences

CONSTANTS
    TierOf,         \* tool -> its static tier
    Modes,          \* approval modes a turn may have begun with
    GlobalFiles,    \* the operator's policy.json: [rules, default]
    ProjectFiles    \* the workspace's policy.json

Rules == [tools : SUBSET Tools, action : {"Allow", "Ask", "Deny"}]

ASSUME GateAssumption ==
    /\ TierOf \in [Tools -> {"ReadOnly", "Edit", "Exec"}]
    /\ Modes \subseteq {"AlwaysAsk", "Write", "Yolo"}
    /\ \A file \in GlobalFiles \cup ProjectFiles : file.rules \in Seq(Rules)

VARIABLES
    mode,           \* the gate's ApprovalMode
    global,         \* the operator's file as it was read
    project,        \* the project's file as it was read
    inner           \* call -> did the inner toolbox run it

gateVars == <<vars, mode, global, project, inner>>

tier_rank(tier) == CASE tier = "ReadOnly" -> 0 [] tier = "Edit" -> 1 [] tier = "Exec" -> 2
max_auto_tier(m) ==
    CASE m = "AlwaysAsk" -> "ReadOnly" [] m = "Write" -> "Edit" [] m = "Yolo" -> "Exec"

\* MUTANT: the project's rules count like the operator's.
FromLayersTrusting(operators, projects) == projects.rules \o operators.rules

\* Of the project's rules only the denials count, and they come first; a rule that
\* does not count matches no tool.
Denials(rules) ==
    [i \in DOMAIN rules |->
        IF rules[i].action = "Deny" THEN rules[i] ELSE [rules[i] EXCEPT !.tools = {}]]

FromLayers(operators, projects) == Denials(projects.rules) \o operators.rules

Matching(rules, tool) == {i \in DOMAIN rules : tool \in rules[i].tools}

\* decide_with_mode: the first rule that matches, else the tier against the mode,
\* else the operator's default.  The project's default is ignored.
Decide(rules, default, tool) ==
    LET matching == Matching(rules, tool)
    IN  IF matching # {}
        THEN rules[CHOOSE i \in matching : \A j \in matching : i <= j].action
        ELSE IF tier_rank(TierOf[tool]) <= tier_rank(max_auto_tier(mode)) THEN "Allow"
             ELSE default

Action(c) == Decide(FromLayers(global, project), global.default, ToolOf[c])

GateInit ==
    /\ Init
    /\ mode \in Modes /\ global \in GlobalFiles /\ project \in ProjectFiles
    /\ inner = [c \in Calls |-> "none"]

-----------------------------------------------------------------------------
(* PolicyToolBox::call.                                                    *)

Enforce(c, end) ==
    /\ inner[c] = "none"
    /\ inner' = [inner EXCEPT ![c] = end]
    /\ UNCHANGED <<vars, mode, global, project>>

PolicyAllows(c) == Action(c) = "Allow" /\ Enforce(c, "ran")
PolicyDenies(c) == Action(c) = "Deny" /\ Enforce(c, "denied")

\* The approver is consulted ...
Consult(c) == Action(c) = "Ask" /\ CallStep(c) /\ UNCHANGED <<mode, global, project, inner>>

\* ... and what it returned is enforced.
Approved(c) == pc[c] = "done" /\ result[c] = "allow" /\ Enforce(c, "ran")
Refused(c) == pc[c] = "done" /\ result[c] = "deny" /\ Enforce(c, "denied")

Environment ==
    /\ \/ \E c \in Calls : DeadlinePasses(c) \/ \E d \in Decisions : respond(c, d)
       \/ CancelTurn
    /\ UNCHANGED <<mode, global, project, inner>>

GateStep(c) ==
    PolicyAllows(c) \/ PolicyDenies(c) \/ Consult(c) \/ Approved(c) \/ Refused(c)

GateNext == Environment \/ \E c \in Calls : GateStep(c)

\* A call's thread runs and the clock advances; nobody has to answer or cancel.
GateSpec ==
    /\ GateInit /\ [][GateNext]_gateVars
    /\ \A c \in Calls : WF_gateVars(GateStep(c)) /\
          WF_gateVars(DeadlinePasses(c) /\ UNCHANGED <<mode, global, project, inner>>)

-----------------------------------------------------------------------------
(* Properties.                                                             *)

\* "A project can harden its own permissions but never relax them" (policy/mod.rs): a
\* tool that ran was allowed by the operator's own rules and mode, or these said to
\* ask and the operator allowed this call or this tool for good; and no rule of the
\* project denies it.
GateHonoured ==
    \A c \in Calls : inner[c] = "ran" =>
        /\ \A i \in Matching(project.rules, ToolOf[c]) : project.rules[i].action # "Deny"
        /\ LET operators == Decide(global.rules, global.default, ToolOf[c])
           IN  \/ operators = "Allow"
               \/ /\ operators = "Ask"
                  /\ allows(answered[c]) \/ AnsweredAlways(ToolOf[c], "AllowAlways")
=============================================================================
