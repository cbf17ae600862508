----------------------------- MODULE MCAgentRun -----------------------------
EXTENDS AgentRun
Def(turns, limit, fails, verify, budget) ==
    [max_turns |-> turns, max_requests |-> limit, max_tool_failures |-> fails,
     verify_completion |-> verify, cost_budget |-> budget]
MCDefs == {Def(2, 0, 1, TRUE, 1), Def(3, 2, 0, FALSE, 0)}
=============================================================================
