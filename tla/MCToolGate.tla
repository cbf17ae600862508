----------------------------- MODULE MCToolGate -----------------------------
(* Two calls of one tool, so that they share a remembered decision, and a  *)
(* tool that nobody calls; policy files that deny, allow, ask and default. *)
EXTENDS ToolGate

CONSTANTS c1, c2, bash, edit

MCToolOf == [c \in Calls |-> edit]
MCTierOf == [t \in Tools |-> IF t = edit THEN "Edit" ELSE "Exec"]

Rule(tools, action) == [tools |-> tools, action |-> action]
File(rules, default) == [rules |-> rules, default |-> default]

MCGlobalFiles ==
    {File(<<>>, "Ask"), File(<<>>, "Deny"), File(<<Rule({bash}, "Allow")>>, "Ask"),
     File(<<Rule({edit}, "Ask"), Rule(Tools, "Allow")>>, "Ask")}
MCProjectFiles ==
    {File(<<>>, "Allow"), File(<<Rule(Tools, "Allow")>>, "Allow"),
     File(<<Rule({edit}, "Allow"), Rule({edit}, "Deny")>>, "Ask")}
=============================================================================
