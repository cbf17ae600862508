----------------------------- MODULE MCEventHub -----------------------------
EXTENDS EventHub, TLC

MCFilter == [c \in Clients |-> IF c = "tab" THEN "s1" ELSE NoSession]
=============================================================================
