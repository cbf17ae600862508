---------------------------- MODULE MCFlowDriver ----------------------------
(* Small flows of two or three nodes with up to two steer jobs.            *)
EXTENDS FlowDriver
=============================================================================
