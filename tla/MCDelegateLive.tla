--------------------------- MODULE MCDelegateLive ---------------------------
(* One live session with two steer jobs, a close and a cancel.             *)
EXTENDS DelegateLive
=============================================================================
