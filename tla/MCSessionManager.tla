-------------------------- MODULE MCSessionManager --------------------------
(* One session with a few message jobs, started once and resumed twice.  *)
EXTENDS SessionManager
=============================================================================
