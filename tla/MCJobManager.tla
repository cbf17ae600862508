---------------------------- MODULE MCJobManager ----------------------------
(* The job table on a small instance: a client may pick the id the daemon  *)
(* would generate for the last run, and one finished record is kept, so    *)
(* collisions, pruning and the reuse of a pruned id all happen.            *)
EXTENDS JobManager

MCClientIds == {AutoId(MaxRuns)}
=============================================================================
