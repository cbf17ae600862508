----------------------------- MODULE JobManager -----------------------------
(***************************************************************************)
(* The daemon's job table (jobs/mod.rs): `start' allocates an id and a     *)
(* record, announces the job and spawns a thread; the thread announces     *)
(* progress, runs the executor, files the outcome and announces it;        *)
(* `cancel' marks a running record and trips its token.  Records live      *)
(* behind one mutex, every event is emitted outside it, so the lock        *)
(* regions and the emissions below are separate steps that interleave.     *)
(*                                                                         *)
(* One accepted or refused `start' call is one RUN, numbered by the        *)
(* created_seq it drew from next_id.  `records' maps a job id to the run   *)
(* whose record it holds (NoRun when the map has no such key); the         *)
(* record's fields are indexed by the run, so they stay readable, as       *)
(* history, after the record is pruned and its id is used again.           *)
(***************************************************************************)
EXTENDS Naturals, Sequences, FiniteSets

CONSTANTS
    ClientIds,          \* job ids clients choose (a generated form may be among them)
    Results,            \* what executors return: "ok", "cancelled" or "error"
    MaxRuns,            \* bound on next_id: `start' calls explored
    TERMINAL_RETAINED   \* finished records kept (128 in the code)

ASSUME ResultsAssumption == Results \subseteq {"ok", "cancelled", "error"}
ASSUME MaxRunsAssumption == MaxRuns \in Nat \ {0}
ASSUME RetainedAssumption == TERMINAL_RETAINED \in Nat \ {0}

VARIABLES
    next_id,            \* AtomicU64
    records,            \* JobStore.records
    terminal_order,     \* JobStore.terminal_order
    job_id,             \* run -> the id it resolved
    status,             \* run -> JobRecord.status
    cancel_requested,   \* run -> JobRecord.cancel_requested
    token,              \* run -> is the CancelToken tripped
    outcome,            \* run -> what the executor returned
    phase,              \* run -> where its caller or its job thread stands
    canceller,          \* run -> where the winning `cancel' call stands: it
                        \* is "done" once job_cancel_requested was emitted
    events              \* run -> the other RuntimeEvents about it, in order

vars == <<next_id, records, terminal_order, job_id, status, cancel_requested,
          token, outcome, phase, canceller, events>>

Runs == 1..MaxRuns
NoRun == 0

\* format!("job-{created_seq}"): distinct numbers give distinct ids, but a
\* client may have chosen the same one.
AutoId(n) == <<"job", n>>
JobIds == ClientIds \cup {AutoId(n) : n \in Runs}

NoId == <<"none", 0>>

Terminal == {"completed", "failed", "cancelled"}
Statuses == {"none", "running", "cancelling"} \cup Terminal
Outcomes == Results \cup {"none"}
Phases == {"unused", "resolved", "rejected", "inserted", "spawned",
           "executing", "returned", "filed", "done"}
EventKinds == {"started", "progress"} \cup Terminal

IsTerminal(r) == status[r] \in Terminal
Emit(kind, r) == events' = [events EXCEPT ![r] = Append(@, kind)]

Init ==
    /\ next_id = 1
    /\ records = [j \in JobIds |-> NoRun]
    /\ terminal_order = <<>>
    /\ job_id = [r \in Runs |-> NoId]
    /\ status = [r \in Runs |-> "none"]
    /\ cancel_requested = [r \in Runs |-> FALSE]
    /\ token = [r \in Runs |-> FALSE]
    /\ outcome = [r \in Runs |-> "none"]
    /\ phase = [r \in Runs |-> "unused"]
    /\ canceller = [r \in Runs |-> "none"]
    /\ events = [r \in Runs |-> <<>>]

-----------------------------------------------------------------------------
(* start: three steps of the calling thread.                               *)

\* resolve_job_id: fetch_add, then the client's id or the generated one.
ResolveJobId(r, j) ==
    /\ r = next_id
    /\ next_id <= MaxRuns
    /\ j \in ClientIds \cup {AutoId(r)}
    /\ next_id' = next_id + 1
    /\ job_id' = [job_id EXCEPT ![r] = j]
    /\ phase' = [phase EXCEPT ![r] = "resolved"]
    /\ UNCHANGED <<records, terminal_order, status, cancel_requested, token,
                   outcome, canceller, events>>

\* DuplicateJobId: the id is taken, nothing was stored.
RejectDuplicate(r) ==
    /\ phase[r] = "resolved"
    /\ records[job_id[r]] # NoRun
    /\ phase' = [phase EXCEPT ![r] = "rejected"]
    /\ UNCHANGED <<next_id, records, terminal_order, job_id, status,
                   cancel_requested, token, outcome, canceller, events>>

\* MUTANT: the insertion does not look for a record under the id.
InsertUnchecked(r) ==
    /\ phase[r] = "resolved"
    /\ records' = [records EXCEPT ![job_id[r]] = r]
    /\ status' = [status EXCEPT ![r] = "running"]
    /\ phase' = [phase EXCEPT ![r] = "inserted"]
    /\ UNCHANGED <<next_id, terminal_order, job_id, cancel_requested, token,
                   outcome, canceller, events>>

\* The check and the insertion share one lock region.
InsertRecord(r) ==
    /\ phase[r] = "resolved"
    /\ records[job_id[r]] = NoRun
    /\ records' = [records EXCEPT ![job_id[r]] = r]
    /\ status' = [status EXCEPT ![r] = "running"]
    /\ phase' = [phase EXCEPT ![r] = "inserted"]
    /\ UNCHANGED <<next_id, terminal_order, job_id, cancel_requested, token,
                   outcome, canceller, events>>

\* job_started is emitted after the unlock; only then is the thread spawned.
EmitStarted(r) ==
    /\ phase[r] = "inserted"
    /\ Emit("started", r)
    /\ phase' = [phase EXCEPT ![r] = "spawned"]
    /\ UNCHANGED <<next_id, records, terminal_order, job_id, status,
                   cancel_requested, token, outcome, canceller>>

-----------------------------------------------------------------------------
(* run_job: the job thread.                                                *)

EmitProgress(r) ==
    /\ phase[r] = "spawned"
    /\ Emit("progress", r)
    /\ phase' = [phase EXCEPT ![r] = "executing"]
    /\ UNCHANGED <<next_id, records, terminal_order, job_id, status,
                   cancel_requested, token, outcome, canceller>>

\* MUTANT: without catch_unwind an error that is a panic ends the thread.
ExecuteUncaught(r, result) ==
    /\ phase[r] = "executing"
    /\ outcome' = [outcome EXCEPT ![r] = result]
    /\ phase' = [phase EXCEPT ![r] = IF result = "error" THEN "done" ELSE "returned"]
    /\ UNCHANGED <<next_id, records, terminal_order, job_id, status,
                   cancel_requested, token, canceller, events>>

\* dispatch_catching: the executor may ignore the token, may return a
\* cancelled error although nobody cancelled this job (session.interrupt trips
\* the turn's token), and a panic is caught and becomes a plain error.  It may
\* also never return: a live delegate.start parks until somebody closes it.
Execute(r, result) ==
    /\ phase[r] = "executing"
    /\ outcome' = [outcome EXCEPT ![r] = result]
    /\ phase' = [phase EXCEPT ![r] = "returned"]
    /\ UNCHANGED <<next_id, records, terminal_order, job_id, status,
                   cancel_requested, token, canceller, events>>

\* JobRecord::finish: the outcome alone decides, cancel_requested does not.
FinishStatus(result) ==
    CASE result = "ok" -> "completed"
      [] result = "cancelled" -> "cancelled"
      [] OTHER -> "failed"

\* prune_terminal_jobs, the loop: how many heads are popped, and the records
\* that survive (a popped id whose record is not terminal keeps it).
Excess(order) ==
    IF Len(order) > TERMINAL_RETAINED THEN Len(order) - TERMINAL_RETAINED ELSE 0

Kept(order) == SubSeq(order, Excess(order) + 1, Len(order))

\* MUTANT: only records that completed are removed.
PrunedCompleted(recs, order, st) ==
    [j \in JobIds |->
        IF /\ \E i \in 1..Excess(order) : order[i] = j
           /\ recs[j] # NoRun
           /\ st[recs[j]] = "completed"
        THEN NoRun
        ELSE recs[j]]

Pruned(recs, order, st) ==
    [j \in JobIds |->
        IF /\ \E i \in 1..Excess(order) : order[i] = j
           /\ recs[j] # NoRun
           /\ st[recs[j]] \in Terminal
        THEN NoRun
        ELSE recs[j]]

\* One lock region: the record takes the outcome, joins terminal_order, and
\* the oldest finished records go.  The record under the job's id is the one
\* that changes, whichever run it belongs to.
FileOutcome(r) ==
    /\ phase[r] = "returned"
    /\ IF records[job_id[r]] = NoRun
       THEN /\ phase' = [phase EXCEPT ![r] = "done"]
            /\ UNCHANGED <<records, terminal_order, status>>
       ELSE LET order == Append(terminal_order, job_id[r])
                st == [status EXCEPT ![records[job_id[r]]] = FinishStatus(outcome[r])]
            IN  /\ status' = st
                /\ terminal_order' = Kept(order)
                /\ records' = Pruned(records, order, st)
                /\ phase' = [phase EXCEPT ![r] = "filed"]
    /\ UNCHANGED <<next_id, job_id, cancel_requested, token, outcome,
                   canceller, events>>

\* MUTANT: a job whose token is tripped is announced as cancelled.
EmitTerminalByToken(r) ==
    /\ phase[r] = "filed"
    /\ Emit(IF token[r] THEN "cancelled" ELSE FinishStatus(outcome[r]), r)
    /\ phase' = [phase EXCEPT ![r] = "done"]
    /\ UNCHANGED <<next_id, records, terminal_order, job_id, status,
                   cancel_requested, token, outcome, canceller>>

\* The terminal event, built inside the lock region, emitted after it.
EmitTerminal(r) ==
    /\ phase[r] = "filed"
    /\ Emit(FinishStatus(outcome[r]), r)
    /\ phase' = [phase EXCEPT ![r] = "done"]
    /\ UNCHANGED <<next_id, records, terminal_order, job_id, status,
                   cancel_requested, token, outcome, canceller>>

-----------------------------------------------------------------------------
(* cancel: one lock region, then the emission.  A call that finds no       *)
(* record, or one that is not running, changes nothing.                    *)

CancelLocked(j) ==
    /\ records[j] # NoRun
    /\ LET r == records[j]
       IN  /\ status[r] = "running"
           /\ status' = [status EXCEPT ![r] = "cancelling"]
           /\ cancel_requested' = [cancel_requested EXCEPT ![r] = TRUE]
           /\ token' = [token EXCEPT ![r] = TRUE]
           /\ canceller' = [canceller EXCEPT ![r] = "emitting"]
    /\ UNCHANGED <<next_id, records, terminal_order, job_id, outcome, phase,
                   events>>

EmitCancelRequested(r) ==
    /\ canceller[r] = "emitting"
    /\ canceller' = [canceller EXCEPT ![r] = "done"]
    /\ UNCHANGED <<next_id, records, terminal_order, job_id, status,
                   cancel_requested, token, outcome, phase, events>>

-----------------------------------------------------------------------------
\* What the calling thread and the job thread do by themselves.
ThreadStep(r) ==
    \/ RejectDuplicate(r)
    \/ InsertRecord(r)
    \/ EmitStarted(r)
    \/ EmitProgress(r)
    \/ FileOutcome(r)
    \/ EmitTerminal(r)
    \/ EmitCancelRequested(r)

RunStep(r) ==
    \/ ThreadStep(r)
    \/ \E result \in Results : Execute(r, result)

Next ==
    \/ \E r \in Runs, j \in JobIds : ResolveJobId(r, j)
    \/ \E r \in Runs : RunStep(r)
    \/ \E j \in JobIds : CancelLocked(j)

Spec == Init /\ [][Next]_vars

\* Started calls and job threads are operating-system threads that run on.
\* Nothing is assumed of the executors, which may keep their thread for ever,
\* and nobody has to start or cancel a job.
FairSpec == Spec /\ \A r \in Runs : WF_vars(ThreadStep(r))
-----------------------------------------------------------------------------
(* Properties.                                                             *)

\* Every variable keeps its type, the event log included.
TypeOK ==
    /\ next_id \in 1..(MaxRuns + 1)
    /\ records \in [JobIds -> Runs \cup {NoRun}]
    /\ terminal_order \in Seq(JobIds)
    /\ job_id \in [Runs -> JobIds \cup {NoId}]
    /\ status \in [Runs -> Statuses]
    /\ cancel_requested \in [Runs -> BOOLEAN]
    /\ token \in [Runs -> BOOLEAN]
    /\ outcome \in [Runs -> Outcomes]
    /\ phase \in [Runs -> Phases]
    /\ canceller \in [Runs -> {"none", "emitting", "done"}]
    /\ events \in [Runs -> Seq(EventKinds)]

Owning == {"inserted", "spawned", "executing", "returned"}

\* From its insertion to the moment its outcome is filed a run holds the record
\* under its id, unfinished, whatever other jobs finish, are pruned or ask for
\* the same id meanwhile (so the early return of run_job is never taken); and an
\* unfinished record always has a thread that will file its outcome.
RunOwnsRecord ==
    /\ \A r \in Runs : phase[r] \in Owning =>
          records[job_id[r]] = r /\ status[r] \in {"running", "cancelling"}
    /\ \A j \in JobIds : records[j] # NoRun =>
          /\ job_id[records[j]] = j
          /\ ~IsTerminal(records[j]) => phase[records[j]] \in Owning

\* terminal_order lists exactly the ids whose records are finished, each once,
\* and never more than TERMINAL_RETAINED of them: pruning forgets no finished
\* record and an id that is used again after it was pruned is listed anew.
RetentionExact ==
    /\ Len(terminal_order) <= TERMINAL_RETAINED
    /\ \A i, k \in DOMAIN terminal_order :
          terminal_order[i] = terminal_order[k] => i = k
    /\ \A j \in JobIds :
          (records[j] # NoRun /\ IsTerminal(records[j]))
             <=> (\E i \in DOMAIN terminal_order : terminal_order[i] = j)

(* The refinement of JobService: a job is a run, known by the id it         *)
(* resolved, listed while the table holds its record, with the events      *)
(* emitted about it so far.                                                *)
Listed == {r \in Runs : status[r] # "none" /\ records[job_id[r]] = r}

Service == INSTANCE JobService WITH
    Jobs <- Runs,
    Names <- JobIds,
    NoName <- NoId,
    Retained <- TERMINAL_RETAINED,
    name <- [r \in Runs |-> IF status[r] = "none" THEN NoId ELSE job_id[r]],
    status <- status,
    listed <- Listed,
    feed <- events,
    asked <- {r \in Runs : canceller[r] = "done"}

\* The job table implements the job service: whatever start, finish, pruning
\* and cancel calls overlap, and although every event is emitted after the
\* lock was released, a subscriber reads started, progress and one outcome,
\* each once and in this order; the outcome is the one job.get reports; a
\* status only moves forward; no two listed jobs share a name; and finished
\* jobs are forgotten only to keep within TERMINAL_RETAINED.
ImplementsService == Service!Spec

Announced(r) == \E i \in DOMAIN events[r] : events[r][i] \in Terminal

\* Whatever other jobs do: an accepted job reaches its executor; once that has
\* returned, with a value, an error or a panic, the outcome is filed and
\* announced; and an accepted cancel is announced.  Whether an executor returns
\* is its own affair (CloseEndsJob says when a parked delegate does).
EveryRunSettles ==
    \A r \in Runs :
        /\ phase[r] = "inserted" ~> phase[r] = "executing"
        /\ outcome[r] # "none" ~> Announced(r)
        /\ token[r] ~> canceller[r] = "done"
=============================================================================
