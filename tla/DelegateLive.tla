---------------------------- MODULE DelegateLive ----------------------------
(***************************************************************************)
(* One live delegated session: the `delegate.start' job that owns it       *)
(* (jobs/delegate/mod.rs), the handle other jobs reach it through          *)
(* (delegate_live.rs), the `delegate.steer' jobs that run further turns on *)
(* its child, `delegate.close', `job.cancel' (jobs/mod.rs) and the durable *)
(* record (delegate_store.rs) three of them rewrite.                       *)
(*                                                                         *)
(* Each of these is a thread.  What they share is the registry (one lock), *)
(* the handle's session mutex (held for a whole turn), the close flag with *)
(* its condition variable, the cancel tokens and the record file, which no *)
(* lock protects.  A turn's text, usage and tool rows are left out; a turn *)
(* is known by who asked for it.                                           *)
(***************************************************************************)
EXTENDS Naturals, Sequences

CONSTANT Steers         \* the delegate.steer jobs that address this session

CONSTANTS Start, Closer, Nobody     \* the other actors, and no lock holder

ASSUME ActorsAssumption ==
    /\ Start \notin Steers /\ Closer \notin Steers /\ Nobody \notin Steers
    /\ Start # Closer /\ Start # Nobody /\ Closer # Nobody

VARIABLES
    start,              \* where the delegate.start thread stands
    result,             \* what its executor returns
    job,                \* status of its job record
    token,              \* its job's cancel token
    canceller,          \* where the job.cancel call stands
    closer,             \* where the delegate.close job stands
    registered,         \* is the handle in LiveSessions
    slot,               \* LiveHandle.session: no handle yet, a driver, or taken
    holder,             \* who holds the session mutex
    close_requested,    \* the close flag (session_cancel fires with it)
    child,              \* the agent process
    steer,              \* steer job -> where it stands
    steer_token,        \* steer job -> its own cancel token
    turns,              \* LiveHandle.turns, the capture accumulator
    completed,          \* history: every turn that ended with a result, in order
    sealed,             \* the turns the sealed run holds
    idle_announced,     \* has session_idle been emitted
    record,             \* the record file
    tmp,                \* the file under the temporary name
    fd,                 \* actor -> where the file it has opened for writing is now
    copy,               \* actor -> the record it has loaded and changed
    persist,            \* actor -> where its persist_delegate_update stands
    overlapped,         \* history: have two been writing at the same time
    id_stored           \* history: has the agent's session id been stored

vars == <<start, result, job, token, canceller, closer, registered, slot, holder,
          close_requested, child, steer, steer_token, turns, completed, sealed,
          idle_announced, record, tmp, fd, copy, persist, overlapped,
          id_stored>>

startVars == <<start, result, job>>
cancelVars == <<token, canceller>>
handleVars == <<registered, slot, close_requested>>
tapeVars == <<turns, completed, sealed>>
storeVars == <<record, tmp, fd, copy, persist, overlapped, id_stored>>
sessionVars == <<startVars, cancelVars, closer, handleVars, holder, child, steer,
                 steer_token, tapeVars, idle_announced>>

Actors == Steers \cup {Start, Closer}
NotSealed == <<Nobody>>
Terminal == {"completed", "failed", "cancelled"}

\* A file: missing, truncated, unreadable, or a record, of which the agent's
\* session id and the closed mark are kept.
Files == [is : {"absent", "empty", "torn", "whole"},
          id_known : BOOLEAN, finished : BOOLEAN]
Blank(is) == [is |-> is, id_known |-> FALSE, finished |-> FALSE]

\* run_delegate_start up to the spawn: child running turn 1.  The record may be
\* missing where the updates look for it: its write is best effort, and it goes
\* to the root of the session's workspace, theirs to that of the default one.
Init ==
    /\ start = "turn1" /\ result = "none" /\ job = "running"
    /\ token = FALSE /\ canceller = "idle" /\ closer = "idle"
    /\ registered = FALSE /\ slot = "none" /\ holder = Nobody
    /\ close_requested = FALSE
    /\ child = "alive"
    /\ steer = [s \in Steers |-> "idle"]
    /\ steer_token = [s \in Steers |-> FALSE]
    /\ turns = <<>> /\ completed = <<>> /\ sealed = NotSealed
    /\ idle_announced = FALSE
    /\ record \in {Blank("absent"), Blank("whole")}
    /\ tmp = Blank("absent")
    /\ fd = [a \in Actors |-> "none"]
    /\ copy = [a \in Actors |-> Blank("absent")]
    /\ persist = [a \in Actors |-> "load"]
    /\ overlapped = FALSE /\ id_stored = FALSE

\* The agent may exit by itself at any time.
ChildExits ==
    /\ child = "alive"
    /\ child' = "exited"
    /\ UNCHANGED <<startVars, cancelVars, closer, handleVars, holder, steer,
                   steer_token, tapeVars, idle_announced, storeVars>>

-----------------------------------------------------------------------------
(* persist_delegate_update: load, change and write back, under no lock, by *)
(* the start thread, delegate.close and each steer.  atomic_write opens    *)
(* and truncates a temporary file, writes it and renames it, and all of    *)
(* them use the same temporary name.  The file an updater has open is      *)
(* under that name, under the record's since somebody renamed it, or gone  *)
(* with a later rename.  Whatever fails, the update ends in silence.       *)

Updating(a) ==
    \/ a = Start /\ start = "update"
    \/ a = Closer /\ closer = "update"
    \/ a \in Steers /\ steer[a] = "update"

UpdateAt(a, pc) == Updating(a) /\ persist[a] = pc
Advance(a, pc) == persist' = [persist EXCEPT ![a] = pc]

\* set_agent_session_id, if the driver captured one; mark_closed; touch, which
\* changes only the timestamp.
Changes(a, r) ==
    IF a = Start THEN {[r EXCEPT !.id_known = captured] : captured \in BOOLEAN}
    ELSE IF a = Closer THEN {[r EXCEPT !.finished = TRUE]} ELSE {r}

\* MUTANT: the session is made reachable before its id is recorded.
LoadRecordRegistered(a) ==
    /\ UpdateAt(a, "load") /\ record.is = "whole"
    /\ \E r \in Changes(a, record) : copy' = [copy EXCEPT ![a] = r]
    /\ Advance(a, "open")
    /\ registered' = (registered \/ a = Start)
    /\ slot' = IF a = Start THEN "driver" ELSE slot
    /\ UNCHANGED <<record, tmp, fd, overlapped, id_stored>>
    /\ UNCHANGED <<startVars, cancelVars, closer, close_requested, holder, child,
                   steer, steer_token, tapeVars, idle_announced>>

LoadRecord(a) ==
    /\ UpdateAt(a, "load") /\ record.is = "whole"
    /\ \E r \in Changes(a, record) : copy' = [copy EXCEPT ![a] = r]
    /\ Advance(a, "open")
    /\ UNCHANGED <<record, tmp, fd, overlapped, id_stored>>
    /\ UNCHANGED sessionVars

\* fs::write, first half: created or truncated.
OpenTemp(a) ==
    /\ UpdateAt(a, "open")
    /\ tmp' = Blank("empty")
    /\ fd' = [fd EXCEPT ![a] = "tmp"]
    /\ overlapped' = (overlapped \/ \E b \in Actors : persist[b] \in {"write", "rename"})
    /\ Advance(a, "write")
    /\ UNCHANGED <<record, copy, id_stored>>
    /\ UNCHANGED sessionVars

\* A record written over another's.  A closed one is a byte shorter ("true"), and
\* the last byte of the longer one behind it makes the file unreadable.
Overlaid(old, new) ==
    IF old.is = "empty" \/ ~new.finished \/ (old.is = "whole" /\ old.finished)
    THEN new
    ELSE Blank("torn")

\* fs::write, second half: into the file that was opened, whatever its name is
\* now.  The file is closed, and the record is not needed any more.
WriteTemp(a) ==
    /\ UpdateAt(a, "write")
    /\ tmp' = IF fd[a] = "tmp" THEN Overlaid(tmp, copy[a]) ELSE tmp
    /\ record' = IF fd[a] = "record" THEN Overlaid(record, copy[a]) ELSE record
    /\ fd' = [fd EXCEPT ![a] = "none"]
    /\ copy' = [copy EXCEPT ![a] = Blank("absent")]
    /\ Advance(a, "rename")
    /\ UNCHANGED <<overlapped, id_stored>>
    /\ UNCHANGED sessionVars

\* fs::rename moves what is under the temporary name, whoever wrote it.
RenameTemp(a) ==
    /\ UpdateAt(a, "rename") /\ tmp.is # "absent"
    /\ record' = tmp /\ tmp' = Blank("absent")
    /\ fd' = [b \in Actors |-> CASE fd[b] = "tmp" -> "record"
                                 [] fd[b] = "record" -> "gone"
                                 [] OTHER -> fd[b]]
    /\ id_stored' = (id_stored \/ (a = Start /\ tmp.id_known))
    /\ Advance(a, "done")
    /\ UNCHANGED <<copy, overlapped>>
    /\ UNCHANGED sessionVars

\* No store, no readable record, a failing call, or no file left to rename.
UpdateFails(a) ==
    /\ Updating(a) /\ persist[a] \in {"load", "open", "write", "rename"}
    /\ fd' = [fd EXCEPT ![a] = "none"]
    /\ copy' = [copy EXCEPT ![a] = Blank("absent")]
    /\ Advance(a, "done")
    /\ UNCHANGED <<record, tmp, overlapped, id_stored>>
    /\ UNCHANGED sessionVars

UpdateStep(a) ==
    \/ LoadRecord(a) \/ OpenTemp(a) \/ WriteTemp(a) \/ RenameTemp(a) \/ UpdateFails(a)

-----------------------------------------------------------------------------
(* The delegate.start thread.                                              *)

\* Turn 1 ends with a result; the token may have tripped too late to stop it.
Turn1Ok ==
    /\ start = "turn1" /\ child = "alive"
    /\ completed' = Append(completed, Start)
    /\ start' = "check"
    /\ UNCHANGED <<result, job, cancelVars, closer, handleVars, holder, child,
                   steer, steer_token, turns, sealed, idle_announced, storeVars>>

\* Spawn refused, child gone, turn timed out, or cancelled: the driver reaps the
\* child, and the error counts as a cancellation if the token has tripped.
Turn1Fails ==
    /\ start = "turn1"
    /\ child' = "reaped"
    /\ result' = IF token THEN "cancelled" ELSE "failed"
    /\ start' = "return"
    /\ UNCHANGED <<job, cancelVars, closer, handleVars, holder, steer,
                   steer_token, tapeVars, idle_announced, storeVars>>

\* A cancel that landed during turn 1 is honoured here, and only here: the child
\* has no handle yet that the canceller could reach.
CheckToken ==
    /\ start = "check"
    /\ IF token
       THEN child' = "reaped" /\ result' = "cancelled" /\ start' = "return"
       ELSE start' = "update" /\ UNCHANGED <<child, result>>
    /\ UNCHANGED <<job, cancelVars, closer, handleVars, holder, steer,
                   steer_token, tapeVars, idle_announced, storeVars>>

\* session_idle, once the record update is over, however it ended.
AnnounceIdle ==
    /\ start = "update" /\ persist[Start] = "done"
    /\ idle_announced' = TRUE
    /\ start' = "register"
    /\ UNCHANGED <<result, job, cancelVars, closer, handleVars, holder, child,
                   steer, steer_token, tapeVars, storeVars>>

\* The handle records turn 1 before anyone can reach it.
Register ==
    /\ start = "register"
    /\ registered' = TRUE /\ slot' = "driver"
    /\ turns' = Append(turns, Start)
    /\ start' = "parked"
    /\ UNCHANGED <<result, job, cancelVars, closer, close_requested, holder,
                   child, steer, steer_token, completed, sealed,
                   idle_announced, storeVars>>

\* wait_for_close: the flag is looked at under its mutex before every wait.
WakeUp ==
    /\ start = "parked" /\ close_requested
    /\ start' = "shutdown"
    /\ UNCHANGED <<result, job, cancelVars, closer, handleVars, holder, child,
                   steer, steer_token, tapeVars, idle_announced, storeVars>>

\* MUTANT: the driver is taken without the session mutex.
ShutdownUnlocked ==
    /\ start = "shutdown"
    /\ slot' = "taken" /\ child' = "reaped"
    /\ start' = "deregister"
    /\ UNCHANGED <<result, job, cancelVars, closer, registered, close_requested,
                   holder, steer, steer_token, tapeVars, idle_announced, storeVars>>

\* shutdown takes the session mutex, so it waits for a turn in flight.
Shutdown ==
    /\ start = "shutdown" /\ holder = Nobody
    /\ slot' = "taken"
    /\ child' = IF slot = "driver" THEN "reaped" ELSE child
    /\ start' = "deregister"
    /\ UNCHANGED <<result, job, cancelVars, closer, registered, close_requested,
                   holder, steer, steer_token, tapeVars, idle_announced, storeVars>>

Deregister ==
    /\ start = "deregister"
    /\ registered' = FALSE
    /\ start' = "drain"
    /\ UNCHANGED <<result, job, cancelVars, closer, slot, close_requested, holder,
                   child, steer, steer_token, tapeVars, idle_announced, storeVars>>

\* take_turns and seal_live_run.
Seal ==
    /\ start = "drain"
    /\ sealed' = turns /\ turns' = <<>>
    /\ start' = "sealed"
    /\ UNCHANGED <<result, job, cancelVars, closer, handleVars, holder, child,
                   steer, steer_token, completed, idle_announced, storeVars>>

\* Turn 1's outcome is the job's, unless the token has tripped by now.
Return ==
    /\ start = "sealed"
    /\ result' = IF token THEN "cancelled" ELSE "completed"
    /\ start' = "return"
    /\ UNCHANGED <<job, cancelVars, closer, handleVars, holder, child, steer,
                   steer_token, tapeVars, idle_announced, storeVars>>

\* run_job files what the executor returned.
FinishJob ==
    /\ start = "return"
    /\ job' = result
    /\ start' = "done"
    /\ UNCHANGED <<result, cancelVars, closer, handleVars, holder, child, steer,
                   steer_token, tapeVars, idle_announced, storeVars>>

-----------------------------------------------------------------------------
(* job.cancel of the start job: mark it, trip the token, then ask the live *)
(* session to close if there is one.  A second cancel changes nothing.     *)

CancelJob ==
    /\ job = "running"
    /\ job' = "cancelling" /\ token' = TRUE
    /\ canceller' = "closing"
    /\ UNCHANGED <<start, result, closer, handleVars, holder, child, steer,
                   steer_token, tapeVars, idle_announced, storeVars>>

CancelClosesSession ==
    /\ canceller = "closing"
    /\ close_requested' = (close_requested \/ registered)
    /\ canceller' = "done"
    /\ UNCHANGED <<startVars, token, closer, registered, slot, holder, child,
                   steer, steer_token, tapeVars, idle_announced, storeVars>>

-----------------------------------------------------------------------------
(* delegate.close.                                                         *)

\* Nothing registered: an error, and the client may try again (no step).  The
\* record update with mark_closed follows.
CloseSession ==
    /\ closer = "idle" /\ registered
    /\ close_requested' = TRUE
    /\ closer' = "update"
    /\ UNCHANGED <<startVars, cancelVars, registered, slot, holder, child, steer,
                   steer_token, tapeVars, idle_announced, storeVars>>

-----------------------------------------------------------------------------
(* delegate.steer.                                                         *)

Goto(s, pc) == steer' = [steer EXCEPT ![s] = pc]

\* LiveSessions::get.
SteerLookup(s) ==
    /\ steer[s] = "idle"
    /\ Goto(s, IF registered THEN "agent" ELSE "unknown")
    /\ UNCHANGED <<startVars, cancelVars, closer, handleVars, holder, child,
                   steer_token, tapeVars, idle_announced, storeVars>>

\* LiveHandle::agent takes the session mutex once just to read the name.
SteerAgent(s) ==
    /\ steer[s] = "agent" /\ holder = Nobody
    /\ Goto(s, IF slot = "driver" THEN "lock" ELSE "closed")
    /\ UNCHANGED <<startVars, cancelVars, closer, handleVars, holder, child,
                   steer_token, tapeVars, idle_announced, storeVars>>

SteerBegin(s) ==
    /\ steer[s] = "lock" /\ holder = Nobody
    /\ IF slot = "driver"
       THEN holder' = s /\ Goto(s, "turn")
       ELSE Goto(s, "closed") /\ UNCHANGED holder
    /\ UNCHANGED <<startVars, cancelVars, closer, handleVars, child, steer_token,
                   tapeVars, idle_announced, storeVars>>

\* MUTANT: the mutex is released before the turn is recorded.
SteerTurnOkEarly(s) ==
    \/ /\ steer[s] = "turn" /\ child = "alive" /\ holder = s
       /\ completed' = Append(completed, s)
       /\ holder' = Nobody
       /\ UNCHANGED <<turns, steer>>
       /\ UNCHANGED <<startVars, cancelVars, closer, handleVars, child, steer_token,
                      sealed, idle_announced, storeVars>>
    \/ /\ steer[s] = "turn" /\ holder # s
       /\ turns' = Append(turns, s)
       /\ Goto(s, "ended")
       /\ UNCHANGED <<startVars, cancelVars, closer, handleVars, holder, child,
                      steer_token, completed, sealed, idle_announced, storeVars>>

\* The turn ends with a result and is recorded while the mutex is still held.
SteerTurnOk(s) ==
    /\ steer[s] = "turn" /\ child = "alive"
    /\ completed' = Append(completed, s)
    /\ turns' = Append(turns, s)
    /\ holder' = Nobody
    /\ Goto(s, "ended")
    /\ UNCHANGED <<startVars, cancelVars, closer, handleVars, child, steer_token,
                   sealed, idle_announced, storeVars>>

\* Interrupted (its own token or the session's), timed out, or the child closed
\* its output: the session is torn down here, the close request follows.
SteerTurnFatal(s) ==
    /\ steer[s] = "turn"
    /\ slot' = "taken" /\ child' = "reaped"
    /\ holder' = Nobody
    /\ Goto(s, "signal")
    /\ UNCHANGED <<startVars, cancelVars, closer, registered, close_requested,
                   steer_token, tapeVars, idle_announced, storeVars>>

\* Writing the message to a child that is gone fails before the read loop: an
\* I/O error, which leaves driver and session as they are.
SteerWriteFails(s) ==
    /\ steer[s] = "turn" /\ child = "exited"
    /\ holder' = Nobody
    /\ Goto(s, "io_error")
    /\ UNCHANGED <<startVars, cancelVars, closer, handleVars, child, steer_token,
                   tapeVars, idle_announced, storeVars>>

\* MUTANT: the torn-down session is not signalled to its parked thread.
SteerSignalNobody(s) ==
    /\ steer[s] = "signal"
    /\ Goto(s, "interrupted")
    /\ UNCHANGED <<startVars, cancelVars, closer, handleVars, holder, child,
                   steer_token, tapeVars, idle_announced, storeVars>>

\* request_close after the mutex is dropped.
SteerSignal(s) ==
    /\ steer[s] = "signal"
    /\ close_requested' = TRUE
    /\ Goto(s, "interrupted")
    /\ UNCHANGED <<startVars, cancelVars, closer, registered, slot, holder, child,
                   steer_token, tapeVars, idle_announced, storeVars>>

\* A steer cancelled after its turn ended reports the cancellation; otherwise it
\* announces idle and touches the record.
SteerAnnounce(s) ==
    /\ steer[s] = "ended"
    /\ IF steer_token[s]
       THEN Goto(s, "interrupted") /\ UNCHANGED idle_announced
       ELSE Goto(s, "update") /\ idle_announced' = TRUE
    /\ UNCHANGED <<startVars, cancelVars, closer, handleVars, holder, child,
                   steer_token, tapeVars, storeVars>>

\* job.cancel of a steer job that has begun.
CancelSteer(s) ==
    /\ steer[s] \in {"turn", "ended"} /\ ~steer_token[s]
    /\ steer_token' = [steer_token EXCEPT ![s] = TRUE]
    /\ UNCHANGED <<startVars, cancelVars, closer, handleVars, holder, child,
                   steer, tapeVars, idle_announced, storeVars>>

-----------------------------------------------------------------------------
StartStep ==
    \/ Turn1Ok \/ Turn1Fails \/ CheckToken \/ AnnounceIdle \/ Register \/ WakeUp
    \/ Shutdown \/ Deregister \/ Seal \/ Return \/ FinishJob

SteerStep(s) ==
    \/ SteerLookup(s) \/ SteerAgent(s) \/ SteerBegin(s)
    \/ SteerTurnOk(s) \/ SteerTurnFatal(s) \/ SteerWriteFails(s)
    \/ SteerSignal(s) \/ SteerAnnounce(s)

Next ==
    \/ ChildExits
    \/ StartStep
    \/ CancelJob \/ CancelClosesSession
    \/ CloseSession
    \/ \E a \in Actors : UpdateStep(a)
    \/ \E s \in Steers : SteerStep(s) \/ CancelSteer(s)

Spec == Init /\ [][Next]_vars

\* Threads run on: the start thread, a cancel or close call once begun, and a
\* steer once it found the session (a turn ends by its result, its timeout or
\* its token).  Nobody has to steer, close or cancel, and the agent may live on.
FairSpec ==
    /\ Spec
    /\ WF_vars(StartStep)
    /\ WF_vars(CancelClosesSession)
    /\ \A a \in Actors : WF_vars(UpdateStep(a))
    /\ \A s \in Steers : WF_vars(SteerStep(s) /\ steer[s] # "idle")
-----------------------------------------------------------------------------
(* Properties.                                                             *)

StartPhases == {"turn1", "check", "update", "register", "parked", "shutdown",
                "deregister", "drain", "sealed", "return", "done"}
SteerPhases == {"idle", "unknown", "agent", "lock", "closed", "turn", "ended",
                "signal", "interrupted", "io_error", "update"}

\* Every variable keeps its type.
TypeOK ==
    /\ start \in StartPhases
    /\ result \in Terminal \cup {"none"}
    /\ job \in Terminal \cup {"running", "cancelling"}
    /\ token \in BOOLEAN
    /\ canceller \in {"idle", "closing", "done"}
    /\ closer \in {"idle", "update"}
    /\ registered \in BOOLEAN
    /\ slot \in {"none", "driver", "taken"}
    /\ holder \in Steers \cup {Nobody}
    /\ close_requested \in BOOLEAN
    /\ child \in {"alive", "exited", "reaped"}
    /\ steer \in [Steers -> SteerPhases]
    /\ steer_token \in [Steers -> BOOLEAN]
    /\ turns \in Seq(Steers \cup {Start})
    /\ completed \in Seq(Steers \cup {Start})
    /\ sealed \in Seq(Steers \cup {Start, Nobody})
    /\ idle_announced \in BOOLEAN
    /\ record \in Files /\ tmp \in Files
    /\ fd \in [Actors -> {"none", "tmp", "record", "gone"}]
    /\ copy \in [Actors -> Files]
    /\ persist \in [Actors -> {"load", "open", "write", "rename", "done"}]
    /\ overlapped \in BOOLEAN /\ id_stored \in BOOLEAN

\* The sealed run holds every turn that ended with a result, turn 1 first and
\* the steers in the order they ran, whatever closes, cancels and steers race:
\* what the comments on record_turn argue from the session mutex.
TapeComplete ==
    sealed # NotSealed => sealed = completed

\* The agent process belongs to one thread at a time and is reaped by one of them: a
\* turn only ever runs on a driver that is still in its slot and a child that was
\* not reaped under it, one turn at a time, and no path out of the start job (turn 1
\* failing, a cancel before registration, close, an interrupted steer) leaves the
\* process behind.
ChildOwned ==
    /\ \A s \in Steers : steer[s] = "turn" =>
          holder = s /\ slot = "driver" /\ child # "reaped"
    /\ start = "done" => child = "reaped"

\* A requested close ends the job, even while a steer holds the session, and a
\* steer that tears the session down wakes the parked thread.
CloseEndsJob ==
    /\ close_requested ~> job \in Terminal
    /\ slot = "taken" ~> job \in Terminal

\* Three kinds of threads load, change and write back the record without a lock.
\* Once the start thread has stored the agent's session id, which a later resume
\* needs, no rewrite takes it out again, because it is stored before anybody else
\* can reach the session; and the file can be read at every moment unless two
\* rewrites have been in the temporary file at the same time.
ResumeIdKept ==
    id_stored =>
        \/ record.is = "whole" /\ record.id_known
        \/ record.is \in {"empty", "torn"} /\ overlapped

=============================================================================
