--------------------------- MODULE SessionManager ---------------------------
(***************************************************************************)
(* One interactive session id in the SessionManager                        *)
(* (session_manager/mod.rs): start and resume insert a live session,       *)
(* `session.message' jobs take turns on it, interrupt and close trip the   *)
(* turn's token, and finished turns go into the history and the stored     *)
(* transcript.                                                             *)
(*                                                                         *)
(* The session map is behind one mutex, held for begin_turn, finish_turn   *)
(* and close but not while a turn runs.  A turn finds its session again by *)
(* id alone, so after close and resume it may find another life of it.     *)
(* Nothing keeps a client from resuming an id that is live or whose turn   *)
(* still runs.  The transcript is written with fs::write under the lock,   *)
(* and a failure is only reported on stderr.                               *)
(*                                                                         *)
(* Messages, models and checkpoints are left out; a turn's contribution to *)
(* the history is the turn itself.                                         *)
(***************************************************************************)
EXTENDS Naturals, Sequences

CONSTANTS
    Turns,          \* the session.message jobs
    Resumes,        \* the session.start calls that resume the id
    Modes,          \* approval postures; DefaultMode is the one a start sets
    DefaultMode,
    NoTurn, NoSession,
    NotStored,      \* no transcript file
    Torn            \* a transcript file that does not parse

ASSUME SessionAssumption == NoTurn \notin Turns /\ DefaultMode \in Modes

VARIABLES
    session,        \* the map's entry for the id
    store,          \* the transcript file: the history it holds
    resume,         \* call -> where the resume stands, and the history it has read
    turn,           \* job -> where it stands
    context,        \* job -> TurnContext: the history it took, dropped when it ends
    token,          \* job -> is its cancel token tripped
    \* What happened, for the properties.  A life is one insertion of the id.
    lives,          \* lives so far; the latest is the live one, if any
    life,           \* job -> the life it began its turn on
    replaced,       \* the lives that a resume overwrote while they were live
    strayed,        \* the lives on which a turn of an earlier life finished
    outdated,       \* the lives inserted with a history that was not the last one
    unsaved         \* did the last write of the transcript fail

seen == <<lives, life, replaced, strayed, outdated, unsaved>>
vars == <<session, store, resume, turn, context, token, seen>>

Histories == Seq(Turns)
Sessions == [status : {"idle", "running"}, cancel : Turns \cup {NoTurn},
             history : Histories, mode : Modes]

\* The absent values are none of the present ones.
ASSUME AbsentAssumption ==
    /\ NoSession \notin Sessions
    /\ NotStored \notin Histories /\ Torn \notin Histories

InFlight(t) == turn[t] \in {"running", "ok", "error"}
Live == session # NoSession

NewSession(history) ==
    [status |-> "idle", cancel |-> NoTurn, history |-> history, mode |-> DefaultMode]

Init ==
    /\ session = NoSession /\ store = NotStored
    /\ resume = [r \in Resumes |-> [at |-> "idle", history |-> <<>>]]
    /\ turn = [t \in Turns |-> "idle"]
    /\ context = [t \in Turns |-> <<>>]
    /\ token = [t \in Turns |-> FALSE]
    /\ lives = 0 /\ life = [t \in Turns |-> 0]
    /\ replaced = {} /\ strayed = {} /\ outdated = {} /\ unsaved = FALSE

\* persist: the file holds the history; or there is no store, or its directory or file
\* cannot be opened, and nothing changes; or the write fails after fs::write has
\* truncated the file.  The caller never learns of it.
Persist(history) ==
    \/ store' = history /\ unsaved' = FALSE
    \/ store' \in {store, Torn} /\ unsaved' = TRUE

-----------------------------------------------------------------------------
(* session.start.                                                          *)

Start ==
    /\ lives = 0
    /\ session' = NewSession(<<>>)
    /\ lives' = 1
    /\ UNCHANGED <<store, resume, turn, context, token, life,
                   replaced, strayed, outdated, unsaved>>

\* resume_record reads the file before the map is locked.  A call that finds no file,
\* or one that does not parse, returns an error and changes nothing.
ResumeLoad(r) ==
    /\ resume[r].at = "idle"
    /\ store \notin {NotStored, Torn}
    /\ resume' = [resume EXCEPT ![r] = [at |-> "loaded", history |-> store]]
    /\ UNCHANGED <<session, store, turn, context, token, seen>>

\* insert replaces whatever session is live under the id; its token goes with it.
ResumeInsert(r) ==
    /\ resume[r].at = "loaded"
    /\ session' = NewSession(resume[r].history)
    /\ resume' = [resume EXCEPT ![r] = [at |-> "inserted", history |-> <<>>]]
    /\ lives' = lives + 1
    /\ replaced' = IF Live THEN replaced \cup {lives} ELSE replaced
    /\ outdated' = IF unsaved \/ resume[r].history # store THEN outdated \cup {lives + 1}
                                                           ELSE outdated
    /\ UNCHANGED <<store, turn, context, token, life, strayed, unsaved>>

-----------------------------------------------------------------------------
(* session.message: begin_turn, run_turn, finish_turn on one job thread.   *)

\* Unknown or already running.
RefuseTurn(t) ==
    /\ turn[t] = "idle"
    /\ Live => session.status = "running"
    /\ turn' = [turn EXCEPT ![t] = "failed"]
    /\ UNCHANGED <<session, store, resume, context, token, seen>>

\* MUTANT: a running session accepts another turn.
BeginTurnUnchecked(t) ==
    /\ turn[t] = "idle"
    /\ Live
    /\ session' = [session EXCEPT !.status = "running", !.cancel = t]
    /\ context' = [context EXCEPT ![t] = session.history]
    /\ turn' = [turn EXCEPT ![t] = "running"]
    /\ life' = [life EXCEPT ![t] = lives]
    /\ UNCHANGED <<store, resume, token, lives, replaced, strayed, outdated, unsaved>>

BeginTurn(t) ==
    /\ turn[t] = "idle"
    /\ Live /\ session.status # "running"
    /\ session' = [session EXCEPT !.status = "running", !.cancel = t]
    /\ context' = [context EXCEPT ![t] = session.history]
    /\ turn' = [turn EXCEPT ![t] = "running"]
    /\ life' = [life EXCEPT ![t] = lives]
    /\ UNCHANGED <<store, resume, token, lives, replaced, strayed, outdated, unsaved>>

\* The orchestrator runs on the context's copies, the gate on its posture; run_turn
\* returns the new history or an error (a cancellation among them).
TurnReturns(t, result) ==
    /\ turn[t] = "running"
    /\ result \in {"ok", "error"}
    /\ turn' = [turn EXCEPT ![t] = result]
    /\ UNCHANGED <<session, store, resume, context, token, seen>>

\* The job is over, its copy of the history moved or dropped, its token of no more use.
Ends(t, how) ==
    /\ turn' = [turn EXCEPT ![t] = how]
    /\ context' = [context EXCEPT ![t] = <<>>]
    /\ token' = [token EXCEPT ![t] = FALSE]

\* A panic unwinds past finish_turn to the job's catch_unwind.
TurnPanics(t) ==
    /\ turn[t] = "running"
    /\ Ends(t, "panicked")
    /\ UNCHANGED <<session, store, resume, seen>>

\* Closed meanwhile: the turn's result is dropped.
FinishUnknown(t) ==
    /\ turn[t] \in {"ok", "error"} /\ ~Live
    /\ Ends(t, "failed")
    /\ UNCHANGED <<session, store, resume, seen>>

\* A turn that began on an earlier life finishes on this one.
Strays(t) == strayed' = IF life[t] < lives THEN strayed \cup {lives} ELSE strayed

\* MUTANT: the record is not written at the end of a turn.
FinishUnsaved(t) ==
    /\ turn[t] \in {"ok", "error"} /\ Live
    /\ session' = [session EXCEPT !.status = "idle", !.cancel = NoTurn,
                     !.history = IF turn[t] = "ok" THEN Append(context[t], t) ELSE @]
    /\ Ends(t, IF turn[t] = "ok" THEN "done" ELSE "failed")
    /\ Strays(t)
    /\ UNCHANGED <<store, resume, lives, life, replaced, outdated, unsaved>>

\* MUTANT: the session stays running after a turn that failed.
FinishStuck(t) ==
    /\ turn[t] \in {"ok", "error"} /\ Live
    /\ LET history == Append(context[t], t)
       IN  IF turn[t] = "ok"
           THEN /\ session' = [session EXCEPT !.status = "idle", !.cancel = NoTurn,
                                 !.history = history]
                /\ Persist(history)
           ELSE UNCHANGED <<session, store, unsaved>>
    /\ Ends(t, IF turn[t] = "ok" THEN "done" ELSE "failed")
    /\ Strays(t)
    /\ UNCHANGED <<resume, lives, life, replaced, outdated>>

\* Under the lock: whatever session the id now has is idle again, and a turn that
\* returned its history makes it that session's history and persists it.
FinishTurn(t) ==
    /\ turn[t] \in {"ok", "error"} /\ Live
    /\ LET history == IF turn[t] = "ok" THEN Append(context[t], t)
                                       ELSE session.history
       IN  /\ session' = [session EXCEPT !.status = "idle", !.cancel = NoTurn,
                            !.history = history]
           /\ IF turn[t] = "ok" THEN Persist(history) ELSE UNCHANGED <<store, unsaved>>
    /\ Ends(t, IF turn[t] = "ok" THEN "done" ELSE "failed")
    /\ Strays(t)
    /\ UNCHANGED <<resume, lives, life, replaced, outdated>>

-----------------------------------------------------------------------------
(* Control commands, each one lock region.                                 *)

Interrupt ==
    /\ Live /\ session.cancel # NoTurn
    /\ token' = [token EXCEPT ![session.cancel] = TRUE]
    /\ UNCHANGED <<session, store, resume, turn, context, seen>>

Close ==
    /\ Live
    /\ session' = NoSession
    /\ Persist(session.history)
    /\ token' = [t \in Turns |-> token[t] \/ t = session.cancel]
    /\ UNCHANGED <<resume, turn, context, lives, life, replaced, strayed, outdated>>

SetMode(m) ==
    /\ Live /\ session.mode # m
    /\ session' = [session EXCEPT !.mode = m]
    /\ UNCHANGED <<store, resume, turn, context, token, seen>>

-----------------------------------------------------------------------------
TurnStep(t) ==
    \/ \E result \in {"ok", "error"} : TurnReturns(t, result)
    \/ FinishUnknown(t) \/ FinishTurn(t)

Next ==
    \/ Start
    \/ \E r \in Resumes : ResumeLoad(r) \/ ResumeInsert(r)
    \/ \E t \in Turns : \/ RefuseTurn(t) \/ BeginTurn(t)
                        \/ TurnStep(t) \/ TurnPanics(t)
    \/ Interrupt \/ Close
    \/ \E m \in Modes : SetMode(m)

Spec == Init /\ [][Next]_vars

\* A begun turn's job thread runs on and its orchestrator returns (turn limit,
\* provider timeouts, approval timeout); nobody has to send, close or resume.
FairSpec == Spec /\ \A t \in Turns : WF_vars(TurnStep(t))

-----------------------------------------------------------------------------
(* Properties.                                                             *)

\* Every variable keeps its type.
TypeOK ==
    /\ session \in Sessions \cup {NoSession}
    /\ store \in Histories \cup {NotStored, Torn}
    /\ resume \in [Resumes -> [at : {"idle", "loaded", "inserted"},
                               history : Histories]]
    /\ turn \in [Turns -> {"idle", "running", "ok", "error", "done", "failed", "panicked"}]
    /\ context \in [Turns -> Histories]
    /\ token \in [Turns -> BOOLEAN]
    /\ lives \in Nat /\ life \in [Turns -> Nat]
    /\ replaced \subseteq Nat /\ strayed \subseteq Nat /\ outdated \subseteq Nat
    /\ unsaved \in BOOLEAN

\* t began on the session that is live now.
OnLive(t) == Live /\ life[t] = lives

\* "session.interrupt cancels the current turn's CancelToken": a turn in flight on the
\* live session holds it running and is the one whose token interrupt and close trip,
\* so it is the only one; a turn whose session is gone was cancelled when it was
\* closed.  Two things let a turn escape: a resume that overwrites its live session
\* drops the token, and a turn of an earlier life that finishes on its session takes
\* the token out.
InterruptReaches ==
    \A t \in Turns : InFlight(t) =>
        \/ OnLive(t) /\ session.status = "running" /\ session.cancel = t
        \/ ~OnLive(t) /\ token[t]
        \/ life[t] \in replaced \cup strayed

Kept(t, history) == \E i \in DOMAIN history : history[i] = t

\* Since t began its turn, a turn of an earlier life has overwritten the history, or
\* the id was resumed with a history older than the last one.
Overwritten(t) ==
    (\E l \in strayed : life[t] <= l) \/ (\E l \in outdated : life[t] < l)

\* "resulting messages append to history and persist": a turn that finished with a
\* result stays in the live history through every later turn, close and resume, and
\* in the stored transcript unless its last write failed, until a stray turn or an
\* outdated resume overwrites them.
TurnsKept ==
    \A t \in Turns : turn[t] = "done" /\ ~Overwritten(t) =>
        /\ Live => Kept(t, session.history)
        /\ ~unsaved => store \notin {NotStored, Torn} /\ Kept(t, store)

Running == Live /\ session.status = "running"
Wedged == Running /\ turn[session.cancel] = "panicked"

\* A session that is running becomes idle or is closed, or its turn has panicked:
\* then only close frees it, for finish_turn was skipped.
RunningEnds ==
    Running ~> (~Running \/ Wedged)
=============================================================================
