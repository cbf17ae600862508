------------------------ MODULE SessionManagerProofs ------------------------
(***************************************************************************)
(* What the session manager promises about a session's turns, proved for   *)
(* every set of message jobs and of resumes, with resumes of a live id,    *)
(* turns that outlive their session and transcript writes that fail.       *)
(*                                                                         *)
(* And what the workspace catalog promises (FsCatalog, from CatalogTypes   *)
(* on), for every disk, set of batches, readers and warmers: a cached      *)
(* snapshot is right between batches, a failed atomic batch is undone or   *)
(* reported, and a codemap hit is never stale where signatures tell the    *)
(* versions of a file apart (SignaturesTell).                              *)
(***************************************************************************)
EXTENDS SessionManager, FsCatalog, SequenceTheorems, FiniteSetTheorems, TLAPS

\* Before session.start there is no session and no begun turn.
Unstarted == lives = 0 => ~Live /\ \A t \in Turns : turn[t] \in {"idle", "failed"}

\* A turn began on a life that has been; only past lives were replaced.
LivesPast ==
    /\ \A t \in Turns : life[t] <= lives
    /\ \A l \in replaced : l < lives

\* The copy of the history a turn works on is its session's history, unless a stray
\* turn has changed that.
ContextCurrent ==
    \A t \in Turns : InFlight(t) /\ OnLive(t) /\ lives \notin strayed =>
        context[t] = session.history

\* The inductive invariant.  TurnsKept needs ContextCurrent, for FinishTurn replaces
\* the history by the turn's copy, and that needs InterruptReaches: no other turn of
\* this life is in flight whose end could have changed the history.
SessionInv ==
    /\ TypeOK
    /\ Unstarted
    /\ LivesPast
    /\ ContextCurrent
    /\ InterruptReaches
    /\ TurnsKept

-----------------------------------------------------------------------------
\* Appending a turn keeps the turns of a history and adds the new one.
LEMMA AppendKeeps ==
    ASSUME NEW h \in Histories, NEW t \in Turns
    PROVE  /\ Append(h, t) \in Histories
           /\ Kept(t, Append(h, t))
           /\ \A u \in Turns : Kept(u, h) => Kept(u, Append(h, t))
<1>1. /\ Append(h, t) \in Seq(Turns)
      /\ Len(Append(h, t)) = Len(h) + 1
      /\ Append(h, t)[Len(h) + 1] = t
      /\ \A i \in 1..Len(h) : Append(h, t)[i] = h[i]
  BY AppendProperties DEF Histories
<1>2. /\ DOMAIN h = 1..Len(h) /\ Len(h) \in Nat
      /\ DOMAIN Append(h, t) = 1..(Len(h) + 1)
  BY <1>1, LenProperties DEF Histories
<1>3. Kept(t, Append(h, t))
  BY <1>1, <1>2 DEF Kept
<1>4. ASSUME NEW u \in Turns, Kept(u, h)
      PROVE  Kept(u, Append(h, t))
  BY <1>1, <1>2, <1>4 DEF Kept
<1> QED
  BY <1>1, <1>3, <1>4 DEF Histories

\* A new session is a session with the history it was given.
LEMMA NewSessionTyped ==
    ASSUME NEW h \in Histories
    PROVE  /\ NewSession(h) \in Sessions /\ NewSession(h) # NoSession
           /\ NewSession(h).history = h
BY SessionAssumption, AbsentAssumption DEF NewSession, Sessions

\* The invariant holds at the start.
LEMMA InitSession == Init => SessionInv
<1> SUFFICES ASSUME Init PROVE SessionInv
  OBVIOUS
<1>1. TypeOK
  <2>1. <<>> \in Histories
    BY EmptySeq DEF Histories
  <2> QED
    BY <2>1, SessionAssumption DEF Init, TypeOK
<1> QED
  BY <1>1 DEF Init, SessionInv, Unstarted, LivesPast, ContextCurrent,
    InterruptReaches, TurnsKept, InFlight, Live

\* What persist leaves in the file and in `unsaved'.
LEMMA PersistTyped ==
    ASSUME TypeOK, NEW h \in Histories, Persist(h)
    PROVE  /\ store' \in Histories \cup {NotStored, Torn} /\ unsaved' \in BOOLEAN
           /\ ~unsaved' => store' = h /\ h \notin {NotStored, Torn}
BY AbsentAssumption DEF Persist, TypeOK

\* Start and the two halves of a resume keep the invariant.
LEMMA LivesKeep ==
    ASSUME SessionInv, Start \/ (\E r \in Resumes : ResumeLoad(r) \/ ResumeInsert(r))
    PROVE  SessionInv'
<1> USE DEF SessionInv
<1>1. CASE Start
  <2>1. session' = NewSession(<<>>) /\ session' \in Sessions /\ session' # NoSession
    BY <1>1, EmptySeq, NewSessionTyped DEF Start, Histories
  <2>2. TypeOK'
    BY <1>1, <2>1 DEF Start, TypeOK
  <2>3. \A t \in Turns : turn'[t] \in {"idle", "failed"}
    BY <1>1 DEF Start, Unstarted
  <2>4. LivesPast'
    BY <1>1 DEF Start, LivesPast, TypeOK
  <2> QED
    BY <1>1, <2>1, <2>2, <2>3, <2>4 DEF Start, Unstarted, ContextCurrent,
      InterruptReaches, TurnsKept, InFlight
<1>2. ASSUME NEW r \in Resumes, ResumeLoad(r)
      PROVE  SessionInv'
  <2>1. store \in Histories
    BY <1>2 DEF ResumeLoad, TypeOK
  <2>2. TypeOK'
    BY <1>2, <2>1 DEF ResumeLoad, TypeOK, seen
  <2> QED
    BY <1>2, <2>2 DEF ResumeLoad, seen, Unstarted, LivesPast, ContextCurrent,
      InterruptReaches, TurnsKept, Overwritten, OnLive, InFlight, Live
<1>3. ASSUME NEW r \in Resumes, ResumeInsert(r)
      PROVE  SessionInv'
  <2>1. resume[r].history \in Histories
    BY DEF TypeOK
  <2>2. /\ session' \in Sessions /\ session' # NoSession
        /\ session'.history = resume[r].history
    BY <1>3, <2>1, NewSessionTyped DEF ResumeInsert
  <2>3. /\ lives \in Nat /\ lives' = lives + 1 /\ lives' # 0
        /\ \A t \in Turns : life[t] \in Nat /\ life'[t] = life[t] /\ life[t] <= lives
        /\ turn' = turn /\ token' = token /\ strayed' = strayed
        /\ store' = store /\ unsaved' = unsaved
    BY <1>3 DEF ResumeInsert, TypeOK, LivesPast
  <2>4. resume' \in [Resumes -> [at : {"idle", "loaded", "inserted"}, history : Histories]]
    BY <1>3, EmptySeq DEF ResumeInsert, TypeOK, Histories
  <2>5. /\ replaced' \subseteq Nat /\ outdated' \subseteq Nat
        /\ \A l \in replaced' : l < lives'
        /\ replaced \subseteq replaced' /\ outdated \subseteq outdated'
        /\ Live => lives \in replaced'
    BY <1>3, <2>3 DEF ResumeInsert, TypeOK, LivesPast
  <2>6. TypeOK'
    BY <1>3, <2>2, <2>3, <2>4, <2>5 DEF ResumeInsert, TypeOK
  <2>7. \A t \in Turns : ~OnLive(t)'
    BY <2>3 DEF OnLive
  <2>8. InterruptReaches'
    <3> SUFFICES ASSUME NEW t \in Turns, InFlight(t)
                 PROVE  token[t] \/ life[t] \in replaced' \cup strayed
      BY <2>3, <2>7 DEF InterruptReaches, InFlight
    <3>1. CASE OnLive(t)
      BY <2>5, <3>1 DEF OnLive
    <3>2. CASE ~OnLive(t)
      BY <2>5, <3>2 DEF InterruptReaches
    <3> QED
      BY <3>1, <3>2
  <2>9. TurnsKept'
    <3> SUFFICES ASSUME NEW t \in Turns, turn[t] = "done", ~Overwritten(t)'
                 PROVE  /\ Kept(t, session'.history)
                        /\ ~unsaved => store \notin {NotStored, Torn} /\ Kept(t, store)
      BY <2>3 DEF TurnsKept
    <3>1. ~Overwritten(t)
      BY <2>3, <2>5 DEF Overwritten
    <3>2. ~unsaved => store \notin {NotStored, Torn} /\ Kept(t, store)
      BY <3>1 DEF TurnsKept
    <3>3. lives + 1 \notin outdated'
      BY <2>3 DEF Overwritten
    <3>4. ~unsaved /\ resume[r].history = store
      BY <1>3, <3>3 DEF ResumeInsert
    <3> QED
      BY <2>2, <3>2, <3>4
  <2> QED
    BY <2>3, <2>5, <2>6, <2>7, <2>8, <2>9 DEF Unstarted, LivesPast, ContextCurrent
<1> QED
  BY <1>1, <1>2, <1>3

\* The control commands keep the invariant.
LEMMA ControlsKeep ==
    ASSUME SessionInv, Interrupt \/ Close \/ (\E m \in Modes : SetMode(m))
    PROVE  SessionInv'
<1> USE DEF SessionInv
<1>1. CASE Interrupt
  <2>1. TypeOK'
    BY <1>1 DEF Interrupt, TypeOK, seen
  <2>2. \A t \in Turns : token[t] => token'[t]
    BY <1>1 DEF Interrupt, TypeOK
  <2> QED
    BY <1>1, <2>1, <2>2 DEF Interrupt, seen, Unstarted, LivesPast, ContextCurrent,
      InterruptReaches, TurnsKept, Overwritten, OnLive, InFlight, Live
<1>2. CASE Close
  <2>1. session.history \in Histories
    BY <1>2 DEF Close, Live, TypeOK, Sessions
  <2>2. /\ store' \in Histories \cup {NotStored, Torn} /\ unsaved' \in BOOLEAN
        /\ ~unsaved' => store' = session.history /\ store' \notin {NotStored, Torn}
    BY <1>2, <2>1, PersistTyped DEF Close
  <2>3. token' \in [Turns -> BOOLEAN]
    <3>1. \A t \in Turns : (token[t] \/ t = session.cancel) \in BOOLEAN
      OBVIOUS
    <3> QED
      BY <1>2, <3>1 DEF Close, TypeOK
  <2>4. TypeOK'
    BY <1>2, <2>2, <2>3 DEF Close, TypeOK
  <2>5. /\ ~Live' /\ Live /\ \A t \in Turns : ~OnLive(t)'
        /\ UNCHANGED <<turn, context, lives, life, replaced, strayed, outdated>>
        /\ \A t \in Turns : token[t] \/ t = session.cancel => token'[t]
    BY <1>2 DEF Close, Live, OnLive
  <2>6. InterruptReaches'
    BY <2>5 DEF InterruptReaches, InFlight
  <2>7. TurnsKept'
    BY <2>2, <2>5 DEF TurnsKept, Overwritten
  <2> QED
    BY <2>4, <2>5, <2>6, <2>7 DEF Unstarted, LivesPast, ContextCurrent
<1>3. ASSUME NEW m \in Modes, SetMode(m)
      PROVE  SessionInv'
  <2>1. session \in Sessions
    BY <1>3 DEF SetMode, Live, TypeOK
  <2>2. /\ session' \in Sessions /\ session' # NoSession
        /\ session'.status = session.status /\ session'.cancel = session.cancel
        /\ session'.history = session.history
    BY <1>3, <2>1, AbsentAssumption DEF SetMode, Sessions
  <2>3. TypeOK'
    BY <1>3, <2>2 DEF SetMode, TypeOK, seen
  <2> QED
    BY <1>3, <2>2, <2>3 DEF SetMode, seen, Unstarted, LivesPast, ContextCurrent,
      InterruptReaches, TurnsKept, Overwritten, OnLive, InFlight, Live
<1> QED
  BY <1>1, <1>2, <1>3

\* What the end of a job changes of its own entries.
LEMMA EndsOnly ==
    ASSUME TypeOK, NEW t \in Turns, NEW how \in {"done", "failed", "panicked"}, Ends(t, how)
    PROVE  /\ turn' \in [Turns -> {"idle", "running", "ok", "error", "done", "failed", "panicked"}]
           /\ context' \in [Turns -> Histories] /\ token' \in [Turns -> BOOLEAN]
           /\ turn'[t] = how
           /\ \A u \in Turns : u # t =>
                turn'[u] = turn[u] /\ context'[u] = context[u] /\ token'[u] = token[u]
<1>1. <<>> \in Histories
  BY EmptySeq DEF Histories
<1> QED
  BY <1>1 DEF Ends, TypeOK

\* The steps of a message job up to its end keep the invariant.
LEMMA TurnsKeep ==
    ASSUME SessionInv, NEW t \in Turns,
           \/ RefuseTurn(t) \/ BeginTurn(t) \/ TurnPanics(t) \/ FinishUnknown(t)
           \/ \E result \in {"ok", "error"} : TurnReturns(t, result)
    PROVE  SessionInv'
<1> USE DEF SessionInv
<1>1. CASE RefuseTurn(t)
  <2>1. TypeOK'
    BY <1>1 DEF RefuseTurn, TypeOK, seen
  <2>2. \A u \in Turns : u # t => turn'[u] = turn[u]
    BY <1>1 DEF RefuseTurn, TypeOK
  <2>3. turn'[t] = "failed"
    BY <1>1 DEF RefuseTurn, TypeOK
  <2> QED
    BY <1>1, <2>1, <2>2, <2>3 DEF RefuseTurn, seen, Unstarted, LivesPast, ContextCurrent,
      InterruptReaches, TurnsKept, Overwritten, OnLive, InFlight, Live
<1>2. CASE BeginTurn(t)
  <2>1. session \in Sessions /\ lives # 0 /\ lives \in Nat
    BY <1>2 DEF BeginTurn, Live, TypeOK, Unstarted
  <2>2. /\ session' \in Sessions /\ session' # NoSession
        /\ session'.status = "running" /\ session'.cancel = t
        /\ session'.history = session.history /\ session.history \in Histories
    BY <1>2, <2>1, AbsentAssumption DEF BeginTurn, Sessions
  <2>3. /\ context' \in [Turns -> Histories] /\ context'[t] = session.history
        /\ turn'[t] = "running" /\ life'[t] = lives /\ life' \in [Turns -> Nat]
    BY <1>2, <2>1, <2>2 DEF BeginTurn, TypeOK
  <2>4. TypeOK'
    BY <1>2, <2>2, <2>3 DEF BeginTurn, TypeOK
  <2>5. \A u \in Turns : u # t =>
          turn'[u] = turn[u] /\ context'[u] = context[u] /\ life'[u] = life[u]
    BY <1>2 DEF BeginTurn, TypeOK
  <2>6. /\ Live /\ Live' /\ session.status # "running"
        /\ UNCHANGED <<store, token, lives, replaced, strayed, outdated, unsaved>>
    BY <1>2, <2>2 DEF BeginTurn, Live
  <2>7. InterruptReaches'
    <3> SUFFICES ASSUME NEW u \in Turns, InFlight(u)'
                 PROVE  \/ OnLive(u)' /\ session'.cancel = u
                        \/ ~OnLive(u)' /\ token[u]
                        \/ life'[u] \in replaced \cup strayed
      BY <2>2, <2>6 DEF InterruptReaches
    <3>1. CASE u = t
      BY <2>2, <2>3, <2>6, <3>1 DEF OnLive
    <3>2. CASE u # t
      <4>1. InFlight(u) /\ life'[u] = life[u] /\ (OnLive(u)' <=> OnLive(u))
        BY <2>5, <2>6, <3>2 DEF InFlight, OnLive
      <4> QED
        BY <2>6, <4>1 DEF InterruptReaches
    <3> QED
      BY <3>1, <3>2
  <2>8. ContextCurrent'
    BY <2>2, <2>3, <2>5, <2>6 DEF ContextCurrent, InFlight, OnLive
  <2>9. TurnsKept'
    BY <2>2, <2>3, <2>5, <2>6 DEF TurnsKept, Overwritten
  <2>10. LivesPast'
    BY <2>1, <2>3, <2>5, <2>6 DEF LivesPast
  <2> QED
    BY <2>1, <2>4, <2>6, <2>7, <2>8, <2>9, <2>10 DEF Unstarted
<1>3. ASSUME NEW result \in {"ok", "error"}, TurnReturns(t, result)
      PROVE  SessionInv'
  <2>1. TypeOK'
    BY <1>3 DEF TurnReturns, TypeOK, seen
  <2>2. \A u \in Turns : u # t => turn'[u] = turn[u]
    BY <1>3 DEF TurnReturns, TypeOK
  <2>3. turn[t] = "running" /\ turn'[t] \in {"ok", "error"}
    BY <1>3 DEF TurnReturns, TypeOK
  <2> QED
    BY <1>3, <2>1, <2>2, <2>3 DEF TurnReturns, seen, Unstarted, LivesPast, ContextCurrent,
      InterruptReaches, TurnsKept, Overwritten, OnLive, InFlight, Live
<1>4. CASE FinishUnknown(t) \/ TurnPanics(t)
  <2>1. PICK how \in {"failed", "panicked"} : Ends(t, how)
    BY <1>4 DEF FinishUnknown, TurnPanics
  <2>2. UNCHANGED <<session, store, resume, seen>> /\ InFlight(t)
    BY <1>4 DEF FinishUnknown, TurnPanics, InFlight
  <2>3. /\ turn' \in [Turns -> {"idle", "running", "ok", "error", "done", "failed", "panicked"}]
        /\ context' \in [Turns -> Histories] /\ token' \in [Turns -> BOOLEAN]
        /\ turn'[t] = how
        /\ \A u \in Turns : u # t =>
             turn'[u] = turn[u] /\ context'[u] = context[u] /\ token'[u] = token[u]
    BY <2>1, EndsOnly
  <2>4. TypeOK'
    BY <2>2, <2>3 DEF TypeOK, seen
  <2> QED
    BY <2>2, <2>3, <2>4 DEF seen, Unstarted, LivesPast, ContextCurrent,
      InterruptReaches, TurnsKept, Overwritten, OnLive, InFlight, Live
<1> QED
  BY <1>1, <1>2, <1>3, <1>4

\* The end of a turn on a live session keeps the invariant.
LEMMA FinishKeeps ==
    ASSUME SessionInv, NEW t \in Turns, FinishTurn(t)
    PROVE  SessionInv'
<1> USE DEF SessionInv
<1> DEFINE history == IF turn[t] = "ok" THEN Append(context[t], t) ELSE session.history
           how == IF turn[t] = "ok" THEN "done" ELSE "failed"
<1>1. /\ session \in Sessions /\ session.history \in Histories /\ context[t] \in Histories
      /\ InFlight(t) /\ Live /\ lives \in Nat /\ life[t] \in Nat /\ life[t] <= lives
  BY DEF FinishTurn, Live, TypeOK, InFlight, Sessions, LivesPast
<1>2. /\ history \in Histories
      /\ turn[t] = "ok" => Kept(t, history)
      /\ context[t] = session.history =>
           \A u \in Turns : Kept(u, session.history) => Kept(u, history)
  BY <1>1, AppendKeeps
<1>3. /\ session' = [session EXCEPT !.status = "idle", !.cancel = NoTurn, !.history = history]
      /\ IF turn[t] = "ok" THEN Persist(history) ELSE UNCHANGED <<store, unsaved>>
      /\ how \in {"done", "failed", "panicked"} /\ Ends(t, how)
  BY DEF FinishTurn
<1>4. how = "done" <=> turn[t] = "ok"
  OBVIOUS
<1> HIDE DEF history, how
<1>5. /\ strayed' = (IF life[t] < lives THEN strayed \cup {lives} ELSE strayed)
      /\ UNCHANGED <<resume, lives, life, replaced, outdated>>
  BY DEF FinishTurn, Strays
<1>6. /\ turn' \in [Turns -> {"idle", "running", "ok", "error", "done", "failed", "panicked"}]
      /\ context' \in [Turns -> Histories] /\ token' \in [Turns -> BOOLEAN]
      /\ turn'[t] = how
      /\ \A u \in Turns : u # t =>
           turn'[u] = turn[u] /\ context'[u] = context[u] /\ token'[u] = token[u]
  BY <1>3, EndsOnly
<1>7. session' \in Sessions /\ session' # NoSession /\ session'.history = history
  BY <1>1, <1>2, <1>3, AbsentAssumption DEF Sessions
<1>8. /\ store' \in Histories \cup {NotStored, Torn} /\ unsaved' \in BOOLEAN
      /\ turn[t] = "ok" /\ ~unsaved' => store' = history /\ store' \notin {NotStored, Torn}
      /\ turn[t] # "ok" => store' = store /\ unsaved' = unsaved /\ history = session.history
  <2>1. CASE turn[t] = "ok"
    BY <1>2, <1>3, <2>1, PersistTyped
  <2>2. CASE turn[t] # "ok"
    BY <1>3, <2>2 DEF TypeOK, history
  <2> QED
    BY <2>1, <2>2
<1>9. strayed \subseteq strayed' /\ strayed' \subseteq Nat
  BY <1>1, <1>5 DEF TypeOK
<1>10. TypeOK'
  BY <1>5, <1>6, <1>7, <1>8, <1>9 DEF TypeOK
\* Either the life is strayed now, or t is its only turn in flight.
<1>11. ASSUME lives \notin strayed'
       PROVE  /\ life[t] = lives /\ OnLive(t) /\ lives \notin strayed
              /\ context[t] = session.history
              /\ \A u \in Turns : u # t => ~(InFlight(u) /\ OnLive(u))
  <2>1. life[t] = lives /\ lives \notin strayed
    BY <1>1, <1>5, <1>11
  <2>2. OnLive(t)
    BY <1>1, <2>1 DEF OnLive
  <2>3. lives \notin replaced
    BY <1>1 DEF LivesPast
  <2>4. \A u \in Turns : InFlight(u) /\ OnLive(u) => session.cancel = u
    BY <2>1, <2>3 DEF InterruptReaches, OnLive
  <2> QED
    BY <1>1, <2>1, <2>2, <2>4 DEF ContextCurrent
<1>12. ASSUME NEW u \in Turns
       PROVE  /\ InFlight(u)' <=> u # t /\ InFlight(u)
              /\ OnLive(u)' <=> OnLive(u)
  <2>1. Live' <=> Live
    BY <1>1, <1>7 DEF Live
  <2>2. OnLive(u)' <=> OnLive(u)
    BY <1>5, <2>1 DEF OnLive
  <2>3. CASE u = t
    <3>1. turn'[u] \in {"done", "failed", "panicked"}
      BY <1>3, <1>6, <2>3
    <3> QED
      BY <2>2, <2>3, <3>1 DEF InFlight
  <2>4. CASE u # t
    BY <1>6, <2>2, <2>4 DEF InFlight
  <2> QED
    BY <2>3, <2>4
<1>13. InterruptReaches'
  <2> SUFFICES ASSUME NEW u \in Turns, u # t, InFlight(u)
               PROVE  (~OnLive(u) /\ token[u]) \/ life[u] \in replaced \cup strayed'
    BY <1>5, <1>6, <1>12 DEF InterruptReaches
  <2>1. CASE OnLive(u)
    BY <1>11, <2>1 DEF OnLive
  <2>2. CASE ~OnLive(u)
    BY <1>9, <2>2 DEF InterruptReaches
  <2> QED
    BY <2>1, <2>2
<1>14. ContextCurrent'
  BY <1>5, <1>11, <1>12 DEF ContextCurrent
<1>15. TurnsKept'
  <2> SUFFICES ASSUME NEW u \in Turns, turn'[u] = "done", ~Overwritten(u)'
               PROVE  /\ Kept(u, history)
                      /\ ~unsaved' => store' \notin {NotStored, Torn} /\ Kept(u, store')
    BY <1>7 DEF TurnsKept
  <2>1. life[u] <= lives /\ life'[u] = life[u] /\ lives \notin strayed'
    BY <1>5 DEF LivesPast, Overwritten
  <2>2. ~Overwritten(u)
    BY <1>5, <1>9 DEF Overwritten
  <2>3. context[t] = session.history
    BY <1>11, <2>1
  <2>4. CASE u = t
    BY <1>2, <1>4, <1>6, <1>8, <2>4
  <2>5. CASE u # t
    <3>1. /\ Kept(u, session.history)
          /\ ~unsaved => store \notin {NotStored, Torn} /\ Kept(u, store)
      BY <1>1, <1>6, <2>2, <2>5 DEF TurnsKept
    <3> QED
      BY <1>2, <1>8, <2>3, <3>1
  <2> QED
    BY <2>4, <2>5
<1>16. Unstarted' /\ LivesPast'
  BY <1>1, <1>5 DEF Unstarted, LivesPast
<1> QED
  BY <1>10, <1>13, <1>14, <1>15, <1>16

\* Every step keeps the invariant.
LEMMA NextSession == SessionInv /\ [Next]_vars => SessionInv'
<1> SUFFICES ASSUME SessionInv, [Next]_vars PROVE SessionInv'
  OBVIOUS
<1>1. CASE Next
  BY <1>1, LivesKeep, ControlsKeep, TurnsKeep, FinishKeeps DEF Next, TurnStep
<1>2. CASE UNCHANGED vars
  BY <1>2 DEF vars, seen, SessionInv, TypeOK, Unstarted, LivesPast, ContextCurrent,
    InterruptReaches, TurnsKept, Overwritten, OnLive, InFlight, Live
<1> QED
  BY <1>1, <1>2

-----------------------------------------------------------------------------
\* Every reachable state of the session satisfies the inductive invariant, whoever
\* resumes it when and whichever writes of its transcript fail.
THEOREM SessionCorrect == Spec => []SessionInv
BY InitSession, NextSession, PTL DEF Spec

\* session.interrupt and session.close reach the turn in flight on a live session, and
\* a turn whose session was closed was cancelled, but for a session that a resume
\* overwrote while it was live or on which a turn of an earlier life has finished.
THEOREM InterruptReachesHolds == Spec => []InterruptReaches
<1>1. SessionInv => InterruptReaches
  BY DEF SessionInv
<1> QED
  BY <1>1, SessionCorrect, PTL

\* A turn that finished with a result stays in the live history, and in the stored
\* transcript unless its last write failed, until a stray turn or an outdated resume
\* overwrites them.
THEOREM TurnsKeptHolds == Spec => []TurnsKept
<1>1. SessionInv => TurnsKept
  BY DEF SessionInv
<1> QED
  BY <1>1, SessionCorrect, PTL

-----------------------------------------------------------------------------
(* The workspace catalog.                                                  *)

\* What a thread's record holds in each of its phases.
ThreadFields == {"pc", "path", "sig", "symbols", "gen", "todo", "list"}
ThreadPhases == {"idle", "read", "check", "insert", "lock", "scan", "start", "warm"}
ThreadOK(t, r, lock) ==
    /\ DOMAIN r = ThreadFields
    /\ r.pc \in ThreadPhases /\ r.gen \in Nat /\ r.todo \in SUBSET Paths /\ r.list \in Listings
    /\ r.pc \in {"read", "check", "insert"} => r.path \in Paths /\ r.sig \in Signatures
    /\ r.pc \in {"check", "insert"} => r.symbols \in Symbols
    /\ t \in Warmers => r.pc \notin {"lock", "scan", "start"}
    /\ t \in Readers => r.pc # "warm"
    /\ r.pc = "scan" => lock = t

\* The threads' records, and who holds the scan lock.
ThreadsOK ==
    /\ DOMAIN reader = Threads
    /\ \A t \in Threads : ThreadOK(t, reader[t], scanLock)

\* What the editor's record holds; in the middle of a batch it is at a change of it.
EditorFields == {"pc", "changes", "at", "atomic", "backups", "failedPaths", "before"}
MidBatch == {"backup", "apply", "truncate", "fill"}
EditorPhases == MidBatch \cup {"idle", "rollback", "failed", "invalidate", "bump", "stop"}
Copies == [target : Paths, saved : Symbols \cup {NoFile}]
EditorOK ==
    /\ DOMAIN editor = EditorFields
    /\ editor.pc \in EditorPhases /\ editor.at \in Nat
    /\ editor.atomic \in BOOLEAN /\ editor.backups \in Seq(Copies)
    /\ editor.failedPaths \in SUBSET Paths
    /\ editor.pc \in MidBatch =>
         /\ editor.changes \in Batches /\ editor.at \in DOMAIN editor.changes
         /\ editor.atomic => \A i \in DOMAIN editor.changes : editor.changes[i].kind # "move"

\* The cache's fields.
CacheOK ==
    /\ generation \in Nat /\ codemap \in [Paths -> Entries \cup {NoEntry}]
    /\ snapshot \in [list : Listings, fresh : BOOLEAN] \cup {NoSnapshot}
    /\ scanLock \in Readers \cup {NoThread}
    /\ warming \in Warmers \cup {0} /\ cancelled \subseteq Warmers

\* The disk and its clock.
DiskOK ==
    /\ disk \in [Paths -> Files(Symbols, Nat) \cup {NoFile}]
    /\ clock \in Nat

\* Types, in the detail the proofs need.
CatalogTypes == DiskOK /\ CacheOK /\ ThreadsOK /\ EditorOK

-----------------------------------------------------------------------------
\* t's record becomes r, the others stay.
Becomes(t, r) ==
    /\ DOMAIN reader' = Threads /\ reader'[t] = r
    /\ \A u \in Threads \ {t} : reader'[u] = reader[u]

\* Record updates of a thread.
LEMMA Updates ==
    ASSUME ThreadsOK, NEW t \in Threads
    PROVE  /\ \A c : Goes(t, c) => Becomes(t, [reader[t] EXCEPT !.pc = c])
           /\ Rests(t) => Becomes(t, Resting)
           /\ \A p : Reads(t, p) =>
                Becomes(t, [reader[t] EXCEPT !.pc = "read", !.path = p, !.sig = FileSignature(disk[p])])
           /\ AfterSymbols(t) =>
                Becomes(t, IF t \in Warmers
                           THEN [Resting EXCEPT !.pc = "warm", !.gen = reader[t].gen,
                                                !.todo = reader[t].todo]
                           ELSE Resting)
BY DEF ThreadsOK, Becomes, Goes, Rests, Reads, AfterSymbols

\* A resting thread has a record of the right type.
LEMMA RestingOK == \A t, lock : ThreadOK(t, Resting, lock)
BY DEF ThreadOK, Resting, ThreadFields, ThreadPhases, Listings

\* Threads and the scan lock: t is the only one whose record changes.
LEMMA BecomesOK ==
    ASSUME ThreadsOK, NEW t \in Threads, NEW r, Becomes(t, r), ThreadOK(t, r, scanLock'),
           scanLock' = scanLock \/ scanLock \in {t, NoThread}
    PROVE  ThreadsOK'
<1>1. ASSUME NEW u \in Threads PROVE ThreadOK(u, reader'[u], scanLock')
  <2>1. CASE u = t
    BY <2>1 DEF Becomes
  <2>2. CASE u # t
    <3>1. reader'[u] = reader[u] /\ ThreadOK(u, reader[u], scanLock)
      BY <2>2 DEF Becomes, ThreadsOK
    <3>2. reader[u].pc = "scan" => scanLock = u /\ u \in Readers
      BY <3>1 DEF ThreadOK, Threads
    <3>3. NoThread \notin Readers
      BY ThreadsDistinct
    <3>4. reader[u].pc = "scan" => scanLock' = u
      BY <3>2, <3>3, <2>2
    <3> QED
      BY <3>1, <3>4 DEF ThreadOK
  <2> QED
    BY <2>1, <2>2
<1> QED
  BY <1>1 DEF ThreadsOK, Becomes

\* A file's signature.
LEMMA SignatureOK ==
    ASSUME DiskOK, NEW p \in Existing
    PROVE  /\ p \in Paths /\ disk[p] \in Files(Symbols, Nat)
           /\ disk[p].content \in Symbols /\ disk[p].modified \in Nat
           /\ FileSignature(disk[p]) \in Signatures
           /\ FileSignature(disk[p])[1] = disk[p].modified
<1>1. p \in Paths /\ disk[p] \in Files(Symbols, Nat)
  BY DEF Existing, DiskOK
<1>2. disk[p].content \in Symbols /\ disk[p].modified \in Nat
  BY <1>1 DEF Files
<1> QED
  BY <1>1, <1>2 DEF FileSignature, SizeOf, Signatures

\* The listing is one.
LEMMA ListingOK == ASSUME DiskOK PROVE Listing \in Listings
BY DEF Listing, Listings, Existing, SizeOf

-----------------------------------------------------------------------------
(* Types.                                                                  *)

\* A thread on its way from the miss to the insert.
LEMMA SymbolSteps ==
    ASSUME CatalogTypes, NEW t \in Threads,
           \/ \E p \in Paths : t \in Readers /\ QuerySymbols(t, p)
           \/ ReadFile(t) \/ CheckGeneration(t) \/ InsertSymbols(t)
    PROVE  CacheOK' /\ ThreadsOK'
<1> USE DEF CatalogTypes
<1>0. ThreadOK(t, reader[t], scanLock)
  BY DEF ThreadsOK
<1>1. ASSUME NEW p \in Paths, t \in Readers, QuerySymbols(t, p) PROVE CacheOK' /\ ThreadsOK'
  <2>1. UNCHANGED cacheVars /\ p \in Existing
    BY <1>1 DEF QuerySymbols
  <2>2. CASE UNCHANGED reader
    BY <2>1, <2>2 DEF CacheOK, ThreadsOK, cacheVars
  <2>3. CASE Reads(t, p)
    <3> DEFINE r == [reader[t] EXCEPT !.pc = "read", !.path = p, !.sig = FileSignature(disk[p])]
    <3>1. Becomes(t, r)
      BY <2>3, Updates
    <3>2. ThreadOK(t, r, scanLock)
      BY <1>0, <2>1, SignatureOK DEF ThreadOK, ThreadFields, ThreadPhases
    <3>3. ThreadsOK'
      BY <2>1, <3>1, <3>2, BecomesOK DEF cacheVars
    <3> QED
      BY <2>1, <3>3 DEF CacheOK, cacheVars
  <2> QED
    BY <1>1, <2>2, <2>3 DEF QuerySymbols
<1> DEFINE after == IF t \in Warmers
                    THEN [Resting EXCEPT !.pc = "warm", !.gen = reader[t].gen,
                                         !.todo = reader[t].todo]
                    ELSE Resting
<1>2. ThreadOK(t, after, scanLock)
  BY <1>0, RestingOK, ThreadsDistinct DEF ThreadOK, ThreadFields, ThreadPhases, Resting
<1>3. CASE ReadFile(t)
  <2>1. UNCHANGED cacheVars /\ reader[t].pc = "read"
    BY <1>3 DEF ReadFile, Busy
  <2>2. CASE AfterSymbols(t)
    <3>1. Becomes(t, after)
      BY <2>2, Updates
    <3> QED
      BY <1>2, <2>1, <3>1, BecomesOK DEF CacheOK, cacheVars
  <2>3. CASE reader[t].path \in Existing /\ ~AfterSymbols(t)
    <3> DEFINE r == [reader[t] EXCEPT !.pc = "check", !.symbols = disk[reader[t].path].content]
    <3>1. Becomes(t, r)
      BY <1>3, <2>3 DEF ReadFile, Becomes, ThreadsOK
    <3>2. ThreadOK(t, r, scanLock)
      BY <1>0, <2>1, <2>3, SignatureOK DEF ThreadOK, ThreadFields, ThreadPhases
    <3> QED
      BY <2>1, <3>1, <3>2, BecomesOK DEF CacheOK, cacheVars
  <2> QED
    BY <1>3, <2>2, <2>3 DEF ReadFile
<1>4. CASE CheckGeneration(t)
  <2>1. UNCHANGED cacheVars /\ reader[t].pc = "check"
    BY <1>4 DEF CheckGeneration, Busy
  <2>2. CASE AfterSymbols(t)
    <3>1. Becomes(t, after)
      BY <2>2, Updates
    <3> QED
      BY <1>2, <2>1, <3>1, BecomesOK DEF CacheOK, cacheVars
  <2>3. CASE Goes(t, "insert")
    <3> DEFINE r == [reader[t] EXCEPT !.pc = "insert"]
    <3>1. Becomes(t, r)
      BY <2>3, Updates
    <3>2. ThreadOK(t, r, scanLock)
      BY <1>0, <2>1 DEF ThreadOK, ThreadFields, ThreadPhases
    <3> QED
      BY <2>1, <3>1, <3>2, BecomesOK DEF CacheOK, cacheVars
  <2> QED
    BY <1>4, <2>2, <2>3 DEF CheckGeneration
<1>5. CASE InsertSymbols(t)
  <2>1. reader[t].pc = "insert" /\ AfterSymbols(t) /\ scanLock' = scanLock
    BY <1>5 DEF InsertSymbols, Busy
  <2>2. Becomes(t, after)
    BY <2>1, Updates
  <2>3. ThreadsOK'
    BY <1>2, <2>1, <2>2, BecomesOK
  <2>4. [sig |-> reader[t].sig, symbols |-> reader[t].symbols] \in Entries
    BY <1>0, <2>1 DEF ThreadOK, Entries
  <2>5. codemap' \in [Paths -> Entries \cup {NoEntry}]
    BY <1>5, <2>4 DEF InsertSymbols, CacheOK
  <2> QED
    BY <1>5, <2>3, <2>5 DEF InsertSymbols, CacheOK
<1> QED
  BY <1>1, <1>3, <1>4, <1>5

\* A reader that asks for the snapshot and scans.
LEMMA ScanSteps ==
    ASSUME CatalogTypes, NEW t \in Threads,
           \/ QuerySnapshot(t) \/ BeginScan(t) \/ FoundFresh(t)
           \/ \E p \in Paths : ScanPath(t, p)
           \/ ScanCancelled(t) \/ StoreSnapshot(t)
    PROVE  CacheOK' /\ ThreadsOK'
<1> USE DEF CatalogTypes
<1>0. ThreadOK(t, reader[t], scanLock)
  BY DEF ThreadsOK
<1>1. CASE QuerySnapshot(t)
  <2>1. UNCHANGED cacheVars /\ t \in Readers
    BY <1>1 DEF QuerySnapshot
  <2>2. CASE UNCHANGED reader
    BY <2>1, <2>2 DEF CacheOK, ThreadsOK, cacheVars
  <2>3. CASE Goes(t, "lock")
    <3> DEFINE r == [reader[t] EXCEPT !.pc = "lock"]
    <3>1. Becomes(t, r)
      BY <2>3, Updates
    <3>2. ThreadOK(t, r, scanLock)
      BY <1>0, <2>1, ThreadsDistinct DEF ThreadOK, ThreadFields, ThreadPhases
    <3> QED
      BY <2>1, <3>1, <3>2, BecomesOK DEF CacheOK, cacheVars
  <2> QED
    BY <1>1, <2>2, <2>3 DEF QuerySnapshot
<1>2. CASE BeginScan(t)
  <2> DEFINE r == [reader[t] EXCEPT !.pc = "scan", !.todo = Paths, !.list = {}]
  <2>1. reader[t].pc = "lock" /\ scanLock = NoThread /\ scanLock' = t
        /\ UNCHANGED <<generation, codemap, snapshot, warming, cancelled>>
    BY <1>2 DEF BeginScan, Busy
  <2>2. t \in Readers
    BY <1>0, <2>1 DEF ThreadOK, Threads
  <2>3. Becomes(t, r)
    BY <1>2 DEF BeginScan, Becomes, ThreadsOK
  <2>4. ThreadOK(t, r, t)
    BY <1>0, <2>1, <2>2, ThreadsDistinct DEF ThreadOK, ThreadFields, ThreadPhases, Listings
  <2>5. ThreadsOK'
    BY <2>1, <2>3, <2>4, BecomesOK
  <2> QED
    BY <2>1, <2>2, <2>5 DEF CacheOK
<1>3. CASE FoundFresh(t)
  <2>1. UNCHANGED cacheVars /\ Becomes(t, Resting)
    BY <1>3, Updates DEF FoundFresh
  <2> QED
    BY <2>1, RestingOK, BecomesOK DEF CacheOK, cacheVars
<1>4. ASSUME NEW p \in Paths, ScanPath(t, p) PROVE CacheOK' /\ ThreadsOK'
  <2> DEFINE r == [reader[t] EXCEPT !.todo = @ \ {p}, !.list = @ \cup {e \in Listing : e[1] = p}]
  <2>1. UNCHANGED cacheVars
    BY <1>4 DEF ScanPath
  <2>2. Becomes(t, r)
    BY <1>4 DEF ScanPath, Becomes, ThreadsOK
  <2>3. (reader[t].list \cup {e \in Listing : e[1] = p}) \in Listings
    BY <1>0, ListingOK DEF ThreadOK, Listings
  <2>4. ThreadOK(t, r, scanLock)
    <3> HIDE DEF Listing, Listings
    <3> QED
      BY <1>0, <2>3 DEF ThreadOK, ThreadFields, ThreadPhases
  <2> QED
    BY <2>1, <2>2, <2>4, BecomesOK DEF CacheOK, cacheVars
<1>5. CASE ScanCancelled(t)
  <2>1. reader[t].pc = "scan" /\ scanLock' = NoThread /\ Becomes(t, Resting)
        /\ UNCHANGED <<generation, codemap, snapshot, warming, cancelled>>
    BY <1>5, Updates DEF ScanCancelled, Busy
  <2>2. scanLock = t
    BY <1>0, <2>1 DEF ThreadOK
  <2>3. ThreadsOK'
    BY <2>1, <2>2, RestingOK, BecomesOK
  <2> QED
    BY <2>1, <2>3 DEF CacheOK
<1>6. CASE StoreSnapshot(t)
  <2> DEFINE r == [reader[t] EXCEPT !.pc = "start", !.gen = generation + 1]
  <2>1. reader[t].pc = "scan" /\ scanLock' = NoThread /\ generation' = generation + 1
        /\ snapshot' = [list |-> reader[t].list, fresh |-> TRUE]
        /\ UNCHANGED <<codemap, warming, cancelled>>
    BY <1>6 DEF StoreSnapshot, Busy
  <2>2. scanLock = t /\ Becomes(t, r)
    BY <1>0, <1>6, <2>1 DEF ThreadOK, StoreSnapshot, Becomes, ThreadsOK
  <2>3. ThreadOK(t, r, scanLock')
    BY <1>0, <2>1 DEF ThreadOK, ThreadFields, ThreadPhases, CacheOK
  <2>4. ThreadsOK'
    BY <2>2, <2>3, BecomesOK
  <2>5. snapshot' \in [list : Listings, fresh : BOOLEAN]
    BY <1>0, <2>1 DEF ThreadOK
  <2> QED
    BY <2>1, <2>4, <2>5 DEF CacheOK
<1> QED
  BY <1>1, <1>2, <1>3, <1>4, <1>5, <1>6

\* StartWarming changes two records, t's and w's.
LEMMA StartWarmingEffect ==
    ASSUME ThreadsOK, NEW t \in Threads, NEW w \in Warmers, StartWarming(t, w)
    PROVE  /\ t # w /\ w \in Threads /\ DOMAIN reader' = Threads
           /\ reader'[t] = Resting
           /\ reader'[w] = [Resting EXCEPT !.pc = "warm", !.gen = reader[t].gen,
                                           !.todo = {e[1] : e \in reader[t].list}]
           /\ \A u \in Threads \ {t, w} : reader'[u] = reader[u]
           /\ UNCHANGED scanLock
<1>1. reader[t].pc = "start" /\ reader[w].pc = "idle"
  BY DEF StartWarming, Busy
<1>2. t # w /\ w \in Threads
  BY <1>1 DEF Threads
<1> QED
  BY <1>2 DEF StartWarming, ThreadsOK

\* Warmers.
LEMMA WarmSteps ==
    ASSUME CatalogTypes,
           \/ \E t \in Threads, w \in Warmers : StartWarming(t, w)
           \/ \E w \in Warmers : WarmNext(w) \/ WarmerEnds(w)
    PROVE  CacheOK' /\ ThreadsOK'
<1> USE DEF CatalogTypes
<1>1. ASSUME NEW t \in Threads, NEW w \in Warmers, StartWarming(t, w)
      PROVE  CacheOK' /\ ThreadsOK'
  <2> DEFINE r == [Resting EXCEPT !.pc = "warm", !.gen = reader[t].gen,
                                  !.todo = {e[1] : e \in reader[t].list}]
  <2>0. ThreadOK(t, reader[t], scanLock)
    BY DEF ThreadsOK
  <2>1. {e[1] : e \in reader[t].list} \in SUBSET Paths
    BY <2>0 DEF ThreadOK, Listings
  <2>2. reader[t].gen \in Nat
    BY <2>0 DEF ThreadOK
  <2>3. ThreadOK(w, r, scanLock)
    BY <2>1, <2>2, ThreadsDistinct DEF ThreadOK, ThreadFields, ThreadPhases, Resting, Listings
  <2>4. /\ t # w /\ w \in Threads /\ DOMAIN reader' = Threads
        /\ reader'[t] = Resting /\ reader'[w] = r
        /\ \A u \in Threads \ {t, w} : reader'[u] = reader[u]
        /\ scanLock' = scanLock
    BY <1>1, StartWarmingEffect
  <2> HIDE DEF r
  <2>5. ThreadsOK'
    BY <2>3, <2>4, RestingOK DEF ThreadsOK
  <2>6. warming' \in Warmers \cup {0} /\ cancelled' \subseteq Warmers
    BY <1>1 DEF StartWarming, Replaced, CacheOK
  <2> QED
    BY <1>1, <2>5, <2>6 DEF StartWarming, CacheOK
<1>2. ASSUME NEW w \in Warmers, WarmNext(w) PROVE CacheOK' /\ ThreadsOK'
  <2>0. w \in Threads /\ ThreadOK(w, reader[w], scanLock)
    BY DEF ThreadsOK, Threads
  <2>1. UNCHANGED cacheVars
    BY <1>2 DEF WarmNext
  <2> DEFINE rest(p) == [reader[w] EXCEPT !.todo = @ \ {p}]
             R(p) == IF p \in Existing /\ ~Hit(p)
                     THEN [rest(p) EXCEPT !.pc = "read", !.path = p,
                                          !.sig = FileSignature(disk[p])]
                     ELSE rest(p)
  <2>2. PICK p \in reader[w].todo : reader' = [reader EXCEPT ![w] = R(p)]
    BY <1>2 DEF WarmNext
  <2> DEFINE r == R(p)
  <2>3. Becomes(w, r)
    <3> HIDE DEF R
    <3> QED
      BY <2>0, <2>2 DEF Becomes, ThreadsOK
  <2>4. ThreadOK(w, r, scanLock)
    BY <2>0, SignatureOK, ThreadsDistinct DEF ThreadOK, ThreadFields, ThreadPhases
  <2> QED
    BY <2>0, <2>1, <2>3, <2>4, BecomesOK DEF CacheOK, cacheVars
<1>3. ASSUME NEW w \in Warmers, WarmerEnds(w) PROVE CacheOK' /\ ThreadsOK'
  <2>0. w \in Threads
    BY DEF Threads
  <2>1. Becomes(w, Resting) /\ scanLock' = scanLock
    BY <1>3, <2>0, Updates DEF WarmerEnds
  <2>2. ThreadsOK'
    BY <2>0, <2>1, RestingOK, BecomesOK
  <2> QED
    BY <1>3, <2>2 DEF WarmerEnds, CacheOK
<1> QED
  BY <1>1, <1>2, <1>3

\* The change the editor is at, and the paths it names.
LEMMA ChangeOK ==
    ASSUME EditorOK, editor.pc \in MidBatch
    PROVE  /\ Change \in Changes /\ Change.path \in Paths /\ Change.to \in Paths
           /\ Change.kind \in Kinds /\ Change.content \in Symbols /\ Target \in Paths
           /\ \E b \in Batches : \E i \in DOMAIN b : Change = b[i]
           /\ editor.atomic => Change.kind # "move"
<1>1. editor.changes \in Batches /\ editor.at \in DOMAIN editor.changes
  BY DEF EditorOK
<1>2. Change \in Changes
  <2>1. editor.changes \in Seq(Changes)
    BY <1>1, FsCatalogAssumption
  <2> QED
    BY <1>1, <2>1 DEF Change
<1>3. /\ Change.path \in Paths /\ Change.to \in Paths /\ Change.kind \in Kinds
      /\ Change.content \in Contents
  BY <1>2 DEF Changes
<1> QED
  BY <1>1, <1>2, <1>3 DEF Change, Target, Symbols, EditorOK

\* A write, and the removal of a file.
LEMMA WriteOK ==
    ASSUME DiskOK, NEW p \in Paths, NEW c \in Symbols, Write(p, c)
    PROVE  DiskOK'
<1>1. PICK d \in Ticks : clock' = clock + d /\ disk' = [disk EXCEPT ![p] = File(c, clock + d)]
  BY DEF Write
<1>2. d \in Nat /\ clock + d \in Nat
  BY FsCatalogAssumption DEF DiskOK
<1>3. File(c, clock + d) \in Files(Symbols, Nat)
  BY <1>2 DEF File, Files
<1> QED
  BY <1>1, <1>2, <1>3 DEF DiskOK

\* The four ways a change is applied.
LEMMA ApplyCases ==
    ASSUME ApplyChange
    PROVE  /\ editor.pc = "apply" /\ UNCHANGED <<cacheVars, counters, reader, unannounced>>
           /\ \/ Change.kind \in {"create", "update"} /\ Write(Target, EmptyFile) /\ EditorStep("fill")
              \/ /\ Change.kind = "delete" /\ disk' = [disk EXCEPT ![Target] = NoFile]
                 /\ UNCHANGED clock /\ NextChange
              \/ /\ Change.kind \notin {"create", "update", "delete"}
                 /\ Change.path \in Existing
                 /\ disk' = [disk EXCEPT ![Target] = disk[Change.path],
                              ![Change.path] = IF Change.path = Target THEN @ ELSE NoFile]
                 /\ UNCHANGED clock
                 /\ IF Change.kind = "move" THEN NextChange ELSE EditorStep("truncate")
BY DEF ApplyChange

\* The copies a backup makes.
LEMMA BackupOK ==
    ASSUME DiskOK, EditorOK, editor.pc \in MidBatch, NEW n \in 0..Len(Targets(Change))
    PROVE  /\ Len(Targets(Change)) \in {1, 2} /\ DOMAIN Targets(Change) = 1..Len(Targets(Change))
           /\ \A i \in 1..Len(Targets(Change)) : Targets(Change)[i] \in Paths
           /\ [i \in 1..n |-> Backup(Targets(Change)[i])] \in Seq(Copies)
<1>1. Change.path \in Paths /\ Change.to \in Paths
  BY ChangeOK
<1>2. /\ Len(Targets(Change)) \in {1, 2} /\ DOMAIN Targets(Change) = 1..Len(Targets(Change))
      /\ \A i \in 1..Len(Targets(Change)) : Targets(Change)[i] \in Paths
  <2>1. CASE Change.kind = "rename"
    <3>1. Targets(Change) = <<Change.path, Change.to>>
      BY <2>1 DEF Targets
    <3> QED
      BY <1>1, <3>1
  <2>2. CASE Change.kind # "rename"
    <3>1. Targets(Change) = <<Change.path>>
      BY <2>2 DEF Targets
    <3> QED
      BY <1>1, <3>1
  <2> QED
    BY <2>1, <2>2
<1>3. \A p \in Paths : Backup(p) \in Copies
  <2>1. \A p \in Paths : ContentOf(p) \in Symbols \cup {NoFile}
    BY SignatureOK DEF ContentOf
  <2> QED
    BY <2>1 DEF Backup, Copies
<1>4. n \in Nat /\ \A i \in 1..n : Targets(Change)[i] \in Paths
  BY <1>2
<1>5. \A i \in 1..n : Backup(Targets(Change)[i]) \in Copies
  BY <1>3, <1>4
<1> QED
  BY <1>2, <1>4, <1>5

\* The record of the editor after each kind of step.
LEMMA EditorUpdates ==
    ASSUME EditorOK
    PROVE  /\ \A c \in EditorPhases : (c \in MidBatch => editor.pc \in MidBatch) /\ EditorStep(c) => EditorOK'
           /\ editor.pc \in MidBatch /\ NextChange => EditorOK'
           /\ \A bs \in Seq(Copies) : FailsWith(bs) => EditorOK'
           /\ editor' = NoBatch => EditorOK'
           /\ editor' = [NoBatch EXCEPT !.pc = "invalidate"] => EditorOK'
<1> USE DEF EditorFields, MidBatch, EditorPhases
<1>1. ASSUME NEW c \in EditorPhases, c \in MidBatch => editor.pc \in MidBatch, EditorStep(c)
      PROVE  EditorOK'
  BY <1>1 DEF EditorOK, EditorStep
<1>2. ASSUME editor' = [NoBatch EXCEPT !.pc = "invalidate"] \/ editor' = NoBatch PROVE EditorOK'
  <2>1. /\ DOMAIN editor' = EditorFields /\ editor'.pc \in {"idle", "invalidate"}
        /\ editor'.at = 1 /\ editor'.atomic = FALSE /\ editor'.backups = <<>>
        /\ editor'.failedPaths = {}
    BY <1>2 DEF NoBatch
  <2>2. <<>> \in Seq(Copies)
    OBVIOUS
  <2>3. editor'.atomic \in BOOLEAN
    BY <2>1
  <2>4. editor'.pc \in EditorPhases /\ editor'.pc \notin MidBatch
    BY <2>1
  <2>5. editor'.at \in Nat /\ editor'.failedPaths \in SUBSET Paths
    BY <2>1
  <2> HIDE DEF EditorFields, MidBatch, EditorPhases
  <2> QED
    BY <2>1, <2>2, <2>3, <2>4, <2>5 DEF EditorOK
<1>3. ASSUME editor.pc \in MidBatch, NextChange PROVE EditorOK'
  <2>1. CASE editor.at < Len(editor.changes)
    <3>1. editor' = [editor EXCEPT !.at = editor.at + 1,
                                   !.pc = IF editor.atomic THEN "backup" ELSE "apply"]
      BY <1>3, <2>1 DEF NextChange
    <3>2. editor.changes \in Seq(Changes)
      BY <1>3, FsCatalogAssumption DEF EditorOK
    <3>3. editor.at + 1 \in DOMAIN editor.changes /\ editor.at + 1 \in Nat
      BY <1>3, <2>1, <3>2 DEF EditorOK
    <3> QED
      BY <1>3, <3>1, <3>3 DEF EditorOK
  <2> QED
    BY <1>2, <1>3, <2>1 DEF NextChange
<1>4. ASSUME NEW bs \in Seq(Copies), FailsWith(bs) PROVE EditorOK'
  BY <1>4 DEF EditorOK, FailsWith
<1> QED
  BY <1>1, <1>2, <1>3, <1>4

\* The editor's record once the newest copy is done with.
LEMMA DropLastOK ==
    ASSUME EditorOK, editor.backups # <<>>, NEW S \in SUBSET Paths, DropLast(S)
    PROVE  /\ EditorOK'
           /\ editor' = [editor EXCEPT !.backups = SubSeq(editor.backups, 1, Len(editor.backups) - 1),
                                       !.failedPaths = editor.failedPaths \cup S,
                                       !.pc = IF Len(editor.backups) = 1 THEN "failed" ELSE "rollback"]
<1>1. editor' = [editor EXCEPT !.backups = SubSeq(editor.backups, 1, Len(editor.backups) - 1),
                               !.failedPaths = editor.failedPaths \cup S,
                               !.pc = IF Len(editor.backups) = 1 THEN "failed" ELSE "rollback"]
  BY DEF DropLast
<1>2. SubSeq(editor.backups, 1, Len(editor.backups) - 1) \in Seq(Copies)
  BY DEF EditorOK
<1>3. editor.failedPaths \cup S \in SUBSET Paths
  BY DEF EditorOK
<1> QED
  BY <1>1, <1>2, <1>3 DEF EditorOK, EditorFields, MidBatch, EditorPhases

\* The last copy.
LEMMA LastOK ==
    ASSUME EditorOK, editor.backups # <<>>
    PROVE  Last.target \in Paths /\ Last.saved \in Symbols \cup {NoFile}
<1>1. Last \in Copies
  BY DEF EditorOK, Last
<1> QED
  BY <1>1 DEF Copies

\* Every step of the editor keeps the types of the disk and of its record.
LEMMA EditorTypes ==
    ASSUME CatalogTypes, EditorNext
    PROVE  DiskOK' /\ EditorOK'
<1> USE DEF CatalogTypes
<1>0. NoWrite => DiskOK'
  BY DEF NoWrite, DiskOK
<1>1. ASSUME NEW b \in Batches, NEW a \in BOOLEAN, BeginBatch(b, a) PROVE DiskOK' /\ EditorOK'
  <2>1. DiskOK'
    BY <1>1 DEF BeginBatch, DiskOK
  <2>2. CASE b = <<>>
    BY <1>1, <2>1, <2>2, EditorUpdates DEF BeginBatch
  <2>3. CASE b # <<>>
    <3>1. editor' = [NoBatch EXCEPT !.changes = b, !.atomic = a,
                         !.pc = IF a THEN "backup" ELSE "apply",
                         !.before = [p \in Paths |-> ContentOf(p)]]
          /\ (a => \A i \in DOMAIN b : b[i].kind # "move")
      BY <1>1, <2>3 DEF BeginBatch
    <3>2. b \in Seq(Changes)
      BY FsCatalogAssumption
    <3>3. 1 \in DOMAIN b
      BY <2>3, <3>2
    <3>4. EditorOK'
      BY <3>1, <3>3 DEF EditorOK, NoBatch, EditorFields, MidBatch, EditorPhases
    <3> QED
      BY <2>1, <3>4
  <2> QED
    BY <2>2, <2>3
<1>2. CASE BackupTargets
  <2>1. editor.pc = "backup" /\ NoWrite
        /\ editor' = [editor EXCEPT !.pc = "apply",
                        !.backups = editor.backups \o [i \in DOMAIN Targets(Change) |->
                                                          Backup(Targets(Change)[i])]]
    BY <1>2 DEF BackupTargets
  <2>2. editor.pc \in MidBatch
    BY <2>1 DEF MidBatch
  <2>3. [i \in DOMAIN Targets(Change) |-> Backup(Targets(Change)[i])] \in Seq(Copies)
    BY <2>2, BackupOK
  <2>4. editor.backups \o [i \in DOMAIN Targets(Change) |-> Backup(Targets(Change)[i])] \in Seq(Copies)
    BY <2>3 DEF EditorOK
  <2>5. EditorOK'
    BY <2>1, <2>2, <2>4 DEF EditorOK, EditorFields, MidBatch, EditorPhases
  <2> QED
    BY <1>0, <2>1, <2>5
<1>3. CASE BackupFails
  <2>1. PICK n \in 0..(Len(Targets(Change)) - 1) :
          FailsWith(editor.backups \o [i \in 1..n |-> Backup(Targets(Change)[i])])
    BY <1>3 DEF BackupFails
  <2>2. editor.pc \in MidBatch
    BY <1>3 DEF BackupFails, MidBatch
  <2>3. Len(Targets(Change)) \in {1, 2}
    BY <2>2 DEF Targets
  <2>4. n \in 0..Len(Targets(Change))
    BY <2>3
  <2>5. [i \in 1..n |-> Backup(Targets(Change)[i])] \in Seq(Copies)
    BY <2>2, <2>4, BackupOK
  <2>6. editor.backups \o [i \in 1..n |-> Backup(Targets(Change)[i])] \in Seq(Copies)
    BY <2>5 DEF EditorOK
  <2> QED
    BY <1>0, <1>3, <2>1, <2>6, EditorUpdates DEF BackupFails
<1>4. CASE ApplyChange
  <2>1. editor.pc = "apply" /\ editor.pc \in MidBatch /\ Target \in Paths /\ Change.path \in Paths
    BY <1>4, ChangeOK, ApplyCases DEF MidBatch
  <2>2. "fill" \in EditorPhases /\ "truncate" \in EditorPhases /\ EmptyFile \in Symbols
    BY DEF EditorPhases, MidBatch, Symbols
  <2>3. CASE Write(Target, EmptyFile) /\ EditorStep("fill")
    BY <2>1, <2>2, <2>3, WriteOK, EditorUpdates
  <2>4. CASE disk' = [disk EXCEPT ![Target] = NoFile] /\ UNCHANGED clock /\ NextChange
    <3>1. DiskOK'
      BY <2>4 DEF DiskOK
    <3> QED
      BY <2>1, <2>4, <3>1, EditorUpdates
  <2>5. CASE /\ Change.path \in Existing
             /\ disk' = [disk EXCEPT ![Target] = disk[Change.path],
                          ![Change.path] = IF Change.path = Target THEN @ ELSE NoFile]
             /\ UNCHANGED clock
             /\ IF Change.kind = "move" THEN NextChange ELSE EditorStep("truncate")
    <3>1. DiskOK'
      BY <2>1, <2>5 DEF DiskOK
    <3> QED
      BY <2>1, <2>2, <2>5, <3>1, EditorUpdates
  <2> QED
    BY <1>4, <2>3, <2>4, <2>5, ApplyCases
<1>5. CASE TruncateRenamed
  <2>1. editor.pc \in MidBatch /\ Target \in Paths /\ EmptyFile \in Symbols /\ "fill" \in EditorPhases
    BY <1>5, ChangeOK DEF TruncateRenamed, MidBatch, EditorPhases, Symbols
  <2> QED
    BY <1>5, <2>1, WriteOK, EditorUpdates DEF TruncateRenamed
<1>6. CASE FillFile
  <2>1. editor.pc \in MidBatch
    BY <1>6 DEF FillFile, MidBatch
  <2> QED
    BY <1>6, <2>1, ChangeOK, WriteOK, EditorUpdates DEF FillFile
<1>7. CASE ApplyFails
  <2>1. editor.backups \in Seq(Copies)
    BY DEF EditorOK
  <2> QED
    BY <1>0, <1>7, <2>1, EditorUpdates DEF ApplyFails
<1>8. CASE RollbackOne
  <2>1. editor.backups # <<>> /\ DropLast({})
    BY <1>8 DEF RollbackOne
  <2>2. EditorOK'
    BY <2>1, DropLastOK
  <2>3. CASE Last.saved # NoFile /\ Write(Last.target, Last.saved)
    BY <2>1, <2>2, <2>3, LastOK, WriteOK
  <2>4. CASE disk' = [disk EXCEPT ![Last.target] = NoFile] /\ UNCHANGED clock
    BY <2>2, <2>4 DEF DiskOK
  <2> QED
    BY <1>8, <2>3, <2>4 DEF RollbackOne
<1>9. CASE RollbackFails
  <2>1. editor.backups # <<>> /\ DropLast({Last.target}) /\ Last.target \in Paths
    BY <1>9, LastOK DEF RollbackFails
  <2>2. EditorOK'
    BY <2>1, DropLastOK
  <2>3. EmptyFile \in Symbols
    BY DEF Symbols
  <2>4. DiskOK'
    BY <1>0, <1>9, <2>1, <2>3, WriteOK DEF RollbackFails
  <2> QED
    BY <2>2, <2>4
<1>10. CASE DropSnapshot \/ BumpGeneration \/ StopWarmer
  <2>1. "bump" \in EditorPhases \ MidBatch /\ "stop" \in EditorPhases \ MidBatch
    BY DEF EditorPhases, MidBatch
  <2> QED
    BY <1>0, <1>10, <2>1, EditorUpdates DEF DropSnapshot, BumpGeneration, StopWarmer
<1> QED
  BY <1>1, <1>2, <1>3, <1>4, <1>5, <1>6, <1>7, <1>8, <1>9, <1>10 DEF EditorNext

\* What the threads and the editor do not touch.
ThreadNext ==
    \/ \E t \in Threads : ReaderNext(t)
    \/ \E w \in Warmers : WarmerNext(w)

\* The threads leave the disk and the editor alone.
LEMMA ThreadsApart == ASSUME ThreadNext PROVE UNCHANGED <<disk, clock, editor>>
BY DEF ThreadNext, ReaderNext, WarmerNext, QuerySymbols, ReadFile, CheckGeneration, InsertSymbols,
    QuerySnapshot, BeginScan, FoundFresh, ScanPath, ScanCancelled, StoreSnapshot, StartWarming,
    WarmNext, WarmerEnds

\* The editor leaves the threads, the scan lock and the codemap alone.
LEMMA EditorApart == ASSUME EditorNext PROVE UNCHANGED <<reader, scanLock, codemap>>
BY ApplyCases DEF EditorNext, BeginBatch, BackupTargets, BackupFails, TruncateRenamed, FillFile,
    ApplyFails, RollbackOne, RollbackFails, DropSnapshot, BumpGeneration, StopWarmer, cacheVars

\* The rest of the cache under the editor: only a batch that succeeds touches it.
LEMMA EditorCache ==
    ASSUME CatalogTypes, EditorNext
    PROVE  /\ CacheOK'
           /\ DropSnapshot \/ UNCHANGED snapshot
<1> USE DEF CatalogTypes, CacheOK, cacheVars
<1>1. CASE DropSnapshot
  BY <1>1 DEF DropSnapshot
<1>2. CASE BumpGeneration
  BY <1>2 DEF BumpGeneration
<1>3. CASE StopWarmer
  <2>1. warming' = 0 /\ cancelled' \subseteq Warmers
    BY <1>3 DEF StopWarmer, Replaced
  <2> QED
    BY <1>3, <2>1 DEF StopWarmer
<1>4. CASE \/ \E b \in Batches, atomic \in BOOLEAN : BeginBatch(b, atomic)
           \/ BackupTargets \/ BackupFails \/ ApplyChange \/ TruncateRenamed \/ FillFile
           \/ ApplyFails \/ RollbackOne \/ RollbackFails
  <2>1. UNCHANGED cacheVars
    BY <1>4, ApplyCases DEF BeginBatch, BackupTargets, BackupFails, TruncateRenamed, FillFile,
      ApplyFails, RollbackOne, RollbackFails
  <2> QED
    BY <2>1
<1> QED
  BY <1>1, <1>2, <1>3, <1>4 DEF EditorNext

\* Types hold at first.
LEMMA CatalogTypesInit == CatalogInit => CatalogTypes
<1> SUFFICES ASSUME CatalogInit PROVE CatalogTypes
  OBVIOUS
<1>1. DiskOK
  <2>1. Cardinality(Paths) \in Nat
    BY FsCatalogAssumption, FS_CardinalityType
  <2>2. disk \in [Paths -> Files(Contents, 0..Cardinality(Paths)) \cup {NoFile}]
    BY FsCatalogAssumption DEF CatalogInit
  <2>3. Files(Contents, 0..Cardinality(Paths)) \subseteq Files(Symbols, Nat)
    BY <2>1 DEF Files, Symbols
  <2>4. disk \in [Paths -> Files(Symbols, Nat) \cup {NoFile}]
    BY <2>2, <2>3
  <2> QED
    BY <2>1, <2>4 DEF DiskOK, CatalogInit
<1>2. CacheOK
  BY DEF CatalogInit, CacheOK
<1>3. ThreadsOK
  BY RestingOK DEF CatalogInit, ThreadsOK
<1>4. EditorOK
  <2>1. /\ DOMAIN editor = EditorFields /\ editor.pc = "idle"
        /\ editor.at = 1 /\ editor.atomic = FALSE /\ editor.backups = <<>>
        /\ editor.failedPaths = {}
    BY DEF CatalogInit, NoBatch, EditorFields
  <2>2. editor.backups \in Seq(Copies) /\ editor.atomic \in BOOLEAN
    <3>1. <<>> \in Seq(Copies)
      OBVIOUS
    <3>2. editor.atomic \in BOOLEAN
      BY <2>1
    <3> QED
      BY <2>1, <3>1, <3>2
  <2>3. editor.pc \in EditorPhases /\ editor.pc \notin MidBatch
    BY <2>1 DEF EditorPhases, MidBatch
  <2> QED
    BY <2>1, <2>2, <2>3 DEF EditorOK
<1> QED
  BY <1>1, <1>2, <1>3, <1>4 DEF CatalogTypes

\* The threads' steps keep types.
LEMMA ThreadTypes == ASSUME CatalogTypes, ThreadNext PROVE CatalogTypes'
<1>1. CacheOK' /\ ThreadsOK'
  BY SymbolSteps, ScanSteps, WarmSteps DEF ThreadNext, ReaderNext, WarmerNext
<1>2. DiskOK' /\ EditorOK'
  BY ThreadsApart DEF CatalogTypes, DiskOK, EditorOK
<1> QED
  BY <1>1, <1>2 DEF CatalogTypes

\* A snapshot that expires keeps its type.
LEMMA ExpiryTypes ==
    ASSUME CatalogTypes, SnapshotExpires
    PROVE  CatalogTypes' /\ UNCHANGED <<disk, clock, codemap, scanLock, reader, editor, unannounced>>
           /\ snapshot # NoSnapshot /\ snapshot' # NoSnapshot /\ snapshot'.list = snapshot.list
<1>1. /\ snapshot # NoSnapshot /\ snapshot' = [snapshot EXCEPT !.fresh = FALSE]
      /\ UNCHANGED <<disk, clock, codemap, scanLock, reader, editor, unannounced, generation,
                     warming, cancelled>>
  BY DEF SnapshotExpires, Fresh
<1>2. snapshot \in [list : Listings, fresh : BOOLEAN]
  BY <1>1 DEF CatalogTypes, CacheOK
<1>3. snapshot' \in [list : Listings, fresh : BOOLEAN] /\ snapshot'.list = snapshot.list
  BY <1>1, <1>2
<1>4. snapshot' # NoSnapshot
  BY <1>3, CatalogAbsentAssumption
<1>5. CacheOK'
  BY <1>1, <1>3 DEF CatalogTypes, CacheOK
<1>6. DiskOK' /\ EditorOK' /\ ThreadsOK'
  BY <1>1 DEF CatalogTypes, DiskOK, EditorOK, ThreadsOK
<1> QED
  BY <1>1, <1>3, <1>4, <1>5, <1>6 DEF CatalogTypes

\* Every step keeps types.
LEMMA CatalogTypesKept == CatalogTypes /\ [CatalogNext]_catalogVars => CatalogTypes'
<1> SUFFICES ASSUME CatalogTypes, [CatalogNext]_catalogVars PROVE CatalogTypes'
  OBVIOUS
<1>1. CASE ThreadNext
  BY <1>1, ThreadTypes
<1>2. CASE EditorNext
  <2>1. DiskOK' /\ EditorOK' /\ CacheOK'
    BY <1>2, EditorTypes, EditorCache
  <2>2. ThreadsOK'
    BY <1>2, EditorApart DEF CatalogTypes, ThreadsOK
  <2> QED
    BY <2>1, <2>2 DEF CatalogTypes
<1>3. CASE SnapshotExpires
  BY <1>3, ExpiryTypes
<1>4. CASE UNCHANGED catalogVars
  BY <1>4 DEF catalogVars, cacheVars, CatalogTypes, DiskOK, CacheOK, ThreadsOK, EditorOK
<1> QED
  BY <1>1, <1>2, <1>3, <1>4 DEF CatalogNext, ThreadNext

\* The cache, the threads' records, the editor's record and the disk keep their types
\* under every interleaving of readers, warmers and batches (provider.rs, atomic.rs).
THEOREM CatalogTypesCorrect == CatalogSpec => []CatalogTypes
BY CatalogTypesInit, CatalogTypesKept, PTL DEF CatalogSpec

\* The type invariant of the model of the catalog provider (provider.rs).
THEOREM CatalogTypeOKHolds == CatalogSpec => []CatalogTypeOK
<1>1. CatalogTypes => CatalogTypeOK
  <2> SUFFICES ASSUME CatalogTypes PROVE CatalogTypeOK
    OBVIOUS
  <2>1. \A t \in Threads : reader[t].pc \in ThreadPhases
    BY DEF CatalogTypes, ThreadsOK, ThreadOK
  <2> QED
    BY <2>1 DEF CatalogTypes, CatalogTypeOK, DiskOK, CacheOK, ThreadPhases
<1> QED
  BY <1>1, CatalogTypesCorrect, PTL

-----------------------------------------------------------------------------
(* The snapshot.                                                           *)

\* The disk rests: no batch is between its first write and its invalidate.
Stable == editor.pc \in {"idle", "failed", "bump", "stop"}

\* While the disk rests, the cached listing and what a scan has listed so far are
\* right, unless a batch failed since they were begun.
Scanned ==
    /\ "scan" \in unannounced => "cache" \in unannounced
    /\ editor.pc = "rollback" => unannounced = {"cache", "scan"}
    /\ Stable /\ snapshot # NoSnapshot /\ "cache" \notin unannounced => snapshot.list = Listing
    /\ Stable /\ "scan" \notin unannounced =>
         \A t \in Threads : reader[t].pc = "scan" =>
           reader[t].list = {e \in Listing : e[1] \notin reader[t].todo}

\* A thread that goes on without a scan.
LEMMA OtherThreadsScanned ==
    ASSUME Scanned, UNCHANGED <<disk, editor, unannounced, snapshot>>,
           \A t \in Threads : reader'[t].pc = "scan" => reader'[t] = reader[t]
    PROVE  Scanned'
<1>1. Listing' = Listing /\ Stable' = Stable
  BY DEF Listing, Existing, Stable
<1>2. \A t \in Threads : reader'[t].pc = "scan" => reader[t].pc = "scan" /\ reader'[t].list = reader[t].list
         /\ reader'[t].todo = reader[t].todo
  OBVIOUS
<1> QED
  BY <1>1, <1>2 DEF Scanned

\* The threads' steps keep what was scanned right.
LEMMA ThreadsScanned ==
    ASSUME CatalogTypes, Scanned, ThreadNext PROVE Scanned'
<1> USE DEF CatalogTypes
<1>0. UNCHANGED <<disk, clock, editor>>
  BY ThreadsApart
<1>1. Listing' = Listing /\ Stable' = Stable
  BY <1>0 DEF Listing, Existing, Stable
<1>2. ASSUME NEW t \in Threads, BeginScan(t) PROVE Scanned'
  <2>1. reader[t].pc = "lock" /\ scanLock = NoThread /\ UNCHANGED snapshot
        /\ unannounced' = IF Editing THEN unannounced ELSE unannounced \ {"scan"}
    BY <1>2 DEF BeginScan, Busy
  <2>2. Becomes(t, [reader[t] EXCEPT !.pc = "scan", !.todo = Paths, !.list = {}])
    BY <1>2 DEF BeginScan, Becomes, ThreadsOK
  <2>3. reader'[t].todo = Paths /\ reader'[t].list = {}
    BY <2>2 DEF Becomes, ThreadsOK, ThreadOK, ThreadFields
  <2>4. \A e \in Listing : e[1] \in Paths
    BY DEF Listing, Existing
  <2>5. reader'[t].list = {e \in Listing : e[1] \notin reader'[t].todo}
    BY <2>3, <2>4
  <2>6. \A u \in Threads \ {t} : reader'[u].pc # "scan"
    <3>1. ASSUME NEW u \in Threads \ {t}, reader'[u].pc = "scan" PROVE FALSE
      <4>1. ThreadOK(u, reader[u], scanLock) /\ reader[u].pc = "scan"
        BY <2>2, <3>1 DEF Becomes, ThreadsOK
      <4>2. scanLock = u /\ u \in Readers
        BY <4>1 DEF ThreadOK, Threads
      <4> QED
        BY <2>1, <4>2, ThreadsDistinct
    <3> QED
      BY <3>1
  <2>7. editor.pc = "rollback" => Editing
    BY DEF Editing
  <2>8. Stable /\ "cache" \notin unannounced' => "cache" \notin unannounced
    BY <2>1
  <2> HIDE DEF Listing
  <2> QED
    BY <1>0, <1>1, <2>1, <2>5, <2>6, <2>7, <2>8 DEF Scanned
<1>3. ASSUME NEW t \in Threads, NEW p \in Paths, ScanPath(t, p) PROVE Scanned'
  <2> DEFINE r == [reader[t] EXCEPT !.todo = @ \ {p}, !.list = @ \cup {e \in Listing : e[1] = p}]
  <2>1. UNCHANGED <<snapshot, unannounced>> /\ reader[t].pc = "scan"
    BY <1>3 DEF ScanPath, cacheVars, Busy
  <2>2. Becomes(t, r)
    BY <1>3 DEF ScanPath, Becomes, ThreadsOK
  <2>3. reader'[t].todo = reader[t].todo \ {p}
        /\ reader'[t].list = reader[t].list \cup {e \in Listing : e[1] = p}
    BY <2>2 DEF Becomes, ThreadsOK, ThreadOK, ThreadFields
  <2>4. p \in reader[t].todo
    BY <1>3 DEF ScanPath
  <2> HIDE DEF Listing, r
  <2>5. ASSUME reader[t].list = {e \in Listing : e[1] \notin reader[t].todo}
        PROVE  reader'[t].list = {e \in Listing : e[1] \notin reader'[t].todo}
    BY <2>3, <2>4, <2>5
  <2>6. \A u \in Threads \ {t} : reader'[u] = reader[u]
    BY <2>2 DEF Becomes
  <2> QED
    BY <1>0, <1>1, <2>1, <2>5, <2>6 DEF Scanned
<1>4. ASSUME NEW t \in Threads, StoreSnapshot(t) PROVE Scanned'
  <2>1. reader[t].pc = "scan" /\ reader[t].todo = {}
        /\ snapshot' = [list |-> reader[t].list, fresh |-> TRUE]
        /\ unannounced' = IF "scan" \in unannounced THEN unannounced ELSE {}
    BY <1>4 DEF StoreSnapshot, Busy
  <2>2. Becomes(t, [reader[t] EXCEPT !.pc = "start", !.gen = generation + 1])
    BY <1>4 DEF StoreSnapshot, Becomes, ThreadsOK
  <2>3. reader'[t].pc = "start"
    BY <2>2 DEF Becomes, ThreadsOK, ThreadOK, ThreadFields
  <2>4. \A u \in Threads : reader'[u].pc # "scan"
    <3>1. ASSUME NEW u \in Threads \ {t}, reader'[u].pc = "scan" PROVE FALSE
      <4>1. /\ ThreadOK(u, reader[u], scanLock) /\ reader[u].pc = "scan"
            /\ ThreadOK(t, reader[t], scanLock)
        BY <2>2, <3>1 DEF Becomes, ThreadsOK
      <4> QED
        BY <2>1, <4>1, <3>1 DEF ThreadOK
    <3> QED
      BY <2>3, <3>1
  <2>5. Stable /\ "scan" \notin unannounced => snapshot'.list = Listing
    BY <2>1 DEF Scanned
  <2>6. "scan" \in unannounced => "cache" \in unannounced'
    BY <2>1 DEF Scanned
  <2> QED
    BY <1>0, <1>1, <2>1, <2>4, <2>5, <2>6 DEF Scanned
<1>5. ASSUME NEW t \in Threads, NEW r, Becomes(t, r), r.pc # "scan",
             UNCHANGED <<snapshot, unannounced>>
      PROVE  Scanned'
  BY <1>0, <1>5, OtherThreadsScanned DEF Becomes
<1>6. ASSUME NEW t \in Threads,
             \/ \E p \in Paths : t \in Readers /\ QuerySymbols(t, p)
             \/ QuerySnapshot(t)
      PROVE  Scanned'
  <2>1. UNCHANGED <<snapshot, unannounced>>
    BY <1>6 DEF QuerySymbols, QuerySnapshot, cacheVars
  <2>2. CASE UNCHANGED reader
    BY <1>0, <2>1, <2>2, OtherThreadsScanned
  <2>3. ASSUME NEW p \in Paths, Reads(t, p) PROVE Scanned'
    <3> DEFINE r == [reader[t] EXCEPT !.pc = "read", !.path = p, !.sig = FileSignature(disk[p])]
    <3>1. Becomes(t, r)
      BY <2>3, Updates
    <3>2. r.pc = "read"
      BY DEF ThreadsOK, ThreadOK, ThreadFields
    <3> QED
      BY <1>5, <2>1, <3>1, <3>2
  <2>4. CASE Goes(t, "lock")
    <3> DEFINE r == [reader[t] EXCEPT !.pc = "lock"]
    <3>1. Becomes(t, r)
      BY <2>4, Updates
    <3>2. r.pc = "lock"
      BY DEF ThreadsOK, ThreadOK, ThreadFields
    <3> QED
      BY <1>5, <2>1, <3>1, <3>2
  <2> QED
    BY <1>6, <2>2, <2>3, <2>4 DEF QuerySymbols, QuerySnapshot
<1>7. ASSUME NEW t \in Threads, ReadFile(t) \/ CheckGeneration(t) \/ InsertSymbols(t)
      PROVE  Scanned'
  <2>1. UNCHANGED <<snapshot, unannounced>>
    BY <1>7 DEF ReadFile, CheckGeneration, InsertSymbols, cacheVars
  <2>2. CASE AfterSymbols(t)
    <3> DEFINE r == IF t \in Warmers
                    THEN [Resting EXCEPT !.pc = "warm", !.gen = reader[t].gen,
                                         !.todo = reader[t].todo]
                    ELSE Resting
    <3>1. Becomes(t, r)
      BY <2>2, Updates
    <3>2. r.pc # "scan"
      BY DEF Resting
    <3> QED
      BY <1>5, <2>1, <3>1, <3>2
  <2>3. CASE Goes(t, "insert")
    <3> DEFINE r == [reader[t] EXCEPT !.pc = "insert"]
    <3>1. Becomes(t, r)
      BY <2>3, Updates
    <3>2. r.pc = "insert"
      BY DEF ThreadsOK, ThreadOK, ThreadFields
    <3> QED
      BY <1>5, <2>1, <3>1, <3>2
  <2>4. CASE reader' = [reader EXCEPT ![t].pc = "check",
                          ![t].symbols = disk[reader[t].path].content]
    <3> DEFINE r == [reader[t] EXCEPT !.pc = "check", !.symbols = disk[reader[t].path].content]
    <3>1. Becomes(t, r)
      BY <2>4 DEF Becomes, ThreadsOK
    <3>2. r.pc = "check"
      BY DEF ThreadsOK, ThreadOK, ThreadFields
    <3> QED
      BY <1>5, <2>1, <3>1, <3>2
  <2> QED
    BY <1>7, <2>2, <2>3, <2>4 DEF ReadFile, CheckGeneration, InsertSymbols
<1>8. ASSUME NEW t \in Threads, FoundFresh(t) \/ ScanCancelled(t) \/ (t \in Warmers /\ WarmerEnds(t))
      PROVE  Scanned'
  <2>1. UNCHANGED <<snapshot, unannounced>> /\ Rests(t)
    BY <1>8 DEF FoundFresh, ScanCancelled, WarmerEnds, cacheVars
  <2>2. Becomes(t, Resting) /\ Resting.pc # "scan"
    BY <2>1, Updates DEF Resting
  <2> QED
    BY <1>5, <2>1, <2>2
<1>9. ASSUME NEW t \in Threads, NEW w \in Warmers, StartWarming(t, w) PROVE Scanned'
  <2>1. UNCHANGED <<snapshot, unannounced>>
    BY <1>9 DEF StartWarming
  <2>2. reader'[t].pc # "scan" /\ reader'[w].pc # "scan"
    <3>1. reader'[t] = Resting
          /\ reader'[w] = [Resting EXCEPT !.pc = "warm", !.gen = reader[t].gen,
                                          !.todo = {e[1] : e \in reader[t].list}]
      BY <1>9, StartWarmingEffect
    <3>2. \A g, T : Resting.pc = "idle"
             /\ [Resting EXCEPT !.pc = "warm", !.gen = g, !.todo = T].pc = "warm"
      BY DEF Resting
    <3> QED
      BY <3>1, <3>2
  <2>3. \A u \in Threads \ {t, w} : reader'[u] = reader[u]
    BY <1>9, StartWarmingEffect
  <2> QED
    BY <1>0, <2>1, <2>2, <2>3, OtherThreadsScanned
<1>10. ASSUME NEW w \in Warmers, WarmNext(w) PROVE Scanned'
  <2>1. UNCHANGED <<snapshot, unannounced>> /\ reader[w].pc = "warm" /\ w \in Threads
    BY <1>10 DEF WarmNext, cacheVars, Busy, Threads
  <2> DEFINE rest(p) == [reader[w] EXCEPT !.todo = @ \ {p}]
             R(p) == IF p \in Existing /\ ~Hit(p)
                     THEN [rest(p) EXCEPT !.pc = "read", !.path = p,
                                          !.sig = FileSignature(disk[p])]
                     ELSE rest(p)
  <2>2. PICK p \in reader[w].todo : reader' = [reader EXCEPT ![w] = R(p)]
    BY <1>10 DEF WarmNext
  <2>3. R(p).pc # "scan"
    BY <2>1 DEF ThreadsOK, ThreadOK, ThreadFields
  <2>4. Becomes(w, R(p))
    <3> HIDE DEF R
    <3> QED
      BY <2>1, <2>2 DEF Becomes, ThreadsOK
  <2> HIDE DEF R
  <2> QED
    BY <1>5, <2>1, <2>3, <2>4
<1> QED
  BY <1>2, <1>3, <1>4, <1>6, <1>7, <1>8, <1>9, <1>10 DEF ThreadNext, ReaderNext, WarmerNext, Threads

\* The editor: it leaves the disk alone while Stable, and comes back there by a
\* batch that failed or by dropping the snapshot while nobody scans.
LEMMA EditorScanned ==
    ASSUME CatalogTypes, Scanned, EditorNext PROVE Scanned'
<1> USE DEF CatalogTypes
<1>0. reader' = reader /\ scanLock' = scanLock
  BY EditorApart
<1>1. \A pc : EditorStep(pc) => editor'.pc = pc
  BY DEF EditorStep, EditorOK, EditorFields
<1>2. ASSUME NEW b \in Batches, NEW a \in BOOLEAN, BeginBatch(b, a) PROVE Scanned'
  <2>1. editor'.pc \in {"backup", "apply", "invalidate"} /\ UNCHANGED unannounced
    BY <1>2 DEF BeginBatch, NoBatch
  <2> QED
    BY <2>1 DEF Scanned, Stable
<1>3. CASE BackupTargets \/ ApplyChange \/ TruncateRenamed \/ FillFile
  <2>1. NextChange => editor'.pc \in {"backup", "apply", "invalidate"}
    BY DEF NextChange, NoBatch, EditorOK, EditorFields
  <2>2. BackupTargets => editor'.pc = "apply"
    BY DEF BackupTargets, EditorOK, EditorFields
  <2>3. editor'.pc \in {"backup", "apply", "truncate", "fill", "invalidate"} /\ UNCHANGED unannounced
    BY <1>1, <1>3, <2>1, <2>2, ApplyCases DEF BackupTargets, TruncateRenamed, FillFile
  <2> QED
    BY <2>3 DEF Scanned, Stable
<1>4. CASE BackupFails \/ ApplyFails
  <2>1. unannounced' = {"cache", "scan"}
    BY <1>4 DEF BackupFails, ApplyFails, FailsWith
  <2> QED
    BY <2>1 DEF Scanned
<1>5. CASE RollbackOne \/ RollbackFails
  <2>1. unannounced' = {"cache", "scan"}
    BY <1>5 DEF RollbackOne, RollbackFails, Scanned
  <2> QED
    BY <2>1 DEF Scanned
<1>6. CASE DropSnapshot
  <2>1. /\ scanLock = NoThread /\ snapshot' = NoSnapshot /\ unannounced' = {}
        /\ editor'.pc = "bump"
    BY <1>1, <1>6 DEF DropSnapshot
  <2>2. \A t \in Threads : reader[t].pc # "scan"
    BY <2>1, ThreadsDistinct DEF ThreadsOK, ThreadOK, Threads
  <2> QED
    BY <1>0, <2>1, <2>2 DEF Scanned
<1>7. CASE BumpGeneration \/ StopWarmer
  <2>1. /\ editor.pc \in {"bump", "stop"} /\ editor'.pc \in {"stop", "idle"}
        /\ UNCHANGED <<disk, snapshot, unannounced>>
    BY <1>1, <1>7 DEF BumpGeneration, StopWarmer, NoWrite, NoBatch
  <2>2. Listing' = Listing /\ Stable
    BY <2>1 DEF Listing, Existing, Stable
  <2> QED
    BY <1>0, <2>1, <2>2 DEF Scanned
<1> QED
  BY <1>2, <1>3, <1>4, <1>5, <1>6, <1>7 DEF EditorNext

\* At first nothing was scanned.
LEMMA ScannedInit == CatalogInit => Scanned
<1> SUFFICES ASSUME CatalogInit PROVE Scanned
  OBVIOUS
<1>1. snapshot = NoSnapshot /\ unannounced = {} /\ editor.pc = "idle"
  BY DEF CatalogInit, NoBatch
<1>2. \A t \in Threads : reader[t].pc = "idle"
  BY DEF CatalogInit, Resting
<1> QED
  BY <1>1, <1>2 DEF Scanned

\* Every step keeps what was scanned right.
LEMMA ScannedKept == CatalogTypes /\ Scanned /\ [CatalogNext]_catalogVars => Scanned'
<1> SUFFICES ASSUME CatalogTypes, Scanned, [CatalogNext]_catalogVars PROVE Scanned'
  OBVIOUS
<1>1. CASE ThreadNext
  BY <1>1, ThreadsScanned
<1>2. CASE EditorNext
  BY <1>2, EditorScanned
<1>3. CASE SnapshotExpires
  <2>1. Listing' = Listing /\ Stable' = Stable
    BY <1>3, ExpiryTypes DEF Listing, Existing, Stable
  <2> QED
    BY <1>3, <2>1, ExpiryTypes DEF Scanned
<1>4. CASE UNCHANGED catalogVars
  BY <1>4, OtherThreadsScanned DEF catalogVars, cacheVars
<1> QED
  BY <1>1, <1>2, <1>3, <1>4 DEF CatalogNext, ThreadNext

\* Between batches a cached snapshot lists the files on disk, unless a batch failed
\* since (snapshot_arc_cancellable and invalidate under cache.snapshot's write lock).
THEOREM SnapshotSettlesHolds == CatalogSpec => []SnapshotSettles
<1>1. CatalogTypes /\ Scanned => SnapshotSettles
  BY DEF Scanned, Stable, SnapshotSettles, Editing
<1>2. CatalogSpec => []Scanned
  <2>1. CatalogTypes /\ Scanned /\ [CatalogNext]_catalogVars => Scanned'
    BY ScannedKept
  <2> QED
    BY <2>1, ScannedInit, CatalogTypesCorrect, PTL DEF CatalogSpec
<1> QED
  BY <1>1, <1>2, CatalogTypesCorrect, PTL

-----------------------------------------------------------------------------
(* Batches.                                                                *)

\* There is a copy of p among bs.
BackedUp(bs, p) == \E i \in DOMAIN bs : bs[i].target = p

\* Undoing bs, newest first, makes v of a path that is now as given: what counts is
\* the oldest copy of the path, if it has one.
Undoes(bs, p, now, v) ==
    IF BackedUp(bs, p)
    THEN \A i \in DOMAIN bs :
           bs[i].target = p /\ (\A j \in 1..(i - 1) : bs[j].target # p) => bs[i].saved = v
    ELSE now = v

\* More copies, each of the present content, change nothing.
LEMMA UndoesMore ==
    ASSUME NEW bs \in Seq(Copies), NEW cs \in Seq(Copies), NEW p, NEW now, NEW v,
           Undoes(bs, p, now, v),
           \A i \in DOMAIN cs : cs[i].target = p => cs[i].saved = now
    PROVE  Undoes(bs \o cs, p, now, v)
<1> DEFINE ds == bs \o cs
<1>1. /\ Len(ds) = Len(bs) + Len(cs) /\ Len(bs) \in Nat /\ Len(cs) \in Nat
      /\ DOMAIN ds = 1..Len(ds) /\ DOMAIN bs = 1..Len(bs) /\ DOMAIN cs = 1..Len(cs)
  OBVIOUS
<1>2. /\ \A i \in 1..Len(bs) : ds[i] = bs[i]
      /\ \A i \in 1..Len(cs) : ds[Len(bs) + i] = cs[i]
  OBVIOUS
<1>3. \A i \in DOMAIN ds : i \notin DOMAIN bs => i - Len(bs) \in DOMAIN cs /\ ds[i] = cs[i - Len(bs)]
  <2> SUFFICES ASSUME NEW i \in DOMAIN ds, i \notin DOMAIN bs
               PROVE  i - Len(bs) \in DOMAIN cs /\ ds[i] = cs[i - Len(bs)]
    OBVIOUS
  <2>1. i - Len(bs) \in 1..Len(cs) /\ i = Len(bs) + (i - Len(bs))
    BY <1>1
  <2> QED
    BY <1>1, <1>2, <2>1
<1> HIDE DEF ds
<1>4. CASE BackedUp(bs, p)
  <2>1. BackedUp(ds, p)
    BY <1>1, <1>2, <1>4 DEF BackedUp
  <2>2. ASSUME NEW i \in DOMAIN ds, ds[i].target = p, \A j \in 1..(i - 1) : ds[j].target # p
        PROVE  ds[i].saved = v
    <3>1. PICK k \in DOMAIN bs : bs[k].target = p
      BY <1>4 DEF BackedUp
    <3>2. k \in DOMAIN ds /\ ds[k].target = p
      BY <1>1, <1>2, <3>1
    <3>3. i \in DOMAIN bs
      BY <1>1, <2>2, <3>1, <3>2
    <3>4. ds[i] = bs[i] /\ \A j \in 1..(i - 1) : bs[j].target # p
      BY <1>1, <1>2, <2>2, <3>3
    <3> QED
      BY <1>4, <2>2, <3>3, <3>4 DEF Undoes
  <2> QED
    BY <2>1, <2>2 DEF Undoes, ds
<1>5. CASE ~BackedUp(bs, p)
  <2>1. now = v
    BY <1>5 DEF Undoes
  <2>2. ASSUME NEW i \in DOMAIN ds, ds[i].target = p PROVE ds[i].saved = v
    <3>1. i \notin DOMAIN bs
      BY <1>1, <1>2, <1>5, <2>2 DEF BackedUp
    <3> QED
      BY <1>3, <2>1, <2>2, <3>1
  <2> QED
    BY <2>1, <2>2 DEF Undoes, ds
<1> QED
  BY <1>4, <1>5

\* Undoing the newest copy: its path becomes what the copy holds.
LEMMA UndoesLess ==
    ASSUME NEW bs \in Seq(Copies), bs # <<>>, NEW p, NEW now, NEW then, NEW v,
           Undoes(bs, p, now, v),
           then = IF bs[Len(bs)].target = p THEN bs[Len(bs)].saved ELSE now
    PROVE  Undoes(SubSeq(bs, 1, Len(bs) - 1), p, then, v)
<1> DEFINE n == Len(bs)
           ds == SubSeq(bs, 1, n - 1)
<1>1. n \in Nat \ {0} /\ DOMAIN bs = 1..n /\ DOMAIN ds = 1..(n - 1)
  OBVIOUS
<1>2. \A i \in 1..(n - 1) : ds[i] = bs[i]
  OBVIOUS
<1> HIDE DEF ds, n
<1>3. CASE BackedUp(ds, p)
  <2>1. BackedUp(bs, p)
    BY <1>1, <1>2, <1>3 DEF BackedUp
  <2>2. ASSUME NEW i \in DOMAIN ds, ds[i].target = p, \A j \in 1..(i - 1) : ds[j].target # p
        PROVE  ds[i].saved = v
    <3>1. i \in DOMAIN bs /\ bs[i] = ds[i] /\ \A j \in 1..(i - 1) : bs[j].target # p
      BY <1>1, <1>2, <2>2
    <3> QED
      BY <2>1, <2>2, <3>1 DEF Undoes
  <2> QED
    BY <1>3, <2>2 DEF Undoes, ds, n
<1>4. CASE ~BackedUp(ds, p)
  <2>1. \A i \in 1..(n - 1) : bs[i].target # p
    BY <1>1, <1>2, <1>4 DEF BackedUp
  <2>2. CASE bs[n].target = p
    <3>1. BackedUp(bs, p)
      BY <1>1, <2>2 DEF BackedUp
    <3>2. bs[n].saved = v
      BY <1>1, <2>1, <2>2, <3>1 DEF Undoes
    <3> QED
      BY <1>4, <2>2, <3>2 DEF Undoes, n, ds
  <2>3. CASE bs[n].target # p
    <3>1. ~BackedUp(bs, p)
      BY <1>1, <2>1, <2>3 DEF BackedUp
    <3> QED
      BY <1>4, <2>3, <3>1 DEF Undoes, n, ds
  <2> QED
    BY <2>2, <2>3
<1> QED
  BY <1>3, <1>4

\* The content of the path a step writes, and of the others.
LEMMA WriteContent ==
    ASSUME DiskOK, NEW p \in Paths, NEW c \in Symbols, Write(p, c)
    PROVE  ContentOf(p)' = c /\ \A q \in Paths \ {p} : ContentOf(q)' = ContentOf(q)
<1>1. PICK d \in Ticks : clock' = clock + d /\ disk' = [disk EXCEPT ![p] = File(c, clock + d)]
  BY DEF Write
<1>2. clock + d \in Nat
  BY FsCatalogAssumption DEF DiskOK
<1>3. File(c, clock + d) \in Files(Symbols, Nat) /\ File(c, clock + d).content = c
  BY <1>2 DEF File, Files
<1>4. File(c, clock + d) # NoFile
  BY <1>3, CatalogAbsentAssumption
<1> QED
  BY <1>1, <1>3, <1>4 DEF ContentOf, Existing, DiskOK

\* What a removal does to the contents.
LEMMA RemoveContent ==
    ASSUME DiskOK, NEW p \in Paths, disk' = [disk EXCEPT ![p] = NoFile]
    PROVE  ContentOf(p)' = NoFile /\ \A q \in Paths \ {p} : ContentOf(q)' = ContentOf(q)
BY DEF ContentOf, Existing, DiskOK

\* While an atomic batch runs, its copies undo it, but for the paths reported; and
\* the paths of the change that is applied have copies.
Undoable ==
    /\ editor.atomic /\ editor.pc \in MidBatch \cup {"rollback", "failed"} =>
         \A p \in Paths \ editor.failedPaths :
           Undoes(editor.backups, p, ContentOf(p), editor.before[p])
    /\ editor.atomic /\ editor.pc \in {"apply", "truncate", "fill"} =>
         BackedUp(editor.backups, Change.path) /\ BackedUp(editor.backups, Target)
    /\ editor.pc = "failed" /\ editor.atomic => editor.backups = <<>>

\* A step of the editor that writes to backed up paths only.
LEMMA CoveredStep ==
    ASSUME Undoable, editor.atomic, editor.pc \in MidBatch,
           NEW S \in SUBSET Paths, \A p \in S : BackedUp(editor.backups, p),
           \A q \in Paths \ S : ContentOf(q)' = ContentOf(q),
           editor'.backups = editor.backups, editor'.before = editor.before,
           editor'.failedPaths = editor.failedPaths
    PROVE  \A p \in Paths \ editor'.failedPaths :
             Undoes(editor'.backups, p, ContentOf(p)', editor'.before[p])
BY DEF Undoable, Undoes

\* FailsWith and NextChange in terms of the record's fields.
LEMMA FailsFields ==
    ASSUME EditorOK, NEW bs, FailsWith(bs)
    PROVE  /\ editor'.backups = bs /\ editor'.before = editor.before
           /\ editor'.failedPaths = editor.failedPaths /\ editor'.atomic = editor.atomic
           /\ editor'.pc = IF bs # <<>> THEN "rollback" ELSE "failed"
BY DEF FailsWith, EditorOK, EditorFields

\* The fields of the editor's record after a step inside a change.
LEMMA StepFields ==
    ASSUME EditorOK, NEW c, EditorStep(c)
    PROVE  /\ editor'.backups = editor.backups /\ editor'.before = editor.before
           /\ editor'.failedPaths = editor.failedPaths /\ editor'.atomic = editor.atomic
           /\ editor'.pc = c /\ Change' = Change /\ Target' = Target
<1>1. /\ editor'.backups = editor.backups /\ editor'.before = editor.before
      /\ editor'.failedPaths = editor.failedPaths /\ editor'.atomic = editor.atomic
      /\ editor'.pc = c /\ editor'.changes = editor.changes /\ editor'.at = editor.at
  BY DEF EditorStep, EditorOK, EditorFields
<1> QED
  BY <1>1 DEF Change, Target

\* The fields of the editor's record after a change.
LEMMA NextChangeFields ==
    ASSUME EditorOK, NextChange, editor.atomic, editor'.atomic
    PROVE  /\ editor'.backups = editor.backups /\ editor'.before = editor.before
           /\ editor'.failedPaths = editor.failedPaths /\ editor'.pc = "backup"
<1>1. editor.at < Len(editor.changes)
  <2> SUFFICES ASSUME ~(editor.at < Len(editor.changes)) PROVE FALSE
    OBVIOUS
  <2>1. editor'.atomic = FALSE
    BY DEF NextChange, NoBatch
  <2> QED
    BY <2>1
<1> QED
  BY <1>1 DEF NextChange, EditorOK, EditorFields

\* The editor's steps keep the batch undoable: every path is copied before it is
\* written, and the rollback consumes the copies newest first.
LEMMA EditorUndoable ==
    ASSUME CatalogTypes, Undoable, EditorNext PROVE Undoable'
<1> USE DEF CatalogTypes
<1>0. NoWrite => \A p \in Paths : ContentOf(p)' = ContentOf(p)
  BY DEF NoWrite, ContentOf, Existing
<1>1. ASSUME NEW b \in Batches, NEW a \in BOOLEAN, BeginBatch(b, a) PROVE Undoable'
  <2>1. CASE b = <<>>
    <3>1. editor'.pc = "invalidate"
      BY <1>1, <2>1 DEF BeginBatch, NoBatch
    <3> QED
      BY <3>1 DEF Undoable, MidBatch
  <2>2. CASE b # <<>>
    <3>1. /\ editor'.backups = <<>> /\ editor'.before = [p \in Paths |-> ContentOf(p)]
          /\ editor'.pc = (IF a THEN "backup" ELSE "apply") /\ editor'.atomic = a
          /\ UNCHANGED disk
      BY <1>1, <2>2 DEF BeginBatch, NoBatch
    <3>2. \A p \in Paths : ContentOf(p)' = ContentOf(p)
      BY <3>1 DEF ContentOf, Existing
    <3>3. \A p \in Paths : ~BackedUp(editor'.backups, p)
      BY <3>1 DEF BackedUp
    <3>4. \A p \in Paths : Undoes(editor'.backups, p, ContentOf(p)', editor'.before[p])
      BY <3>1, <3>2, <3>3 DEF Undoes
    <3> QED
      BY <3>1, <3>4 DEF Undoable, MidBatch
  <2> QED
    BY <2>1, <2>2
<1>2. CASE BackupTargets
  <2> DEFINE cs == [i \in DOMAIN Targets(Change) |-> Backup(Targets(Change)[i])]
  <2>1. /\ editor.pc = "backup" /\ NoWrite
        /\ editor' = [editor EXCEPT !.pc = "apply", !.backups = editor.backups \o cs]
    BY <1>2 DEF BackupTargets
  <2>2. /\ editor'.backups = editor.backups \o cs /\ editor'.before = editor.before
        /\ editor'.failedPaths = editor.failedPaths /\ editor'.atomic = editor.atomic
        /\ editor'.pc = "apply" /\ editor'.changes = editor.changes /\ editor'.at = editor.at
    BY <2>1 DEF EditorOK, EditorFields
  <2>3. editor.pc \in MidBatch /\ editor.backups \in Seq(Copies)
    BY <2>1 DEF MidBatch, EditorOK
  <2>4. cs \in Seq(Copies) /\ DOMAIN cs = DOMAIN Targets(Change)
    BY <2>3, BackupOK
  <2>5. \A i \in DOMAIN cs : cs[i].target = Targets(Change)[i] /\ cs[i].saved = ContentOf(cs[i].target)
    BY <2>4 DEF Backup
  <2>6. Change' = Change /\ Target' = Target
    BY <2>2 DEF Change, Target
  <2> HIDE DEF cs
  <2>7. ASSUME editor.atomic, NEW p \in Paths \ editor.failedPaths
        PROVE  Undoes(editor'.backups, p, ContentOf(p)', editor'.before[p])
    <3>1. Undoes(editor.backups, p, ContentOf(p), editor.before[p])
      BY <2>3, <2>7 DEF Undoable
    <3>2. Undoes(editor.backups \o cs, p, ContentOf(p), editor.before[p])
      BY <2>3, <2>4, <2>5, <3>1, UndoesMore
    <3> QED
      BY <1>0, <2>1, <2>2, <3>2
  <2>8. ASSUME editor.atomic
        PROVE  BackedUp(editor'.backups, Change.path) /\ BackedUp(editor'.backups, Target)
    <3> DEFINE n == Len(editor.backups)
    <3>1. \A i \in DOMAIN cs : n + i \in DOMAIN (editor.backups \o cs)
             /\ (editor.backups \o cs)[n + i] = cs[i]
      BY <2>3, <2>4
    <3>2. \A i \in DOMAIN cs : BackedUp(editor'.backups, Targets(Change)[i])
      BY <2>2, <2>5, <3>1 DEF BackedUp
    <3>3. 1 \in DOMAIN cs /\ Targets(Change)[1] = Change.path
      BY <2>4 DEF Targets
    <3>4. Change.kind = "rename" => 2 \in DOMAIN cs /\ Targets(Change)[2] = Change.to
      BY <2>4 DEF Targets
    <3>5. Change.kind # "move"
      BY <2>3, <2>8, ChangeOK
    <3> QED
      BY <3>2, <3>3, <3>4, <3>5 DEF Target
  <2> QED
    BY <2>2, <2>6, <2>7, <2>8 DEF Undoable
<1>3. CASE BackupFails
  <2>1. PICK n \in 0..(Len(Targets(Change)) - 1) :
          FailsWith(editor.backups \o [i \in 1..n |-> Backup(Targets(Change)[i])])
    BY <1>3 DEF BackupFails
  <2> DEFINE cs == [i \in 1..n |-> Backup(Targets(Change)[i])]
  <2>2. editor.pc \in MidBatch /\ NoWrite
    BY <1>3 DEF BackupFails, MidBatch
  <2>3. n \in 0..Len(Targets(Change))
    <3>1. Len(Targets(Change)) \in {1, 2}
      BY DEF Targets
    <3> QED
      BY <3>1
  <2>4. cs \in Seq(Copies) /\ editor.backups \in Seq(Copies)
    BY <2>2, <2>3, BackupOK DEF EditorOK
  <2>5. \A i \in DOMAIN cs : cs[i].saved = ContentOf(cs[i].target)
    BY DEF Backup
  <2>6. /\ editor'.backups = editor.backups \o cs /\ editor'.before = editor.before
        /\ editor'.failedPaths = editor.failedPaths /\ editor'.atomic = editor.atomic
        /\ editor'.pc = IF editor.backups \o cs # <<>> THEN "rollback" ELSE "failed"
    BY <2>1, FailsFields
  <2> HIDE DEF cs
  <2>7. ASSUME editor.atomic, NEW p \in Paths \ editor.failedPaths
        PROVE  Undoes(editor'.backups, p, ContentOf(p)', editor'.before[p])
    <3>1. Undoes(editor.backups, p, ContentOf(p), editor.before[p])
      BY <2>2, <2>7 DEF Undoable
    <3>2. Undoes(editor.backups \o cs, p, ContentOf(p), editor.before[p])
      BY <2>4, <2>5, <3>1, UndoesMore
    <3> QED
      BY <1>0, <2>2, <2>6, <3>2
  <2> QED
    BY <2>6, <2>7 DEF Undoable
<1>4. ASSUME editor.pc \in {"apply", "truncate", "fill"},
             \A q \in Paths \ {Change.path, Target} : ContentOf(q)' = ContentOf(q),
             NextChange \/ EditorStep("fill") \/ EditorStep("truncate")
      PROVE  Undoable'
  <2>0. editor.pc \in MidBatch
    BY <1>4 DEF MidBatch
  <2>1. CASE NextChange
    <3>1. CASE editor.atomic /\ editor'.atomic
      <4>1. /\ editor'.backups = editor.backups /\ editor'.before = editor.before
            /\ editor'.failedPaths = editor.failedPaths /\ editor'.pc = "backup"
        BY <2>1, <3>1, NextChangeFields
      <4>2. {Change.path, Target} \in SUBSET Paths
        BY <2>0, ChangeOK
      <4>3. \A p \in {Change.path, Target} : BackedUp(editor.backups, p)
        BY <1>4, <3>1 DEF Undoable
      <4>4. \A p \in Paths \ editor'.failedPaths :
               Undoes(editor'.backups, p, ContentOf(p)', editor'.before[p])
        BY <1>4, <2>0, <3>1, <4>1, <4>2, <4>3, CoveredStep
      <4> QED
        BY <4>1, <4>4 DEF Undoable
    <3>2. CASE ~editor.atomic
      <4>1. editor'.atomic = FALSE \/ editor'.atomic = editor.atomic
        BY <2>1 DEF NextChange, NoBatch, EditorOK, EditorFields
      <4> QED
        BY <3>2, <4>1 DEF Undoable
    <3>3. CASE ~editor'.atomic
      BY <3>3 DEF Undoable
    <3> QED
      BY <3>1, <3>2, <3>3
  <2>2. ASSUME NEW c \in {"fill", "truncate"}, EditorStep(c) PROVE Undoable'
    <3>1. /\ editor'.backups = editor.backups /\ editor'.before = editor.before
          /\ editor'.failedPaths = editor.failedPaths /\ editor'.atomic = editor.atomic
          /\ editor'.pc = c /\ Change' = Change /\ Target' = Target
      BY <2>2, StepFields
    <3>2. CASE editor.atomic
      <4>2. {Change.path, Target} \in SUBSET Paths
        BY <2>0, ChangeOK
      <4>3. BackedUp(editor.backups, Change.path) /\ BackedUp(editor.backups, Target)
        BY <1>4, <3>2 DEF Undoable
      <4>4. \A p \in Paths \ editor'.failedPaths :
               Undoes(editor'.backups, p, ContentOf(p)', editor'.before[p])
        BY <1>4, <2>0, <3>1, <3>2, <4>2, <4>3, CoveredStep
      <4> QED
        BY <3>1, <4>3, <4>4 DEF Undoable
    <3>3. CASE ~editor.atomic
      BY <3>1, <3>3 DEF Undoable
    <3> QED
      BY <3>2, <3>3
  <2> QED
    BY <1>4, <2>1, <2>2
<1>5. CASE ApplyChange
  <2>1. editor.pc = "apply" /\ Target \in Paths /\ Change.path \in Paths /\ EmptyFile \in Symbols
    BY <1>5, ChangeOK, ApplyCases DEF MidBatch, Symbols
  <2>2. \A q \in Paths \ {Change.path, Target} : ContentOf(q)' = ContentOf(q)
    <3>1. CASE Write(Target, EmptyFile)
      BY <2>1, <3>1, WriteContent
    <3>2. CASE disk' = [disk EXCEPT ![Target] = NoFile]
      BY <2>1, <3>2, RemoveContent
    <3>3. CASE disk' = [disk EXCEPT ![Target] = disk[Change.path],
                          ![Change.path] = IF Change.path = Target THEN @ ELSE NoFile]
      BY <2>1, <3>3 DEF ContentOf, Existing, DiskOK
    <3> QED
      BY <1>5, <3>1, <3>2, <3>3, ApplyCases
  <2>3. NextChange \/ EditorStep("fill") \/ EditorStep("truncate")
    BY <1>5, ApplyCases
  <2> QED
    BY <1>4, <2>1, <2>2, <2>3
<1>6. CASE TruncateRenamed \/ FillFile
  <2>1. editor.pc \in {"truncate", "fill"} /\ (NextChange \/ EditorStep("fill"))
        /\ (Write(Target, EmptyFile) \/ Write(Target, Change.content))
    BY <1>6 DEF TruncateRenamed, FillFile
  <2>2. Target \in Paths /\ EmptyFile \in Symbols /\ Change.content \in Symbols
    BY <2>1, ChangeOK DEF MidBatch, Symbols
  <2>3. \A q \in Paths \ {Change.path, Target} : ContentOf(q)' = ContentOf(q)
    BY <2>1, <2>2, WriteContent
  <2> QED
    BY <1>4, <2>1, <2>3
<1>7. CASE ApplyFails
  <2>1. editor.pc \in MidBatch /\ NoWrite
    BY <1>7 DEF ApplyFails, MidBatch
  <2>2. /\ editor'.backups = editor.backups /\ editor'.before = editor.before
        /\ editor'.failedPaths = editor.failedPaths /\ editor'.atomic = editor.atomic
        /\ editor'.pc = IF editor.backups # <<>> THEN "rollback" ELSE "failed"
    BY <1>7, FailsFields DEF ApplyFails
  <2> QED
    BY <1>0, <2>1, <2>2 DEF Undoable
<1>8. ASSUME editor.pc = "rollback", editor.backups # <<>>, NEW S \in SUBSET {Last.target},
             DropLast(S),
             \A q \in Paths \ {Last.target} : ContentOf(q)' = ContentOf(q),
             \A q \in Paths : q = Last.target /\ q \notin S => ContentOf(q)' = Last.saved
      PROVE  Undoable'
  <2>1. S \in SUBSET Paths /\ Last.target \in Paths /\ editor.backups \in Seq(Copies)
    BY <1>8, LastOK DEF EditorOK
  <2>2. editor' = [editor EXCEPT !.backups = SubSeq(editor.backups, 1, Len(editor.backups) - 1),
                                 !.failedPaths = editor.failedPaths \cup S,
                                 !.pc = IF Len(editor.backups) = 1 THEN "failed" ELSE "rollback"]
    BY <1>8, <2>1, DropLastOK
  <2>3. /\ editor'.backups = SubSeq(editor.backups, 1, Len(editor.backups) - 1)
        /\ editor'.before = editor.before /\ editor'.atomic = editor.atomic
        /\ editor'.failedPaths = editor.failedPaths \cup S
        /\ editor'.pc = IF Len(editor.backups) = 1 THEN "failed" ELSE "rollback"
    BY <2>2 DEF EditorOK, EditorFields
  <2>4. ASSUME editor.atomic, NEW p \in Paths \ editor'.failedPaths
        PROVE  Undoes(editor'.backups, p, ContentOf(p)', editor'.before[p])
    <3>1. Undoes(editor.backups, p, ContentOf(p), editor.before[p])
      BY <1>8, <2>3, <2>4 DEF Undoable
    <3>2. ContentOf(p)' = IF Last.target = p THEN Last.saved ELSE ContentOf(p)
      <4>1. CASE Last.target = p
        BY <1>8, <2>3, <2>4, <4>1
      <4>2. CASE Last.target # p
        BY <1>8, <4>2
      <4> QED
        BY <4>1, <4>2
    <3> QED
      BY <1>8, <2>1, <2>3, <3>1, <3>2, UndoesLess DEF Last
  <2>5. Len(editor.backups) = 1 => editor'.backups = <<>>
    BY <2>1, <2>3
  <2> QED
    BY <2>3, <2>4, <2>5 DEF Undoable
<1>9. CASE RollbackOne
  <2>1. /\ editor.pc = "rollback" /\ editor.backups # <<>> /\ DropLast({})
        /\ Last.target \in Paths /\ Last.saved \in Symbols \cup {NoFile}
    BY <1>9, LastOK DEF RollbackOne
  <2>2. ASSUME NEW p \in Paths, p = Last.target
        PROVE  /\ \A q \in Paths \ {p} : ContentOf(q)' = ContentOf(q)
               /\ ContentOf(p)' = Last.saved
    <3>1. CASE Last.saved # NoFile
      <4>1. Write(p, Last.saved) /\ Last.saved \in Symbols
        BY <1>9, <2>1, <2>2, <3>1 DEF RollbackOne
      <4> QED
        BY <4>1, WriteContent
    <3>2. CASE Last.saved = NoFile
      <4>1. disk' = [disk EXCEPT ![p] = NoFile]
        BY <1>9, <2>2, <3>2 DEF RollbackOne
      <4> QED
        BY <3>2, <4>1, RemoveContent
    <3> QED
      BY <3>1, <3>2
  <2> QED
    BY <1>8, <2>1, <2>2
<1>10. CASE RollbackFails
  <2>1. /\ editor.pc = "rollback" /\ editor.backups # <<>> /\ DropLast({Last.target})
        /\ Last.target \in Paths /\ EmptyFile \in Symbols
    BY <1>10, LastOK DEF RollbackFails, Symbols
  <2>2. \A q \in Paths \ {Last.target} : ContentOf(q)' = ContentOf(q)
    <3>1. PICK p \in Paths : p = Last.target
      BY <2>1
    <3>2. NoWrite \/ Write(p, EmptyFile)
      BY <1>10, <3>1 DEF RollbackFails
    <3>3. \A q \in Paths \ {p} : ContentOf(q)' = ContentOf(q)
      BY <1>0, <2>1, <3>2, WriteContent
    <3> QED
      BY <3>1, <3>3
  <2> QED
    BY <1>8, <2>1, <2>2
<1>11. CASE DropSnapshot \/ BumpGeneration \/ StopWarmer
  <2>1. editor'.pc \in {"bump", "stop", "idle"}
    BY <1>11, StepFields DEF DropSnapshot, BumpGeneration, StopWarmer, NoBatch
  <2> QED
    BY <2>1 DEF Undoable, MidBatch
<1> QED
  BY <1>1, <1>2, <1>3, <1>5, <1>6, <1>7, <1>9, <1>10, <1>11 DEF EditorNext

\* The threads' steps do not touch what undoing needs.
LEMMA UndoableRests ==
    ASSUME Undoable, UNCHANGED <<disk, editor>> PROVE Undoable'
<1>1. \A p \in Paths : ContentOf(p)' = ContentOf(p)
  BY DEF ContentOf, Existing
<1>2. Change' = Change /\ Target' = Target
  BY DEF Change, Target
<1> QED
  BY <1>1, <1>2 DEF Undoable

\* After a failed atomic batch every path has its content from before the batch or is
\* reported (fail_atomic and rollback_backups in atomic.rs).
THEOREM BatchUndoneOrReportedHolds == CatalogSpec => []BatchUndoneOrReported
<1>1. CatalogInit => Undoable
  <2> SUFFICES ASSUME CatalogInit PROVE Undoable
    OBVIOUS
  <2>1. editor.pc = "idle"
    BY DEF CatalogInit, NoBatch
  <2> QED
    BY <2>1 DEF Undoable, MidBatch
<1>2. CatalogTypes /\ Undoable /\ [CatalogNext]_catalogVars => Undoable'
  <2> SUFFICES ASSUME CatalogTypes, Undoable, [CatalogNext]_catalogVars PROVE Undoable'
    OBVIOUS
  <2>1. CASE EditorNext
    BY <2>1, EditorUndoable
  <2>2. CASE ThreadNext \/ SnapshotExpires \/ UNCHANGED catalogVars
    <3>1. UNCHANGED <<disk, editor>>
      BY <2>2, ThreadsApart DEF SnapshotExpires, catalogVars
    <3> QED
      BY <3>1, UndoableRests
  <2> QED
    BY <2>1, <2>2 DEF CatalogNext, ThreadNext
<1>3. Undoable => BatchUndoneOrReported
  <2> SUFFICES ASSUME Undoable, editor.pc = "failed", editor.atomic,
                      NEW p \in Paths \ editor.failedPaths
               PROVE  ContentOf(p) = editor.before[p]
    BY DEF BatchUndoneOrReported
  <2>1. editor.backups = <<>> /\ Undoes(editor.backups, p, ContentOf(p), editor.before[p])
    BY DEF Undoable
  <2>2. ~BackedUp(editor.backups, p)
    BY <2>1 DEF BackedUp
  <2> QED
    BY <2>1, <2>2 DEF Undoes
<1> QED
  BY <1>1, <1>2, <1>3, CatalogTypesCorrect, PTL DEF CatalogSpec

-----------------------------------------------------------------------------
(* Signatures.  An entry, or a thread on its way to one, has a signature   *)
(* that no later write gives to another content of its path.               *)

\* No file has s's time but p, or one that was moved away from p.
Current(dk, ck, p, s) ==
    /\ s[1] <= ck
    /\ \A q \in Paths : dk[q] # NoFile /\ dk[q].modified = s[1] => q = p \/ p \in Sources

\* While p has s's time its content is c.
Sound(dk, ck, p, s, c) ==
    /\ Current(dk, ck, p, s)
    /\ dk[p] # NoFile /\ dk[p].modified = s[1] => dk[p].content = c

\* The times of the files are past and distinct.
Aged(dk, ck) ==
    /\ \A p \in Paths : dk[p] # NoFile => dk[p].modified <= ck
    /\ \A p, q \in Paths : dk[p] # NoFile /\ dk[q] # NoFile /\ dk[p].modified = dk[q].modified => p = q

\* What a thread has in hand is current, and sound once it has read the file.
InHand(dk, ck, r) ==
    /\ r.pc = "read" => Current(dk, ck, r.path, r.sig)
    /\ r.pc \in {"check", "insert"} => Sound(dk, ck, r.path, r.sig, r.symbols)

\* Times are distinct; entries are sound; so is what the threads have in hand.
Signed ==
    /\ Aged(disk, clock)
    /\ \A p \in Paths : codemap[p] # NoEntry =>
         Sound(disk, clock, p, codemap[p].sig, codemap[p].symbols)
    /\ \A t \in Threads : InHand(disk, clock, reader[t])

\* What a step of the editor does to the disk: nothing, one write, one removal, or
\* one move from a source to a path that is none.
DiskStep ==
    \/ NoWrite
    \/ \E p \in Paths, c \in Symbols : Write(p, c)
    \/ \E p \in Paths : disk' = [disk EXCEPT ![p] = NoFile] /\ clock' = clock
    \/ \E p \in Sources, q \in Paths \ Sources :
         /\ p \in Paths /\ disk[p] # NoFile /\ clock' = clock
         /\ disk' = [disk EXCEPT ![q] = disk[p], ![p] = NoFile]

\* A step of the disk keeps the times distinct and every signature sound.
LEMMA DiskStepSigned ==
    ASSUME SignaturesTell, DiskOK, DiskStep, Aged(disk, clock)
    PROVE  /\ Aged(disk', clock')
           /\ \A p \in Paths, s \in Signatures :
                Current(disk, clock, p, s) => Current(disk', clock', p, s)
           /\ \A p \in Paths, s \in Signatures, c \in Symbols :
                Sound(disk, clock, p, s, c) => Sound(disk', clock', p, s, c)
<1>0. /\ \A p \in Paths : disk[p] # NoFile => disk[p].modified \in Nat
      /\ clock \in Nat /\ \A s \in Signatures : s[1] \in Nat
      /\ disk \in [Paths -> Files(Symbols, Nat) \cup {NoFile}]
  BY SignatureOK DEF Existing, DiskOK, Signatures
<1>1. CASE NoWrite
  BY <1>1 DEF NoWrite
<1>2. ASSUME NEW w \in Paths, NEW v \in Symbols, Write(w, v)
      PROVE  /\ Aged(disk', clock')
             /\ \A p \in Paths, s \in Signatures :
                  Current(disk, clock, p, s) => Current(disk', clock', p, s)
             /\ \A p \in Paths, s \in Signatures, c \in Symbols :
                  Sound(disk, clock, p, s, c) => Sound(disk', clock', p, s, c)
  <2>1. PICK d \in Ticks : clock' = clock + d /\ disk' = [disk EXCEPT ![w] = File(v, clock + d)]
    BY <1>2 DEF Write
  <2>2. d \in Nat /\ d # 0 /\ clock' \in Nat /\ clock < clock'
    BY <1>0, <2>1, FsCatalogAssumption DEF SignaturesTell
  <2>3. disk'[w].modified = clock' /\ \A q \in Paths \ {w} : disk'[q] = disk[q]
    BY <1>0, <2>1 DEF File
  <2>4. Aged(disk', clock')
    BY <1>0, <2>2, <2>3 DEF Aged
  <2>5. \A s \in Signatures : s[1] <= clock => s[1] <= clock' /\ s[1] # clock'
    BY <1>0, <2>2
  <2>6. ASSUME NEW p \in Paths, NEW s \in Signatures, Current(disk, clock, p, s)
        PROVE  Current(disk', clock', p, s) /\ disk'[w].modified # s[1]
    BY <2>3, <2>5, <2>6 DEF Current
  <2>7. ASSUME NEW p \in Paths, NEW s \in Signatures, NEW c \in Symbols, Sound(disk, clock, p, s, c)
        PROVE  Sound(disk', clock', p, s, c)
    BY <2>3, <2>6, <2>7 DEF Sound
  <2> QED
    BY <2>4, <2>6, <2>7
<1>3. ASSUME NEW w \in Paths, disk' = [disk EXCEPT ![w] = NoFile], clock' = clock
      PROVE  /\ Aged(disk', clock')
             /\ \A p \in Paths, s \in Signatures :
                  Current(disk, clock, p, s) => Current(disk', clock', p, s)
             /\ \A p \in Paths, s \in Signatures, c \in Symbols :
                  Sound(disk, clock, p, s, c) => Sound(disk', clock', p, s, c)
  <2>1. disk'[w] = NoFile /\ \A q \in Paths \ {w} : disk'[q] = disk[q]
    BY <1>0, <1>3
  <2> QED
    BY <1>3, <2>1 DEF Aged, Current, Sound
<1>4. ASSUME NEW a \in Sources, NEW b \in Paths \ Sources, a \in Paths, disk[a] # NoFile,
             clock' = clock, disk' = [disk EXCEPT ![b] = disk[a], ![a] = NoFile]
      PROVE  /\ Aged(disk', clock')
             /\ \A p \in Paths, s \in Signatures :
                  Current(disk, clock, p, s) => Current(disk', clock', p, s)
             /\ \A p \in Paths, s \in Signatures, c \in Symbols :
                  Sound(disk, clock, p, s, c) => Sound(disk', clock', p, s, c)
  <2>1. /\ a # b /\ disk'[a] = NoFile /\ disk'[b] = disk[a]
        /\ \A q \in Paths \ {a, b} : disk'[q] = disk[q]
    BY <1>0, <1>4
  <2>2. Aged(disk', clock')
    <3> DEFINE from(p) == IF p = b THEN a ELSE p
    <3>1. \A p \in Paths : disk'[p] # NoFile =>
             p # a /\ from(p) \in Paths /\ disk[from(p)] = disk'[p]
      BY <1>4, <2>1
    <3>2. \A p, q \in Paths : p # a /\ q # a /\ from(p) = from(q) => p = q
      OBVIOUS
    <3> HIDE DEF from
    <3>3. ASSUME NEW p \in Paths, disk'[p] # NoFile PROVE disk'[p].modified <= clock'
      BY <1>4, <3>1, <3>3 DEF Aged
    <3>4. ASSUME NEW p \in Paths, NEW q \in Paths, disk'[p] # NoFile, disk'[q] # NoFile,
                 disk'[p].modified = disk'[q].modified
          PROVE  p = q
      <4>1. /\ p # a /\ from(p) \in Paths /\ disk[from(p)] = disk'[p]
            /\ q # a /\ from(q) \in Paths /\ disk[from(q)] = disk'[q]
        BY <3>1, <3>4
      <4>2. from(p) = from(q)
        BY <3>4, <4>1 DEF Aged
      <4> QED
        BY <3>2, <4>1, <4>2
    <3> QED
      BY <3>3, <3>4 DEF Aged
  <2>3. ASSUME NEW p \in Paths, NEW s \in Signatures, Current(disk, clock, p, s)
        PROVE  Current(disk', clock', p, s)
    BY <1>4, <2>1, <2>3 DEF Current
  <2>4. ASSUME NEW p \in Paths, NEW s \in Signatures, NEW c \in Symbols, Sound(disk, clock, p, s, c)
        PROVE  Sound(disk', clock', p, s, c)
    <3>1. Current(disk, clock, p, s) /\ Current(disk', clock', p, s)
      BY <2>3, <2>4 DEF Sound
    <3>2. p = b => disk[a].modified # s[1]
      BY <1>4, <3>1 DEF Current
    <3> QED
      BY <2>1, <2>4, <3>1, <3>2 DEF Sound
  <2> QED
    BY <2>2, <2>3, <2>4
<1> QED
  BY <1>1, <1>2, <1>3, <1>4 DEF DiskStep

\* The editor's steps are such steps of the disk.
LEMMA EditorDisk ==
    ASSUME SignaturesTell, DiskOK, EditorOK, EditorNext
    PROVE  DiskStep
<1>1. CASE ApplyChange
  <2>1. editor.pc \in MidBatch
    BY <1>1, ApplyCases DEF MidBatch
  <2>2. /\ Change \in Changes /\ Change.path \in Paths /\ Target \in Paths /\ EmptyFile \in Symbols
        /\ Change.kind \in Kinds /\ \E b \in Batches : \E i \in DOMAIN b : Change = b[i]
    BY <2>1, ChangeOK DEF Symbols
  <2>3. CASE Write(Target, EmptyFile)
    BY <2>2, <2>3 DEF DiskStep
  <2>4. CASE disk' = [disk EXCEPT ![Target] = NoFile] /\ UNCHANGED clock
    BY <2>2, <2>4 DEF DiskStep
  <2>5. CASE /\ Change.kind \notin {"create", "update", "delete"}
             /\ Change.path \in Existing
             /\ disk' = [disk EXCEPT ![Target] = disk[Change.path],
                          ![Change.path] = IF Change.path = Target THEN @ ELSE NoFile]
             /\ UNCHANGED clock
    <3>1. Change \in Moves /\ Target = Change.to
      BY <2>2, <2>5 DEF Moves, Kinds, Target
    <3>2. Change.path \in Sources /\ Target \in Destinations
      BY <3>1 DEF Sources, Destinations
    <3>3. Target \in Paths \ Sources /\ Change.path # Target
      BY <2>2, <3>2 DEF SignaturesTell
    <3>4. PICK a \in Sources, b \in Paths \ Sources : a = Change.path /\ b = Target
      BY <3>2, <3>3
    <3>5. /\ a # b /\ a \in Paths /\ disk[a] # NoFile /\ clock' = clock
          /\ disk' = [disk EXCEPT ![b] = disk[a], ![a] = NoFile]
      BY <2>2, <2>5, <3>3, <3>4 DEF Existing
    <3> QED
      BY <3>5 DEF DiskStep
  <2> QED
    BY <1>1, <2>3, <2>4, <2>5, ApplyCases
<1>2. CASE TruncateRenamed \/ FillFile
  <2>1. editor.pc \in MidBatch /\ (Write(Target, EmptyFile) \/ Write(Target, Change.content))
    BY <1>2 DEF TruncateRenamed, FillFile, MidBatch
  <2>2. Target \in Paths /\ EmptyFile \in Symbols /\ Change.content \in Symbols
    BY <2>1, ChangeOK DEF Symbols
  <2> QED
    BY <2>1, <2>2 DEF DiskStep
<1>3. CASE RollbackOne \/ RollbackFails
  <2>1. /\ Last.target \in Paths /\ Last.saved \in Symbols \cup {NoFile} /\ EmptyFile \in Symbols
    BY <1>3, LastOK DEF RollbackOne, RollbackFails, Symbols
  <2>2. \/ Last.saved # NoFile /\ Write(Last.target, Last.saved)
        \/ disk' = [disk EXCEPT ![Last.target] = NoFile] /\ clock' = clock
        \/ NoWrite \/ Write(Last.target, EmptyFile)
    BY <1>3 DEF RollbackOne, RollbackFails
  <2> QED
    BY <2>1, <2>2 DEF DiskStep
<1>4. CASE NoWrite
  BY <1>4 DEF DiskStep
<1>5. ASSUME \/ \E b \in Batches, atomic \in BOOLEAN : BeginBatch(b, atomic)
             \/ BackupTargets \/ BackupFails \/ ApplyFails
             \/ DropSnapshot \/ BumpGeneration \/ StopWarmer
      PROVE  NoWrite
  BY <1>5 DEF BeginBatch, BackupTargets, BackupFails, ApplyFails, DropSnapshot, BumpGeneration,
      StopWarmer, NoWrite
<1> QED
  BY <1>1, <1>2, <1>3, <1>4, <1>5 DEF EditorNext

\* The editor's steps keep entries and threads sound.
LEMMA EditorSigned ==
    ASSUME SignaturesTell, CatalogTypes, Signed, EditorNext PROVE Signed'
<1>1. DiskOK /\ DiskStep /\ Aged(disk, clock)
  BY EditorDisk DEF CatalogTypes, Signed
<1>2. UNCHANGED <<reader, codemap>>
  BY EditorApart
<1>3. ASSUME NEW p \in Paths, codemap[p] # NoEntry
      PROVE  Sound(disk', clock', p, codemap[p].sig, codemap[p].symbols)
  <2>1. codemap[p].sig \in Signatures /\ codemap[p].symbols \in Symbols
    BY <1>3 DEF CatalogTypes, CacheOK, Entries
  <2>2. Sound(disk, clock, p, codemap[p].sig, codemap[p].symbols)
    BY <1>3 DEF Signed
  <2> QED
    BY <1>1, <2>1, <2>2, DiskStepSigned
<1>4. ASSUME NEW t \in Threads PROVE InHand(disk', clock', reader[t])
  <2>1. ThreadOK(t, reader[t], scanLock) /\ InHand(disk, clock, reader[t])
    BY DEF CatalogTypes, ThreadsOK, Signed
  <2>2. CASE reader[t].pc = "read"
    <3>1. reader[t].path \in Paths /\ reader[t].sig \in Signatures
      BY <2>1, <2>2 DEF ThreadOK
    <3> QED
      BY <1>1, <2>1, <2>2, <3>1, DiskStepSigned DEF InHand
  <2>3. CASE reader[t].pc \in {"check", "insert"}
    <3>1. reader[t].path \in Paths /\ reader[t].sig \in Signatures /\ reader[t].symbols \in Symbols
      BY <2>1, <2>3 DEF ThreadOK
    <3> QED
      BY <1>1, <2>1, <2>3, <3>1, DiskStepSigned DEF InHand
  <2> QED
    BY <2>2, <2>3 DEF InHand
<1>5. Aged(disk', clock')
  BY <1>1, DiskStepSigned
<1> QED
  BY <1>2, <1>3, <1>4, <1>5 DEF Signed

\* One thread's record changes, and the codemap does not.
LEMMA OneThreadSigned ==
    ASSUME Signed, UNCHANGED <<disk, clock, codemap>>, NEW t \in Threads, NEW r, Becomes(t, r),
           InHand(disk, clock, r)
    PROVE  Signed'
<1>1. \A u \in Threads : InHand(disk, clock, reader'[u])
  BY DEF Signed, Becomes
<1> QED
  BY <1>1 DEF Signed

\* The signature of a file as it is now is current.
LEMMA SignatureCurrent ==
    ASSUME DiskOK, Aged(disk, clock), NEW p \in Existing
    PROVE  Current(disk, clock, p, FileSignature(disk[p]))
<1>1. p \in Paths /\ disk[p] # NoFile /\ FileSignature(disk[p])[1] = disk[p].modified
  BY SignatureOK DEF Existing
<1> QED
  BY <1>1 DEF Current, Aged

\* A thread from its miss to its insert: the signature it takes is current, the
\* content it then reads makes it sound, and it is inserted as it is.
LEMMA SymbolStepsSigned ==
    ASSUME CatalogTypes, Signed, UNCHANGED <<disk, clock>>, NEW t \in Threads,
           \/ \E p \in Paths : t \in Readers /\ QuerySymbols(t, p)
           \/ ReadFile(t) \/ CheckGeneration(t) \/ InsertSymbols(t)
    PROVE  Signed'
<1> USE DEF CatalogTypes
<1>0. ThreadOK(t, reader[t], scanLock) /\ InHand(disk, clock, reader[t])
  BY DEF ThreadsOK, Signed
<1> DEFINE after == IF t \in Warmers
                    THEN [Resting EXCEPT !.pc = "warm", !.gen = reader[t].gen,
                                         !.todo = reader[t].todo]
                    ELSE Resting
<1>1. InHand(disk, clock, after)
  <2>1. after.pc \in {"warm", "idle"}
    BY DEF Resting
  <2> QED
    BY <2>1 DEF InHand
<1>2. AfterSymbols(t) => Becomes(t, after)
  BY Updates
<1> HIDE DEF after
<1>3. ASSUME NEW p \in Paths, QuerySymbols(t, p) PROVE Signed'
  <2>1. UNCHANGED codemap /\ p \in Existing
    BY <1>3 DEF QuerySymbols, cacheVars
  <2>2. CASE UNCHANGED reader
    BY <2>1, <2>2 DEF Signed
  <2>3. CASE Reads(t, p)
    <3> DEFINE r == [reader[t] EXCEPT !.pc = "read", !.path = p, !.sig = FileSignature(disk[p])]
    <3>1. Becomes(t, r)
      BY <2>3, Updates
    <3>2. r.pc = "read" /\ r.path = p /\ r.sig = FileSignature(disk[p])
      BY <1>0 DEF ThreadOK, ThreadFields
    <3>3. Current(disk, clock, p, FileSignature(disk[p]))
      BY <2>1, SignatureCurrent DEF Signed
    <3>4. InHand(disk, clock, r)
      <4> HIDE DEF r
      <4> QED
        BY <3>2, <3>3 DEF InHand
    <3> QED
      BY <2>1, <3>1, <3>4, OneThreadSigned
  <2> QED
    BY <1>3, <2>2, <2>3 DEF QuerySymbols
<1>4. CASE ReadFile(t)
  <2>1. UNCHANGED codemap /\ reader[t].pc = "read"
    BY <1>4 DEF ReadFile, Busy, cacheVars
  <2>2. CASE AfterSymbols(t)
    BY <1>1, <1>2, <2>1, <2>2, OneThreadSigned
  <2>3. CASE /\ reader[t].path \in Existing
             /\ reader' = [reader EXCEPT ![t].pc = "check",
                             ![t].symbols = disk[reader[t].path].content]
    <3> DEFINE r == [reader[t] EXCEPT !.pc = "check", !.symbols = disk[reader[t].path].content]
    <3>1. Becomes(t, r)
      BY <2>3 DEF Becomes, ThreadsOK
    <3>2. /\ r.pc = "check" /\ r.path = reader[t].path /\ r.sig = reader[t].sig
          /\ r.symbols = disk[reader[t].path].content
      BY <1>0 DEF ThreadOK, ThreadFields
    <3>3. Sound(disk, clock, reader[t].path, reader[t].sig, disk[reader[t].path].content)
      BY <1>0, <2>1 DEF InHand, Sound
    <3>4. InHand(disk, clock, r)
      <4> HIDE DEF r
      <4> QED
        BY <3>2, <3>3 DEF InHand
    <3> QED
      BY <2>1, <3>1, <3>4, OneThreadSigned
  <2> QED
    BY <1>4, <2>2, <2>3 DEF ReadFile
<1>5. CASE CheckGeneration(t)
  <2>1. UNCHANGED codemap /\ reader[t].pc = "check"
    BY <1>5 DEF CheckGeneration, Busy, cacheVars
  <2>2. CASE AfterSymbols(t)
    BY <1>1, <1>2, <2>1, <2>2, OneThreadSigned
  <2>3. CASE Goes(t, "insert")
    <3> DEFINE r == [reader[t] EXCEPT !.pc = "insert"]
    <3>1. Becomes(t, r)
      BY <2>3, Updates
    <3>2. /\ r.pc = "insert" /\ r.path = reader[t].path /\ r.sig = reader[t].sig
          /\ r.symbols = reader[t].symbols
      BY <1>0 DEF ThreadOK, ThreadFields
    <3>3. InHand(disk, clock, r)
      <4> HIDE DEF r
      <4> QED
        BY <1>0, <2>1, <3>2 DEF InHand
    <3> QED
      BY <2>1, <3>1, <3>3, OneThreadSigned
  <2> QED
    BY <1>5, <2>2, <2>3 DEF CheckGeneration
<1>6. CASE InsertSymbols(t)
  <2>1. reader[t].pc = "insert" /\ Becomes(t, after)
    BY <1>2, <1>6 DEF InsertSymbols, Busy
  <2>2. \A u \in Threads : InHand(disk, clock, reader'[u])
    BY <1>1, <2>1 DEF Signed, Becomes
  <2>3. Sound(disk, clock, reader[t].path, reader[t].sig, reader[t].symbols)
    BY <1>0, <2>1 DEF InHand
  <2>4. /\ \A p \in Paths \ {reader[t].path} : codemap'[p] = codemap[p]
        /\ codemap'[reader[t].path].sig = reader[t].sig
        /\ codemap'[reader[t].path].symbols = reader[t].symbols
    <3>1. reader[t].path \in Paths
      BY <1>0, <2>1 DEF ThreadOK
    <3> QED
      BY <1>6, <3>1 DEF InsertSymbols, CacheOK
  <2>5. \A p \in Paths : codemap'[p] # NoEntry =>
           Sound(disk, clock, p, codemap'[p].sig, codemap'[p].symbols)
    BY <2>3, <2>4 DEF Signed
  <2> QED
    BY <2>2, <2>5 DEF Signed
<1> QED
  BY <1>3, <1>4, <1>5, <1>6

\* The threads' steps keep entries and threads sound.
LEMMA ThreadsSigned ==
    ASSUME CatalogTypes, Signed, ThreadNext PROVE Signed'
<1> USE DEF CatalogTypes
<1>0. UNCHANGED <<disk, clock>>
  BY ThreadsApart
<1>1. ASSUME NEW t \in Threads, NEW r, Becomes(t, r), r.pc \notin {"read", "check", "insert"},
             UNCHANGED codemap
      PROVE  Signed'
  BY <1>0, <1>1, OneThreadSigned DEF InHand
<1>2. ASSUME NEW t \in Threads,
             \/ QuerySnapshot(t) \/ BeginScan(t) \/ \E p \in Paths : ScanPath(t, p)
             \/ StoreSnapshot(t)
      PROVE  Signed'
  <2>0. ThreadOK(t, reader[t], scanLock) /\ UNCHANGED codemap
    BY <1>2 DEF ThreadsOK, QuerySnapshot, BeginScan, ScanPath, StoreSnapshot, cacheVars
  <2>1. CASE QuerySnapshot(t)
    <3>1. CASE UNCHANGED reader
      BY <1>0, <2>0, <3>1 DEF Signed
    <3>2. CASE Goes(t, "lock")
      <4>1. Becomes(t, [reader[t] EXCEPT !.pc = "lock"])
        BY <3>2, Updates
      <4>2. [reader[t] EXCEPT !.pc = "lock"].pc = "lock"
        BY <2>0 DEF ThreadOK, ThreadFields
      <4> QED
        BY <1>1, <2>0, <4>1, <4>2
    <3> QED
      BY <2>1, <3>1, <3>2 DEF QuerySnapshot
  <2>2. CASE BeginScan(t)
    <3> DEFINE r == [reader[t] EXCEPT !.pc = "scan", !.todo = Paths, !.list = {}]
    <3>1. Becomes(t, r)
      BY <2>2 DEF BeginScan, Becomes, ThreadsOK
    <3>2. r.pc = "scan"
      BY <2>0 DEF ThreadOK, ThreadFields
    <3> QED
      BY <1>1, <2>0, <3>1, <3>2
  <2>3. ASSUME NEW p \in Paths, ScanPath(t, p) PROVE Signed'
    <3> DEFINE r == [reader[t] EXCEPT !.todo = @ \ {p}, !.list = @ \cup {e \in Listing : e[1] = p}]
    <3>1. Becomes(t, r)
      BY <2>3 DEF ScanPath, Becomes, ThreadsOK
    <3>2. r.pc = "scan"
      BY <2>0, <2>3 DEF ThreadOK, ThreadFields, ScanPath, Busy
    <3> QED
      BY <1>1, <2>0, <3>1, <3>2
  <2>4. CASE StoreSnapshot(t)
    <3> DEFINE r == [reader[t] EXCEPT !.pc = "start", !.gen = generation + 1]
    <3>1. Becomes(t, r)
      BY <2>4 DEF StoreSnapshot, Becomes, ThreadsOK
    <3>2. r.pc = "start"
      BY <2>0 DEF ThreadOK, ThreadFields
    <3> QED
      BY <1>1, <2>0, <3>1, <3>2
  <2> QED
    BY <1>2, <2>1, <2>2, <2>3, <2>4
<1>3. ASSUME NEW t \in Threads, FoundFresh(t) \/ ScanCancelled(t) \/ (t \in Warmers /\ WarmerEnds(t))
      PROVE  Signed'
  <2>1. UNCHANGED codemap /\ Rests(t)
    BY <1>3 DEF FoundFresh, ScanCancelled, WarmerEnds, cacheVars
  <2>2. Becomes(t, Resting) /\ Resting.pc = "idle"
    BY <2>1, Updates DEF Resting
  <2> QED
    BY <1>1, <2>1, <2>2
<1>4. ASSUME NEW t \in Threads, NEW w \in Warmers, StartWarming(t, w) PROVE Signed'
  <2>1. UNCHANGED codemap
    BY <1>4 DEF StartWarming
  <2>2. reader'[t].pc = "idle" /\ reader'[w].pc = "warm"
    <3>1. reader'[t] = Resting
          /\ reader'[w] = [Resting EXCEPT !.pc = "warm", !.gen = reader[t].gen,
                                          !.todo = {e[1] : e \in reader[t].list}]
      BY <1>4, StartWarmingEffect
    <3>2. \A g, T : Resting.pc = "idle"
             /\ [Resting EXCEPT !.pc = "warm", !.gen = g, !.todo = T].pc = "warm"
      BY DEF Resting
    <3> QED
      BY <3>1, <3>2
  <2>3. \A u \in Threads \ {t, w} : reader'[u] = reader[u]
    BY <1>4, StartWarmingEffect
  <2>4. InHand(disk, clock, reader'[t]) /\ InHand(disk, clock, reader'[w])
    BY <2>2 DEF InHand
  <2> QED
    BY <1>0, <2>1, <2>3, <2>4 DEF Signed
<1>5. ASSUME NEW w \in Warmers, WarmNext(w) PROVE Signed'
  <2>1. UNCHANGED codemap /\ reader[w].pc = "warm" /\ w \in Threads
    BY <1>5 DEF WarmNext, cacheVars, Busy, Threads
  <2>2. ThreadOK(w, reader[w], scanLock)
    BY <2>1 DEF ThreadsOK
  <2> DEFINE rest(p) == [reader[w] EXCEPT !.todo = @ \ {p}]
             R(p) == IF p \in Existing /\ ~Hit(p)
                     THEN [rest(p) EXCEPT !.pc = "read", !.path = p,
                                          !.sig = FileSignature(disk[p])]
                     ELSE rest(p)
  <2>3. PICK p \in reader[w].todo : reader' = [reader EXCEPT ![w] = R(p)]
    BY <1>5 DEF WarmNext
  <2>4. Becomes(w, R(p))
    <3> HIDE DEF R
    <3> QED
      BY <2>1, <2>3 DEF Becomes, ThreadsOK
  <2>5. /\ p \in Existing /\ R(p).pc = "read" /\ R(p).path = p /\ R(p).sig = FileSignature(disk[p])
        \/ R(p).pc = "warm"
    BY <2>1, <2>2 DEF ThreadOK, ThreadFields
  <2>6. p \in Existing => Current(disk, clock, p, FileSignature(disk[p]))
    BY SignatureCurrent DEF Signed
  <2> HIDE DEF R
  <2>7. InHand(disk, clock, R(p))
    BY <2>5, <2>6 DEF InHand
  <2> QED
    BY <1>0, <2>1, <2>4, <2>7, OneThreadSigned
<1> QED
  BY <1>0, <1>2, <1>3, <1>4, <1>5, SymbolStepsSigned
     DEF ThreadNext, ReaderNext, WarmerNext, Threads

\* At first there are no entries.
LEMMA SignedInit == ASSUME SignaturesTell, CatalogInit PROVE Signed
<1>1. disk \in Initial /\ clock = Cardinality(Paths)
  BY DEF CatalogInit
<1>2. clock \in Nat
  BY <1>1, FsCatalogAssumption, FS_CardinalityType
<1>3. \A p \in Paths : disk[p] # NoFile => disk[p].modified \in 0..clock
  BY <1>1, FsCatalogAssumption DEF Files
<1>4. Aged(disk, clock)
  BY <1>1, <1>2, <1>3 DEF Aged, SignaturesTell
<1>5. \A t \in Threads : reader[t].pc = "idle"
  BY DEF CatalogInit, Resting
<1>6. \A p \in Paths : codemap[p] = NoEntry
  BY DEF CatalogInit
<1> QED
  BY <1>4, <1>5, <1>6 DEF Signed, InHand

\* A codemap hit has the symbols of the file's content, wherever signatures tell a
\* path's versions apart (code_symbols_for_allowed and warm_codemap_for_snapshot
\* against the edits of apply_file_batch).
THEOREM SymbolsNeverStaleHolds ==
    ASSUME SignaturesTell PROVE CatalogSpec => []SymbolsNeverStale
<1>1. CatalogInit => Signed
  BY SignedInit
<1>2. CatalogTypes /\ Signed /\ [CatalogNext]_catalogVars => Signed'
  <2> SUFFICES ASSUME CatalogTypes, Signed, [CatalogNext]_catalogVars PROVE Signed'
    OBVIOUS
  <2>1. CASE EditorNext
    BY <2>1, EditorSigned
  <2>2. CASE ThreadNext
    BY <2>2, ThreadsSigned
  <2>3. CASE SnapshotExpires \/ UNCHANGED catalogVars
    <3>1. UNCHANGED <<disk, clock, codemap, reader>>
      BY <2>3 DEF SnapshotExpires, catalogVars, cacheVars
    <3> QED
      BY <3>1 DEF Signed
  <2> QED
    BY <2>1, <2>2, <2>3 DEF CatalogNext, ThreadNext
<1>3. CatalogTypes /\ Signed => SymbolsNeverStale
  <2> SUFFICES ASSUME CatalogTypes, Signed, NEW p \in Existing, Hit(p)
               PROVE  codemap[p].symbols = disk[p].content
    BY DEF SymbolsNeverStale
  <2>1. p \in Paths /\ disk[p] # NoFile /\ FileSignature(disk[p])[1] = disk[p].modified
    BY SignatureOK DEF CatalogTypes, Existing
  <2>2. codemap[p] # NoEntry /\ codemap[p].sig[1] = disk[p].modified
    BY <2>1 DEF Hit
  <2> QED
    BY <2>1, <2>2 DEF Signed, Sound
<1> QED
  BY <1>1, <1>2, <1>3, CatalogTypesCorrect, PTL DEF CatalogSpec
=============================================================================
