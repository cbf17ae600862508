------------------------- MODULE DelegateLiveProofs -------------------------
(***************************************************************************)
(* The live delegated session for any number of delegate.steer jobs: the   *)
(* sealed tape is complete, the agent process has one owner and is reaped  *)
(* on every path, and the resumable id survives the unlocked rewrites of   *)
(* the record.                                                             *)
(*                                                                         *)
(* None of the three is inductive.  The argument is what the start thread  *)
(* has done by each of its phases: until it registers the handle nobody    *)
(* else can touch the session (Unreachable); the slot and the child follow *)
(* its phase (SlotFollows); the tape in the handle equals the turns that   *)
(* ended, because they are recorded under the session mutex (TapeFollows). *)
(* Of the record: the start thread updates it before anybody else can      *)
(* (UpdatesFollow); once the id is stored, every record that is under some *)
(* name or in somebody's hands has it (IdEverywhere); and as long as no    *)
(* two have been writing at once, what is renamed is whole (OneWriter).    *)
(*                                                                         *)
(* The second half is the agent that is not delegated to another process:  *)
(* the loop of AgentRun, whose specification is named apart (AgentSpec).   *)
(***************************************************************************)
EXTENDS DelegateLive, AgentRun, SequenceTheorems, NaturalsInduction,
        WellFoundedInduction, TLAPS

\* The phases of the start thread before the handle exists, after turn 1 there,
\* and while the handle is in use.
Before == {"turn1", "check", "update", "register"}
Alone == Before \ {"turn1"}

\* No handle yet: nobody else has reached the session.
Unreachable ==
    slot = "none" =>
        /\ ~registered /\ closer = "idle"
        /\ \A s \in Steers : steer[s] \in {"idle", "unknown"}
        /\ turns = <<>> /\ sealed = NotSealed

\* The slot and the child in each phase of the start thread: a driver in its
\* slot has a child to run on, a slot that was emptied has had it reaped;
\* a job that returns has a result.
SlotFollows ==
    /\ start \in Before => slot = "none" /\ child # "reaped"
    /\ start \in {"parked", "shutdown"} => slot # "none"
    /\ start \in {"deregister", "drain", "sealed"} => slot = "taken"
    /\ start \in {"return", "done"} => slot # "driver" /\ child = "reaped"
    /\ slot = "taken" => child = "reaped"
    /\ slot = "driver" => child # "reaped"
    /\ start = "return" => result \in Terminal

\* The capture accumulator in each phase of the start thread.
TapeFollows ==
    /\ start = "turn1" => completed = <<>>
    /\ start \in Alone => completed = <<Start>>
    /\ start \in {"parked", "shutdown", "deregister", "drain"} =>
          turns = completed /\ sealed = NotSealed

\* Where each actor's update can stand, and that none has been overtaken before
\* the session can be reached.
UpdatesFollow ==
    /\ start \in {"turn1", "check"} => persist[Start] = "load"
    /\ start \notin {"turn1", "check", "update"} => persist[Start] \in {"load", "done"}
    /\ closer = "idle" => persist[Closer] = "load"
    /\ \A s \in Steers : steer[s] # "update" => persist[s] = "load"
    /\ slot = "none" => ~overlapped

\* Once the id is stored: it is in every record that somebody could read or is
\* going to write, and the start thread has done its update.
IdEverywhere ==
    id_stored =>
        /\ record.is # "absent"
        /\ record.is = "whole" => record.id_known
        /\ tmp.is = "whole" => tmp.id_known
        /\ \A a \in Actors : persist[a] \in {"open", "write"} => copy[a].id_known
        /\ persist[Start] = "done"

\* Without overlap one update at a time has the temporary file, which is empty
\* until it is written and whole until it is renamed.
OneWriter ==
    /\ \A a \in Actors : persist[a] \in {"open", "write"} => copy[a].is = "whole"
    /\ ~overlapped =>
        /\ record.is \in {"absent", "whole"}
        /\ \A a, b \in Actors :
             persist[a] \in {"write", "rename"} /\ persist[b] \in {"write", "rename"} => a = b
        /\ \A a \in Actors : persist[a] = "write" => fd[a] = "tmp" /\ tmp.is = "empty"
        /\ \A a \in Actors : persist[a] = "rename" => tmp.is = "whole"

\* The inductive invariant.
LiveInv ==
    /\ TypeOK /\ Unreachable /\ SlotFollows /\ TapeFollows /\ UpdatesFollow
    /\ TapeComplete /\ ChildOwned
    /\ IdEverywhere /\ OneWriter

-----------------------------------------------------------------------------
\* The session as run_delegate_start leaves it when it has spawned the child.
LEMMA InitLive == Init => LiveInv
<1> SUFFICES ASSUME Init PROVE LiveInv
    OBVIOUS
<1>1. /\ Blank("absent") \in Files /\ Blank("whole") \in Files
      /\ NotSealed \in Seq(Steers \cup {Start, Nobody})
    BY DEF Blank, Files, NotSealed
<1>2. TypeOK
    <2>1. /\ token \in BOOLEAN /\ registered \in BOOLEAN /\ close_requested \in BOOLEAN
          /\ idle_announced \in BOOLEAN /\ steer_token \in [Steers -> BOOLEAN]
        BY DEF Init
    <2>2. turns \in Seq(Steers \cup {Start}) /\ completed \in Seq(Steers \cup {Start})
        BY DEF Init
    <2>3. /\ record \in Files /\ tmp \in Files /\ copy \in [Actors -> Files]
          /\ sealed \in Seq(Steers \cup {Start, Nobody})
        BY <1>1 DEF Init
    <2>4. /\ fd \in [Actors -> {"none", "tmp", "record", "gone"}]
          /\ persist \in [Actors -> {"load", "open", "write", "rename", "done"}]
        BY DEF Init
    <2>5. overlapped \in BOOLEAN /\ id_stored \in BOOLEAN
        BY DEF Init
    <2> QED BY <2>1, <2>2, <2>3, <2>4, <2>5 DEF Init, TypeOK, StartPhases, SteerPhases, Terminal
<1>3. Unreachable /\ SlotFollows /\ TapeFollows /\ TapeComplete /\ ChildOwned
    BY DEF Init, Unreachable, SlotFollows, TapeFollows, TapeComplete,
           ChildOwned, Before, Alone
<1>4. UpdatesFollow /\ IdEverywhere /\ OneWriter
    BY DEF Init, UpdatesFollow, IdEverywhere, OneWriter, Blank, Actors
<1> QED BY <1>2, <1>3, <1>4 DEF LiveInv

\* Steps that do not touch the record leave what is said of it as it is.
LEMMA StoreKept ==
    ASSUME LiveInv, UNCHANGED storeVars
    PROVE  IdEverywhere' /\ OneWriter'
BY DEF LiveInv, IdEverywhere, OneWriter, storeVars

\* The steps of a record update.
LEMMA UpdateKeeps ==
    ASSUME LiveInv, NEW a \in Actors, UpdateStep(a)
    PROVE  LiveInv'
<1>1. UNCHANGED sessionVars
    BY DEF UpdateStep, LoadRecord, OpenTemp, WriteTemp, RenameTemp, UpdateFails
<1>2. Unreachable' /\ SlotFollows' /\ TapeFollows' /\ TapeComplete' /\ ChildOwned'
    BY <1>1 DEF LiveInv, Unreachable, SlotFollows, TapeFollows, TapeComplete, ChildOwned,
        sessionVars, startVars, cancelVars, handleVars, tapeVars
<1>3. /\ TypeOK /\ UpdatesFollow /\ IdEverywhere /\ OneWriter /\ SlotFollows /\ Unreachable
    BY DEF LiveInv
<1>4. /\ copy[a] \in Files /\ record \in Files /\ tmp \in Files
      /\ \A is \in {"absent", "empty", "torn", "whole"} : Blank(is) \in Files
    BY <1>3 DEF TypeOK, Files, Blank
<1>5. ASSUME NEW s \in Steers PROVE s \in Actors /\ s # Start /\ s # Closer
    BY <1>5, ActorsAssumption DEF Actors
<1>6. Start \in Actors /\ Closer \in Actors
    BY DEF Actors
<1>7. \A r \in Changes(a, record) : r \in Files /\ r.is = record.is
                                   /\ (a # Start => r.id_known = record.id_known)
    <2>1. \A b \in BOOLEAN : LET r == [record EXCEPT !.id_known = b]
                             IN  r \in Files /\ r.is = record.is
        BY <1>4 DEF Files
    <2>2. LET r == [record EXCEPT !.finished = TRUE]
          IN  r \in Files /\ r.is = record.is /\ r.id_known = record.id_known
        BY <1>4 DEF Files
    <2>3. CASE a = Start
        BY <2>1, <2>3 DEF Changes
    <2>4. CASE a # Start
        BY <1>4, <2>2, <2>4 DEF Changes
    <2> QED BY <2>3, <2>4
<1>8. /\ Overlaid(tmp, copy[a]) \in {copy[a], Blank("torn")}
      /\ Overlaid(record, copy[a]) \in {copy[a], Blank("torn")}
      /\ tmp.is = "empty" => Overlaid(tmp, copy[a]) = copy[a]
    BY DEF Overlaid
<1>9. a = Start => start = "update" /\ slot = "none" /\ ~overlapped
                   /\ \A b \in Actors \ {Start} : persist[b] = "load"
    <2>1. Updating(a)
        BY DEF UpdateStep, LoadRecord, OpenTemp, WriteTemp, RenameTemp, UpdateFails, UpdateAt
    <2>2. a = Start => start = "update"
        BY <2>1, ActorsAssumption DEF Updating, Actors
    <2>3. start = "update" => slot = "none"
        BY <1>3 DEF SlotFollows, Before
    <2>4. slot = "none" => ~overlapped /\ closer = "idle"
                           /\ \A s \in Steers : steer[s] # "update"
        BY <1>3 DEF UpdatesFollow, Unreachable
    <2> QED BY <1>3, <2>2, <2>3, <2>4 DEF UpdatesFollow, Actors
<1>10. Updating(a) /\ slot = "none" => a = Start
    BY <1>3, <1>5 DEF Updating, Unreachable
<1> HIDE DEF Overlaid, Changes, Blank
<1>11. TypeOK'
    <2>1. /\ start \in StartPhases /\ result \in Terminal \cup {"none"}
          /\ job \in Terminal \cup {"running", "cancelling"} /\ token \in BOOLEAN
          /\ canceller \in {"idle", "closing", "done"} /\ closer \in {"idle", "update"}
          /\ registered \in BOOLEAN /\ slot \in {"none", "driver", "taken"}
          /\ holder \in Steers \cup {Nobody} /\ close_requested \in BOOLEAN
          /\ child \in {"alive", "exited", "reaped"}
          /\ steer \in [Steers -> SteerPhases] /\ steer_token \in [Steers -> BOOLEAN]
          /\ turns \in Seq(Steers \cup {Start}) /\ completed \in Seq(Steers \cup {Start})
          /\ sealed \in Seq(Steers \cup {Start, Nobody}) /\ idle_announced \in BOOLEAN
        BY <1>3 DEF TypeOK
    <2>2. /\ record' \in Files /\ tmp' \in Files /\ copy' \in [Actors -> Files]
          /\ fd' \in [Actors -> {"none", "tmp", "record", "gone"}]
          /\ persist' \in [Actors -> {"load", "open", "write", "rename", "done"}]
        <3>1. /\ copy \in [Actors -> Files] /\ fd \in [Actors -> {"none", "tmp", "record", "gone"}]
              /\ persist \in [Actors -> {"load", "open", "write", "rename", "done"}]
            BY <1>3 DEF TypeOK
        <3>2. CASE LoadRecord(a)
            BY <3>1, <3>2, <1>4, <1>7 DEF LoadRecord, Advance
        <3>3. CASE OpenTemp(a)
            BY <3>1, <3>3, <1>4 DEF OpenTemp, Advance
        <3>4. CASE WriteTemp(a)
            BY <3>1, <3>4, <1>4, <1>8 DEF WriteTemp, Advance
        <3>5. CASE RenameTemp(a)
            BY <3>1, <3>5, <1>4 DEF RenameTemp, Advance
        <3>6. CASE UpdateFails(a)
            BY <3>1, <3>6, <1>4 DEF UpdateFails, Advance
        <3> QED BY <3>2, <3>3, <3>4, <3>5, <3>6 DEF UpdateStep
    <2>3. overlapped' \in BOOLEAN
        <3>1. overlapped \in BOOLEAN
            BY <1>3 DEF TypeOK
        <3> QED BY <3>1 DEF UpdateStep, LoadRecord, OpenTemp, WriteTemp, RenameTemp, UpdateFails
    <2>4. id_stored' \in BOOLEAN
        <3>1. id_stored \in BOOLEAN
            BY <1>3 DEF TypeOK
        <3>2. tmp.id_known \in BOOLEAN
            BY <1>4 DEF Files
        <3> QED BY <3>1, <3>2 DEF UpdateStep, LoadRecord, OpenTemp, WriteTemp, RenameTemp, UpdateFails
    <2> QED BY <1>1, <2>1, <2>2, <2>3, <2>4
        DEF TypeOK, sessionVars, startVars, cancelVars, handleVars, tapeVars
<1>12. UpdatesFollow'
    <2>1. /\ \E to \in {"open", "write", "rename", "done"} : persist' = [persist EXCEPT ![a] = to]
          /\ Updating(a)
        BY DEF UpdateStep, LoadRecord, OpenTemp, WriteTemp, RenameTemp, UpdateFails, Advance, UpdateAt
    <2>2. slot = "none" => ~overlapped'
        BY <1>3, <1>9, <1>10, <2>1
        DEF UpdateStep, LoadRecord, OpenTemp, WriteTemp, RenameTemp, UpdateFails, UpdatesFollow,
            UpdateAt
    <2>3. persist \in [Actors -> {"load", "open", "write", "rename", "done"}]
        BY <1>3 DEF TypeOK
    <2> QED BY <1>1, <1>3, <1>5, <1>6, <2>1, <2>2, <2>3, ActorsAssumption
        DEF UpdatesFollow, Updating, sessionVars, startVars, handleVars
<1>13. OneWriter'
    <2>1. /\ copy \in [Actors -> Files] /\ fd \in [Actors -> {"none", "tmp", "record", "gone"}]
          /\ persist \in [Actors -> {"load", "open", "write", "rename", "done"}]
        BY <1>3 DEF TypeOK
    <2>2. Blank("empty").is = "empty" /\ Blank("torn").is = "torn" /\ Blank("absent").is = "absent"
        BY DEF Blank
    <2>3. CASE LoadRecord(a)
        BY <1>3, <1>7, <2>1, <2>3 DEF OneWriter, LoadRecord, Advance, UpdateAt
    <2>4. CASE OpenTemp(a)
        BY <1>3, <2>1, <2>2, <2>4 DEF OneWriter, OpenTemp, Advance, UpdateAt
    <2>5. CASE WriteTemp(a)
        BY <1>3, <1>8, <2>1, <2>2, <2>5 DEF OneWriter, WriteTemp, Advance, UpdateAt
    <2>6. CASE RenameTemp(a)
        BY <1>3, <2>1, <2>2, <2>6 DEF OneWriter, RenameTemp, Advance, UpdateAt
    <2>7. CASE UpdateFails(a)
        BY <1>3, <2>1, <2>2, <2>7 DEF OneWriter, UpdateFails, Advance
    <2> QED BY <2>3, <2>4, <2>5, <2>6, <2>7 DEF UpdateStep
<1>14. IdEverywhere'
    <2>1. /\ copy \in [Actors -> Files] /\ fd \in [Actors -> {"none", "tmp", "record", "gone"}]
          /\ persist \in [Actors -> {"load", "open", "write", "rename", "done"}]
        BY <1>3 DEF TypeOK
    <2>2. Blank("empty").is = "empty" /\ Blank("torn").is = "torn" /\ Blank("absent").is = "absent"
        BY DEF Blank
    <2>3. CASE LoadRecord(a)
        <3>1. id_stored => a # Start
            BY <1>3, <2>3 DEF IdEverywhere, LoadRecord, UpdateAt
        <3> QED BY <1>3, <1>6, <1>7, <2>1, <2>3, <3>1 DEF IdEverywhere, LoadRecord, Advance, UpdateAt
    <2>4. CASE OpenTemp(a)
        BY <1>3, <1>6, <2>1, <2>2, <2>4 DEF IdEverywhere, OpenTemp, Advance, UpdateAt
    <2>5. CASE WriteTemp(a)
        <3>1. copy[a].is = "whole" /\ (id_stored => copy[a].id_known /\ a # Start)
            BY <1>3, <2>5 DEF OneWriter, IdEverywhere, WriteTemp, UpdateAt
        <3>2. id_stored => /\ record'.is # "absent" /\ (record'.is = "whole" => record'.id_known)
                           /\ tmp'.is = "whole" => tmp'.id_known
            BY <1>3, <1>8, <2>2, <2>5, <3>1 DEF IdEverywhere, WriteTemp
        <3> QED BY <1>3, <1>6, <2>1, <2>5, <3>1, <3>2 DEF IdEverywhere, WriteTemp, Advance
    <2>6. CASE RenameTemp(a)
        <3>1. CASE a = Start /\ tmp.id_known
            <4>1. tmp.is = "whole"
                BY <1>3, <1>9, <2>6, <3>1 DEF OneWriter, RenameTemp, UpdateAt
            <4>2. \A b \in Actors : persist'[b] \in {"load", "done"}
                BY <1>9, <2>1, <2>6, <3>1 DEF RenameTemp, Advance
            <4> QED BY <1>6, <2>1, <2>2, <2>6, <3>1, <4>1, <4>2 DEF IdEverywhere, RenameTemp, Advance
        <3>2. CASE ~(a = Start /\ tmp.id_known)
            <4>1. id_stored' = id_stored
                BY <1>3, <2>6, <3>2 DEF RenameTemp, TypeOK
            <4> QED BY <1>3, <1>6, <2>1, <2>2, <2>6, <4>1 DEF IdEverywhere, RenameTemp, Advance, UpdateAt
        <3> QED BY <3>1, <3>2
    <2>7. CASE UpdateFails(a)
        BY <1>3, <1>6, <2>1, <2>2, <2>7 DEF IdEverywhere, UpdateFails, Advance
    <2> QED BY <2>3, <2>4, <2>5, <2>6, <2>7 DEF UpdateStep
<1> QED BY <1>2, <1>11, <1>12, <1>13, <1>14 DEF LiveInv

\* The delegate.start thread.
LEMMA StartKeeps ==
    ASSUME LiveInv, StartStep
    PROVE  LiveInv'
<1>0. UNCHANGED storeVars
    BY DEF StartStep, Turn1Ok, Turn1Fails, CheckToken, AnnounceIdle, Register, WakeUp,
           Shutdown, Deregister, Seal, Return, FinishJob
<1>20. IdEverywhere' /\ OneWriter'
    BY <1>0, StoreKept
<1> USE <1>20
<1> USE ActorsAssumption
    DEF LiveInv, TypeOK, Unreachable, SlotFollows, TapeFollows, UpdatesFollow,
        TapeComplete, ChildOwned, Before, Alone, StartPhases, SteerPhases,
        Terminal, Actors, startVars, cancelVars, handleVars, tapeVars, storeVars
<1>1. CASE Turn1Ok
    BY <1>1 DEF Turn1Ok
<1>2. CASE Turn1Fails
    BY <1>2 DEF Turn1Fails
<1>3. CASE CheckToken
    BY <1>3 DEF CheckToken
<1>6. CASE AnnounceIdle
    BY <1>6 DEF AnnounceIdle
<1>7. CASE Register
    BY <1>7 DEF Register
<1>8. CASE WakeUp
    BY <1>8 DEF WakeUp
<1>9. CASE Shutdown
    BY <1>9 DEF Shutdown
<1>10. CASE Deregister
    <2>1. registered' \in BOOLEAN /\ ~registered'
        BY <1>10 DEF Deregister
    <2>2. /\ start = "deregister" /\ start' = "drain"
          /\ UNCHANGED <<result, job, cancelVars, closer, slot, close_requested, holder,
                         child, steer, steer_token, tapeVars, idle_announced, storeVars>>
        BY <1>10 DEF Deregister
    <2> QED BY <2>1, <2>2
<1>11. CASE Seal
    BY <1>11 DEF Seal
<1>12. CASE Return
    BY <1>12 DEF Return
<1>13. CASE FinishJob
    BY <1>13 DEF FinishJob
<1> QED BY <1>1, <1>2, <1>3, <1>6, <1>7, <1>8, <1>9, <1>10, <1>11, <1>12, <1>13 DEF StartStep

\* The agent, job.cancel and delegate.close.
LEMMA OthersKeep ==
    ASSUME LiveInv, 
           ChildExits \/ CancelJob \/ CancelClosesSession
           \/ CloseSession
    PROVE  LiveInv'
<1>0. UNCHANGED storeVars
    BY DEF ChildExits, CancelJob, CancelClosesSession, CloseSession
<1>20. IdEverywhere' /\ OneWriter'
    BY <1>0, StoreKept
<1> USE <1>20
<1> USE ActorsAssumption
    DEF LiveInv, TypeOK, Unreachable, SlotFollows, TapeFollows, UpdatesFollow,
        TapeComplete, ChildOwned, Before, Alone, StartPhases, SteerPhases,
        Terminal, Actors, startVars, cancelVars, handleVars, tapeVars, storeVars
<1>1. CASE ChildExits
    BY <1>1 DEF ChildExits
<1>2. CASE CancelJob
    BY <1>2 DEF CancelJob
<1>3. CASE CancelClosesSession
    BY <1>3 DEF CancelClosesSession
<1>4. CASE CloseSession
    BY <1>4 DEF CloseSession
<1> QED BY <1>1, <1>2, <1>3, <1>4

\* A delegate.steer job and its cancellation.
LEMMA SteerKeeps ==
    ASSUME LiveInv, NEW s \in Steers, SteerStep(s) \/ CancelSteer(s)
    PROVE  LiveInv'
<1>0. UNCHANGED storeVars
    BY DEF SteerStep, CancelSteer, SteerLookup, SteerAgent, SteerBegin, SteerTurnOk,
           SteerTurnFatal, SteerWriteFails, SteerSignal, SteerAnnounce
<1>20. IdEverywhere' /\ OneWriter'
    BY <1>0, StoreKept
<1> USE <1>20
<1> USE ActorsAssumption
    DEF LiveInv, TypeOK, Unreachable, SlotFollows, TapeFollows, UpdatesFollow,
        TapeComplete, ChildOwned, Before, Alone, StartPhases, SteerPhases,
        Terminal, Actors, startVars, cancelVars, handleVars, tapeVars, storeVars
<1>1. CASE SteerLookup(s)
    BY <1>1 DEF SteerLookup, Goto
<1>2. CASE SteerAgent(s)
    BY <1>2 DEF SteerAgent, Goto
<1>3. CASE SteerBegin(s)
    <2>1. CASE slot = "driver"
        BY <1>3, <2>1 DEF SteerBegin, Goto
    <2>2. CASE slot # "driver"
        <3>1. /\ steer' = [steer EXCEPT ![s] = "closed"] /\ steer[s] = "lock"
              /\ UNCHANGED <<holder, startVars, cancelVars, closer, handleVars, child,
                             steer_token, tapeVars, idle_announced, storeVars>>
            BY <1>3, <2>2 DEF SteerBegin, Goto
        <3>2. \A t \in Steers : steer'[t] = IF t = s THEN "closed" ELSE steer[t]
            BY <3>1
        <3> QED BY <3>1, <3>2
    <2> QED BY <2>1, <2>2
<1>4. CASE SteerTurnOk(s)
    BY <1>4 DEF SteerTurnOk, Goto
<1>5. CASE SteerTurnFatal(s)
    BY <1>5 DEF SteerTurnFatal, Goto
<1>6. CASE SteerWriteFails(s)
    BY <1>6 DEF SteerWriteFails, Goto
<1>7. CASE SteerSignal(s)
    BY <1>7 DEF SteerSignal, Goto
<1>8. CASE SteerAnnounce(s)
    <2>1. steer_token[s] \in BOOLEAN /\ idle_announced' \in BOOLEAN
        BY <1>8 DEF SteerAnnounce
    <2>2. /\ \E p \in {"interrupted", "update"} : steer' = [steer EXCEPT ![s] = p]
          /\ steer[s] = "ended"
          /\ UNCHANGED <<startVars, cancelVars, closer, handleVars, holder, child,
                         steer_token, tapeVars, storeVars>>
        BY <1>8 DEF SteerAnnounce, Goto
    <2> QED BY <2>1, <2>2
<1>11. CASE CancelSteer(s)
    BY <1>11 DEF CancelSteer
<1> QED BY <1>1, <1>2, <1>3, <1>4, <1>5, <1>6, <1>7, <1>8, <1>11 DEF SteerStep

-----------------------------------------------------------------------------
\* Every step of every thread preserves the invariant.
LEMMA NextLive == LiveInv /\ [Next]_vars => LiveInv'
<1> SUFFICES ASSUME LiveInv, [Next]_vars PROVE LiveInv'
    OBVIOUS
<1>1. CASE StartStep
    BY <1>1, StartKeeps
<1>2. CASE \/ ChildExits \/ CancelJob \/ CancelClosesSession
           \/ CloseSession
    BY <1>2, OthersKeep
<1>3. ASSUME NEW s \in Steers, SteerStep(s) \/ CancelSteer(s) PROVE LiveInv'
    BY <1>3, SteerKeeps
<1>4. ASSUME NEW a \in Actors, UpdateStep(a) PROVE LiveInv'
    BY <1>4, UpdateKeeps
<1>5. CASE UNCHANGED vars
    BY <1>5
    DEF vars, LiveInv, TypeOK, Unreachable, SlotFollows, TapeFollows, UpdatesFollow,
        IdEverywhere, OneWriter, TapeComplete, ChildOwned
<1> QED BY <1>1, <1>2, <1>3, <1>4, <1>5 DEF Next

\* The invariant of a live session, for any number of steers.
THEOREM LiveCorrect == Spec => []LiveInv
BY InitLive, NextLive, PTL DEF Spec

\* seal_live_run seals every turn that ended with a result, in order, whatever
\* closes, cancels and steers race with it.
THEOREM TapeCompleteHolds == Spec => []TapeComplete
<1>1. LiveInv => TapeComplete
    BY DEF LiveInv
<1> QED BY <1>1, LiveCorrect, PTL

\* A turn runs on a driver in its slot and a child nobody reaped, one turn at a
\* time, and the start job leaves no process behind.
THEOREM ChildOwnedHolds == Spec => []ChildOwned
<1>1. LiveInv => ChildOwned
    BY DEF LiveInv
<1> QED BY <1>1, LiveCorrect, PTL

\* Once stored, the agent's session id is not lost by any unlocked rewrite of
\* the record, failing ones included, and the record can be read at every moment
\* unless two rewrites have shared the temporary file.
THEOREM ResumeIdHolds == Spec => []ResumeIdKept
<1>1. LiveInv => ResumeIdKept
    <2> SUFFICES ASSUME LiveInv, id_stored PROVE ResumeIdKept
        BY DEF ResumeIdKept
    <2>1. record.is \in {"absent", "empty", "torn", "whole"}
        BY DEF LiveInv, TypeOK, Files
    <2> QED BY <2>1 DEF LiveInv, ResumeIdKept, IdEverywhere, OneWriter
<1> QED BY <1>1, LiveCorrect, PTL

-----------------------------------------------------------------------------
(***************************************************************************)
(* The agent loop that a turn of a session runs (AgentRun).  Its requests  *)
(* pair every tool call with its answer because the history of a run is    *)
(* kept only when the run returned between two responses, and because      *)
(* compaction replaces bodies and nothing else.                            *)
(***************************************************************************)

\* What a history holds.
Messages == [role : {"user", "assistant", "tool"}, calls : Nat, answers : Nat,
             body : {"text", "tiny", "big", "stub"}]

\* Paired, but for the calls of message a that no message follows yet.
PairedBut(h, a) ==
    /\ \A i \in DOMAIN h : \A k \in 1..h[i].calls :
         i # a \/ k <= Len(h) - a =>
           i + k \in DOMAIN h /\ h[i + k].role = "tool" /\ h[i + k].answers = k
    /\ \A i \in DOMAIN h : h[i].role = "tool" =>
         h[i].answers < i /\ h[i - h[i].answers].calls >= h[i].answers

\* The messages after a answer its first calls, and p holds the others.
Answering(h, p, a) ==
    /\ a \in DOMAIN h
    /\ h[a].calls = (Len(h) - a) + Len(p)
    /\ \A j \in 1..Len(p) : p[j] = (Len(h) - a) + j
    /\ PairedBut(h, a)

\* Each turn has one response at most.
Counts ==
    /\ requests <= turn
    /\ pc \in {"turn", "send", "wait", "accepted"} => requests < turn

\* The kept history is paired, and so is the loop's but while it dispatches the
\* calls of the last response.  A run cut by the failure guard ends all this.
HistoriesPaired ==
    /\ history \in Seq(Messages) /\ saved \in Seq(Messages) /\ pending \in Seq(Nat)
    /\ pc = "tool" => pending # <<>>
    /\ ~cut =>
         /\ Paired(saved)
         /\ pc \in {"turn", "send", "wait", "accepted", "stop", "next"} => Paired(history)
         /\ pc \in {"tools", "tool"} => \E a \in DOMAIN history : Answering(history, pending, a)

\* A tool starts, and a response is accepted, before the cancel: what they add
\* are the first messages after it.
Cancels ==
    /\ CancelBoundsWork
    /\ ~cancel => afterCancel = <<>>
    /\ pc \in {"tool", "accepted"} => afterCancel = <<>>
    /\ pc = "stop" => afterCancel \in {<<>>, <<"assistant">>}

\* The inductive invariant of the loop.  RequestsPaired alone is not inductive: it
\* needs the calls still open during dispatch and the history the session kept.
AgentInv == AgentTypeOK /\ Counts /\ HistoriesPaired /\ Cancels
-----------------------------------------------------------------------------
\* g is h with other bodies.
SameShape(h, g) ==
    /\ g \in Seq(Messages) /\ Len(g) = Len(h)
    /\ \A i \in DOMAIN h :
         g[i].role = h[i].role /\ g[i].calls = h[i].calls /\ g[i].answers = h[i].answers

\* The numbers of a message are numbers.
LEMMA MessageFields ==
    ASSUME NEW h \in Seq(Messages)
    PROVE  \A i \in DOMAIN h : h[i].answers \in Nat /\ h[i].calls \in Nat
<1>1. \A i \in DOMAIN h : h[i] \in Messages
  OBVIOUS
<1>2. \A m \in Messages : m.answers \in Nat /\ m.calls \in Nat
  BY DEF Messages
<1> QED
  BY <1>1, <1>2

\* Stubbing some messages changes nothing but their bodies.
LEMMA StubbedKeepsShape ==
    ASSUME NEW h \in Seq(Messages), NEW S PROVE SameShape(h, Stubbed(h, S))
<1> DEFINE g == Stubbed(h, S)
<1>1. DOMAIN h = 1..Len(h) /\ Len(h) \in Nat
  OBVIOUS
<1>2. \A i \in 1..Len(h) : h[i] \in Messages
  OBVIOUS
<1>3. \A i \in 1..Len(h) : [h[i] EXCEPT !.body = "stub"] \in Messages
  BY <1>2 DEF Messages
<1>4. g \in [1..Len(h) -> Messages]
  BY <1>1, <1>2, <1>3 DEF Stubbed
<1>5. g \in Seq(Messages) /\ Len(g) = Len(h)
  BY <1>1, <1>4
<1>6. ASSUME NEW i \in DOMAIN h
      PROVE  g[i].role = h[i].role /\ g[i].calls = h[i].calls /\ g[i].answers = h[i].answers
  <2>1. g[i] = h[i] \/ g[i] = [h[i] EXCEPT !.body = "stub"]
    BY DEF Stubbed
  <2> QED
    BY <2>1, <1>2, <1>1 DEF Messages
<1> QED
  BY <1>5, <1>6 DEF SameShape

\* So does a pass of compaction, whatever the budget,
LEMMA CompactKeepsShape ==
    ASSUME NEW h \in Seq(Messages), NEW b PROVE SameShape(h, Compact(h, b))
BY StubbedKeepsShape DEF Compact, StubbedFrom

\* and the one before a request.
LEMMA PreemptKeepsShape ==
    ASSUME NEW h \in Seq(Messages) PROVE SameShape(h, Preempt(h))
BY CompactKeepsShape DEF Preempt, SameShape

\* Which calls are answered does not depend on the bodies.
LEMMA SameShapePaired ==
    ASSUME NEW h \in Seq(Messages), NEW g, SameShape(h, g), Paired(h) PROVE Paired(g)
<1>1. DOMAIN g = DOMAIN h /\ DOMAIN h = 1..Len(h) /\ Len(h) \in Nat
  BY DEF SameShape
<1>2. \A i \in DOMAIN h : h[i].answers \in Nat
  BY MessageFields
<1>3. ASSUME NEW i \in DOMAIN h, h[i].role = "tool", h[i].answers < i
      PROVE i - h[i].answers \in DOMAIN h
  BY <1>1, <1>2, <1>3
<1> QED
  BY <1>1, <1>2, <1>3 DEF SameShape, Paired

\* Appending a message that neither calls nor answers.
LEMMA AppendPlain ==
    ASSUME NEW h \in Seq(Messages), Paired(h), NEW m \in Messages,
           m.calls = 0, m.role # "tool"
    PROVE  Append(h, m) \in Seq(Messages) /\ Paired(Append(h, m))
<1> DEFINE g == Append(h, m)
<1>1. g \in Seq(Messages) /\ Len(g) = Len(h) + 1 /\ Len(h) \in Nat
  OBVIOUS
<1>2. DOMAIN g = 1..(Len(h) + 1) /\ DOMAIN h = 1..Len(h)
  BY <1>1
<1>3. (\A i \in 1..Len(h) : g[i] = h[i]) /\ g[Len(h) + 1] = m
  OBVIOUS
<1>4. \A i \in DOMAIN h : h[i].answers \in Nat /\ h[i].calls \in Nat
  BY MessageFields
<1> HIDE DEF g
<1>5. ASSUME NEW i \in DOMAIN g, NEW k \in 1..g[i].calls
      PROVE i + k \in DOMAIN g /\ g[i + k].role = "tool" /\ g[i + k].answers = k
  <2>1. i \in DOMAIN h /\ g[i] = h[i]
    BY <1>2, <1>3
  <2>2. i + k \in DOMAIN h /\ h[i + k].role = "tool" /\ h[i + k].answers = k
    BY <2>1 DEF Paired
  <2> QED
    BY <2>2, <1>2, <1>3
<1>6. ASSUME NEW i \in DOMAIN g, g[i].role = "tool"
      PROVE g[i].answers < i /\ g[i - g[i].answers].calls >= g[i].answers
  <2>1. i \in DOMAIN h /\ g[i] = h[i]
    BY <1>2, <1>3, <1>6
  <2>2. h[i].answers < i /\ h[i - h[i].answers].calls >= h[i].answers
    BY <2>1, <1>6 DEF Paired
  <2>3. i - h[i].answers \in 1..Len(h)
    BY <2>1, <2>2, <1>2, <1>4
  <2> QED
    BY <2>1, <2>2, <2>3, <1>3
<1> QED
  BY <1>1, <1>5, <1>6 DEF Paired, g

\* A response with n calls, none answered yet.
LEMMA AppendCalls ==
    ASSUME NEW h \in Seq(Messages), Paired(h), NEW n \in Nat
    PROVE  /\ Append(h, Assistant(n)) \in Seq(Messages)
           /\ Answering(Append(h, Assistant(n)), [k \in 1..n |-> k], Len(h) + 1)
<1> DEFINE m == Assistant(n)
           g == Append(h, m)
           p == [k \in 1..n |-> k]
           a == Len(h) + 1
<1>0. m \in Messages /\ m.calls = n /\ m.role = "assistant"
  BY DEF Messages, Assistant, Message
<1>1. g \in Seq(Messages) /\ Len(g) = Len(h) + 1 /\ Len(h) \in Nat
  BY <1>0
<1>2. DOMAIN g = 1..(Len(h) + 1) /\ DOMAIN h = 1..Len(h)
  BY <1>1
<1>3. (\A i \in 1..Len(h) : g[i] = h[i]) /\ g[a] = m
  OBVIOUS
<1>4. \A i \in DOMAIN h : h[i].answers \in Nat /\ h[i].calls \in Nat
  BY MessageFields
<1>5. Len(p) = n /\ \A j \in 1..Len(p) : p[j] = j
  OBVIOUS
<1> HIDE DEF g, m, p
<1>6. ASSUME NEW i \in DOMAIN g, NEW k \in 1..g[i].calls, i # a \/ k <= Len(g) - a
      PROVE i + k \in DOMAIN g /\ g[i + k].role = "tool" /\ g[i + k].answers = k
  <2>1. i # a
    BY <1>1, <1>6
  <2>2. i \in DOMAIN h /\ g[i] = h[i]
    BY <2>1, <1>2, <1>3
  <2>3. i + k \in DOMAIN h /\ h[i + k].role = "tool" /\ h[i + k].answers = k
    BY <2>2 DEF Paired
  <2> QED
    BY <2>3, <1>2, <1>3
<1>7. ASSUME NEW i \in DOMAIN g, g[i].role = "tool"
      PROVE g[i].answers < i /\ g[i - g[i].answers].calls >= g[i].answers
  <2>1. i \in DOMAIN h /\ g[i] = h[i]
    BY <1>0, <1>2, <1>3, <1>7
  <2>2. h[i].answers < i /\ h[i - h[i].answers].calls >= h[i].answers
    BY <2>1, <1>7 DEF Paired
  <2>3. i - h[i].answers \in 1..Len(h)
    BY <2>1, <2>2, <1>2, <1>4
  <2> QED
    BY <2>1, <2>2, <2>3, <1>3
<1>8. PairedBut(g, a)
  BY <1>6, <1>7 DEF PairedBut
<1>9. a \in DOMAIN g /\ g[a].calls = (Len(g) - a) + Len(p)
  BY <1>0, <1>1, <1>2, <1>3, <1>5
<1>10. \A j \in 1..Len(p) : p[j] = (Len(g) - a) + j
  BY <1>1, <1>5
<1> QED
  BY <1>1, <1>8, <1>9, <1>10 DEF Answering, g, m, p

\* The first open call gets its answer.
LEMMA AppendAnswer ==
    ASSUME NEW h \in Seq(Messages), NEW p \in Seq(Nat), p # <<>>, NEW a, Answering(h, p, a),
           NEW b \in {"text", "tiny", "big", "stub"}
    PROVE  Answering(Append(h, Tool(Head(p), b)), Tail(p), a)
<1> DEFINE m == Tool(Head(p), b)
           g == Append(h, m)
           q == Tail(p)
<1>0. m \in Messages /\ m.calls = 0 /\ m.role = "tool" /\ m.answers = Head(p)
  BY DEF Messages, Tool, Message
<1>1. g \in Seq(Messages) /\ Len(g) = Len(h) + 1 /\ Len(h) \in Nat
  BY <1>0
<1>2. DOMAIN g = 1..(Len(h) + 1) /\ DOMAIN h = 1..Len(h)
  BY <1>1
<1>3. (\A i \in 1..Len(h) : g[i] = h[i]) /\ g[Len(h) + 1] = m
  BY <1>0
<1>4. \A i \in DOMAIN h : h[i].answers \in Nat /\ h[i].calls \in Nat
  BY MessageFields
<1>5. Len(p) \in Nat \ {0} /\ Len(q) = Len(p) - 1 /\ Head(p) = p[1]
      /\ \A j \in 1..Len(q) : q[j] = p[j + 1]
  OBVIOUS
<1>6. a \in 1..Len(h) /\ h[a].calls = (Len(h) - a) + Len(p) /\ PairedBut(h, a)
      /\ \A j \in 1..Len(p) : p[j] = (Len(h) - a) + j
  BY <1>2 DEF Answering
<1>7. Head(p) = Len(h) - a + 1
  BY <1>5, <1>6
<1> HIDE DEF g, m, q
<1>8. ASSUME NEW i \in DOMAIN g, NEW k \in 1..g[i].calls, i # a \/ k <= Len(g) - a
      PROVE i + k \in DOMAIN g /\ g[i + k].role = "tool" /\ g[i + k].answers = k
  <2>1. i \in DOMAIN h /\ g[i] = h[i]
    BY <1>0, <1>2, <1>3
  <2>2. CASE i = a /\ k = Len(h) - a + 1
    <3>1. i + k = Len(h) + 1
      BY <2>2, <1>1, <1>6
    <3> QED
      BY <3>1, <2>2, <1>0, <1>1, <1>2, <1>3, <1>7
  <2>3. CASE i # a \/ k # Len(h) - a + 1
    <3>1. i # a \/ k <= Len(h) - a
      <4>1. k \in Nat /\ a \in Nat /\ (i # a \/ k <= Len(h) + 1 - a)
        BY <1>8, <1>1, <1>6, <1>4, <2>1
      <4> QED
        BY <4>1, <2>3, <1>1
    <3>2. i + k \in DOMAIN h /\ h[i + k].role = "tool" /\ h[i + k].answers = k
      BY <3>1, <2>1, <1>6 DEF PairedBut
    <3> QED
      BY <3>2, <1>2, <1>3
  <2> QED
    BY <2>2, <2>3
<1>9. ASSUME NEW i \in DOMAIN g, g[i].role = "tool"
      PROVE g[i].answers < i /\ g[i - g[i].answers].calls >= g[i].answers
  <2>1. CASE i = Len(h) + 1
    <3>1. g[i].answers = Len(h) - a + 1 /\ i - g[i].answers = a
      BY <2>1, <1>0, <1>1, <1>3, <1>6, <1>7
    <3> QED
      BY <3>1, <2>1, <1>1, <1>3, <1>4, <1>5, <1>6
  <2>2. CASE i # Len(h) + 1
    <3>1. i \in DOMAIN h /\ g[i] = h[i]
      BY <2>2, <1>2, <1>3
    <3>2. h[i].answers < i /\ h[i - h[i].answers].calls >= h[i].answers
      BY <3>1, <1>6, <1>9 DEF PairedBut
    <3>3. i - h[i].answers \in 1..Len(h)
      BY <3>1, <3>2, <1>2, <1>4
    <3> QED
      BY <3>1, <3>2, <3>3, <1>3
  <2> QED
    BY <2>1, <2>2
<1>10. PairedBut(g, a)
  BY <1>8, <1>9 DEF PairedBut
<1>11. a \in DOMAIN g /\ g[a].calls = (Len(g) - a) + Len(q)
  BY <1>1, <1>2, <1>3, <1>5, <1>6
<1>12. \A j \in 1..Len(q) : q[j] = (Len(g) - a) + j
  BY <1>1, <1>5, <1>6
<1> QED
  BY <1>10, <1>11, <1>12 DEF Answering, g, m, q

\* With no call open every call is answered.
LEMMA AnsweredPaired ==
    ASSUME NEW h \in Seq(Messages), NEW a, Answering(h, <<>>, a)
    PROVE  Paired(h)
<1>1. a \in DOMAIN h /\ h[a].calls = Len(h) - a
  <2>1. Len(<<>>) = 0 /\ Len(h) \in Nat /\ DOMAIN h = 1..Len(h)
    OBVIOUS
  <2> QED
    BY <2>1 DEF Answering
<1> QED
  BY <1>1 DEF Answering, PairedBut, Paired

-----------------------------------------------------------------------------
(* The counters.                                                           *)
\* The limits of a definition are numbers.
LEMMA DefLimits ==
    /\ MaxRuns \in Nat /\ MaxCalls \in Nat /\ MaxRetries \in Nat
    /\ \A d \in Defs : d.max_turns \in Nat \ {0} /\ d.max_tool_failures \in Nat
<1>1. \A d \in AgentDef : d.max_turns \in Nat \ {0} /\ d.max_tool_failures \in Nat
  BY DEF AgentDef
<1> QED
  BY <1>1, AgentRunAssumption

\* The loop's flags stay flags.
LEMMA FlagsKept ==
    AgentTypeOK /\ AgentNext => verified' \in BOOLEAN /\ retried' \in BOOLEAN /\ cancel' \in BOOLEAN
<1> SUFFICES ASSUME AgentTypeOK, AgentNext
             PROVE  verified' \in BOOLEAN /\ retried' \in BOOLEAN /\ cancel' \in BOOLEAN
  OBVIOUS
<1>0. verified \in BOOLEAN /\ retried \in BOOLEAN /\ cancel \in BOOLEAN
  BY DEF AgentTypeOK
<1>1. CASE VerifyCompletion \/ FinalResponse \/ \E n \in 0..MaxCalls : CallsRequested(n)
  BY <1>0, <1>1 DEF VerifyCompletion, FinalResponse, CallsRequested, Respond
<1>2. CASE Interrupt \/ \E d \in Defs : BeginRun(d)
  BY <1>0, <1>2 DEF Interrupt, BeginRun, locals
<1>3. CASE StartTurn \/ Attempt \/ AcceptResponse \/ StartTool \/ NextTurn \/ EndTurn
  BY <1>0, <1>3 DEF StartTurn, Attempt, AcceptResponse, StartTool, NextTurn, EndTurn, locals
<1>4. CASE TurnCancelled \/ SendCancelled \/ FatalFailure \/ ResponseCancelled \/ ToolCancelled
           \/ TransientFailure \/ Overflow
  BY <1>0, <1>4 DEF TurnCancelled, SendCancelled, FatalFailure, ResponseCancelled,
    ToolCancelled, TransientFailure, Overflow, Fail, locals
<1>5. CASE ToolFails \/ \E b \in Bodies : ToolSucceeds(b)
  BY <1>0, <1>5 DEF ToolFails, ToolSucceeds
<1>6. CASE FailureGuard \/ StopAtRequestLimit \/ StopAtMaxTurns \/ Completed
  BY <1>0, <1>6 DEF FailureGuard, StopAtRequestLimit, StopAtMaxTurns, Completed, Returns, locals
<1> QED
  BY <1>1, <1>2, <1>3, <1>4, <1>5, <1>6 DEF AgentNext, Step

\* The numbers, and where the loop stands.
Numbers ==
    /\ pc \in {"idle", "turn", "send", "wait", "accepted", "stop", "tools", "tool", "next"}
    /\ def \in Defs /\ runs \in 0..MaxRuns
    /\ turn \in 1..def.max_turns /\ attempts \in 0..MaxRetries
    /\ requests \in 0..def.max_turns /\ failures \in 0..def.max_tool_failures
    /\ Len(pending) <= MaxCalls /\ spent = requests
    /\ Counts

\* Every step keeps the numbers: a turn sends one request, so that the requests
\* answered stay below the turn until this one is answered.
LEMMA NumbersKept ==
    Numbers /\ HistoriesPaired /\ AgentNext => Numbers'
<1> SUFFICES ASSUME Numbers, HistoriesPaired, AgentNext PROVE Numbers'
  OBVIOUS
<1> USE DefLimits DEF Numbers, Counts, locals
<1>1. ASSUME NEW d \in Defs, BeginRun(d) PROVE Numbers'
  <2>1. pc' = "turn" /\ def' = d /\ runs' = runs + 1 /\ runs < MaxRuns /\ turn' = 1
        /\ requests' = 0 /\ failures' = 0 /\ pending' = <<>> /\ attempts' = 0 /\ spent' = 0
    BY <1>1 DEF BeginRun
  <2> QED
    BY <2>1
<1>2. CASE Interrupt
  BY <1>2 DEF Interrupt
<1>3. CASE TurnCancelled \/ SendCancelled \/ FatalFailure \/ ResponseCancelled \/ ToolCancelled
  BY <1>3 DEF TurnCancelled, SendCancelled, FatalFailure, ResponseCancelled, ToolCancelled, Fail
<1>4. CASE StartTurn \/ Attempt \/ AcceptResponse \/ StartTool
  BY <1>4 DEF StartTurn, Attempt, AcceptResponse, StartTool
<1>13. CASE NextTurn
  BY <1>13 DEF NextTurn
<1>5. CASE TransientFailure
  BY <1>5 DEF TransientFailure, Fail
<1>6. CASE Overflow
  BY <1>6 DEF Overflow, Fail
<1>7. CASE FinalResponse
  <2>1. /\ pc = "accepted" /\ pc' = "stop"
        /\ requests' = requests + 1 /\ spent' = spent + 1
        /\ UNCHANGED <<def, runs, turn, failures, pending, attempts>>
    BY <1>7 DEF FinalResponse, Respond
  <2> QED
    BY <2>1
<1>14. CASE VerifyCompletion
  BY <1>14 DEF VerifyCompletion
<1>8. ASSUME NEW n \in 0..MaxCalls, CallsRequested(n) PROVE Numbers'
  <2>1. Len([k \in 1..n |-> k]) = n
    OBVIOUS
  <2> QED
    BY <1>8, <2>1 DEF CallsRequested, Respond
<1>9. pc = "tool" => Len(Tail(pending)) <= MaxCalls
  <2>1. pc = "tool" => Len(Tail(pending)) = Len(pending) - 1 /\ Len(pending) \in Nat
    BY DEF HistoriesPaired
  <2> QED
    BY <2>1
<1>10. ASSUME NEW b \in Bodies, ToolSucceeds(b) PROVE Numbers'
  BY <1>10, <1>9 DEF ToolSucceeds
<1>11. CASE ToolFails
  BY <1>11, <1>9 DEF ToolFails
<1>12. CASE FailureGuard \/ StopAtRequestLimit \/ EndTurn \/ StopAtMaxTurns \/ Completed
  BY <1>12 DEF FailureGuard, StopAtRequestLimit, EndTurn, StopAtMaxTurns, Completed, Returns
<1> QED
  BY <1>1, <1>2, <1>3, <1>4, <1>5, <1>6, <1>7, <1>8, <1>10, <1>11, <1>12, <1>13, <1>14
  DEF AgentNext, Step

\* Both together are the type invariant and the count.
LEMMA CountsKept ==
    AgentTypeOK /\ Counts /\ HistoriesPaired /\ AgentNext => AgentTypeOK' /\ Counts'
<1> SUFFICES ASSUME AgentTypeOK, Counts, HistoriesPaired, AgentNext PROVE AgentTypeOK' /\ Counts'
  OBVIOUS
<1>1. Numbers
  BY DEF Numbers, AgentTypeOK
<1>2. Numbers'
  BY <1>1, NumbersKept
<1> QED
  BY <1>2, FlagsKept DEF Numbers, AgentTypeOK

(* What is added after a cancel.                                           *)
\* The elements of a sequence after Append.
LEMMA AppendedElements ==
    ASSUME NEW S, NEW s \in Seq(S), NEW e \in S
    PROVE  /\ Append(s, e) \in Seq(S) /\ Len(Append(s, e)) = Len(s) + 1
           /\ \A i \in 1..Len(s) : Append(s, e)[i] = s[i]
           /\ Append(s, e)[Len(s) + 1] = e
OBVIOUS

\* Append to a sequence of one element.
LEMMA SecondAppended ==
    ASSUME NEW S, NEW s \in Seq(S), NEW e \in S, Len(s) = 1
    PROVE  Append(s, e) = <<s[1], e>>
<1>0. 1 \in 1..Len(s) /\ Len(s) + 1 = 2
  OBVIOUS
<1>1. s[1] \in S
  <2>1. s \in [1..Len(s) -> S]
    BY SeqDef
  <2> QED
    BY <1>0, <2>1
<1> DEFINE t == <<s[1], e>>
           u == Append(s, e)
<1>2. t \in Seq(S) /\ Len(t) = 2 /\ t[1] = s[1] /\ t[2] = e
  BY <1>1
<1>3. u \in Seq(S) /\ Len(u) = 2 /\ u[1] = s[1] /\ u[2] = e
  <2>1. /\ u \in Seq(S) /\ Len(u) = Len(s) + 1
        /\ \A i \in 1..Len(s) : u[i] = s[i]
        /\ u[Len(s) + 1] = e
    BY AppendedElements, Zenon
  <2> HIDE DEF u
  <2> QED
    BY <1>0, <2>1
<1> HIDE DEF t, u
<1>4. \A i \in 1..Len(u) : u[i] = t[i]
  BY <1>2, <1>3
<1>5. u = t
  BY <1>2, <1>3, <1>4, SeqEqual
<1> QED
  BY <1>5 DEF t, u

\* Every step keeps the bound: a cancelled loop is at the end of a tool, of a
\* response or of a run, and starts nothing from there.
LEMMA CancelsKept == AgentTypeOK /\ Cancels /\ AgentNext => Cancels'
<1> SUFFICES ASSUME AgentTypeOK, Cancels, AgentNext PROVE Cancels'
  OBVIOUS
<1> USE DEF Cancels, CancelBoundsWork
<1>0. cancel \in BOOLEAN
  BY DEF AgentTypeOK
<1>1. ASSUME NEW d \in Defs, BeginRun(d) PROVE Cancels'
  BY <1>1 DEF BeginRun
<1>2. CASE Interrupt
  BY <1>2 DEF Interrupt
<1>3. CASE TurnCancelled \/ SendCancelled \/ FatalFailure \/ ResponseCancelled \/ ToolCancelled
           \/ TransientFailure \/ Overflow
  BY <1>3 DEF TurnCancelled, SendCancelled, FatalFailure, ResponseCancelled, ToolCancelled,
    TransientFailure, Overflow, Fail
<1>4. CASE Attempt \/ AcceptResponse \/ StartTool \/ NextTurn \/ StartTurn \/ EndTurn
  BY <1>4 DEF Attempt, AcceptResponse, StartTool, NextTurn, StartTurn, EndTurn
<1>5. \A role : Append(<<>>, role) = <<role>>
  OBVIOUS
<1>6. CASE FinalResponse \/ \E n \in 0..MaxCalls : CallsRequested(n)
  <2>1. pc = "accepted" /\ pc' \in {"stop", "tools"} /\ Added("assistant")
        /\ (cancel => cancel')
    BY <1>6 DEF FinalResponse, CallsRequested, Respond
  <2>2. afterCancel' = IF cancel THEN <<"assistant">> ELSE <<>>
    BY <1>5, <2>1 DEF Added
  <2> QED
    BY <1>0, <2>1, <2>2
<1>7. CASE VerifyCompletion
  <2>1. pc = "stop" /\ pc' = "next" /\ cancel' = cancel /\ Added("user")
    BY <1>7 DEF VerifyCompletion
  <2>2. Append(<<"assistant">>, "user") = <<"assistant", "user">>
    <3>1. <<"assistant">> \in Seq({"assistant", "user"}) /\ Len(<<"assistant">>) = 1
          /\ <<"assistant">>[1] = "assistant"
      OBVIOUS
    <3> QED
      BY <3>1, SecondAppended
  <2>3. afterCancel' \in {<<>>, <<"user">>, <<"assistant", "user">>} /\ (~cancel => afterCancel' = <<>>)
    BY <1>5, <2>1, <2>2 DEF Added
  <2> QED
    BY <2>1, <2>3
<1>8. CASE ToolFails \/ FailureGuard \/ \E b \in Bodies : ToolSucceeds(b)
  <2>1. pc = "tool" /\ pc' \in {"tools", "idle"} /\ cancel' = cancel /\ Added("tool")
    BY <1>8 DEF ToolSucceeds, ToolFails, FailureGuard, Returns
  <2>2. afterCancel' = IF cancel THEN <<"tool">> ELSE <<>>
    BY <1>5, <2>1 DEF Added
  <2> QED
    BY <2>1, <2>2
<1>9. CASE StopAtRequestLimit \/ StopAtMaxTurns \/ Completed
  BY <1>9 DEF StopAtRequestLimit, StopAtMaxTurns, Completed, Returns
<1> QED
  BY <1>1, <1>2, <1>3, <1>4, <1>6, <1>7, <1>8, <1>9 DEF AgentNext, Step

(* The histories.                                                          *)
\* Every step keeps the pairing.
LEMMA HistoriesPairedKept == AgentTypeOK /\ HistoriesPaired /\ AgentNext => HistoriesPaired'
<1> SUFFICES ASSUME AgentTypeOK, HistoriesPaired, AgentNext PROVE HistoriesPaired'
  OBVIOUS
<1> USE DEF HistoriesPaired
<1>0. /\ User \in Messages /\ User.calls = 0 /\ User.role = "user"
      /\ Assistant(0) \in Messages /\ Assistant(0).calls = 0 /\ Assistant(0).role = "assistant"
  BY DEF Messages, User, Assistant, Message
<1>1. ASSUME NEW d \in Defs, BeginRun(d) PROVE HistoriesPaired'
  <2>1. ~cut => Append(saved, User) \in Seq(Messages) /\ Paired(Append(saved, User))
    BY <1>0, AppendPlain
  <2>2. Append(saved, User) \in Seq(Messages)
    BY <1>0
  <2> QED
    BY <1>1, <2>1, <2>2 DEF BeginRun
<1>2. CASE Interrupt
  BY <1>2 DEF Interrupt, locals
<1>3. CASE TurnCancelled \/ SendCancelled \/ FatalFailure \/ ResponseCancelled \/ ToolCancelled
           \/ TransientFailure
  BY <1>3 DEF TurnCancelled, SendCancelled, FatalFailure, ResponseCancelled, ToolCancelled,
    TransientFailure, Fail, locals
<1>4. CASE Attempt \/ AcceptResponse \/ StartTool \/ NextTurn
  BY <1>4 DEF Attempt, AcceptResponse, StartTool, NextTurn, locals
<1>5. CASE StartTurn
  <2>1. SameShape(history, Preempt(history))
    BY PreemptKeepsShape
  <2>2. Preempt(history) \in Seq(Messages)
    BY <2>1 DEF SameShape
  <2>3. ~cut => Paired(Preempt(history))
    BY <1>5, <2>1, SameShapePaired DEF StartTurn
  <2> QED
    BY <1>5, <2>2, <2>3 DEF StartTurn
<1>6. CASE Overflow
  <2> DEFINE g == Stubbed(history, {Largest(history)})
  <2>1. SameShape(history, g)
    BY StubbedKeepsShape
  <2>2. g \in Seq(Messages)
    BY <2>1 DEF SameShape
  <2>3. ~cut => Paired(g)
    BY <1>6, <2>1, SameShapePaired DEF Overflow
  <2> QED
    BY <1>6, <2>2, <2>3 DEF Overflow, Fail, locals
<1>7. CASE FinalResponse
  <2>1. Append(history, Assistant(0)) \in Seq(Messages)
    BY <1>0
  <2>2. ~cut => Paired(Append(history, Assistant(0)))
    BY <1>0, <1>7, AppendPlain DEF FinalResponse, Respond
  <2> QED
    BY <1>7, <2>1, <2>2 DEF FinalResponse, Respond
<1>18. CASE Completed
  BY <1>18 DEF Completed, Returns, locals
<1>8. CASE VerifyCompletion
  <2> DEFINE g == Append(history, User)
  <2>1. g \in Seq(Messages)
    BY <1>0
  <2>2. ~cut => Paired(g)
    BY <1>0, <1>8, AppendPlain DEF VerifyCompletion
  <2> HIDE DEF g
  <2>3. SameShape(g, Compact(g, Threshold))
    BY <2>1, CompactKeepsShape
  <2>4. Compact(g, Threshold) \in Seq(Messages)
    BY <2>3 DEF SameShape
  <2>5. ~cut => Paired(Compact(g, Threshold))
    BY <2>1, <2>2, <2>3, SameShapePaired
  <2> QED
    BY <1>8, <2>4, <2>5 DEF VerifyCompletion, g
<1>9. ASSUME NEW n \in 0..MaxCalls, CallsRequested(n) PROVE HistoriesPaired'
  <2> DEFINE h == Append(history, Assistant(n))
             p == [k \in 1..n |-> k]
  <2>1. n \in Nat /\ p \in Seq(Nat) /\ Assistant(n) \in Messages
    BY DEF Messages, Assistant, Message
  <2>2. h \in Seq(Messages)
    BY <2>1
  <2>3. ~cut => Answering(h, p, Len(history) + 1)
    BY <1>9, <2>1, AppendCalls DEF CallsRequested, Respond
  <2>4. ~cut => \E a \in DOMAIN h : Answering(h, p, a)
    BY <2>3 DEF Answering
  <2> QED
    BY <1>9, <2>1, <2>2, <2>4 DEF CallsRequested, Respond
<1>10. ASSUME NEW b \in {"text", "tiny", "big", "stub"}, pc = "tool"
       PROVE  /\ Append(history, Tool(Head(pending), b)) \in Seq(Messages)
              /\ Tail(pending) \in Seq(Nat)
              /\ ~cut => \E a \in DOMAIN Append(history, Tool(Head(pending), b)) :
                           Answering(Append(history, Tool(Head(pending), b)), Tail(pending), a)
  <2> DEFINE g == Append(history, Tool(Head(pending), b))
  <2>1. pending # <<>> /\ Head(pending) \in Nat /\ Tail(pending) \in Seq(Nat)
    BY <1>10
  <2>2. Tool(Head(pending), b) \in Messages
    BY <2>1 DEF Tool, Message, Messages
  <2>3. g \in Seq(Messages)
    BY <2>2
  <2>4. ASSUME ~cut PROVE \E a \in DOMAIN g : Answering(g, Tail(pending), a)
    <3>1. PICK a \in DOMAIN history : Answering(history, pending, a)
      BY <1>10, <2>4
    <3>2. Answering(g, Tail(pending), a)
      BY <2>1, <3>1, AppendAnswer
    <3> QED
      BY <3>2 DEF Answering
  <2> QED
    BY <2>1, <2>3, <2>4
<1>11. CASE \E b \in Bodies : ToolSucceeds(b)
  BY <1>10, <1>11 DEF ToolSucceeds, Bodies
<1>12. CASE ToolFails
  BY <1>10, <1>12 DEF ToolFails
<1>13. CASE FailureGuard
  <2> DEFINE g == Append(history, Tool(Head(pending), "tiny"))
  <2>1. pc = "tool" /\ pending # <<>> /\ pending \in Seq(Nat)
    BY <1>13 DEF FailureGuard
  <2>2. g \in Seq(Messages) /\ (~cut => \E a \in DOMAIN g : Answering(g, Tail(pending), a))
    BY <2>1, <1>10
  <2>3. ASSUME ~cut' PROVE ~cut /\ Paired(g)
    <3>1. ~cut /\ ~(Len(pending) > 1)
      BY <1>13, <2>3 DEF FailureGuard
    <3>2. Tail(pending) = <<>>
      BY <2>1, <3>1
    <3> QED
      BY <2>2, <3>1, <3>2, AnsweredPaired
  <2>4. pc' = "idle" /\ history' = g /\ saved' = g /\ pending' = pending
    BY <1>13 DEF FailureGuard, Returns, locals
  <2> QED
    BY <2>1, <2>2, <2>3, <2>4
<1>14. pc = "tools" /\ pending = <<>> /\ ~cut => Paired(history)
  BY AnsweredPaired
<1>15. CASE StopAtRequestLimit
  BY <1>14, <1>15 DEF StopAtRequestLimit, Returns, locals
<1>16. CASE StopAtMaxTurns
  BY <1>16 DEF StopAtMaxTurns, Returns, locals
<1>17. CASE EndTurn
  <2>1. SameShape(history, Compact(history, Threshold))
    BY CompactKeepsShape
  <2>2. Compact(history, Threshold) \in Seq(Messages)
    BY <2>1 DEF SameShape
  <2>3. ~cut => Paired(Compact(history, Threshold))
    BY <1>14, <1>17, <2>1, SameShapePaired DEF EndTurn
  <2> QED
    BY <1>17, <2>2, <2>3 DEF EndTurn, locals
<1> QED
  BY <1>1, <1>2, <1>3, <1>4, <1>5, <1>6, <1>7, <1>8, <1>9, <1>11, <1>12, <1>13, <1>15, <1>16,
     <1>17, <1>18 DEF AgentNext, Step

\* A session begins with an empty history.
LEMMA AgentInvInit ==
    AgentInit => AgentInv
<1> SUFFICES ASSUME AgentInit PROVE AgentInv
  OBVIOUS
<1>1. AgentTypeOK /\ Counts /\ Cancels
  <2>1. def \in Defs /\ Len(<<>>) = 0
    BY DEF AgentInit
  <2>2. turn \in 1..def.max_turns /\ 0 \in 0..def.max_turns /\ 0 \in 0..def.max_tool_failures
    BY <2>1, DefLimits DEF AgentInit
  <2>3. 0 \in 0..MaxRuns /\ 0 \in 0..MaxRetries /\ 0 <= MaxCalls
    BY DefLimits
  <2>4. AgentTypeOK
    BY <2>1, <2>2, <2>3 DEF AgentInit, AgentTypeOK
  <2>5. Counts /\ Cancels
    BY DEF AgentInit, Counts, Cancels, CancelBoundsWork
  <2> QED
    BY <2>4, <2>5
<1>2. HistoriesPaired
  BY DEF AgentInit, HistoriesPaired, Paired
<1> QED
  BY <1>1, <1>2 DEF AgentInv

\* A step that changes nothing keeps the invariant.
LEMMA AgentInvStutters == AgentInv /\ UNCHANGED agentVars => AgentInv'
<1> SUFFICES ASSUME AgentInv, UNCHANGED agentVars PROVE AgentInv'
  OBVIOUS
<1> USE DEF AgentInv, agentVars, locals
<1>1. AgentTypeOK'
  BY DEF AgentTypeOK
<1>2. Counts' /\ Cancels'
  BY DEF Counts, Cancels, CancelBoundsWork
<1>3. HistoriesPaired'
  BY DEF HistoriesPaired
<1> QED
  BY <1>1, <1>2, <1>3

\* The inductive invariant holds of every run.
THEOREM AgentInvariant ==
    AgentSpec => []AgentInv
<1>1. AgentInv /\ [AgentNext]_agentVars => AgentInv'
  BY CountsKept, HistoriesPairedKept, CancelsKept, AgentInvStutters DEF AgentInv
<1> QED
  BY <1>1, AgentInvInit, PTL DEF AgentSpec

\* The loop stays within its limits: turns, requests, retries and tool failures
\* never exceed what the definition allows (run_loop, with_retry).
THEOREM AgentTypesCorrect ==
    AgentSpec => []AgentTypeOK
<1>1. AgentInv => AgentTypeOK
  BY DEF AgentInv
<1> QED
  BY <1>1, AgentInvariant, PTL

\* No request carries an unanswered tool call, for every definition, any number of
\* runs on one session, of calls per response and any compaction budget, unless a
\* run of the session was cut short by the failure guard (dispatch_tool_calls).
THEOREM AgentRequestsPaired ==
    AgentSpec => []RequestsPaired
<1>1. AgentInv => RequestsPaired
  BY DEF AgentInv, HistoriesPaired, RequestsPaired
<1> QED
  BY <1>1, AgentInvariant, PTL

\* What a cancelled run still adds to its history: the result of the tool that was
\* running, or the response just accepted and the prompt to verify it (run_loop,
\* execute_turn, CancelToken and the cost hook).
THEOREM AgentCancelBoundsWork ==
    AgentSpec => []CancelBoundsWork
<1>1. AgentInv => CancelBoundsWork
  BY DEF AgentInv, Cancels
<1> QED
  BY <1>1, AgentInvariant, PTL

-----------------------------------------------------------------------------
(* Compaction.                                                             *)
\* A bounded set of numbers that is not empty has a largest element.
LEMMA MaxIsLargest ==
    ASSUME NEW N \in Nat, NEW S, S \subseteq 0..N, S # {}
    PROVE  Max(S) \in S /\ \A k \in S : k <= Max(S)
<1> DEFINE R == OpToRel(<, Nat)
           T == {N - x : x \in S}
<1>1. IsWellFoundedOn(R, Nat)
  BY NatLessThanWellFounded
<1>2. \A x, y \in Nat : x < y => <<x, y>> \in R
  BY DEF OpToRel
<1>3. T \subseteq Nat /\ T # {}
  <2>1. \A x \in S : N - x \in Nat
    OBVIOUS
  <2> QED
    BY <2>1
<1> HIDE DEF R
<1>4. PICK m \in T : \A k \in T : ~(<<k, m>> \in R)
  <2> HIDE DEF T
  <2> QED
    BY <1>1, <1>3, WFMin
<1>5. PICK x \in S : m = N - x
  BY <1>4
<1>6. ASSUME NEW k \in S PROVE x >= k
  <2>1. N - k \in T /\ N - k \in Nat /\ m \in Nat /\ k \in Nat /\ x \in Nat
    BY <1>5
  <2>2. ~(N - k < m)
    BY <2>1, <1>2, <1>4
  <2> QED
    BY <2>1, <2>2, <1>5
<1>7. Max(S) \in S /\ \A k \in S : Max(S) >= k
  BY <1>5, <1>6 DEF Max
<1> QED
  BY <1>7

\* Stubbing from j leaves the elidable bodies below j and touches none of them.
LEMMA StubbedFromElidable ==
    ASSUME NEW h \in Seq(Messages), NEW j \in Nat
    PROVE  /\ Middle(StubbedFrom(h, j)) = Middle(h)
           /\ Elidable(StubbedFrom(h, j)) = {i \in Elidable(h) : i < j}
           /\ \A i \in DOMAIN h : StubbedFrom(h, j)[i] # h[i] =>
                /\ i \in Middle(h) /\ i >= j
                /\ StubbedFrom(h, j)[i] = [h[i] EXCEPT !.body = "stub"]
<1> DEFINE g == StubbedFrom(h, j)
           S == {i \in Elidable(h) : i >= j}
<1>1. SameShape(h, g)
  BY StubbedKeepsShape DEF StubbedFrom
<1>2. DOMAIN g = DOMAIN h /\ DOMAIN h = 1..Len(h) /\ Len(g) = Len(h) /\ Len(h) \in Nat
  BY <1>1 DEF SameShape
<1>3. Middle(g) = Middle(h)
  BY <1>2 DEF Middle
<1>4. \A i \in DOMAIN h : g[i] = IF i \in S THEN [h[i] EXCEPT !.body = "stub"] ELSE h[i]
  BY DEF StubbedFrom, Stubbed
<1>5. \A i \in DOMAIN h : [h[i] EXCEPT !.body = "stub"].body = "stub"
  <2>1. \A m \in Messages : [m EXCEPT !.body = "stub"].body = "stub"
    BY DEF Messages
  <2> QED
    BY <2>1, <1>2
<1> HIDE DEF g
<1>6. \A i \in S : i \in DOMAIN h /\ i \in Middle(h) /\ i >= j
  BY DEF Elidable
<1>7. \A i \in DOMAIN h : i \in S => ~IsElidable(g[i])
  BY <1>4, <1>5 DEF IsElidable
<1>8. \A i \in DOMAIN h : i \notin S => g[i] = h[i]
  BY <1>4
<1>9. ASSUME NEW i \in DOMAIN h PROVE i \in Elidable(g) <=> i \in Elidable(h) /\ i \notin S
  BY <1>2, <1>3, <1>7, <1>8 DEF Elidable
<1>10. Elidable(g) \subseteq DOMAIN h /\ Elidable(h) \subseteq DOMAIN h
  BY <1>2 DEF Elidable
<1>11. \A i \in Elidable(h) : i \notin S <=> i < j
  BY <1>2, <1>10
<1>12. Elidable(g) = {i \in Elidable(h) : i < j}
  BY <1>9, <1>10, <1>11
<1>13. ASSUME NEW i \in DOMAIN h, g[i] # h[i]
       PROVE i \in Middle(h) /\ i >= j /\ g[i] = [h[i] EXCEPT !.body = "stub"]
  BY <1>4, <1>6, <1>13
<1> QED
  BY <1>3, <1>12, <1>13 DEF g

\* Compaction meets its budget or leaves nothing to stub, and stubs from some j on.
LEMMA CompactFrom ==
    ASSUME NEW h \in Seq(Messages), NEW b
    PROVE  \E j \in Nat :
             /\ Compact(h, b) = StubbedFrom(h, j)
             /\ Tokens(Compact(h, b)) <= b \/ Elidable(Compact(h, b)) = {}
<1>1. CASE Enough(h, b) = {}
  <2>1. Elidable(StubbedFrom(h, 0)) = {i \in Elidable(h) : i < 0}
    BY StubbedFromElidable
  <2>2. \A i \in Elidable(h) : i \in Nat
    <3>1. DOMAIN h = 1..Len(h) /\ Len(h) \in Nat
      OBVIOUS
    <3> QED
      BY <3>1 DEF Elidable
  <2>3. Elidable(StubbedFrom(h, 0)) = {}
    BY <2>1, <2>2
  <2> QED
    BY <1>1, <2>3 DEF Compact
<1>2. CASE Enough(h, b) # {}
  <2>1. Enough(h, b) \subseteq 0..(Len(h) + 1) /\ Len(h) + 1 \in Nat
    <3>1. DOMAIN h = 1..Len(h) /\ Len(h) \in Nat
      OBVIOUS
    <3> QED
      BY <3>1 DEF Enough, Elidable
  <2>2. Max(Enough(h, b)) \in Enough(h, b)
    BY <1>2, <2>1, MaxIsLargest
  <2>3. Max(Enough(h, b)) \in Nat /\ Tokens(StubbedFrom(h, Max(Enough(h, b)))) <= b
    BY <2>1, <2>2 DEF Enough
  <2> QED
    BY <1>2, <2>3 DEF Compact
<1> QED
  BY <1>1, <1>2

\* What a pass of compaction changes is a suffix of what it could change.
NewestFirst(h, g) ==
    \A i \in DOMAIN h : g[i] # h[i] =>
      /\ i \in Middle(g)
      /\ g[i] = [h[i] EXCEPT !.body = "stub"]
      /\ \A j \in Elidable(g) : j < i

\* Every pass of compaction is of that kind.
LEMMA CompactNewestFirst ==
    ASSUME NEW h \in Seq(Messages), NEW b PROVE NewestFirst(h, Compact(h, b))
<1>1. PICK j \in Nat : Compact(h, b) = StubbedFrom(h, j)
  BY CompactFrom
<1> DEFINE g == StubbedFrom(h, j)
<1>2. /\ Middle(g) = Middle(h)
      /\ Elidable(g) = {i \in Elidable(h) : i < j}
      /\ \A i \in DOMAIN h : g[i] # h[i] =>
           i \in Middle(h) /\ i >= j /\ g[i] = [h[i] EXCEPT !.body = "stub"]
  BY StubbedFromElidable
<1>3. \A i \in DOMAIN h : i \in Nat
  OBVIOUS
<1>4. \A i \in Elidable(g) : i \in Nat /\ i < j
  BY <1>2, <1>3 DEF Elidable
<1> HIDE DEF g
<1>5. ASSUME NEW i \in DOMAIN h, g[i] # h[i]
      PROVE  /\ i \in Middle(g)
             /\ g[i] = [h[i] EXCEPT !.body = "stub"]
             /\ \A k \in Elidable(g) : k < i
  <2>1. i \in Middle(h) /\ i >= j /\ g[i] = [h[i] EXCEPT !.body = "stub"]
    BY <1>2, <1>5
  <2>2. \A k \in Elidable(g) : k < i
    BY <1>3, <1>4, <2>1
  <2> QED
    BY <1>2, <2>1, <2>2
<1>6. NewestFirst(h, g)
  BY <1>5 DEF NewestFirst
<1> QED
  BY <1>1, <1>6 DEF g

\* The promise of CompactionSound, for one step.
CompactionStep ==
    /\ pc # "next" /\ pc' = "next" =>
         Tokens(history') <= Threshold \/ Elidable(history') = {}
    /\ pc \in {"turn", "tools", "stop"} /\ pc' # "idle" => NewestFirst(history, history')

\* Every step of the loop keeps the promise; two of them compact after a turn, and
\* one before a request.
LEMMA CompactionSteps == HistoriesPaired /\ AgentNext => CompactionStep
<1> SUFFICES ASSUME HistoriesPaired, AgentNext PROVE CompactionStep
  OBVIOUS
<1> USE DEF CompactionStep
<1>0. history \in Seq(Messages) /\ NewestFirst(history, history)
  BY DEF HistoriesPaired, NewestFirst
<1>1. CASE StartTurn
  <2>1. NewestFirst(history, Preempt(history))
    BY <1>0, CompactNewestFirst DEF Preempt
  <2> QED
    BY <1>1, <2>1 DEF StartTurn
<1>2. CASE EndTurn
  BY <1>0, <1>2, CompactFrom, CompactNewestFirst DEF EndTurn
<1>3. CASE VerifyCompletion
  <2> DEFINE g == Append(history, User)
  <2>1. g \in Seq(Messages) /\ DOMAIN history \subseteq DOMAIN g
        /\ \A i \in DOMAIN history : g[i] = history[i]
    BY <1>0 DEF Messages, User, Message
  <2> HIDE DEF g
  <2>2. NewestFirst(g, Compact(g, Threshold))
    BY <2>1, CompactNewestFirst
  <2>3. NewestFirst(history, Compact(g, Threshold))
    BY <2>1, <2>2 DEF NewestFirst
  <2>4. Tokens(Compact(g, Threshold)) <= Threshold \/ Elidable(Compact(g, Threshold)) = {}
    BY <2>1, CompactFrom
  <2>5. history' = Compact(g, Threshold)
    BY <1>3 DEF VerifyCompletion, g
  <2> QED
    BY <2>3, <2>4, <2>5
<1>4. CASE Interrupt \/ StartTool \/ NextTurn \/ Attempt \/ AcceptResponse
           \/ \E d \in Defs : BeginRun(d)
  BY <1>0, <1>4 DEF Interrupt, StartTool, NextTurn, Attempt, AcceptResponse, BeginRun
<1>5. CASE TurnCancelled \/ SendCancelled \/ FatalFailure \/ ResponseCancelled \/ ToolCancelled
           \/ TransientFailure \/ Overflow
  BY <1>5 DEF TurnCancelled, SendCancelled, FatalFailure, ResponseCancelled, ToolCancelled,
    TransientFailure, Overflow, Fail
<1>6. CASE FinalResponse \/ \E n \in 0..MaxCalls : CallsRequested(n)
  BY <1>6 DEF FinalResponse, CallsRequested, Respond
<1>7. CASE ToolFails \/ FailureGuard \/ \E b \in Bodies : ToolSucceeds(b)
  BY <1>7 DEF ToolSucceeds, ToolFails, FailureGuard, Returns
<1>8. CASE StopAtRequestLimit \/ StopAtMaxTurns \/ Completed
  BY <1>8 DEF StopAtRequestLimit, StopAtMaxTurns, Completed, Returns
<1> QED
  BY <1>1, <1>2, <1>3, <1>4, <1>5, <1>6, <1>7, <1>8 DEF AgentNext, Step

\* Compaction after a turn meets the budget or leaves nothing to stub, touches the
\* middle of the history only, and stubs newest first (compact_history), for every
\* history, budget and window.
THEOREM AgentCompactionSound ==
    AgentSpec => CompactionSound
<1> DEFINE A == /\ pc # "next" /\ pc' = "next" =>
                     Tokens(history') <= Threshold \/ Elidable(history') = {}
                /\ \A i \in DOMAIN history :
                     pc \in {"turn", "tools", "stop"} /\ pc' # "idle" /\ history'[i] # history[i] =>
                       /\ i \in Middle(history')
                       /\ history'[i] = [history[i] EXCEPT !.body = "stub"]
                       /\ \A j \in Elidable(history') : j < i
<1>1. AgentInv /\ [AgentNext]_agentVars => [A]_agentVars
  <2>1. CompactionStep => A
    BY DEF CompactionStep, NewestFirst
  <2> QED
    BY <2>1, CompactionSteps DEF AgentInv
<1> QED
  BY <1>1, AgentInvariant, PTL DEF AgentSpec, CompactionSound
=============================================================================
