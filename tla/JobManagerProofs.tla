-------------------------- MODULE JobManagerProofs --------------------------
(***************************************************************************)
(* The job table for every set of client ids, every number of runs and     *)
(* every retention bound: types, ownership of records, exact retention.    *)
(*                                                                         *)
(* And the WeChat bridge (WechatBridge, from InHand on) for every stream   *)
(* of messages, every number of bridges and every cap of the ring that     *)
(* reaches as far as the gateway delivers again (RingReaches): no message  *)
(* with an id has two turns, and none is skipped.                          *)
(***************************************************************************)
EXTENDS JobManager, WechatBridge, SequenceTheorems, FiniteSetTheorems, FunctionTheorems, TLAPS

\* next_id is above every run in use, so a fresh run's fields are untouched.
FreshAhead ==
    \A r \in Runs : r >= next_id => phase[r] = "unused"

IdAssigned ==
    \A r \in Runs : phase[r] # "unused" => job_id[r] \in JobIds

\* What a record says is determined by where its run stands.
StatusByPhase ==
    \A r \in Runs :
        /\ phase[r] \in {"unused", "resolved", "rejected"} => status[r] = "none"
        /\ phase[r] \in {"filed", "done"} => status[r] \in Terminal

Shape == TypeOK /\ FreshAhead /\ IdAssigned /\ StatusByPhase

\* The inductive invariant: retention is exact only because a run keeps its
\* record until it files, which in turn needs every record to carry its own id.
TableInv == Shape /\ RunOwnsRecord /\ RetentionExact

-----------------------------------------------------------------------------
\* A popped prefix of at most one id: what is left of terminal_order.
LEMMA KeptProperties ==
    ASSUME NEW order \in Seq(JobIds), Len(order) <= TERMINAL_RETAINED + 1
    PROVE  /\ Excess(order) \in {0, 1}
           /\ Kept(order) \in Seq(JobIds)
           /\ Len(Kept(order)) = Len(order) - Excess(order)
           /\ Len(Kept(order)) <= TERMINAL_RETAINED
           /\ \A i \in 1..Len(Kept(order)) : Kept(order)[i] = order[i + Excess(order)]
<1>1. Len(order) \in Nat
    OBVIOUS
<1>2. Excess(order) \in {0, 1} /\ Excess(order) <= Len(order)
    BY <1>1, RetainedAssumption DEF Excess
<1> DEFINE m == Excess(order) + 1
           n == Len(order)
<1>3. m \in Int /\ n \in Int /\ \A i \in m..n : order[i] \in JobIds
    BY <1>1, <1>2
<1>4. /\ SubSeq(order, m, n) \in Seq(JobIds)
      /\ Len(SubSeq(order, m, n)) = IF m <= n THEN n - m + 1 ELSE 0
      /\ \A i \in 1..(n - m + 1) : SubSeq(order, m, n)[i] = order[m + i - 1]
    <2> HIDE DEF m, n
    <2> QED BY <1>3, SubSeqProperties
<1>5. Kept(order) = SubSeq(order, m, n)
    BY DEF Kept
<1>6. Len(Kept(order)) = Len(order) - Excess(order)
    BY <1>1, <1>2, <1>4, <1>5
<1>7. Len(Kept(order)) <= TERMINAL_RETAINED
    BY <1>1, <1>6, RetainedAssumption DEF Excess
<1>8. \A i \in 1..Len(Kept(order)) : Kept(order)[i] = order[i + Excess(order)]
    <2> TAKE i \in 1..Len(Kept(order))
    <2>1. i \in 1..(n - m + 1)
        BY <1>1, <1>2, <1>6
    <2>2. Kept(order)[i] = order[m + i - 1]
        BY <2>1, <1>4, <1>5
    <2>3. m + i - 1 = i + Excess(order)
        BY <2>1, <1>2
    <2> QED BY <2>2, <2>3
<1> QED BY <1>2, <1>4, <1>5, <1>6, <1>7, <1>8

\* Initially no run exists and no record is held.
LEMMA InitTable == Init => TableInv
BY MaxRunsAssumption, RetainedAssumption
DEF Init, TableInv, Shape, TypeOK, FreshAhead, IdAssigned, StatusByPhase,
    RunOwnsRecord, RetentionExact, Runs, NoRun, Statuses, Outcomes, Phases,
    Owning, Terminal, IsTerminal

\* Events are appended to one run's log and keep their type.
LEMMA EmitType ==
    ASSUME TypeOK, NEW r \in Runs, NEW kind \in EventKinds, Emit(kind, r)
    PROVE  events' \in [Runs -> Seq(EventKinds)]
BY DEF TypeOK, Emit
-----------------------------------------------------------------------------
(* One lemma per step of the protocol that touches the table.              *)

\* A run that has not inserted a record is held under no id.
LEMMA UninsertedHoldsNone ==
    ASSUME Shape, RunOwnsRecord, NEW r \in Runs,
           phase[r] \in {"unused", "resolved", "rejected"}
    PROVE  \A i \in JobIds : records[i] # r
<1> SUFFICES ASSUME NEW i \in JobIds, records[i] = r PROVE FALSE
    OBVIOUS
<1>1. r # NoRun
    BY DEF Runs, NoRun
<1>2. status[r] = "none"
    BY DEF Shape, StatusByPhase
<1>3. ~IsTerminal(r)
    BY <1>2 DEF IsTerminal, Terminal
<1>4. phase[r] \in Owning
    BY <1>1, <1>3 DEF RunOwnsRecord
<1> QED BY <1>4 DEF Owning

\* Drawing an id changes only the fresh run, which holds no record.
LEMMA ResolveKeeps ==
    ASSUME TableInv, NEW r \in Runs, NEW j \in JobIds, ResolveJobId(r, j)
    PROVE  TableInv'
<1> USE DEF ResolveJobId, TableInv, Shape
<1>1. phase[r] = "unused" /\ status[r] = "none"
    BY DEF FreshAhead, StatusByPhase, Runs, TypeOK
<1>2. \A i \in JobIds : records[i] # r
    BY <1>1, UninsertedHoldsNone
<1>3. TypeOK'
    BY MaxRunsAssumption DEF TypeOK, Phases, Runs
<1>4. FreshAhead' /\ IdAssigned' /\ StatusByPhase'
    BY <1>1 DEF FreshAhead, IdAssigned, StatusByPhase, TypeOK, Runs
<1>5. RunOwnsRecord'
    BY <1>1, <1>2 DEF RunOwnsRecord, Owning, TypeOK, IsTerminal, NoRun
<1>6. RetentionExact'
    BY DEF RetentionExact, IsTerminal
<1> QED BY <1>3, <1>4, <1>5, <1>6

\* A refused call leaves no trace but its own phase.
LEMMA RejectKeeps ==
    ASSUME TableInv, NEW r \in Runs, RejectDuplicate(r)
    PROVE  TableInv'
<1> USE DEF RejectDuplicate, TableInv, Shape
<1>1. TypeOK'
    BY DEF TypeOK, Phases
<1>2. FreshAhead' /\ IdAssigned' /\ StatusByPhase'
    BY DEF FreshAhead, IdAssigned, StatusByPhase, TypeOK, Runs
<1>3. RunOwnsRecord'
    BY DEF RunOwnsRecord, Owning, TypeOK, IsTerminal, NoRun
<1>4. RetentionExact'
    BY DEF RetentionExact, IsTerminal
<1> QED BY <1>1, <1>2, <1>3, <1>4

\* The id was free, so no owner and no listed id is displaced.
LEMMA InsertKeeps ==
    ASSUME TableInv, NEW r \in Runs, InsertRecord(r)
    PROVE  TableInv'
<1> USE DEF InsertRecord, TableInv, Shape
<1>1. job_id[r] \in JobIds /\ status[r] = "none"
    BY DEF IdAssigned, StatusByPhase
<1>2. \A i \in JobIds : records[i] # r
    BY UninsertedHoldsNone
<1>3. TypeOK'
    BY <1>1 DEF TypeOK, Phases, Statuses
<1>4. FreshAhead' /\ IdAssigned' /\ StatusByPhase'
    BY DEF FreshAhead, IdAssigned, StatusByPhase, TypeOK, Runs
<1>5. r # NoRun
    BY DEF Runs, NoRun
<1>6. RunOwnsRecord'
    <2>1. ASSUME NEW q \in Runs, phase'[q] \in Owning
          PROVE  records'[job_id'[q]] = q /\ status'[q] \in {"running", "cancelling"}
        <3>1. CASE q = r
            BY <3>1, <1>1 DEF TypeOK
        <3>2. CASE q # r
            <4>1. /\ phase[q] \in Owning /\ job_id[q] \in JobIds
                  /\ records[job_id[q]] = q
                  /\ status[q] \in {"running", "cancelling"}
                BY <2>1, <3>2 DEF RunOwnsRecord, IdAssigned, TypeOK, Owning
            <4>2. job_id[q] # job_id[r]
                BY <4>1 DEF Runs, NoRun
            <4> QED BY <4>1, <4>2, <3>2, <1>1 DEF TypeOK
        <3> QED BY <3>1, <3>2
    <2>2. ASSUME NEW i \in JobIds, records'[i] # NoRun
          PROVE  /\ job_id'[records'[i]] = i
                 /\ ~(status'[records'[i]] \in Terminal) => phase'[records'[i]] \in Owning
        <3>1. CASE i = job_id[r]
            BY <3>1, <1>1 DEF TypeOK, Owning
        <3>2. CASE i # job_id[r]
            <4>1. records'[i] = records[i] /\ records[i] \in Runs /\ records[i] # r
                BY <3>2, <2>2, <1>1, <1>2 DEF TypeOK
            <4>2. /\ job_id[records[i]] = i
                  /\ ~(status[records[i]] \in Terminal) => phase[records[i]] \in Owning
                BY <4>1, <2>2 DEF RunOwnsRecord, IsTerminal
            <4> QED BY <4>1, <4>2 DEF TypeOK
        <3> QED BY <3>1, <3>2
    <2> QED BY <2>1, <2>2 DEF RunOwnsRecord, IsTerminal
<1>7. \A i \in JobIds : (records'[i] # NoRun /\ IsTerminal(records[i])')
                          <=> (records[i] # NoRun /\ IsTerminal(records[i]))
    BY <1>1, <1>2, <1>5 DEF TypeOK, IsTerminal, Terminal, NoRun
<1>8. RetentionExact'
    BY <1>7 DEF RetentionExact, TypeOK
<1> QED BY <1>3, <1>4, <1>6, <1>8

\* Steps that only move an owning run along and leave the table alone.
LEMMA OwnerKeeps ==
    ASSUME TableInv, NEW r \in Runs, NEW p \in Owning,
           phase[r] \in Owning,
           phase' = [phase EXCEPT ![r] = p],
           TypeOK',
           UNCHANGED <<next_id, records, terminal_order, job_id, status>>
    PROVE  TableInv'
<1> USE DEF TableInv, Shape
<1>1. FreshAhead' /\ IdAssigned' /\ StatusByPhase'
    BY DEF FreshAhead, IdAssigned, StatusByPhase, TypeOK, Runs, Owning
<1>2. RunOwnsRecord'
    BY DEF RunOwnsRecord, Owning, TypeOK, IsTerminal, NoRun
<1>3. RetentionExact'
    BY DEF RetentionExact, IsTerminal
<1> QED BY <1>1, <1>2, <1>3

\* A running record becomes a cancelling one: still unfinished, still owned.
LEMMA CancelKeeps ==
    ASSUME TableInv, NEW j \in JobIds, CancelLocked(j)
    PROVE  TableInv'
<1> USE DEF CancelLocked, TableInv, Shape
<1> DEFINE r == records[j]
<1>1. r \in Runs /\ status[r] = "running"
    BY DEF TypeOK
<1>2. TypeOK'
    BY <1>1 DEF TypeOK, Statuses
<1>3. FreshAhead' /\ IdAssigned' /\ StatusByPhase'
    BY <1>1 DEF FreshAhead, IdAssigned, StatusByPhase, TypeOK, Runs, Terminal
<1>4. \A q \in Runs : status'[q] \in Terminal <=> status[q] \in Terminal
    BY <1>1 DEF TypeOK, Terminal
<1>5. RunOwnsRecord'
    BY <1>1, <1>4 DEF RunOwnsRecord, Owning, TypeOK, IsTerminal, NoRun, Terminal
<1>6. RetentionExact'
    BY <1>4 DEF RetentionExact, IsTerminal, TypeOK
<1> QED BY <1>2, <1>3, <1>5, <1>6

\* The list of finished ids with the filing run's own id at its end.
FiledOrder(r) == Append(terminal_order, job_id[r])

\* What filing does: the run's own record takes the outcome, its id joins the
\* list, where it was not, and at most the oldest listed id goes, together with
\* its record, which belongs to another, finished run.
LEMMA FileEffect ==
    ASSUME TableInv, NEW r \in Runs, FileOutcome(r)
    PROVE  LET id == job_id[r]
               order == FiledOrder(r)
               e == Excess(order)
               st == [status EXCEPT ![r] = FinishStatus(outcome[r])]
           IN  /\ phase[r] = "returned"
               /\ id \in JobIds /\ records[id] = r /\ r # NoRun
               /\ status[r] \in {"running", "cancelling"}
               /\ status' = st
               /\ terminal_order' = Kept(order)
               /\ records' = Pruned(records, order, st)
               /\ phase' = [phase EXCEPT ![r] = "filed"]
               /\ UNCHANGED <<next_id, job_id, cancel_requested, token, outcome,
                              canceller, events>>
               /\ FinishStatus(outcome[r]) \in Terminal
               /\ order \in Seq(JobIds)
               /\ Len(order) = Len(terminal_order) + 1
               /\ \A i \in 1..Len(terminal_order) : order[i] = terminal_order[i]
               /\ order[Len(terminal_order) + 1] = id
               /\ Len(terminal_order) \in Nat /\ Len(terminal_order) <= TERMINAL_RETAINED
               /\ e \in {0, 1}
               /\ Kept(order) \in Seq(JobIds)
               /\ Len(Kept(order)) = Len(order) - e
               /\ Len(Kept(order)) <= TERMINAL_RETAINED
               /\ \A i \in 1..Len(Kept(order)) : Kept(order)[i] = order[i + e]
               /\ \A i, k \in 1..Len(order) : order[i] = order[k] => i = k
               /\ e = 1 => order[1] # id /\ Len(order) >= 2
               /\ \A q \in Runs : st[q] \in Terminal <=> (q = r \/ status[q] \in Terminal)
               /\ \A j \in JobIds : records'[j] =
                     IF e = 1 /\ j = order[1] THEN NoRun ELSE records[j]
<1> USE DEF TableInv, Shape
<1> DEFINE id == job_id[r]
           order == FiledOrder(r)
           st == [status EXCEPT ![r] = FinishStatus(outcome[r])]
           e == Excess(order)
<1>1. phase[r] = "returned"
    BY DEF FileOutcome
<1>2. id \in JobIds /\ records[id] = r /\ r # NoRun
      /\ status[r] \in {"running", "cancelling"}
    BY <1>1 DEF IdAssigned, RunOwnsRecord, Owning, Runs, NoRun
<1>3. /\ status' = st
      /\ terminal_order' = Kept(order)
      /\ records' = Pruned(records, order, st)
      /\ phase' = [phase EXCEPT ![r] = "filed"]
      /\ UNCHANGED <<next_id, job_id, cancel_requested, token, outcome,
                     canceller, events>>
    BY <1>2 DEF FileOutcome, FiledOrder
<1>4. FinishStatus(outcome[r]) \in Terminal
    BY DEF FinishStatus, Terminal
<1>5. /\ order \in Seq(JobIds)
      /\ Len(order) = Len(terminal_order) + 1
      /\ \A i \in 1..Len(terminal_order) : order[i] = terminal_order[i]
      /\ order[Len(terminal_order) + 1] = id
    BY <1>2, AppendProperties DEF TypeOK, FiledOrder
<1>6. Len(terminal_order) \in Nat /\ Len(terminal_order) <= TERMINAL_RETAINED
    BY DEF TypeOK, RetentionExact
<1>7. Len(order) <= TERMINAL_RETAINED + 1
    BY <1>5, <1>6, RetainedAssumption
<1>8. /\ e \in {0, 1}
      /\ Kept(order) \in Seq(JobIds)
      /\ Len(Kept(order)) = Len(order) - e
      /\ Len(Kept(order)) <= TERMINAL_RETAINED
      /\ \A i \in 1..Len(Kept(order)) : Kept(order)[i] = order[i + e]
    <2> HIDE DEF order
    <2> QED BY <1>5, <1>7, KeptProperties
<1>9. \A i \in 1..Len(terminal_order) : terminal_order[i] # id
    <2>1. ~IsTerminal(records[id])
        BY <1>2 DEF IsTerminal, Terminal
    <2>2. DOMAIN terminal_order = 1..Len(terminal_order)
        BY DEF TypeOK
    <2> QED BY <1>2, <2>1, <2>2 DEF RetentionExact
<1>10. \A i, k \in 1..Len(order) : order[i] = order[k] => i = k
    <2>1. \A i, k \in 1..Len(terminal_order) :
             terminal_order[i] = terminal_order[k] => i = k
        BY DEF RetentionExact, TypeOK
    <2> HIDE DEF order, id
    <2> SUFFICES ASSUME NEW i \in 1..Len(order), NEW k \in 1..Len(order),
                        order[i] = order[k]
                 PROVE  i = k
        OBVIOUS
    <2>2. /\ i \in 1..Len(terminal_order) \/ i = Len(terminal_order) + 1
          /\ k \in 1..Len(terminal_order) \/ k = Len(terminal_order) + 1
        BY <1>5, <1>6
    <2> QED BY <2>1, <2>2, <1>5, <1>9
<1>11. e = 1 => order[1] # id /\ Len(order) >= 2
    <2> SUFFICES ASSUME e = 1 PROVE order[1] # id /\ Len(order) >= 2
        OBVIOUS
    <2>1. Len(order) > TERMINAL_RETAINED
        BY DEF Excess
    <2> HIDE DEF order, e
    <2>2. Len(order) >= 2
        BY <2>1, <1>5, <1>6, RetainedAssumption
    <2> QED BY <2>2, <1>5, <1>6, <1>9
<1>12. \A q \in Runs : st[q] \in Terminal <=> (q = r \/ status[q] \in Terminal)
    BY <1>4 DEF TypeOK
<1>13. \A j \in JobIds : records'[j] =
           IF e = 1 /\ j = order[1] THEN NoRun ELSE records[j]
    <2> SUFFICES ASSUME NEW j \in JobIds
                 PROVE records'[j] = IF e = 1 /\ j = order[1] THEN NoRun ELSE records[j]
        OBVIOUS
    <2>1. (\E i \in 1..e : order[i] = j) <=> (e = 1 /\ j = order[1])
        <3> HIDE DEF order, e
        <3> QED BY <1>8
    <2>2. e = 1 /\ j = order[1] => /\ records[j] # NoRun
                                  /\ st[records[j]] \in Terminal
        <3> SUFFICES ASSUME e = 1, j = order[1]
                     PROVE records[j] # NoRun /\ st[records[j]] \in Terminal
            OBVIOUS
        <3> HIDE DEF order, e, st
        <3>1. 1 \in 1..Len(terminal_order) /\ terminal_order[1] = j
            BY <1>5, <1>6, <1>11
        <3>2. records[j] # NoRun /\ status[records[j]] \in Terminal
            BY <3>1 DEF RetentionExact, TypeOK, IsTerminal
        <3> QED BY <3>2, <1>12 DEF TypeOK
    <2>3. records'[j] = IF /\ \E i \in 1..e : order[i] = j
                            /\ records[j] # NoRun
                            /\ st[records[j]] \in Terminal
                         THEN NoRun ELSE records[j]
        BY <1>3 DEF Pruned
    <2> HIDE DEF order, e, st
    <2> QED BY <2>1, <2>2, <2>3
<1> QED BY <1>1, <1>2, <1>3, <1>4, <1>5, <1>6, <1>8, <1>10, <1>11, <1>12, <1>13

\* Filing keeps the table's invariant.
LEMMA FileKeeps ==
    ASSUME TableInv, NEW r \in Runs, FileOutcome(r)
    PROVE  TableInv'
<1> USE DEF TableInv, Shape
<1> DEFINE id == job_id[r]
           order == FiledOrder(r)
           st == [status EXCEPT ![r] = FinishStatus(outcome[r])]
           e == Excess(order)
<1>1. phase[r] = "returned"
    BY FileEffect
<1>2. id \in JobIds /\ records[id] = r /\ r # NoRun
      /\ status[r] \in {"running", "cancelling"}
    BY FileEffect
<1>3. /\ status' = st
      /\ terminal_order' = Kept(order)
      /\ records' = Pruned(records, order, st)
      /\ phase' = [phase EXCEPT ![r] = "filed"]
      /\ UNCHANGED <<next_id, job_id, cancel_requested, token, outcome,
                     canceller, events>>
    BY FileEffect
<1>4. FinishStatus(outcome[r]) \in Terminal
    BY FileEffect
<1>5. /\ order \in Seq(JobIds)
      /\ Len(order) = Len(terminal_order) + 1
      /\ \A i \in 1..Len(terminal_order) : order[i] = terminal_order[i]
      /\ order[Len(terminal_order) + 1] = id
    BY FileEffect
<1>6. Len(terminal_order) \in Nat /\ Len(terminal_order) <= TERMINAL_RETAINED
    BY FileEffect
<1>8. /\ e \in {0, 1}
      /\ Kept(order) \in Seq(JobIds)
      /\ Len(Kept(order)) = Len(order) - e
      /\ Len(Kept(order)) <= TERMINAL_RETAINED
      /\ \A i \in 1..Len(Kept(order)) : Kept(order)[i] = order[i + e]
    BY FileEffect
<1>10. \A i, k \in 1..Len(order) : order[i] = order[k] => i = k
    BY FileEffect
<1>11. e = 1 => order[1] # id /\ Len(order) >= 2
    BY FileEffect
<1>12. \A q \in Runs : st[q] \in Terminal <=> (q = r \/ status[q] \in Terminal)
    BY FileEffect
<1>13. \A j \in JobIds : records'[j] =
           IF e = 1 /\ j = order[1] THEN NoRun ELSE records[j]
    BY FileEffect
<1>14. TypeOK'
    <2>1. records' \in [JobIds -> Runs \cup {NoRun}]
        BY <1>3 DEF TypeOK, Pruned
    <2>2. status' \in [Runs -> Statuses]
        BY <1>3, <1>4 DEF TypeOK, Statuses
    <2>3. terminal_order' \in Seq(JobIds)
        BY <1>3, <1>8
    <2>4. phase' \in [Runs -> Phases]
        BY <1>3 DEF TypeOK, Phases
    <2> QED BY <1>3, <2>1, <2>2, <2>3, <2>4 DEF TypeOK
<1> HIDE DEF order, e, st
<1>15. FreshAhead' /\ IdAssigned' /\ StatusByPhase'
    BY <1>1, <1>3, <1>4, <1>12
    DEF FreshAhead, IdAssigned, StatusByPhase, TypeOK, Runs, st, Terminal
<1>16. RunOwnsRecord'
    <2>1. ASSUME NEW q \in Runs, phase'[q] \in Owning
          PROVE  records'[job_id'[q]] = q /\ status'[q] \in {"running", "cancelling"}
        <3>1. q # r /\ phase[q] \in Owning
            BY <2>1, <1>3 DEF TypeOK, Owning
        <3>2. /\ job_id[q] \in JobIds /\ records[job_id[q]] = q
              /\ status[q] \in {"running", "cancelling"}
            BY <3>1 DEF RunOwnsRecord, IdAssigned, Owning
        <3>3. ~(e = 1 /\ job_id[q] = order[1])
            <4> SUFFICES ASSUME e = 1, job_id[q] = order[1] PROVE FALSE
                OBVIOUS
            <4>1. 1 \in 1..Len(terminal_order) /\ terminal_order[1] = job_id[q]
                BY <1>5, <1>6, <1>11
            <4>2. DOMAIN terminal_order = 1..Len(terminal_order)
                BY DEF TypeOK
            <4>3. IsTerminal(records[job_id[q]])
                BY <4>1, <4>2, <3>2 DEF RetentionExact
            <4> QED BY <4>3, <3>2 DEF IsTerminal, Terminal
        <3> QED BY <3>1, <3>2, <3>3, <1>3, <1>13 DEF st, TypeOK
    <2>2. ASSUME NEW j \in JobIds, records'[j] # NoRun
          PROVE  /\ job_id'[records'[j]] = j
                 /\ ~(status'[records'[j]] \in Terminal) => phase'[records'[j]] \in Owning
        <3>1. records'[j] = records[j] /\ records[j] # NoRun
            BY <2>2, <1>13
        <3>2. records[j] \in Runs /\ job_id[records[j]] = j
            BY <3>1 DEF RunOwnsRecord, TypeOK
        <3>3. status'[records[j]] \in Terminal <=> (records[j] = r \/ status[records[j]] \in Terminal)
            BY <1>3, <1>12, <3>2
        <3>4. ~(status'[records[j]] \in Terminal) => phase'[records[j]] = phase[records[j]]
            BY <1>3, <3>2, <3>3 DEF TypeOK
        <3>5. ~(status[records[j]] \in Terminal) => phase[records[j]] \in Owning
            BY <3>1 DEF RunOwnsRecord, IsTerminal
        <3> QED BY <3>1, <3>2, <3>3, <3>4, <3>5, <1>3
    <2> QED BY <2>1, <2>2 DEF RunOwnsRecord, IsTerminal
<1>17. RetentionExact'
    <2>1. Len(terminal_order') <= TERMINAL_RETAINED
        BY <1>3, <1>8
    <2>2. ASSUME NEW i \in DOMAIN terminal_order', NEW k \in DOMAIN terminal_order',
                 terminal_order'[i] = terminal_order'[k]
          PROVE  i = k
        <3>1. i \in 1..Len(Kept(order)) /\ k \in 1..Len(Kept(order))
            BY <1>3, <1>8
        <3>2. i + e \in 1..Len(order) /\ k + e \in 1..Len(order)
            BY <3>1, <1>5, <1>6, <1>8
        <3>3. order[i + e] = order[k + e]
            BY <2>2, <3>1, <1>3, <1>8
        <3>4. i + e = k + e
            BY <3>2, <3>3, <1>10
        <3> QED BY <3>1, <3>4, <1>8
    <2>3. ASSUME NEW j \in JobIds
          PROVE  (records'[j] # NoRun /\ status'[records'[j]] \in Terminal)
                    <=> (\E i \in DOMAIN terminal_order' : terminal_order'[i] = j)
        <3>1. (\E i \in DOMAIN terminal_order' : terminal_order'[i] = j)
                <=> (\E i \in 1..Len(order) : order[i] = j /\ i > e)
            <4>1. ASSUME NEW i \in DOMAIN terminal_order', terminal_order'[i] = j
                  PROVE  \E k \in 1..Len(order) : order[k] = j /\ k > e
                <5>1. i \in 1..Len(Kept(order))
                    BY <4>1, <1>3, <1>8
                <5>2. i + e \in 1..Len(order) /\ i + e > e
                    BY <5>1, <1>5, <1>6, <1>8
                <5> QED BY <5>1, <5>2, <4>1, <1>3, <1>8
            <4>2. ASSUME NEW k \in 1..Len(order), order[k] = j, k > e
                  PROVE  \E i \in DOMAIN terminal_order' : terminal_order'[i] = j
                <5>1. k - e \in 1..Len(Kept(order)) /\ (k - e) + e = k
                    BY <4>2, <1>5, <1>6, <1>8
                <5>2. Kept(order)[k - e] = j
                    BY <5>1, <4>2, <1>8
                <5> QED BY <5>1, <5>2, <1>3, <1>8
            <4> QED BY <4>1, <4>2
        <3>2. (\E i \in 1..Len(order) : order[i] = j /\ i > e)
                <=> ((\E i \in 1..Len(order) : order[i] = j) /\ ~(e = 1 /\ j = order[1]))
            <4>1. Len(order) \in Nat /\ 1 \in 1..Len(order)
                BY <1>5, <1>6
            <4>2. ASSUME NEW i \in 1..Len(order), order[i] = j, i > e
                  PROVE  ~(e = 1 /\ j = order[1])
                <5>1. order[1] = order[i] => i = 1
                    BY <1>10, <4>1
                <5> QED BY <4>2, <5>1
            <4>3. ASSUME NEW i \in 1..Len(order), order[i] = j, ~(e = 1 /\ j = order[1])
                  PROVE  i > e
                <5>1. CASE e = 0
                    BY <5>1
                <5>2. CASE e = 1
                    BY <5>2, <4>3
                <5> QED BY <5>1, <5>2, <1>8
            <4> QED BY <4>2, <4>3
        <3>3. (\E i \in 1..Len(order) : order[i] = j)
                <=> (j = id \/ \E i \in 1..Len(terminal_order) : terminal_order[i] = j)
            BY <1>5, <1>6
        <3>4. (\E i \in 1..Len(terminal_order) : terminal_order[i] = j)
                <=> (records[j] # NoRun /\ status[records[j]] \in Terminal)
            BY DEF RetentionExact, TypeOK, IsTerminal
        <3>5. j # id => records[j] # r
            BY <1>2 DEF RunOwnsRecord, TypeOK
        <3>6. (records[j] # NoRun /\ st[records[j]] \in Terminal)
                <=> (j = id \/ (records[j] # NoRun /\ status[records[j]] \in Terminal))
            BY <1>2, <1>12, <3>5 DEF TypeOK
        <3>7. (records'[j] # NoRun /\ status'[records'[j]] \in Terminal)
                <=> (/\ ~(e = 1 /\ j = order[1])
                     /\ records[j] # NoRun /\ st[records[j]] \in Terminal)
            BY <1>3, <1>13
        <3> QED BY <3>1, <3>2, <3>3, <3>4, <3>6, <3>7
    <2> QED BY <2>1, <2>2, <2>3 DEF RetentionExact, IsTerminal
<1> QED BY <1>14, <1>15, <1>16, <1>17

\* The terminal event is emitted after the record took its final status.
LEMMA EmitTerminalKeeps ==
    ASSUME TableInv, NEW r \in Runs, EmitTerminal(r)
    PROVE  TableInv'
<1> USE DEF EmitTerminal, TableInv, Shape
<1>1. FinishStatus(outcome[r]) \in EventKinds
    BY DEF FinishStatus, EventKinds, Terminal
<1>2. TypeOK'
    BY <1>1, EmitType DEF TypeOK, Phases
<1>3. FreshAhead' /\ IdAssigned' /\ StatusByPhase'
    BY DEF FreshAhead, IdAssigned, StatusByPhase, TypeOK, Runs
<1>4. RunOwnsRecord'
    BY DEF RunOwnsRecord, Owning, TypeOK, IsTerminal, NoRun
<1>5. RetentionExact'
    BY DEF RetentionExact, IsTerminal
<1> QED BY <1>2, <1>3, <1>4, <1>5

-----------------------------------------------------------------------------
\* Every step of the job table preserves the invariant.
LEMMA NextKeeps == TableInv /\ [Next]_vars => TableInv'
<1> SUFFICES ASSUME TableInv, [Next]_vars PROVE TableInv'
    OBVIOUS
<1>1. ASSUME NEW r \in Runs, NEW j \in JobIds, ResolveJobId(r, j) PROVE TableInv'
    BY <1>1, ResolveKeeps
<1>2. ASSUME NEW r \in Runs, RejectDuplicate(r) PROVE TableInv'
    BY <1>2, RejectKeeps
<1>3. ASSUME NEW r \in Runs, InsertRecord(r) PROVE TableInv'
    BY <1>3, InsertKeeps
<1>4. ASSUME NEW r \in Runs, EmitStarted(r) PROVE TableInv'
    <2>1. TypeOK'
        BY <1>4, EmitType
        DEF EmitStarted, TableInv, Shape, TypeOK, Phases, EventKinds
    <2> QED BY <1>4, <2>1, OwnerKeeps DEF EmitStarted, Owning
<1>5. ASSUME NEW r \in Runs, EmitProgress(r) PROVE TableInv'
    <2>1. TypeOK'
        BY <1>5, EmitType
        DEF EmitProgress, TableInv, Shape, TypeOK, Phases, EventKinds
    <2> QED BY <1>5, <2>1, OwnerKeeps DEF EmitProgress, Owning
<1>6. ASSUME NEW r \in Runs, NEW result \in Results, Execute(r, result) PROVE TableInv'
    <2>1. TypeOK'
        BY <1>6 DEF Execute, TableInv, Shape, TypeOK, Phases, Outcomes
    <2> QED BY <1>6, <2>1, OwnerKeeps DEF Execute, Owning
<1>7. ASSUME NEW r \in Runs, FileOutcome(r) PROVE TableInv'
    BY <1>7, FileKeeps
<1>8. ASSUME NEW r \in Runs, EmitTerminal(r) PROVE TableInv'
    BY <1>8, EmitTerminalKeeps
<1>9. ASSUME NEW r \in Runs, EmitCancelRequested(r) PROVE TableInv'
    <2>1. TypeOK'
        BY <1>9, EmitType
        DEF EmitCancelRequested, TableInv, Shape, TypeOK, EventKinds
    <2> QED BY <1>9, <2>1
        DEF EmitCancelRequested, TableInv, Shape, FreshAhead, IdAssigned,
            StatusByPhase, RunOwnsRecord, RetentionExact, IsTerminal
<1>10. ASSUME NEW j \in JobIds, CancelLocked(j) PROVE TableInv'
    BY <1>10, CancelKeeps
<1>11. CASE UNCHANGED vars
    BY <1>11
    DEF vars, TableInv, Shape, TypeOK, FreshAhead, IdAssigned, StatusByPhase,
        RunOwnsRecord, RetentionExact, IsTerminal
<1> QED BY <1>1, <1>2, <1>3, <1>4, <1>5, <1>6, <1>7, <1>8, <1>9, <1>10, <1>11
    DEF Next, RunStep, ThreadStep

\* The job table's invariant for every instance: types, and with them who owns
\* which record and which finished records are kept.
THEOREM TableCorrect == Spec => []TableInv
BY InitTable, NextKeeps, PTL DEF Spec

\* Every variable of the job table keeps its type (jobs/mod.rs).
THEOREM TypeCorrect == Spec => []TypeOK
<1>1. TableInv => TypeOK
    BY DEF TableInv, Shape
<1> QED BY <1>1, TableCorrect, PTL

\* A job thread always finds its own unfinished record when it files its
\* outcome, so run_job's early return is dead and no job is left wedged.
THEOREM OwnershipHolds == Spec => []RunOwnsRecord
<1>1. TableInv => RunOwnsRecord
    BY DEF TableInv
<1> QED BY <1>1, TableCorrect, PTL

\* prune_terminal_jobs keeps exactly the finished records it lists, and never
\* more than TERMINAL_RETAINED, for every retention bound.
THEOREM RetentionHolds == Spec => []RetentionExact
<1>1. TableInv => RetentionExact
    BY DEF TableInv
<1> QED BY <1>1, TableCorrect, PTL
-----------------------------------------------------------------------------
(* The refinement of JobService.                                           *)

\* What was announced about a run, and the status its terminal event will
\* carry, follow from where its thread stands; a cancel call that has yet to
\* announce itself has already changed the status.
StoryByPhase ==
    \A r \in Runs :
        /\ phase[r] \in {"unused", "resolved", "rejected", "inserted"} => events[r] = <<>>
        /\ phase[r] = "spawned" => events[r] = <<"started">>
        /\ phase[r] \in {"executing", "returned", "filed"}
              => events[r] = <<"started", "progress">>
        /\ phase[r] = "filed" => status[r] = FinishStatus(outcome[r])
        /\ canceller[r] # "none" => status[r] \in {"cancelling"} \cup Terminal

\* The invariant under which a step of the table is a step of the service.
ServiceInv == TableInv /\ StoryByPhase

\* The second event of a log.
LEMMA AppendToOne ==
    ASSUME NEW x, NEW y
    PROVE  Append(<<x>>, y) = <<x, y>>
<1> DEFINE S == {x, y}
           s == Append(<<x>>, y)
           t == <<x, y>>
<1>1. <<x>> \in Seq(S) /\ Len(<<x>>) = 1 /\ <<x>>[1] = x
    OBVIOUS
<1>2. t \in Seq(S) /\ Len(t) = 2 /\ t[1] = x /\ t[2] = y
    OBVIOUS
<1>3. s \in Seq(S) /\ Len(s) = 2 /\ s[1] = x /\ s[2] = y
    BY AppendProperties, <1>1
<1> HIDE DEF s, t, S
<1>4. \A i \in 1..Len(s) : s[i] = t[i]
    BY <1>2, <1>3
<1>5. s = t
    BY <1>2, <1>3, <1>4, SeqEqual
<1> QED BY <1>5 DEF s, t

\* Every step of the job table keeps the story in line with the phases.
LEMMA NextStory == TableInv /\ StoryByPhase /\ [Next]_vars => StoryByPhase'
<1> SUFFICES ASSUME TableInv, StoryByPhase, [Next]_vars PROVE StoryByPhase'
    OBVIOUS
<1> USE DEF TableInv, Shape
<1>1. ASSUME NEW r \in Runs, NEW j \in JobIds, ResolveJobId(r, j) PROVE StoryByPhase'
    <2>1. phase[r] = "unused"
        BY <1>1 DEF ResolveJobId, FreshAhead, TypeOK, Runs
    <2> QED BY <1>1, <2>1 DEF ResolveJobId, StoryByPhase, TypeOK
<1>2. ASSUME NEW r \in Runs, RejectDuplicate(r) PROVE StoryByPhase'
    BY <1>2 DEF RejectDuplicate, StoryByPhase, TypeOK
<1>3. ASSUME NEW r \in Runs, InsertRecord(r) PROVE StoryByPhase'
    <2>1. status[r] = "none"
        BY <1>3 DEF InsertRecord, StatusByPhase
    <2> QED BY <1>3, <2>1 DEF InsertRecord, StoryByPhase, TypeOK, Terminal
<1>4. ASSUME NEW r \in Runs, EmitStarted(r) PROVE StoryByPhase'
    <2>1. events'[r] = <<"started">>
        <3>1. events[r] = <<>> /\ events'[r] = Append(events[r], "started")
            BY <1>4 DEF EmitStarted, Emit, StoryByPhase, TypeOK
        <3> QED BY <3>1
    <2>2. \A q \in Runs : q # r => events'[q] = events[q] /\ phase'[q] = phase[q]
        BY <1>4 DEF EmitStarted, Emit, TypeOK
    <2>3. phase'[r] = "spawned" /\ UNCHANGED <<status, outcome, canceller>>
        BY <1>4 DEF EmitStarted, TypeOK
    <2> QED BY <2>1, <2>2, <2>3 DEF StoryByPhase
<1>5. ASSUME NEW r \in Runs, EmitProgress(r) PROVE StoryByPhase'
    <2>1. events'[r] = <<"started", "progress">>
        <3>1. events[r] = <<"started">> /\ events'[r] = Append(events[r], "progress")
            BY <1>5 DEF EmitProgress, Emit, StoryByPhase, TypeOK
        <3> QED BY <3>1, AppendToOne
    <2>2. \A q \in Runs : q # r => events'[q] = events[q] /\ phase'[q] = phase[q]
        BY <1>5 DEF EmitProgress, Emit, TypeOK
    <2>3. phase'[r] = "executing" /\ UNCHANGED <<status, outcome, canceller>>
        BY <1>5 DEF EmitProgress, TypeOK
    <2> QED BY <2>1, <2>2, <2>3 DEF StoryByPhase
<1>6. ASSUME NEW r \in Runs, NEW result \in Results, Execute(r, result) PROVE StoryByPhase'
    BY <1>6 DEF Execute, StoryByPhase, TypeOK
<1>7. ASSUME NEW r \in Runs, FileOutcome(r) PROVE StoryByPhase'
    <2>1. /\ phase[r] = "returned" /\ phase' = [phase EXCEPT ![r] = "filed"]
          /\ status' = [status EXCEPT ![r] = FinishStatus(outcome[r])]
          /\ FinishStatus(outcome[r]) \in Terminal
          /\ UNCHANGED <<outcome, canceller, events>>
        BY <1>7, FileEffect
    <2> QED BY <2>1 DEF StoryByPhase, TypeOK
<1>8. ASSUME NEW r \in Runs, EmitTerminal(r) PROVE StoryByPhase'
    <2>1. \A q \in Runs : q # r => events'[q] = events[q] /\ phase'[q] = phase[q]
        BY <1>8 DEF EmitTerminal, Emit, TypeOK
    <2>2. phase'[r] = "done" /\ UNCHANGED <<status, outcome, canceller>>
        BY <1>8 DEF EmitTerminal, TypeOK
    <2> QED BY <2>1, <2>2 DEF StoryByPhase
<1>9. ASSUME NEW r \in Runs, EmitCancelRequested(r) PROVE StoryByPhase'
    BY <1>9 DEF EmitCancelRequested, StoryByPhase, TypeOK
<1>10. ASSUME NEW j \in JobIds, CancelLocked(j) PROVE StoryByPhase'
    <2>1. records[j] \in Runs /\ status[records[j]] = "running"
        BY <1>10 DEF CancelLocked, TypeOK
    <2>2. FinishStatus(outcome[records[j]]) # "running"
        BY DEF FinishStatus
    <2>3. phase[records[j]] # "filed"
        BY <2>1, <2>2 DEF StoryByPhase
    <2> QED BY <1>10, <2>1, <2>3 DEF CancelLocked, StoryByPhase, TypeOK
<1>11. CASE UNCHANGED vars
    BY <1>11 DEF vars, StoryByPhase
<1> QED BY <1>1, <1>2, <1>3, <1>4, <1>5, <1>6, <1>7, <1>8, <1>9, <1>10, <1>11
    DEF Next, RunStep, ThreadStep

\* The finished jobs that are listed are counted by terminal_order.
LEMMA FinishedCounted ==
    ASSUME TableInv
    PROVE  /\ IsFiniteSet(Service!Finished(Listed))
           /\ Cardinality(Service!Finished(Listed)) = Len(terminal_order)
<1> DEFINE F == Service!Finished(Listed)
           n == Len(terminal_order)
           f == [i \in 1..n |-> records[terminal_order[i]]]
<1> USE DEF TableInv, Shape
<1>1. F = {r \in Runs : status[r] \in Terminal /\ records[job_id[r]] = r}
    BY DEF Service!Finished, Service!Outcome, Listed, Terminal
<1>2. n \in Nat /\ DOMAIN terminal_order = 1..n
    BY DEF TypeOK
<1>3. \A i \in 1..n : /\ terminal_order[i] \in JobIds
                      /\ records[terminal_order[i]] \in Runs
                      /\ status[records[terminal_order[i]]] \in Terminal
                      /\ job_id[records[terminal_order[i]]] = terminal_order[i]
    <2> TAKE i \in 1..n
    <2>1. terminal_order[i] \in JobIds
        BY <1>2 DEF TypeOK
    <2>2. records[terminal_order[i]] # NoRun /\ IsTerminal(records[terminal_order[i]])
        BY <1>2, <2>1 DEF RetentionExact
    <2>3. records[terminal_order[i]] \in Runs
        BY <2>1, <2>2 DEF TypeOK
    <2> QED BY <2>1, <2>2, <2>3 DEF RunOwnsRecord, IsTerminal
<1>4. f \in [1..n -> F]
    BY <1>1, <1>3
<1>5. \A i, k \in 1..n : f[i] = f[k] => i = k
    <2> SUFFICES ASSUME NEW i \in 1..n, NEW k \in 1..n, f[i] = f[k] PROVE i = k
        OBVIOUS
    <2>1. terminal_order[i] = terminal_order[k]
        BY <1>3
    <2> QED BY <2>1, <1>2 DEF RetentionExact
<1>6. \A r \in F : \E i \in 1..n : f[i] = r
    <2> SUFFICES ASSUME NEW r \in F PROVE \E i \in 1..n : f[i] = r
        OBVIOUS
    <2>1. r \in Runs /\ status[r] \in Terminal /\ records[job_id[r]] = r
        BY <1>1
    <2>2. phase[r] \notin {"unused", "resolved", "rejected"}
        BY <2>1 DEF StatusByPhase, Terminal
    <2>3. job_id[r] \in JobIds /\ records[job_id[r]] # NoRun
        BY <2>1, <2>2 DEF IdAssigned, Runs, NoRun
    <2>4. PICK i \in 1..n : terminal_order[i] = job_id[r]
        BY <2>1, <2>3, <1>2 DEF RetentionExact, IsTerminal
    <2> QED BY <2>1, <2>4
<1> HIDE DEF f, F, n
<1>7. ExistsBijection(1..n, F)
    <2>1. f \in Bijection(1..n, F)
        BY <1>4, <1>5, <1>6, Fun_IsBij
    <2> QED BY <2>1 DEF ExistsBijection
<1>8. IsFiniteSet(1..n) /\ Cardinality(1..n) = n
    BY <1>2, FS_Interval
<1>9. IsFiniteSet(F) /\ Cardinality(F) = n
    BY <1>7, <1>8, FS_Bijection
<1> QED BY <1>9 DEF F, n

\* An accepted job takes a name that no listed job has.
LEMMA InsertAccepts ==
    ASSUME ServiceInv, NEW r \in Runs, InsertRecord(r)
    PROVE  Service!Accept(r)
<1> USE DEF ServiceInv, TableInv, Shape, InsertRecord
<1> DEFINE nm == [q \in Runs |-> IF status[q] = "none" THEN NoId ELSE job_id[q]]
<1>1. status[r] = "none" /\ job_id[r] \in JobIds /\ r # NoRun
    BY DEF StatusByPhase, IdAssigned, Runs, NoRun
<1>2. \A i \in JobIds : records[i] # r
    BY UninsertedHoldsNone
<1>3. nm' = [nm EXCEPT ![r] = job_id[r]]
    BY <1>1 DEF TypeOK
<1>4. \A q \in Runs : status[q] # "none" => job_id[q] \in JobIds
    BY DEF IdAssigned, StatusByPhase
<1>5. job_id[r] \notin {nm[k] : k \in Listed}
    BY <1>1, <1>4 DEF Listed, Runs, NoRun
<1>6. Listed' = Listed \cup {r}
    <2>1. \A q \in Runs : q # r => (q \in Listed' <=> q \in Listed)
        BY <1>1, <1>4, <1>5 DEF Listed, TypeOK, NoRun, Runs
    <2>2. r \in Listed'
        BY <1>1 DEF Listed, TypeOK
    <2> QED BY <2>1, <2>2 DEF Listed
<1>7. status' = [status EXCEPT ![r] = "running"] /\ UNCHANGED <<events, canceller>>
    OBVIOUS
<1> QED BY <1>1, <1>3, <1>5, <1>6, <1>7 DEF Service!Accept

\* The table, the statuses and the ids decide the names and the list.
LEMMA ServiceKeeps ==
    ASSUME UNCHANGED <<records, job_id, status>>
    PROVE  /\ UNCHANGED Listed
           /\ UNCHANGED [q \in Runs |-> IF status[q] = "none" THEN NoId ELSE job_id[q]]
BY DEF Listed

\* Every emission is the next event of the run's life, and true.
LEMMA EmitAnnounces ==
    ASSUME ServiceInv, NEW r \in Runs,
           EmitStarted(r) \/ EmitProgress(r) \/ EmitTerminal(r)
    PROVE  Service!Announce(r)
<1> USE DEF ServiceInv, TableInv, Shape
<1> DEFINE kind == CASE phase[r] = "inserted" -> "started"
                     [] phase[r] = "spawned" -> "progress"
                     [] OTHER -> FinishStatus(outcome[r])
<1>1. events' = [events EXCEPT ![r] = Append(@, kind)]
    BY DEF EmitStarted, EmitProgress, EmitTerminal, Emit
<1>2. status[r] # "none" /\ phase[r] \in {"inserted", "spawned", "filed"}
    BY DEF EmitStarted, EmitProgress, EmitTerminal, RunOwnsRecord, Owning,
           StatusByPhase, Terminal
<1>3. UNCHANGED <<records, job_id, status, canceller>>
    BY DEF EmitStarted, EmitProgress, EmitTerminal
<1>4. kind \in Service!Life(r)
    <2>1. CASE phase[r] = "inserted"
        BY <2>1 DEF StoryByPhase, Service!Life
    <2>2. CASE phase[r] = "spawned"
        <3>1. events[r] = <<"started">> /\ events[r] # <<>>
            BY <2>2 DEF StoryByPhase
        <3> QED BY <2>2, <3>1 DEF Service!Life
    <2>3. CASE phase[r] = "filed"
        <3>1. /\ events[r] = <<"started", "progress">>
              /\ events[r] # <<>> /\ events[r] # <<"started">>
            BY <2>3 DEF StoryByPhase
        <3>2. kind = status[r] /\ status[r] \in Terminal
            BY <2>3 DEF StoryByPhase, StatusByPhase
        <3> QED BY <3>1, <3>2 DEF Service!Life, Service!Outcome, Terminal
    <2> QED BY <1>2, <2>1, <2>2, <2>3
<1> HIDE DEF kind
<1> QED BY <1>1, <1>2, <1>3, <1>4, ServiceKeeps DEF Service!Announce

\* A filed outcome finishes the job, and what leaves the list had to.
LEMMA FileFinishes ==
    ASSUME ServiceInv, NEW r \in Runs, FileOutcome(r)
    PROVE  Service!Finish(r)
<1> USE DEF ServiceInv
<1> DEFINE id == job_id[r]
           order == FiledOrder(r)
           e == Excess(order)
           F == Service!Finished(Listed)
           gone == IF e = 1 THEN {records[order[1]]} ELSE {}
<1>1. /\ phase[r] = "returned" /\ id \in JobIds /\ records[id] = r /\ r # NoRun
      /\ status[r] \in {"running", "cancelling"}
      /\ status' = [status EXCEPT ![r] = FinishStatus(outcome[r])]
      /\ FinishStatus(outcome[r]) \in Terminal
      /\ UNCHANGED <<job_id, canceller, events>>
    BY FileEffect
<1>2. /\ Len(terminal_order) \in Nat /\ Len(terminal_order) <= TERMINAL_RETAINED
      /\ Len(order) = Len(terminal_order) + 1
      /\ order \in Seq(JobIds)
      /\ e \in {0, 1} /\ Len(Kept(order)) = Len(order) - e
      /\ Len(Kept(order)) <= TERMINAL_RETAINED
      /\ \A i \in 1..Len(terminal_order) : order[i] = terminal_order[i]
      /\ e = 1 => order[1] # id /\ Len(order) >= 2
      /\ \A j \in JobIds : records'[j] =
            IF e = 1 /\ j = order[1] THEN NoRun ELSE records[j]
    BY FileEffect
<1>3. e = 1 => Len(terminal_order) = TERMINAL_RETAINED
    <2>1. e = 1 => Len(order) > TERMINAL_RETAINED
        BY DEF Excess
    <2> QED BY <2>1, <1>2, RetainedAssumption
<1> HIDE DEF order, e, F
<1>4. IsFiniteSet(F) /\ Cardinality(F) = Len(terminal_order)
    BY FinishedCounted DEF F
<1>5. F = {q \in Listed : status[q] \in Terminal}
    BY DEF F, Service!Finished, Service!Outcome, Terminal
<1>6. e = 1 => /\ order[1] \in JobIds /\ records[order[1]] \in F
               /\ job_id[records[order[1]]] = order[1]
    <2> SUFFICES ASSUME e = 1
                 PROVE  /\ order[1] \in JobIds /\ records[order[1]] \in F
                        /\ job_id[records[order[1]]] = order[1]
        OBVIOUS
    <2>1. 1 \in 1..Len(terminal_order) /\ order[1] = terminal_order[1] /\ order[1] \in JobIds
        BY <1>2
    <2>2. records[order[1]] # NoRun /\ status[records[order[1]]] \in Terminal
        BY <2>1, <1>2 DEF TableInv, Shape, TypeOK, RetentionExact, IsTerminal
    <2>3. records[order[1]] \in Runs /\ job_id[records[order[1]]] = order[1]
        BY <2>1, <2>2 DEF TableInv, Shape, TypeOK, RunOwnsRecord
    <2> QED BY <2>1, <2>2, <2>3, <1>5 DEF Listed, Terminal
<1>7. gone \in SUBSET F
    BY <1>6
<1>8. e = 1 => Cardinality(F \ gone) = Len(terminal_order) - 1
    BY <1>4, <1>6, FS_RemoveElement
<1>9. e = 0 => Cardinality(F \ gone) = Len(terminal_order) /\ gone = {}
    <2>1. F \ {} = F
        OBVIOUS
    <2> QED BY <1>4, <2>1
<1>10. r \in Listed
    BY <1>1 DEF Listed
<1>11. \A q \in Runs : status[q] # "none" => job_id[q] \in JobIds
    BY DEF TableInv, Shape, IdAssigned, StatusByPhase
<1>12. \A q \in Runs : status'[q] = "none" <=> status[q] = "none"
    BY <1>1 DEF TableInv, Shape, TypeOK, Terminal
<1>13. Listed' = Listed \ gone
    <2>1. ASSUME NEW q \in Runs PROVE q \in Listed' <=> q \in Listed /\ q \notin gone
        <3>1. CASE status[q] = "none"
            BY <3>1, <1>12 DEF Listed
        <3>2. CASE status[q] # "none"
            <4>1. job_id[q] \in JobIds /\ q # NoRun
                BY <3>2, <1>11 DEF Runs, NoRun
            <4>2. q \in Listed' <=> records'[job_id[q]] = q
                BY <3>2, <1>1, <1>12 DEF Listed
            <4>3. q \in Listed <=> records[job_id[q]] = q
                BY <3>2 DEF Listed
            <4>4. CASE e = 1
                BY <4>1, <4>2, <4>3, <4>4, <1>2, <1>6
            <4>5. CASE e # 1
                BY <4>1, <4>2, <4>3, <4>5, <1>2
            <4> QED BY <4>4, <4>5
        <3> QED BY <3>1, <3>2
    <2>2. Listed \subseteq Runs /\ Listed' \subseteq Runs
        BY DEF Listed
    <2> HIDE DEF gone
    <2> QED BY <2>1, <2>2
<1>14. [q \in Runs |-> IF status[q] = "none" THEN NoId ELSE job_id[q]]'
         = [q \in Runs |-> IF status[q] = "none" THEN NoId ELSE job_id[q]]
    BY <1>1, <1>12
<1>15. events[r] = <<"started", "progress">>
    BY <1>1 DEF StoryByPhase
<1>16. \E o \in Service!Outcome : status' = [status EXCEPT ![r] = o]
    BY <1>1 DEF Service!Outcome, Terminal
<1>17. \E g \in SUBSET F :
         /\ Listed' = Listed \ g
         /\ Cardinality(F \ g) + 1 <= TERMINAL_RETAINED
         /\ \A k \in g : Cardinality(F \ g) + 1 = TERMINAL_RETAINED
    <2>1. Cardinality(F \ gone) + 1 <= TERMINAL_RETAINED
        BY <1>2, <1>3, <1>8, <1>9, RetainedAssumption
    <2>2. \A k \in gone : Cardinality(F \ gone) + 1 = TERMINAL_RETAINED
        BY <1>2, <1>3, <1>8, <1>9, RetainedAssumption
    <2> HIDE DEF gone
    <2> QED BY <2>1, <2>2, <1>7, <1>13
<1>18. UNCHANGED {q \in Runs : canceller[q] = "done"} /\ status[r] \in Service!Live
    BY <1>1 DEF Service!Live
<1> HIDE DEF id, gone
<1>19. UNCHANGED events
    BY <1>1
<1>20. \A S : Service!Cardinality(S) = Cardinality(S)
    BY DEF Service!Cardinality, Cardinality
<1> QED BY <1>10, <1>14, <1>15, <1>16, <1>17, <1>18, <1>19, <1>20 DEF Service!Finish, F

\* Initially the service has no jobs.
LEMMA InitService == Init => Service!Init
BY DEF Init, Service!Init, Listed, Runs

\* Every step of the job table is a step of the service or leaves it alone.
LEMMA NextService ==
    ServiceInv /\ [Next]_vars => [Service!Next]_(Service!jobVars)
<1> SUFFICES ASSUME ServiceInv, [Next]_vars
             PROVE  Service!Next \/ UNCHANGED Service!jobVars
    OBVIOUS
<1> USE DEF ServiceInv, TableInv, Shape
<1>1. ASSUME NEW r \in Runs, NEW j \in JobIds, ResolveJobId(r, j)
      PROVE  UNCHANGED Service!jobVars
    <2>1. phase[r] = "unused" /\ status[r] = "none"
        BY <1>1 DEF ResolveJobId, FreshAhead, StatusByPhase, TypeOK, Runs
    <2>2. \A q \in Runs : status[q] # "none" => job_id'[q] = job_id[q]
        BY <1>1, <2>1 DEF ResolveJobId, TypeOK
    <2>3. UNCHANGED <<status, records, events, canceller>>
        BY <1>1 DEF ResolveJobId
    <2> QED BY <2>2, <2>3 DEF Service!jobVars, Listed
<1>2. ASSUME NEW r \in Runs, RejectDuplicate(r) PROVE UNCHANGED Service!jobVars
    BY <1>2, ServiceKeeps DEF RejectDuplicate, Service!jobVars
<1>3. ASSUME NEW r \in Runs, InsertRecord(r) PROVE Service!Next
    BY <1>3, InsertAccepts DEF Service!Next
<1>4. ASSUME NEW r \in Runs, EmitStarted(r) \/ EmitProgress(r) \/ EmitTerminal(r)
      PROVE  Service!Next
    BY <1>4, EmitAnnounces DEF Service!Next
<1>5. ASSUME NEW r \in Runs, NEW result \in Results, Execute(r, result)
      PROVE  UNCHANGED Service!jobVars
    BY <1>5, ServiceKeeps DEF Execute, Service!jobVars
<1>6. ASSUME NEW r \in Runs, FileOutcome(r) PROVE Service!Next
    BY <1>6, FileFinishes DEF Service!Next
<1>7. ASSUME NEW r \in Runs, EmitCancelRequested(r) PROVE Service!Next
    <2>1. UNCHANGED <<records, job_id, status, events>>
        BY <1>7 DEF EmitCancelRequested
    <2>2. {q \in Runs : canceller'[q] = "done"} = {q \in Runs : canceller[q] = "done"} \cup {r}
        BY <1>7 DEF EmitCancelRequested, TypeOK
    <2>3. status[r] \in {"cancelling"} \cup Terminal /\ canceller[r] # "done"
        BY <1>7 DEF EmitCancelRequested, StoryByPhase
    <2>4. Service!AnnounceCancel(r)
        BY <2>1, <2>2, <2>3, ServiceKeeps DEF Service!AnnounceCancel, Service!Outcome, Terminal
    <2> QED BY <2>4 DEF Service!Next
<1>8. ASSUME NEW j \in JobIds, CancelLocked(j) PROVE Service!Next
    <2> DEFINE r == records[j]
    <2>1. /\ r \in Runs /\ status[r] = "running" /\ job_id[r] = j
          /\ status' = [status EXCEPT ![r] = "cancelling"]
          /\ canceller' = [canceller EXCEPT ![r] = "emitting"]
          /\ UNCHANGED <<records, job_id, events>>
        BY <1>8 DEF CancelLocked, TypeOK, RunOwnsRecord
    <2>2. canceller[r] = "none" /\ r \in Listed
        BY <2>1 DEF StoryByPhase, TypeOK, Terminal, Listed
    <2>3. \A q \in Runs : /\ status'[q] = "none" <=> status[q] = "none"
                          /\ canceller'[q] = "done" <=> canceller[q] = "done"
        BY <2>1, <2>2 DEF TypeOK
    <2>4. /\ Listed' = Listed
          /\ [q \in Runs |-> IF status[q] = "none" THEN NoId ELSE job_id[q]]'
                = [q \in Runs |-> IF status[q] = "none" THEN NoId ELSE job_id[q]]
          /\ {q \in Runs : canceller'[q] = "done"} = {q \in Runs : canceller[q] = "done"}
        BY <2>1, <2>3 DEF Listed
    <2>5. Service!Cancel(r)
        BY <2>1, <2>2, <2>4 DEF Service!Cancel
    <2> QED BY <2>1, <2>5 DEF Service!Next
<1>9. CASE UNCHANGED vars
    BY <1>9, ServiceKeeps DEF vars, Service!jobVars
<1> QED BY <1>1, <1>2, <1>3, <1>4, <1>5, <1>6, <1>7, <1>8, <1>9
    DEF Next, RunStep, ThreadStep

\* The job table implements the job service, for every set of client ids, every
\* number of runs and every retention bound: overlapping start, finish, prune
\* and cancel steps, each followed by its own late emission, only ever do what
\* job.get, job.list and the event feed promise.
THEOREM TableImplementsService == Spec => ImplementsService
<1>1. Init => ServiceInv
    BY InitTable DEF ServiceInv, StoryByPhase, Init
<1>2. ServiceInv /\ [Next]_vars => ServiceInv'
    BY NextKeeps, NextStory DEF ServiceInv
<1> QED BY <1>1, <1>2, InitService, NextService, PTL
    DEF Spec, ImplementsService, Service!Spec

-----------------------------------------------------------------------------
(* The WeChat bridge.                                                      *)

\* The positions of the batch that are not handled yet: the head of a batch is in
\* hand during its turn and its reply.
InHand == {"turn", "reply"}
Ahead(p, q) == (IF p \in InHand THEN 2 ELSE 1)..Len(q)

\* Types of what one bridge thread holds.
BridgePhases == {"unborn", "check", "poll", "message", "turn", "reply", "exited"}
BridgeTyped(p, c, q, s, t, r, x) ==
    /\ p \in BridgePhases /\ c \in 0..MaxMsgs
    /\ q \in Seq(Messages) /\ s \in Seq(Messages \ Anonymous)
    /\ t \in SUBSET Messages /\ r \in SUBSET Messages /\ x \in SUBSET Messages

\* The batch ascends and is behind the cursor; without a poll in hand it is empty.
BatchOrdered(p, c, q) ==
    /\ \A i \in DOMAIN q : q[i] <= c
    /\ \A i, j \in DOMAIN q : i < j => q[i] < q[j]
    /\ p \notin InHand \cup {"message"} => q = <<>>
    /\ p \in InHand => q # <<>>

\* The ring has no id twice; what came after an id is less than Redeliver behind it;
\* so is what is still to come.
RingOrdered(p, c, q, s) ==
    /\ Len(s) <= SEEN_CAP
    /\ \A i \in DOMAIN s : s[i] <= c
    /\ \A i, j \in DOMAIN s : i < j => s[i] # s[j] /\ s[i] < s[j] + Redeliver
    /\ \A i \in DOMAIN s, j \in Ahead(p, q) : s[i] < q[j] + Redeliver

\* The ring knows every message with a turn that can come again or is about to.
RingKnows(p, c, q, s, t) ==
    /\ \A m \in t : m <= c
    /\ \A i \in DOMAIN s : KindOf[s[i]] = "text" => s[i] \in t
    /\ \A m \in t \ Anonymous :
         c < m + Redeliver \/ (\E j \in Ahead(p, q) : q[j] = m) => \E i \in DOMAIN s : s[i] = m

\* Every text behind the cursor has had its turn, is in the batch or was left over.
NoneSkipped(p, c, q, t, x) ==
    /\ p \in InHand /\ KindOf[q[1]] = "text" => q[1] \in t
    /\ \A m \in 1..c : KindOf[m] = "text" => m \in t \cup x \/ \E i \in DOMAIN q : q[i] = m

\* All of it, for one bridge thread; and for all of them.
BridgeOK(p, c, q, s, t, r, x) ==
    /\ BridgeTyped(p, c, q, s, t, r, x)
    /\ BatchOrdered(p, c, q) /\ RingOrdered(p, c, q, s) /\ RingKnows(p, c, q, s, t)
    /\ NoneSkipped(p, c, q, t, x)
    /\ r \subseteq Anonymous

WechatInv ==
    /\ DOMAIN pc = Bridges /\ DOMAIN cursor = Bridges /\ DOMAIN batch = Bridges
    /\ DOMAIN seen = Bridges /\ DOMAIN turned = Bridges /\ DOMAIN repeated = Bridges
    /\ DOMAIN dropped = Bridges
    /\ \A b \in Bridges :
         BridgeOK(pc[b], cursor[b], batch[b], seen[b], turned[b], repeated[b], dropped[b])

-----------------------------------------------------------------------------
\* A ring that is full of ids around its oldest one reaches beyond it.
LEMMA RingFull ==
    ASSUME RingReaches, NEW s \in Seq(Messages), Len(s) = SEEN_CAP, NEW m \in Messages,
           \A i, j \in DOMAIN s : i < j => s[i] # s[j] /\ s[i] < s[j] + Redeliver,
           \A i \in DOMAIN s : s[i] # m /\ s[i] < m + Redeliver,
           \A i \in DOMAIN s : s[i] < s[1] + Redeliver, m < s[1] + Redeliver
    PROVE  FALSE
<1> DEFINE T == ((s[1] - Redeliver + 1)..(s[1] + Redeliver - 1)) \ {s[1]}
           f == [i \in 1..SEEN_CAP |-> IF i = SEEN_CAP THEN m ELSE s[i + 1]]
<1>1. /\ SEEN_CAP \in Nat \ {0} /\ Redeliver \in Nat /\ 2 * Redeliver <= SEEN_CAP + 1
      /\ MaxMsgs \in Nat /\ 1 \in DOMAIN s /\ DOMAIN s = 1..SEEN_CAP
  BY WechatAssumption DEF RingReaches
<1>2. /\ \A i \in 1..SEEN_CAP : s[i] \in Nat /\ s[i] # m /\ s[i] < m + Redeliver
                                /\ s[i] < s[1] + Redeliver
      /\ m \in Nat /\ s[1] \in Nat
  <2>1. \A i \in 1..SEEN_CAP : s[i] \in Messages
    BY <1>1
  <2>2. Messages \subseteq Nat
    BY <1>1 DEF Messages
  <2> QED
    BY <1>1, <2>1, <2>2
<1>3. \A i \in 1..SEEN_CAP : i # SEEN_CAP => i + 1 \in 1..SEEN_CAP /\ 1 < i + 1
  BY <1>1
<1>4. ASSUME NEW i \in 1..SEEN_CAP PROVE f[i] \in T
  <2>1. CASE i = SEEN_CAP
    BY <1>1, <1>2, <2>1
  <2>2. CASE i # SEEN_CAP
    <3>1. i + 1 \in DOMAIN s /\ s[1] # s[i + 1] /\ s[1] < s[i + 1] + Redeliver
      BY <1>1, <1>3, <2>2
    <3> QED
      BY <1>1, <1>2, <2>2, <3>1
  <2> QED
    BY <2>1, <2>2
<1>5. f \in [1..SEEN_CAP -> T]
  BY <1>4
<1>6. IsFiniteSet(1..SEEN_CAP) /\ Cardinality(1..SEEN_CAP) = SEEN_CAP
  BY <1>1, FS_Interval
<1>7. IsFiniteSet(T) /\ Cardinality(T) < SEEN_CAP
  <2> DEFINE I == (s[1] - Redeliver + 1)..(s[1] + Redeliver - 1)
  <2>1. /\ s[1] - Redeliver + 1 \in Int /\ s[1] + Redeliver - 1 \in Int
    BY <1>1, <1>2
  <2>2. IsFiniteSet(I) /\ Cardinality(I) = IF Redeliver = 0 THEN 0 ELSE 2 * Redeliver - 1
    <3> HIDE DEF I
    <3>1. IsFiniteSet(I) /\ Cardinality(I) = IF s[1] - Redeliver + 1 > s[1] + Redeliver - 1 THEN 0
                  ELSE (s[1] + Redeliver - 1) - (s[1] - Redeliver + 1) + 1
      BY <2>1, FS_Interval DEF I
    <3> QED
      BY <1>1, <1>2, <3>1
  <2>3. s[1] \in I <=> Redeliver # 0
    BY <1>1, <1>2
  <2>4. IsFiniteSet(T) /\ Cardinality(T) = IF s[1] \in I THEN Cardinality(I) - 1 ELSE Cardinality(I)
    <3> HIDE DEF I
    <3> QED
      BY <2>2, FS_RemoveElement DEF I
  <2> HIDE DEF T, I
  <2> QED
    BY <1>1, <2>2, <2>3, <2>4
<1>8. PICK i \in 1..SEEN_CAP, j \in 1..SEEN_CAP : i # j /\ f[i] = f[j]
  <2> HIDE DEF T, f
  <2> QED
    BY <1>5, <1>6, <1>7, FS_PigeonHole
<1>9. \A k, l \in 1..SEEN_CAP : k < l => f[k] # f[l]
  <2> SUFFICES ASSUME NEW k \in 1..SEEN_CAP, NEW l \in 1..SEEN_CAP, k < l PROVE f[k] # f[l]
    OBVIOUS
  <2>1. k # SEEN_CAP /\ k + 1 \in DOMAIN s /\ f[k] = s[k + 1]
    BY <1>1, <1>3
  <2>2. CASE l = SEEN_CAP
    BY <1>1, <1>2, <2>1, <2>2
  <2>3. CASE l # SEEN_CAP
    <3>1. l + 1 \in DOMAIN s /\ f[l] = s[l + 1] /\ k + 1 < l + 1
      BY <1>1, <1>3, <2>3
    <3> QED
      BY <2>1, <3>1
  <2> QED
    BY <2>2, <2>3
<1>10. i < j \/ j < i
  BY <1>1, <1>8
<1> QED
  BY <1>8, <1>9, <1>10

\* s has become ring: the oldest k ids have left it and m is the newest.
Slid(s, ring, m, k) ==
    /\ k = 1 => Len(s) = SEEN_CAP
    /\ Len(ring) = Len(s) + 1 - k
    /\ ring[Len(ring)] = m
    /\ \A i \in DOMAIN ring : i < Len(ring) => i + k \in DOMAIN s /\ ring[i] = s[i + k]
    /\ \A i \in DOMAIN s : k < i =>
         i - k \in DOMAIN ring /\ i - k < Len(ring) /\ ring[i - k] = s[i]

\* What RememberSeen does to the ring.
LEMMA Remembered ==
    ASSUME NEW s \in Seq(Messages \ Anonymous), Len(s) <= SEEN_CAP, NEW m \in Messages \ Anonymous,
           NEW ring, ring = RememberSeen(s, m)
    PROVE  /\ ring \in Seq(Messages \ Anonymous) /\ Len(ring) <= SEEN_CAP
           /\ \E k \in {0, 1} : Slid(s, ring, m, k)
<1> DEFINE e == Append(s, m)
<1>1. /\ e \in Seq(Messages \ Anonymous) /\ Len(e) = Len(s) + 1 /\ e[Len(s) + 1] = m
      /\ \A i \in 1..Len(s) : e[i] = s[i]
      /\ SEEN_CAP \in Nat \ {0} /\ Len(s) \in Nat
      /\ DOMAIN s = 1..Len(s)
  BY WechatAssumption
<1>2. ring = IF Len(e) > SEEN_CAP THEN Tail(e) ELSE e
  BY DEF RememberSeen
<1> HIDE DEF e
<1>3. CASE Len(s) < SEEN_CAP
  <2>1. ring = e
    BY <1>1, <1>2, <1>3
  <2>2. Slid(s, ring, m, 0) /\ Len(ring) <= SEEN_CAP
    BY <1>1, <1>3, <2>1 DEF Slid
  <2> QED
    BY <1>1, <2>1, <2>2
<1>4. CASE Len(s) = SEEN_CAP
  <2>1. ring = Tail(e) /\ e # <<>>
    BY <1>1, <1>2, <1>4
  <2>2. /\ ring \in Seq(Messages \ Anonymous) /\ Len(ring) = Len(s)
        /\ \A i \in 1..Len(ring) : ring[i] = e[i + 1]
        /\ DOMAIN ring = 1..Len(ring)
    BY <1>1, <2>1
  <2>3. ring[Len(ring)] = m
    BY <1>1, <1>4, <2>2
  <2>4. \A i \in DOMAIN ring : i < Len(ring) => i + 1 \in DOMAIN s /\ ring[i] = s[i + 1]
    BY <1>1, <2>2
  <2>5. \A i \in DOMAIN s : 1 < i => i - 1 \in DOMAIN ring /\ i - 1 < Len(ring) /\ ring[i - 1] = s[i]
    BY <1>1, <2>2
  <2>6. Slid(s, ring, m, 1)
    BY <1>1, <1>4, <2>2, <2>3, <2>4, <2>5 DEF Slid
  <2> QED
    BY <1>4, <2>2, <2>6
<1>5. Len(s) < SEEN_CAP \/ Len(s) = SEEN_CAP
  <2>1. Len(s) \in Nat /\ SEEN_CAP \in Nat
    BY <1>1
  <2> QED
    BY <2>1
<1> QED
  BY <1>3, <1>4, <1>5

\* The arithmetic a bridge's positions need.
LEMMA BridgeNumbers ==
    ASSUME NEW p, NEW c, NEW q, NEW s, NEW t, NEW r, NEW x, BridgeTyped(p, c, q, s, t, r, x)
    PROVE  /\ c \in Nat /\ Redeliver \in Nat /\ MaxMsgs \in Nat /\ SEEN_CAP \in Nat \ {0}
           /\ Len(q) \in Nat /\ DOMAIN q = 1..Len(q) /\ Len(s) \in Nat /\ DOMAIN s = 1..Len(s)
           /\ \A i \in DOMAIN q : q[i] \in Messages /\ q[i] \in Nat
           /\ \A i \in DOMAIN s : s[i] \in Messages \ Anonymous /\ s[i] \in Nat
           /\ \A m \in t : m \in Messages /\ m \in Nat
           /\ Messages \subseteq Nat
<1>1. Messages \subseteq Nat /\ MaxMsgs \in Nat
  BY WechatAssumption DEF Messages
<1>2. /\ c \in Nat /\ q \in Seq(Messages) /\ s \in Seq(Messages \ Anonymous) /\ t \subseteq Messages
  BY <1>1 DEF BridgeTyped
<1>3. /\ Len(q) \in Nat /\ DOMAIN q = 1..Len(q) /\ \A i \in DOMAIN q : q[i] \in Messages
  BY <1>2
<1>4. /\ Len(s) \in Nat /\ DOMAIN s = 1..Len(s) /\ \A i \in DOMAIN s : s[i] \in Messages \ Anonymous
  BY <1>2
<1> QED
  BY <1>1, <1>2, <1>3, <1>4, WechatAssumption

\* The head of the batch is taken: a new id enters the ring, and the one that leaves
\* it cannot come again.
LEMMA TakenRing ==
    ASSUME RingReaches, NEW c, NEW q, NEW s, NEW t, NEW r, NEW x,
           BridgeOK("message", c, q, s, t, r, x), q # <<>>, NEW ring, NEW u,
           \/ ring = s
           \/ /\ q[1] \notin Anonymous /\ \A i \in DOMAIN s : s[i] # q[1]
              /\ ring = RememberSeen(s, q[1])
              /\ KindOf[q[1]] = "text" => u = t \cup {q[1]},
           \/ u = t
           \/ u = t \cup {q[1]} /\ (q[1] \in Anonymous \/ ring # s)
    PROVE  /\ ring \in Seq(Messages \ Anonymous)
           /\ RingOrdered("turn", c, q, ring) /\ RingKnows("turn", c, q, ring, u)
<1> DEFINE m == q[1]
<1>0. /\ BridgeTyped("message", c, q, s, t, r, x) /\ BatchOrdered("message", c, q)
      /\ RingOrdered("message", c, q, s) /\ RingKnows("message", c, q, s, t)
  BY DEF BridgeOK
<1>1. /\ c \in Nat /\ Redeliver \in Nat /\ MaxMsgs \in Nat /\ SEEN_CAP \in Nat \ {0}
      /\ Len(q) \in Nat /\ DOMAIN q = 1..Len(q) /\ Len(s) \in Nat /\ DOMAIN s = 1..Len(s)
      /\ \A i \in DOMAIN q : q[i] \in Messages /\ q[i] \in Nat
      /\ \A i \in DOMAIN s : s[i] \in Messages \ Anonymous /\ s[i] \in Nat
      /\ \A n \in t : n \in Messages /\ n \in Nat
  BY <1>0, BridgeNumbers
<1>2. 1 \in DOMAIN q /\ m \in Messages /\ m \in Nat /\ m <= c
  BY <1>0, <1>1 DEF BatchOrdered, BridgeTyped
<1>3. Ahead("message", q) = DOMAIN q /\ Ahead("turn", q) = 2..Len(q)
  BY <1>1 DEF Ahead, InHand
<1>4. \A j \in 2..Len(q) : j \in DOMAIN q /\ q[j] \in Nat /\ m < q[j]
  BY <1>0, <1>1, <1>2 DEF BatchOrdered
<1>5. \A i \in DOMAIN s : s[i] < m + Redeliver
  BY <1>0, <1>2, <1>3 DEF RingOrdered
<1>6. \A n \in u : n <= c
  BY <1>0, <1>2 DEF RingKnows
<1> HIDE DEF m
<1>7. CASE ring = s
  <2>1. u = t \/ (u = t \cup {m} /\ m \in Anonymous)
    BY <1>7 DEF m
  <2>2. RingOrdered("turn", c, q, s)
    BY <1>0, <1>3, <1>4 DEF RingOrdered
  <2>3. \A i \in DOMAIN s : KindOf[s[i]] = "text" => s[i] \in u
    BY <1>0, <2>1 DEF RingKnows
  <2>4. RingKnows("turn", c, q, s, u)
    BY <1>0, <1>3, <1>4, <1>6, <2>1, <2>3 DEF RingKnows
  <2> QED
    BY <1>0, <1>7, <2>2, <2>4 DEF BridgeTyped
<1>8. CASE ring # s
  <2>0. /\ m \in Messages \ Anonymous /\ \A i \in DOMAIN s : s[i] # m
        /\ ring = RememberSeen(s, m) /\ (KindOf[m] = "text" => u = t \cup {m})
        /\ (u = t \/ u = t \cup {m})
    BY <1>2, <1>8 DEF m
  <2>1. /\ s \in Seq(Messages \ Anonymous) /\ Len(s) <= SEEN_CAP
    BY <1>0 DEF BridgeTyped, RingOrdered
  <2>2. /\ ring \in Seq(Messages \ Anonymous) /\ Len(ring) <= SEEN_CAP
        /\ \E k \in {0, 1} : Slid(s, ring, m, k)
    BY <2>0, <2>1, Remembered
  <2>a. PICK k \in {0, 1} : Slid(s, ring, m, k)
    BY <2>2
  <2>3. /\ k = 1 => Len(s) = SEEN_CAP
        /\ Len(ring) = Len(s) + 1 - k
        /\ ring[Len(ring)] = m
        /\ \A i \in DOMAIN ring : i < Len(ring) => i + k \in DOMAIN s /\ ring[i] = s[i + k]
        /\ \A i \in DOMAIN s : k < i =>
             i - k \in DOMAIN ring /\ i - k < Len(ring) /\ ring[i - k] = s[i]
    BY <2>a DEF Slid
  <2>4. /\ Len(ring) \in Nat /\ DOMAIN ring = 1..Len(ring) /\ Len(ring) \in DOMAIN ring
    <3>1. Len(ring) \in Nat /\ DOMAIN ring = 1..Len(ring)
      BY <2>2
    <3>2. Len(ring) # 0
      <4>1. Len(s) \in Nat /\ SEEN_CAP \in Nat /\ SEEN_CAP # 0
        BY <1>1
      <4>2. (k = 1 => Len(s) = SEEN_CAP) /\ Len(ring) = Len(s) + 1 - k
        BY <2>3
      <4> QED
        BY <4>1, <4>2
    <3> QED
      BY <3>1, <3>2
  <2>5. \A i \in DOMAIN ring : i = Len(ring) \/ i < Len(ring)
    BY <2>4
  <2>6. \A i \in DOMAIN ring : ring[i] <= c /\ (KindOf[ring[i]] = "text" => ring[i] \in u)
    BY <1>0, <1>2, <2>0, <2>3, <2>5 DEF RingOrdered, RingKnows
  <2>7. ASSUME NEW i \in DOMAIN ring, NEW j \in DOMAIN ring, i < j
        PROVE  ring[i] # ring[j] /\ ring[i] < ring[j] + Redeliver
    <3>1. i < Len(ring) /\ i + k \in DOMAIN s /\ ring[i] = s[i + k]
      BY <2>3, <2>4, <2>7
    <3>2. CASE j = Len(ring)
      BY <1>5, <2>0, <2>3, <3>1, <3>2
    <3>3. CASE j < Len(ring)
      <4>1. j + k \in DOMAIN s /\ ring[j] = s[j + k] /\ i + k < j + k
        BY <2>3, <2>4, <2>7, <3>3
      <4> QED
        BY <1>0, <3>1, <4>1 DEF RingOrdered
    <3> QED
      BY <2>5, <3>2, <3>3
  <2>8. ASSUME NEW i \in DOMAIN ring, NEW j \in 2..Len(q) PROVE ring[i] < q[j] + Redeliver
    <3>1. CASE i = Len(ring)
      <4>1. ring[i] = m /\ m < q[j] /\ q[j] \in Nat
        BY <1>4, <2>3, <3>1
      <4> QED
        BY <1>1, <1>2, <4>1
    <3>2. CASE i < Len(ring)
      <4>1. i + k \in DOMAIN s /\ ring[i] = s[i + k] /\ j \in Ahead("message", q)
        BY <1>3, <1>4, <2>3, <3>2
      <4> QED
        BY <1>0, <4>1 DEF RingOrdered
    <3> QED
      BY <2>5, <3>1, <3>2
  <2>9. RingOrdered("turn", c, q, ring)
    BY <1>3, <2>2, <2>6, <2>7, <2>8 DEF RingOrdered
  <2>10. ASSUME NEW n \in u \ Anonymous,
                c < n + Redeliver \/ \E j \in 2..Len(q) : q[j] = n
         PROVE  \E i \in DOMAIN ring : ring[i] = n
    <3>1. CASE n = m
      BY <2>3, <2>4, <3>1
    <3>2. CASE n # m
      <4>1. n \in t \ Anonymous /\ n \in Nat
        BY <1>1, <2>0, <2>10, <3>2
      <4>2. PICK i \in DOMAIN s : s[i] = n
        BY <1>0, <1>3, <1>4, <2>10, <4>1 DEF RingKnows
      <4>3. CASE k < i
        BY <2>3, <4>2, <4>3
      <4>4. CASE ~(k < i)
        <5>1. k = 1 /\ i = 1 /\ Len(s) = SEEN_CAP
          <6>1. i \in 1..Len(s)
            BY <1>1
          <6>2. Len(s) \in Nat /\ (k = 1 => Len(s) = SEEN_CAP)
            BY <1>1, <2>3
          <6> QED
            BY <4>4, <6>1, <6>2
        <5>2. \A h \in DOMAIN s : s[h] < n + Redeliver
          <6>1. CASE c < n + Redeliver
            BY <1>0, <1>1, <4>1, <6>1 DEF RingOrdered
          <6>2. ASSUME NEW j \in 2..Len(q), q[j] = n PROVE \A h \in DOMAIN s : s[h] < n + Redeliver
            BY <1>0, <1>3, <1>4, <6>2 DEF RingOrdered
          <6> QED
            BY <2>10, <6>1, <6>2
        <5>3. m < n + Redeliver
          <6>1. CASE c < n + Redeliver
            BY <1>1, <1>2, <4>1, <6>1
          <6>2. ASSUME NEW j \in 2..Len(q), q[j] = n PROVE m < n + Redeliver
            BY <1>1, <1>2, <1>4, <6>2
          <6> QED
            BY <2>10, <6>1, <6>2
        <5>4. s \in Seq(Messages)
          BY <2>1
        <5>5. \A g, h \in DOMAIN s : g < h => s[g] # s[h] /\ s[g] < s[h] + Redeliver
          BY <1>0 DEF RingOrdered
        <5>6. \A h \in DOMAIN s : s[h] # m /\ s[h] < m + Redeliver
          BY <1>5, <2>0
        <5> QED
          BY <2>0, <4>2, <5>1, <5>2, <5>3, <5>4, <5>5, <5>6, RingFull
      <4> QED
        BY <4>3, <4>4
    <3> QED
      BY <3>1, <3>2
  <2>11. RingKnows("turn", c, q, ring, u)
    BY <1>3, <1>6, <2>6, <2>10 DEF RingKnows
  <2> QED
    BY <2>2, <2>9, <2>11
<1> QED
  BY <1>7, <1>8

\* A bridge that begins or has ended holds nothing.
LEMMA NothingHeld ==
    ASSUME NEW p \in {"unborn", "exited"}
    PROVE  BridgeOK(p, 0, <<>>, <<>>, {}, {}, {})
<1>1. MaxMsgs \in Nat /\ SEEN_CAP \in Nat
  BY WechatAssumption
<1>2. BridgeTyped(p, 0, <<>>, <<>>, {}, {}, {})
  BY <1>1 DEF BridgeTyped, BridgePhases
<1>3. BatchOrdered(p, 0, <<>>) /\ RingOrdered(p, 0, <<>>, <<>>)
  BY <1>1 DEF BatchOrdered, RingOrdered, InHand
<1>4. RingKnows(p, 0, <<>>, <<>>, {}) /\ NoneSkipped(p, 0, <<>>, {}, {})
  BY DEF RingKnows, NoneSkipped, InHand
<1> QED
  BY <1>2, <1>3, <1>4 DEF BridgeOK

\* A thread that goes on with the same batch.
LEMMA GoesOn ==
    ASSUME NEW p, NEW o \in BridgePhases, NEW c, NEW q, NEW s, NEW t, NEW r, NEW x,
           BridgeOK(p, c, q, s, t, r, x), o \in InHand <=> p \in InHand,
           o \notin InHand \cup {"message"} => q = <<>>
    PROVE  BridgeOK(o, c, q, s, t, r, x)
<1>1. Ahead(o, q) = Ahead(p, q)
  BY DEF Ahead
<1>2. BridgeTyped(o, c, q, s, t, r, x)
  BY DEF BridgeOK, BridgeTyped
<1>3. BatchOrdered(o, c, q)
  BY DEF BridgeOK, BatchOrdered
<1>4. RingOrdered(o, c, q, s) /\ RingKnows(o, c, q, s, t) /\ NoneSkipped(o, c, q, t, x)
  BY <1>1 DEF BridgeOK, RingOrdered, RingKnows, NoneSkipped
<1> QED
  BY <1>2, <1>3, <1>4 DEF BridgeOK

\* The message in hand is done with.
LEMMA Popped ==
    ASSUME NEW p \in InHand, NEW c, NEW q, NEW s, NEW t, NEW r, NEW x,
           BridgeOK(p, c, q, s, t, r, x)
    PROVE  BridgeOK("message", c, Tail(q), s, t, r, x)
<1>0. /\ BridgeTyped(p, c, q, s, t, r, x) /\ BatchOrdered(p, c, q) /\ RingOrdered(p, c, q, s)
      /\ RingKnows(p, c, q, s, t) /\ NoneSkipped(p, c, q, t, x) /\ r \subseteq Anonymous
  BY DEF BridgeOK
<1> DEFINE w == Tail(q)
<1>1. q \in Seq(Messages) /\ q # <<>> /\ Len(q) \in Nat /\ DOMAIN q = 1..Len(q)
  BY <1>0 DEF BridgeTyped, BatchOrdered
<1>2. /\ w \in Seq(Messages) /\ Len(w) = Len(q) - 1 /\ DOMAIN w = 1..Len(w) /\ Len(w) \in Nat
      /\ \A i \in 1..Len(w) : w[i] = q[i + 1]
  BY <1>1
<1>3. /\ Ahead("message", w) = DOMAIN w /\ Ahead(p, q) = 2..Len(q)
  BY <1>2 DEF Ahead, InHand
<1> HIDE DEF w
<1>4. \A i \in DOMAIN w : i + 1 \in DOMAIN q /\ i + 1 \in Ahead(p, q) /\ w[i] = q[i + 1]
  BY <1>1, <1>2, <1>3
<1>5. \A i \in DOMAIN q : i # 1 => i - 1 \in DOMAIN w /\ w[i - 1] = q[i]
  BY <1>1, <1>2
<1>6. BridgeTyped("message", c, w, s, t, r, x)
  BY <1>0, <1>2 DEF BridgeTyped, BridgePhases
<1>7. BatchOrdered("message", c, w)
  <2>1. \A i, j \in DOMAIN w : i < j => w[i] < w[j]
    <3> SUFFICES ASSUME NEW i \in DOMAIN w, NEW j \in DOMAIN w, i < j PROVE w[i] < w[j]
      OBVIOUS
    <3>1. i + 1 < j + 1
      BY <1>2
    <3> QED
      BY <1>0, <1>4, <3>1 DEF BatchOrdered
  <2> QED
    BY <1>0, <1>4, <2>1 DEF BatchOrdered, InHand
<1>8. RingOrdered("message", c, w, s)
  BY <1>0, <1>3, <1>4 DEF RingOrdered
<1>9. RingKnows("message", c, w, s, t)
  <2>1. \A m : (\E j \in Ahead("message", w) : w[j] = m) => \E j \in Ahead(p, q) : q[j] = m
    BY <1>3, <1>4
  <2> QED
    BY <1>0, <2>1 DEF RingKnows
<1>10. NoneSkipped("message", c, w, t, x)
  <2>1. ASSUME NEW m \in 1..c, KindOf[m] = "text" PROVE m \in t \cup x \/ \E i \in DOMAIN w : w[i] = m
    <3>1. CASE \E i \in DOMAIN q : q[i] = m
      <4>1. PICK i \in DOMAIN q : q[i] = m
        BY <3>1
      <4>2. CASE i = 1
        BY <1>0, <2>1, <4>1, <4>2 DEF NoneSkipped
      <4>3. CASE i # 1
        BY <1>5, <4>1, <4>3
      <4> QED
        BY <4>2, <4>3
    <3> QED
      BY <1>0, <2>1, <3>1 DEF NoneSkipped
  <2> QED
    BY <2>1 DEF NoneSkipped, InHand
<1> QED
  BY <1>0, <1>6, <1>7, <1>8, <1>9, <1>10 DEF BridgeOK, w

\* A poll that failed: what was left of its batch is given up.
LEMMA LeftOver ==
    ASSUME NEW p, NEW c, NEW q, NEW s, NEW t, NEW r, NEW x, NEW rest,
           BridgeOK(p, c, q, s, t, r, x),
           (p = "poll" /\ rest = <<>>) \/ (p \in InHand /\ rest = Tail(q))
    PROVE  BridgeOK("check", c, <<>>, s, t, r, x \cup (ToSet(rest) \ t))
<1> DEFINE y == x \cup (ToSet(rest) \ t)
<1>1. \E o \in {"poll", "message"} : BridgeOK(o, c, rest, s, t, r, x)
  <2>1. CASE p = "poll" /\ rest = <<>>
    <3>1. q = <<>>
      BY <2>1 DEF BridgeOK, BatchOrdered, InHand
    <3> QED
      BY <2>1, <3>1
  <2>2. CASE p \in InHand /\ rest = Tail(q)
    BY <2>2, Popped
  <2> QED
    BY <2>1, <2>2
<1>2. PICK o \in {"poll", "message"} : BridgeOK(o, c, rest, s, t, r, x)
  BY <1>1
<1>3. /\ BridgeTyped(o, c, rest, s, t, r, x) /\ BatchOrdered(o, c, rest) /\ RingOrdered(o, c, rest, s)
      /\ RingKnows(o, c, rest, s, t) /\ NoneSkipped(o, c, rest, t, x) /\ r \subseteq Anonymous
  BY <1>2 DEF BridgeOK
<1>4. Ahead("check", <<>>) = {}
  BY DEF Ahead, InHand
<1>5. y \in SUBSET Messages
  BY <1>3 DEF BridgeTyped, ToSet
<1>6. \A i \in DOMAIN rest : rest[i] \in t \cup y
  BY DEF ToSet
<1> HIDE DEF y
<1>7. BridgeTyped("check", c, <<>>, s, t, r, y)
  BY <1>3, <1>5 DEF BridgeTyped, BridgePhases
<1>8. BatchOrdered("check", c, <<>>)
  BY DEF BatchOrdered, InHand
<1>9. RingOrdered("check", c, <<>>, s) /\ RingKnows("check", c, <<>>, s, t)
  BY <1>3, <1>4 DEF RingOrdered, RingKnows
<1>10. x \subseteq y
  BY DEF y
<1>11. NoneSkipped("check", c, <<>>, t, y)
  BY <1>3, <1>6, <1>10 DEF NoneSkipped, InHand
<1> QED
  BY <1>3, <1>7, <1>8, <1>9, <1>11 DEF BridgeOK, y

\* A poll's answer: the messages behind the cursor, after some delivered before.
LEMMA Delivered ==
    ASSUME NEW c, NEW q, NEW s, NEW t, NEW r, NEW x, BridgeOK("poll", c, q, s, t, r, x),
           NEW again \in 0..Redeliver, NEW last \in 0..MaxMsgs, again <= c, last >= c
    PROVE  BridgeOK("message", Advance(c, last),
                    [i \in 1..(last - c + again) |-> c - again + i], s, t, r, x)
<1> DEFINE w == [i \in 1..(last - c + again) |-> c - again + i]
<1>0. /\ BridgeTyped("poll", c, q, s, t, r, x) /\ BatchOrdered("poll", c, q)
      /\ RingOrdered("poll", c, q, s) /\ RingKnows("poll", c, q, s, t)
      /\ NoneSkipped("poll", c, q, t, x) /\ r \subseteq Anonymous
  BY DEF BridgeOK
<1>1. /\ c \in Nat /\ Redeliver \in Nat /\ MaxMsgs \in Nat
      /\ DOMAIN s = 1..Len(s)
      /\ \A i \in DOMAIN s : s[i] \in Nat
      /\ \A n \in t : n \in Messages /\ n \in Nat
  BY <1>0, BridgeNumbers
<1>2. q = <<>> /\ Advance(c, last) = last /\ last \in Nat /\ again \in Nat /\ last - c + again \in Nat
      /\ again <= Redeliver /\ last <= MaxMsgs
  BY <1>0, <1>1 DEF BatchOrdered, InHand, Advance
<1>3. \A i \in 1..(last - c + again) : c - again + i \in Messages /\ c - again + i <= last
                                      /\ c < c - again + i + Redeliver
  BY <1>1, <1>2 DEF Messages
<1>4. /\ w \in Seq(Messages) /\ Len(w) = last - c + again /\ DOMAIN w = 1..(last - c + again)
      /\ \A i \in DOMAIN w : w[i] = c - again + i
  BY <1>2, <1>3
<1> HIDE DEF w
<1>5. Ahead("message", w) = DOMAIN w
  BY <1>4 DEF Ahead, InHand
<1>6. BridgeTyped("message", last, w, s, t, r, x)
  BY <1>0, <1>4 DEF BridgeTyped, BridgePhases
<1>7. BatchOrdered("message", last, w)
  <2>1. \A i, j \in DOMAIN w : i < j => w[i] < w[j]
    BY <1>1, <1>2, <1>4
  <2> QED
    BY <1>3, <1>4, <2>1 DEF BatchOrdered, InHand
<1>8. RingOrdered("message", last, w, s)
  <2>1. \A i \in DOMAIN s : s[i] <= c
    BY <1>0 DEF RingOrdered
  <2>2. \A i \in DOMAIN s : s[i] <= last
    BY <1>1, <1>2, <2>1
  <2>3. \A i \in DOMAIN s, j \in DOMAIN w : s[i] < w[j] + Redeliver
    <3> SUFFICES ASSUME NEW i \in DOMAIN s, NEW j \in DOMAIN w PROVE s[i] < w[j] + Redeliver
      OBVIOUS
    <3>1. c < w[j] + Redeliver /\ w[j] \in Nat
      BY <1>1, <1>2, <1>3, <1>4 DEF Messages
    <3> QED
      BY <1>1, <2>1, <3>1
  <2> QED
    BY <1>0, <1>5, <2>2, <2>3 DEF RingOrdered
<1>9. RingKnows("message", last, w, s, t)
  <2>1. \A m \in t : m <= c
    BY <1>0 DEF RingKnows
  <2>2. \A m \in t : m <= last
    BY <1>1, <1>2, <2>1
  <2>3. ASSUME NEW m \in t \ Anonymous, last < m + Redeliver \/ \E j \in DOMAIN w : w[j] = m
        PROVE  \E i \in DOMAIN s : s[i] = m
    <3>1. c < m + Redeliver
      <4>1. m \in Nat
        BY <1>1
      <4>2. CASE last < m + Redeliver
        BY <1>1, <1>2, <4>1, <4>2
      <4>3. CASE \E j \in DOMAIN w : w[j] = m
        BY <1>3, <1>4, <4>3
      <4> QED
        BY <2>3, <4>2, <4>3
    <3> QED
      BY <1>0, <3>1 DEF RingKnows
  <2> QED
    BY <1>0, <1>5, <2>2, <2>3 DEF RingKnows
<1>10. NoneSkipped("message", last, w, t, x)
  <2>1. ASSUME NEW m \in 1..last, KindOf[m] = "text"
        PROVE  m \in t \cup x \/ \E i \in DOMAIN w : w[i] = m
    <3>1. CASE m <= c
      BY <1>0, <1>1, <1>2, <2>1, <3>1 DEF NoneSkipped
    <3>2. CASE c < m
      <4>1. m \in Nat /\ m <= last
        BY <1>2
      <4>2. m - c + again \in 1..(last - c + again) /\ c - again + (m - c + again) = m
        BY <1>1, <1>2, <3>2, <4>1
      <4>3. m - c + again \in DOMAIN w /\ w[m - c + again] = m
        BY <1>4, <4>2
      <4> QED
        BY <4>3
    <3> QED
      BY <1>1, <3>1, <3>2
  <2> QED
    BY <2>1 DEF NoneSkipped, InHand
<1> QED
  BY <1>0, <1>2, <1>6, <1>7, <1>8, <1>9, <1>10 DEF BridgeOK, w

\* The id is new to the ring, and the ring once the message is taken.
IsNew(s, m) == KindOf[m] # "self" /\ m \notin Anonymous /\ ~(\E i \in DOMAIN s : s[i] = m)
NextRing(s, m) == IF IsNew(s, m) THEN RememberSeen(s, m) ELSE s

\* The head of the batch is taken: passed over, or its turn or its reply begins; no
\* text that has an id has its second turn.
LEMMA Taken ==
    ASSUME RingReaches, NEW c, NEW q, NEW s, NEW t, NEW r, NEW x,
           BridgeOK("message", c, q, s, t, r, x), q # <<>>
    PROVE  /\ (\/ KindOf[q[1]] \notin {"media", "text"}
               \/ q[1] \notin Anonymous /\ \E i \in DOMAIN s : s[i] = q[1])
              => BridgeOK("message", c, Tail(q), NextRing(s, q[1]), t, r, x)
           /\ KindOf[q[1]] = "media" => BridgeOK("reply", c, q, NextRing(s, q[1]), t, r, x)
           /\ KindOf[q[1]] = "text" /\ ~(q[1] \notin Anonymous /\ \E i \in DOMAIN s : s[i] = q[1])
              => BridgeOK("turn", c, q, NextRing(s, q[1]), t \cup {q[1]}, r \cup ({q[1]} \cap t),
                          x \ {q[1]})
<1> DEFINE m == q[1]
           new == IsNew(s, m)
           ring == NextRing(s, m)
<1>a. /\ m = q[1] /\ ring = IF new THEN RememberSeen(s, m) ELSE s
      /\ new <=> KindOf[m] # "self" /\ m \notin Anonymous /\ ~(\E i \in DOMAIN s : s[i] = m)
  BY DEF IsNew, NextRing
<1> USE <1>a
<1> HIDE DEF m, new, ring
<1>0. /\ BridgeTyped("message", c, q, s, t, r, x) /\ BatchOrdered("message", c, q)
      /\ RingOrdered("message", c, q, s) /\ RingKnows("message", c, q, s, t)
      /\ NoneSkipped("message", c, q, t, x) /\ r \subseteq Anonymous
  BY DEF BridgeOK
<1>1. /\ c \in Nat /\ 1 \in DOMAIN q /\ m \in Messages /\ Len(q) \in Nat /\ DOMAIN q = 1..Len(q)
  <2>1. /\ c \in Nat /\ Len(q) \in Nat /\ DOMAIN q = 1..Len(q)
        /\ \A i \in DOMAIN q : q[i] \in Messages
    BY <1>0, BridgeNumbers
  <2>2. q \in Seq(Messages)
    BY <1>0 DEF BridgeTyped
  <2>3. 1 \in DOMAIN q
    BY <2>1, <2>2
  <2> QED
    BY <2>1, <2>3
<1>2. "turn" \in InHand /\ "turn" \in BridgePhases /\ "reply" \in InHand /\ "reply" \in BridgePhases
  BY DEF InHand, BridgePhases
<1>3. BatchOrdered("turn", c, q)
  BY <1>0, <1>2 DEF BatchOrdered
<1>4. ASSUME NEW u, NEW v, NEW y,
             \/ u = t /\ v = r /\ y = x /\ (KindOf[m] = "text" => ~new /\ m \in t)
             \/ /\ u = t \cup {m} /\ v = r \cup ({m} \cap t) /\ y = x \ {m}
                /\ m \in Anonymous \/ new
      PROVE  BridgeOK("turn", c, q, ring, u, v, y)
  <2>1. \/ ring = s
        \/ /\ q[1] \notin Anonymous /\ \A i \in DOMAIN s : s[i] # q[1]
           /\ ring = RememberSeen(s, q[1])
           /\ KindOf[q[1]] = "text" => u = t \cup {q[1]}
    BY <1>4
  <2>2. new => ring # s
    <3> SUFFICES ASSUME new, ring = s PROVE FALSE
      OBVIOUS
    <3>1. s \in Seq(Messages \ Anonymous) /\ Len(s) <= SEEN_CAP
      BY <1>0 DEF BridgeTyped, RingOrdered
    <3>2. m \in Messages \ Anonymous /\ ring = RememberSeen(s, m)
      BY <1>1
    <3>3. PICK k \in {0, 1} : Slid(s, ring, m, k)
      BY <3>1, <3>2, Remembered
    <3>4. Len(s) \in Nat /\ DOMAIN s = 1..Len(s) /\ SEEN_CAP \in Nat /\ SEEN_CAP # 0
      BY <3>1, WechatAssumption
    <3>5. k = 1 /\ Len(s) = SEEN_CAP
      <4>1. Len(s) = Len(s) + 1 - k /\ (k = 1 => Len(s) = SEEN_CAP)
        BY <3>3 DEF Slid
      <4> DEFINE n == Len(s)
      <4>2. n \in Nat /\ n = n + 1 - k
        BY <3>4, <4>1
      <4> HIDE DEF n
      <4>3. k = 1
        BY <4>2
      <4> QED
        BY <4>1, <4>3
    <3>6. s[Len(s)] = m
      BY <3>3 DEF Slid
    <3>7. Len(s) \in DOMAIN s
      BY <3>4, <3>5
    <3> QED
      BY <3>6, <3>7
  <2>3. \/ u = t
        \/ u = t \cup {q[1]} /\ (q[1] \in Anonymous \/ ring # s)
    BY <1>4, <2>2
  <2>4. /\ ring \in Seq(Messages \ Anonymous)
        /\ RingOrdered("turn", c, q, ring) /\ RingKnows("turn", c, q, ring, u)
    BY <2>1, <2>3, TakenRing
  <2>5. BridgeTyped("turn", c, q, ring, u, v, y)
    BY <1>0, <1>1, <1>2, <1>4, <2>4 DEF BridgeTyped
  <2>6. NoneSkipped("turn", c, q, u, y)
    BY <1>0, <1>4 DEF NoneSkipped, InHand
  <2>7. v \subseteq Anonymous
    <3>1. CASE u = t /\ v = r
      BY <1>0, <3>1
    <3>2. CASE v = r \cup ({m} \cap t) /\ m \in Anonymous
      BY <1>0, <3>2
    <3>3. CASE v = r \cup ({m} \cap t) /\ new
      <4>1. m \notin t
        <5>1. 1 \in Ahead("message", q) /\ q[1] = m /\ m \notin Anonymous
          BY <1>1, <3>3 DEF Ahead, InHand
        <5>2. ~(\E i \in DOMAIN s : s[i] = m)
          BY <3>3
        <5> QED
          BY <1>0, <5>1, <5>2 DEF RingKnows
      <4> QED
        BY <1>0, <3>3, <4>1
    <3> QED
      BY <1>4, <3>1, <3>2, <3>3
  <2> QED
    BY <1>3, <2>4, <2>5, <2>6, <2>7 DEF BridgeOK
<1>5. ASSUME \/ KindOf[m] \notin {"media", "text"}
             \/ m \notin Anonymous /\ \E i \in DOMAIN s : s[i] = m
      PROVE  BridgeOK("message", c, Tail(q), ring, t, r, x)
  <2>1. KindOf[m] = "text" => ~new /\ m \in t
    BY <1>0, <1>5 DEF RingKnows
  <2>2. BridgeOK("turn", c, q, ring, t, r, x)
    BY <1>4, <2>1
  <2> QED
    BY <1>2, <2>2, Popped
<1>6. ASSUME KindOf[m] = "media" PROVE BridgeOK("reply", c, q, ring, t, r, x)
  <2>1. BridgeOK("turn", c, q, ring, t, r, x)
    BY <1>4, <1>6
  <2> QED
    BY <1>2, <2>1, GoesOn
<1>7. ASSUME KindOf[m] = "text", ~(m \notin Anonymous /\ \E i \in DOMAIN s : s[i] = m)
      PROVE  BridgeOK("turn", c, q, ring, t \cup {m}, r \cup ({m} \cap t), x \ {m})
  <2>1. m \in Anonymous \/ new
    BY <1>7
  <2> QED
    BY <1>4, <2>1
<1> QED
  BY <1>5, <1>6, <1>7 DEF m, ring

-----------------------------------------------------------------------------
\* Only b's thread has moved.
OnlyBridge(b) ==
    /\ DOMAIN pc' = Bridges /\ DOMAIN cursor' = Bridges /\ DOMAIN batch' = Bridges
    /\ DOMAIN seen' = Bridges /\ DOMAIN turned' = Bridges /\ DOMAIN repeated' = Bridges
    /\ DOMAIN dropped' = Bridges
    /\ \A o \in Bridges \ {b} :
         /\ pc'[o] = pc[o] /\ cursor'[o] = cursor[o] /\ batch'[o] = batch[o] /\ seen'[o] = seen[o]
         /\ turned'[o] = turned[o] /\ repeated'[o] = repeated[o] /\ dropped'[o] = dropped[o]

\* A step of one thread, for the invariant of all.
LEMMA OneBridge ==
    ASSUME WechatInv, NEW b \in Bridges, OnlyBridge(b),
           BridgeOK(pc'[b], cursor'[b], batch'[b], seen'[b], turned'[b], repeated'[b], dropped'[b])
    PROVE  WechatInv'
BY DEF WechatInv, OnlyBridge

\* A thread's step moves no other thread.
LEMMA ThreadAlone ==
    ASSUME WechatInv, NEW b \in Bridges, Thread(b) \/ Start(b)
    PROVE  OnlyBridge(b)
<1> USE DEF WechatInv, OnlyBridge
<1>1. CASE Start(b)
  BY <1>1 DEF Start, Goto, history
<1>2. CASE StopSeen(b) \/ PollAgain(b) \/ BatchDone(b)
  BY <1>2 DEF StopSeen, PollAgain, BatchDone, Goto, Exit, history
<1>3. ASSUME NEW rest, NEW g, PollFails(b, rest, g) PROVE OnlyBridge(b)
  BY <1>3 DEF PollFails, Goto, Exit
<1>4. CASE TakeMessage(b)
  BY <1>4 DEF TakeMessage, Goto, history
<1>5. CASE TurnEnds(b) \/ Replied(b)
  BY <1>5 DEF TurnEnds, Replied, Goto, history
<1>6. ASSUME NEW again, NEW last, Updates(b, again, last) PROVE OnlyBridge(b)
  BY <1>6 DEF Updates, Goto, history
<1>7. CASE TurnFails(b) \/ \E g \in BOOLEAN : UpdatesFail(b, g) \/ ReplyFails(b, g)
  BY <1>3, <1>7 DEF TurnFails, UpdatesFail, ReplyFails
<1> QED
  BY <1>1, <1>2, <1>4, <1>5, <1>6, <1>7 DEF Thread

\* Every step of a bridge's thread keeps the invariant.
LEMMA ThreadKeeps ==
    ASSUME RingReaches, WechatInv, NEW b \in Bridges, Thread(b) \/ Start(b)
    PROVE  WechatInv'
<1>0. /\ OnlyBridge(b)
      /\ BridgeOK(pc[b], cursor[b], batch[b], seen[b], turned[b], repeated[b], dropped[b])
  BY ThreadAlone DEF WechatInv
<1>d. /\ b \in DOMAIN pc /\ b \in DOMAIN cursor /\ b \in DOMAIN batch /\ b \in DOMAIN seen
      /\ b \in DOMAIN turned /\ b \in DOMAIN repeated /\ b \in DOMAIN dropped
  BY DEF WechatInv
<1> SUFFICES BridgeOK(pc'[b], cursor'[b], batch'[b], seen'[b], turned'[b], repeated'[b], dropped'[b])
  BY <1>0, OneBridge
<1>1. CASE Start(b) \/ PollAgain(b) \/ BatchDone(b) \/ TurnEnds(b)
  <2>1. /\ UNCHANGED <<cursor, batch, seen, turned, repeated, dropped>>
        /\ \/ pc[b] = "unborn" /\ pc'[b] = "check"
           \/ pc[b] = "check" /\ pc'[b] = "poll"
           \/ pc[b] = "turn" /\ pc'[b] = "reply"
           \/ pc[b] = "message" /\ batch[b] = <<>> /\ pc'[b] = "check"
    BY <1>1, <1>d DEF Start, PollAgain, BatchDone, TurnEnds, Goto, history
  <2>2. pc[b] \in {"unborn", "check"} => batch[b] = <<>>
    BY <1>0 DEF BridgeOK, BatchOrdered, InHand
  <2>3. /\ pc'[b] \in BridgePhases /\ (pc'[b] \in InHand <=> pc[b] \in InHand)
        /\ (pc'[b] \notin InHand \cup {"message"} => batch[b] = <<>>)
    BY <2>1, <2>2 DEF BridgePhases, InHand
  <2> QED
    BY <1>0, <2>1, <2>3, GoesOn
<1>2. ASSUME Exit(b)
      PROVE  BridgeOK(pc'[b], cursor'[b], batch'[b], seen'[b], turned'[b], repeated'[b], dropped'[b])
  BY <1>2, <1>d, NothingHeld DEF Exit, Goto
<1>3. ASSUME NEW rest, NEW g, PollFails(b, rest, g),
             (pc[b] = "poll" /\ rest = <<>>) \/ (pc[b] \in InHand /\ rest = Tail(batch[b]))
      PROVE  BridgeOK(pc'[b], cursor'[b], batch'[b], seen'[b], turned'[b], repeated'[b], dropped'[b])
  <2>1. CASE ~Exit(b)
    <3>1. /\ UNCHANGED <<cursor, seen, turned, repeated>> /\ pc'[b] = "check" /\ batch'[b] = <<>>
          /\ dropped'[b] = dropped[b] \cup (ToSet(rest) \ turned[b])
      BY <1>3, <1>d, <2>1 DEF PollFails, Goto
    <3>2. BridgeOK("check", cursor[b], <<>>, seen[b], turned[b], repeated[b],
                   dropped[b] \cup (ToSet(rest) \ turned[b]))
      BY <1>0, <1>3, LeftOver
    <3> QED
      BY <3>1, <3>2
  <2> QED
    BY <1>2, <2>1
<1>4. CASE TakeMessage(b)
  <2> DEFINE m == batch[b][1]
             ring == NextRing(seen[b], m)
             dup == m \notin Anonymous /\ \E i \in DOMAIN seen[b] : seen[b][i] = m
  <2>1. pc[b] = "message" /\ batch[b] # <<>> /\ UNCHANGED cursor
    BY <1>4 DEF TakeMessage
  <2>2. Head(batch[b]) = m
    OBVIOUS
  <2>3. Duplicate(b, m) <=> dup
    BY DEF Duplicate, ToSet
  <2>4. seen'[b] = ring
    <3>1. seen' = [seen EXCEPT ![b] = IF KindOf[m] # "self" /\ m \notin Anonymous /\ ~Duplicate(b, m)
                                      THEN RememberSeen(@, m) ELSE @]
      BY <1>4, <2>2 DEF TakeMessage
    <3> HIDE DEF m
    <3> QED
      BY <1>d, <2>3, <3>1 DEF NextRing, IsNew
  <2>5. \/ /\ KindOf[m] \notin {"media", "text"} \/ dup
           /\ batch'[b] = Tail(batch[b]) /\ UNCHANGED <<pc, turned, repeated, dropped>>
        \/ /\ KindOf[m] = "media" /\ pc'[b] = "reply"
           /\ UNCHANGED <<batch, turned, repeated, dropped>>
        \/ /\ KindOf[m] = "text" /\ ~dup /\ pc'[b] = "turn" /\ UNCHANGED batch
           /\ turned'[b] = turned[b] \cup {m} /\ repeated'[b] = repeated[b] \cup ({m} \cap turned[b])
           /\ dropped'[b] = dropped[b] \ {m}
    BY <1>4, <1>d, <2>2, <2>3 DEF TakeMessage, Accepts, Goto, history
  <2>7. /\ KindOf[m] \notin {"media", "text"} \/ dup
           => BridgeOK("message", cursor[b], Tail(batch[b]), ring, turned[b], repeated[b], dropped[b])
        /\ KindOf[m] = "media"
           => BridgeOK("reply", cursor[b], batch[b], ring, turned[b], repeated[b], dropped[b])
        /\ KindOf[m] = "text" /\ ~dup
           => BridgeOK("turn", cursor[b], batch[b], ring, turned[b] \cup {m},
                       repeated[b] \cup ({m} \cap turned[b]), dropped[b] \ {m})
    BY <1>0, <2>1, Taken
  <2> HIDE DEF m, ring, dup
  <2> QED
    BY <2>1, <2>4, <2>5, <2>7
<1>5. CASE Replied(b)
  <2>1. /\ pc[b] \in InHand /\ pc'[b] = "message" /\ batch'[b] = Tail(batch[b])
        /\ UNCHANGED <<cursor, seen, turned, repeated, dropped>>
    BY <1>5, <1>d DEF Replied, Goto, history, InHand
  <2> QED
    BY <1>0, <2>1, Popped
<1>6. ASSUME NEW again \in 0..Redeliver, NEW last \in 0..MaxMsgs, Updates(b, again, last)
      PROVE  BridgeOK(pc'[b], cursor'[b], batch'[b], seen'[b], turned'[b], repeated'[b], dropped'[b])
  <2>1. /\ pc[b] = "poll" /\ pc'[b] = "message" /\ again <= cursor[b] /\ last >= cursor[b]
        /\ cursor'[b] = Advance(cursor[b], last)
        /\ batch'[b] = [i \in 1..(last - cursor[b] + again) |-> cursor[b] - again + i]
        /\ UNCHANGED <<seen, turned, repeated, dropped>>
    BY <1>6, <1>d DEF Updates, Goto, history
  <2> QED
    BY <1>0, <2>1, Delivered
<1>7. CASE TurnFails(b) \/ \E g \in BOOLEAN : UpdatesFail(b, g) \/ ReplyFails(b, g)
  <2>1. CASE TurnFails(b)
    BY <1>3, <2>1 DEF TurnFails, InHand
  <2>2. ASSUME NEW g \in BOOLEAN, UpdatesFail(b, g)
        PROVE  BridgeOK(pc'[b], cursor'[b], batch'[b], seen'[b], turned'[b], repeated'[b], dropped'[b])
    <3>1. PICK rest : rest = <<>>
      OBVIOUS
    <3>2. pc[b] = "poll" /\ PollFails(b, rest, g)
      BY <2>2, <3>1 DEF UpdatesFail
    <3> QED
      BY <1>3, <3>1, <3>2
  <2>3. ASSUME NEW g \in BOOLEAN, ReplyFails(b, g)
        PROVE  BridgeOK(pc'[b], cursor'[b], batch'[b], seen'[b], turned'[b], repeated'[b], dropped'[b])
    BY <1>3, <2>3 DEF ReplyFails, InHand
  <2> QED
    BY <1>7, <2>1, <2>2, <2>3
<1> QED
  BY <1>1, <1>2, <1>4, <1>5, <1>6, <1>7 DEF Thread, StopSeen

\* The host's other operations leave the threads alone.
LEMMA HostKeeps ==
    ASSUME WechatInv, UNCHANGED <<pc, cursor, batch, seen, history>>
    PROVE  WechatInv'
BY DEF WechatInv, history

\* The invariant of the bridge threads.
THEOREM WechatCorrect == ASSUME RingReaches PROVE WechatSpec => []WechatInv
<1>1. WechatInit => WechatInv
  BY NothingHeld DEF WechatInit, WechatInv
<1>2. WechatInv /\ [WechatNext]_wechatVars => WechatInv'
  <2> SUFFICES ASSUME WechatInv, [WechatNext]_wechatVars PROVE WechatInv'
    OBVIOUS
  <2>1. ASSUME NEW b \in Bridges, Thread(b) \/ Start(b) PROVE WechatInv'
    BY <2>1, ThreadKeeps
  <2>2. ASSUME \/ ConfirmLogin \/ UNCHANGED wechatVars
               \/ \E b \in Bridges : StopTakes(b) \/ Status(b) \/ Stopping(b)
        PROVE  WechatInv'
    <3>1. UNCHANGED <<pc, cursor, batch, seen, history>>
      BY <2>2 DEF ConfirmLogin, StopTakes, Status, Stopping, StopSignals, StopReturns, wechatVars
    <3> QED
      BY <3>1, HostKeeps
  <2> QED
    BY <2>1, <2>2 DEF WechatNext
<1> QED
  BY <1>1, <1>2, PTL DEF WechatSpec

\* Each message with an id has at most one turn, and none behind the cursor is
\* skipped but those a failed poll left over (poll_once, accepts, remember_seen).
THEOREM HandledOnceHolds == ASSUME RingReaches PROVE WechatSpec => []HandledOnce
<1>1. WechatInv => HandledOnce
  BY DEF WechatInv, HandledOnce, BridgeOK, NoneSkipped, ToSet
<1> QED
  BY <1>1, WechatCorrect, PTL
=============================================================================
