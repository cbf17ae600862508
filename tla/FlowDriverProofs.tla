-------------------------- MODULE FlowDriverProofs --------------------------
(***************************************************************************)
(* What a flow promises, proved for every number of nodes and steers, both *)
(* strategies and every worker ceiling, concurrency and budget.            *)
(***************************************************************************)
EXTENDS FlowDriver, FiniteSetTheorems, WellFoundedInduction, TLAPS

\* The engine thread is folding one node: it has debited it and not recorded it.
Placing == pc \in {"place", "closePrior", "record"}

\* Which nodes there may be at each place of the engine thread.
Phases ==
    /\ pc # "admit" => InState("starts") = {}
    /\ pc \notin {"admit", "fan", "join"} => InState("admitted") = {}
    /\ pc # "join" => InState("spawned") = {} /\ InState("leasing") = {} /\ InState("turn") = {}
    /\ pc \notin {"fan", "join", "fold", "place", "closePrior", "record"} =>
          InState("ran") = {}
    /\ Placing => InState("ran") # {}

\* A node that the wave has settled has its result, unless its thread panicked.
Settled ==
    /\ \A n \in Nodes : node[n] = "folded" =>
          result[n] # "none" \/ run[n].end = "panicked"
    /\ pc # "admit" => \A n \in Nodes : node[n] = "refused" => result[n] # "none"

\* The registry's sessions move from the frontier through the drained one to closed.
Drains ==
    /\ pc \notin {"closePrior", "closeLast"} => drained = NoNode
    /\ pc \in {"closePrior", "closeLast", "finish", "done"} => frontier = NoNode
    /\ reported # "none" => pc = "done"
    /\ pc = "record" /\ session[Folding] = "open" => frontier = Folding
    /\ \A n \in Nodes : node[n] \notin {"ran", "folded"} => session[n] = "none"
    /\ \A n \in Nodes : session[n] = "open" =>
          n = frontier \/ n = drained \/ node[n] = "ran"
    /\ \A n \in Nodes : n = frontier \/ n = drained => node[n] \in {"ran", "folded"}
    /\ frontier # NoNode \/ pc = "closePrior" => Steerable

\* A steer under way has resolved a node of a steerable flow.
Targets ==
    \A s \in Steers :
        /\ steer[s] \in {"lock", "turn"} => target[s] # NoNode
        /\ target[s] # NoNode => Steerable

\* The nodes whose turn was debited and had reported no usage.
Silent ==
    {n \in Nodes : /\ node[n] = "folded" \/ (Placing /\ n = Folding)
                   /\ run[n].cost = NoUsage}

\* One silent node takes the whole budget, a second one overdraws it, and an
\* overdrawn budget has tripped a token.
Charged ==
    /\ Silent # {} => budget.spent >= Limit
    /\ (\E m, n \in Silent : m # n) => budget.exhausted
    /\ budget.exhausted => token.run \/ token.registry

\* The semaphore, with what its arithmetic needs: only finitely many steers hold a
\* slot.
Slots == SlotsExact /\ IsFiniteSet(SteersWithSlot)

\* The inductive invariant.
FlowInv ==
    /\ TypeOK
    /\ Phases
    /\ Settled
    /\ Drains
    /\ Targets
    /\ Charged
    /\ Slots
    /\ SessionsOwned

-----------------------------------------------------------------------------
(* The operators.                                                          *)

\* A nonempty set of naturals has a least element, which Min picks.
LEMMA MinIsLeast ==
    ASSUME NEW S, S \subseteq Nat, S # {}
    PROVE  Min(S) \in S /\ \A k \in S : Min(S) <= k
<1> DEFINE R == OpToRel(<, Nat)
<1>1. IsWellFoundedOn(R, Nat)
  BY NatLessThanWellFounded
<1>2. \A x, y \in Nat : x < y => <<x, y>> \in R
  BY DEF OpToRel
<1> HIDE DEF R
<1>3. PICK m \in S : \A k \in S : ~(<<k, m>> \in R)
  BY <1>1, WFMin
<1>4. ASSUME NEW k \in S PROVE m <= k
  <2>1. k \in Nat /\ m \in Nat
    OBVIOUS
  <2>2. ~(k < m)
    BY <2>1, <1>2, <1>3
  <2> QED
    BY <2>1, <2>2
<1> QED
  BY <1>3, <1>4 DEF Min

\* While a node has run and is not folded, Folding is such a node.
LEMMA FoldingRan ==
    ASSUME InState("ran") # {}
    PROVE  Folding \in Nodes /\ node[Folding] = "ran"
<1>1. InState("ran") \subseteq Nat
  BY FlowAssumption DEF InState, Nodes
<1> QED
  BY <1>1, MinIsLeast DEF Folding, InState

\* The node to admit next is one that starts.
LEMMA AdmitsStarting ==
    ASSUME InState("starts") # {}
    PROVE  Min(InState("starts")) \in Nodes /\ node[Min(InState("starts"))] = "starts"
<1>1. InState("starts") \subseteq Nat
  BY FlowAssumption DEF InState, Nodes
<1> QED
  BY <1>1, MinIsLeast DEF InState

\* Steers and tokens leave the engine thread, its nodes and their sessions alone.
LEMMA OthersApart ==
    ASSUME \/ CancelJob \/ CloseFlow \/ Watch
           \/ \E s \in Steers : SteerCheck(s) \/ SteerStep(s)
    PROVE  UNCHANGED <<strategy, engine, node, run, result, sessions, lease>>
BY DEF CancelJob, CloseFlow, Watch, SteerCheck, SteerStep, SteerAcquire, SteerResolve,
    SteerLock, SteerTurnFails, SteerTurnOk, SteerDebit, engine, sessions

-----------------------------------------------------------------------------
(* The phases of the engine thread.                                        *)

\* Every step keeps the phases.
LEMMA PhasesKept == TypeOK /\ Phases /\ Next => Phases'
<1> SUFFICES ASSUME TypeOK, Phases, Next PROVE Phases'
  OBVIOUS
<1> USE DEF Phases, InState, Placing, engine, sessions
<1>1. CASE LoopCancelled \/ LoopEnds \/ Teardown \/ CloseLast \/ FinishFlow
  BY <1>1 DEF LoopCancelled, LoopEnds, Teardown, CloseLast, FinishFlow
<1>2. CASE LoopDispatch
  BY <1>2 DEF LoopDispatch, TypeOK
<1>3. CASE Admit
  BY <1>3, AdmitsStarting DEF Admit, TypeOK
<1>4. CASE Partitioned \/ Join \/ FanDone \/ FoldDone
  BY <1>4 DEF Partitioned, Join, FanDone, FoldDone
<1>5. CASE FanCancelled
  BY <1>5 DEF FanCancelled, TypeOK
<1>6. CASE FanSpawn
  BY <1>6 DEF FanSpawn, TypeOK
<1>7. CASE FoldDebit \/ DrainPrior \/ ClosePrior \/ PlaceNone
  BY <1>7 DEF FoldDebit, DrainPrior, ClosePrior, PlaceNone
<1>8. CASE FoldRecord
  <2>1. Folding \in Nodes /\ node' = [node EXCEPT ![Folding] = "folded"]
    BY <1>8, FoldingRan DEF FoldRecord
  <2> QED
    BY <1>8, <2>1 DEF FoldRecord, TypeOK
<1>9. ASSUME NEW n \in Nodes, NodeStep(n)
      PROVE  Phases'
  <2>1. node[n] \in {"spawned", "leasing", "turn"} /\ pc = "join" /\ pc' = pc
    BY <1>9 DEF NodeStep, Unresolved, Resolved, StartTurn, PanicTurn, EndTurn
  <2>2. \E s \in {"leasing", "turn", "ran"} : node' = [node EXCEPT ![n] = s]
    BY <1>9 DEF NodeStep, Unresolved, Resolved, StartTurn, PanicTurn, EndTurn
  <2> QED
    BY <2>1, <2>2 DEF TypeOK
<1>10. CASE \/ CancelJob \/ CloseFlow \/ Watch
            \/ \E s \in Steers : SteerCheck(s) \/ SteerStep(s)
  BY <1>10, OthersApart
<1> QED
  BY <1>1, <1>2, <1>3, <1>4, <1>5, <1>6, <1>7, <1>8, <1>9, <1>10
    DEF Next, EngineStep

\* Every step keeps the results of the settled nodes.
LEMMA SettledKept == TypeOK /\ Phases /\ Settled /\ Next => Settled'
<1> SUFFICES ASSUME TypeOK, Phases, Settled, Next PROVE Settled'
  OBVIOUS
<1> USE DEF Settled, engine, sessions
<1>1. CASE LoopCancelled \/ LoopEnds \/ Teardown \/ CloseLast \/ FinishFlow
  BY <1>1 DEF LoopCancelled, LoopEnds, Teardown, CloseLast, FinishFlow
<1>2. CASE LoopDispatch
  BY <1>2 DEF LoopDispatch, TypeOK
<1>3. CASE Admit
  BY <1>3, AdmitsStarting DEF Admit, TypeOK
<1>4. CASE Partitioned
  BY <1>4 DEF Partitioned, Refused, TypeOK
<1>5. CASE Join \/ FanDone \/ FoldDone
  BY <1>5 DEF Join, FanDone, FoldDone
<1>6. CASE FanCancelled
  <2>1. \A n \in Nodes : node'[n] \in {"folded", "refused"} =>
           node[n] = node'[n] /\ n \notin Chunk
    BY <1>6 DEF FanCancelled
  <2> QED
    BY <1>6, <2>1 DEF FanCancelled
<1>7. CASE FanSpawn
  BY <1>7 DEF FanSpawn, TypeOK
<1>8. CASE FoldDebit \/ DrainPrior \/ ClosePrior \/ PlaceNone
  BY <1>8 DEF FoldDebit, DrainPrior, ClosePrior, PlaceNone
<1>9. CASE FoldRecord
  <2>1. Folding \in Nodes /\ node[Folding] = "ran"
    BY <1>9, FoldingRan DEF FoldRecord, Phases, Placing
  <2>2. /\ node' = [node EXCEPT ![Folding] = "folded"] /\ run' = run
        /\ \A n \in Nodes : n # Folding => result'[n] = result[n]
        /\ run[Folding].end # "panicked" => result'[Folding] \in {"ok", "failed"}
    BY <1>9, <2>1 DEF FoldRecord, TypeOK
  <2> QED
    BY <1>9, <2>1, <2>2 DEF FoldRecord, TypeOK
<1>10. ASSUME NEW n \in Nodes, NodeStep(n)
       PROVE  Settled'
  <2>1. /\ pc' = pc /\ result' = result
        /\ \A m \in Nodes : m # n => node'[m] = node[m] /\ run'[m] = run[m]
    BY <1>10 DEF NodeStep, Unresolved, Resolved, StartTurn, PanicTurn, EndTurn, TypeOK
  <2>2. node'[n] \in {"leasing", "turn", "ran"}
    BY <1>10 DEF NodeStep, Unresolved, Resolved, StartTurn, PanicTurn, EndTurn, TypeOK
  <2> QED
    BY <2>1, <2>2
<1>11. CASE \/ CancelJob \/ CloseFlow \/ Watch
            \/ \E s \in Steers : SteerCheck(s) \/ SteerStep(s)
  BY <1>11, OthersApart
<1> QED
  BY <1>1, <1>2, <1>3, <1>4, <1>5, <1>6, <1>7, <1>8, <1>9, <1>10, <1>11
    DEF Next, EngineStep

-----------------------------------------------------------------------------
(* The worker semaphore.                                                   *)

\* The nodes with a slot are finitely many, here and after any step.
LEMMA NodeSlotsFinite ==
    /\ IsFiniteSet(NodesWithSlot)
    /\ IsFiniteSet(NodesWithSlot')
<1>1. IsFiniteSet(Nodes)
  BY FlowAssumption, FS_Interval DEF Nodes
<1>2. NodesWithSlot \in SUBSET Nodes /\ NodesWithSlot' \in SUBSET Nodes
  BY DEF NodesWithSlot
<1> QED
  BY <1>1, <1>2, FS_Subset

\* The count moves with the set of nodes that hold a slot.
LEMMA NodeSlotsMove ==
    ASSUME Slots, SteersWithSlot' = SteersWithSlot,
           \/ NodesWithSlot' = NodesWithSlot /\ live' = live
           \/ \E n \in Nodes : /\ n \notin NodesWithSlot /\ live < MaxWorkers
                                /\ NodesWithSlot' = NodesWithSlot \cup {n}
                                /\ live' = live + 1
           \/ \E S \in SUBSET NodesWithSlot :
                  NodesWithSlot' = NodesWithSlot \ S /\ live' = live - Cardinality(S)
    PROVE  Slots' /\ live' \in Nat
<1> USE NodeSlotsFinite, FlowAssumption DEF Slots, SlotsExact
<1>1. Cardinality(NodesWithSlot) \in Nat /\ Cardinality(SteersWithSlot) \in Nat
  BY FS_CardinalityType
<1>2. CASE NodesWithSlot' = NodesWithSlot /\ live' = live
  BY <1>1, <1>2
<1>3. ASSUME NEW n \in Nodes, n \notin NodesWithSlot, live < MaxWorkers,
             NodesWithSlot' = NodesWithSlot \cup {n}, live' = live + 1
      PROVE  Slots' /\ live' \in Nat
  <2>1. Cardinality(NodesWithSlot') = Cardinality(NodesWithSlot) + 1
    BY <1>3, FS_AddElement
  <2> QED
    BY <1>1, <1>3, <2>1
<1>4. ASSUME NEW S \in SUBSET NodesWithSlot,
             NodesWithSlot' = NodesWithSlot \ S, live' = live - Cardinality(S)
      PROVE  Slots' /\ live' \in Nat
  <2>1. Cardinality(NodesWithSlot') =
          Cardinality(NodesWithSlot) - Cardinality(NodesWithSlot \cap S)
    BY <1>4, FS_Difference
  <2>2. NodesWithSlot \cap S = S
    OBVIOUS
  <2>3. Cardinality(S) \in Nat /\ Cardinality(S) <= Cardinality(NodesWithSlot)
    BY FS_Subset, FS_CardinalityType
  <2>4. Cardinality(NodesWithSlot') = Cardinality(NodesWithSlot) - Cardinality(S)
    BY <2>1, <2>2
  <2>5. live' = Cardinality(NodesWithSlot') + Cardinality(SteersWithSlot)
    BY <1>1, <1>4, <2>3, <2>4
  <2>6. live' \in Nat /\ live' <= MaxWorkers
    BY <1>1, <1>4, <2>3, <2>4
  <2> QED
    BY <2>5, <2>6
<1> QED
  BY <1>2, <1>3, <1>4

\* The count moves with the set of steers that hold a slot.
LEMMA SteerSlotsMove ==
    ASSUME Slots, NodesWithSlot' = NodesWithSlot,
           \/ SteersWithSlot' = SteersWithSlot /\ live' = live
           \/ \E s \in Steers : /\ s \notin SteersWithSlot /\ live < MaxWorkers
                                 /\ SteersWithSlot' = SteersWithSlot \cup {s}
                                 /\ live' = live + 1
           \/ \E s \in SteersWithSlot :
                  SteersWithSlot' = SteersWithSlot \ {s} /\ live' = live - 1
    PROVE  Slots' /\ live' \in Nat
<1> USE NodeSlotsFinite, FlowAssumption DEF Slots, SlotsExact
<1>1. Cardinality(NodesWithSlot) \in Nat /\ Cardinality(SteersWithSlot) \in Nat
  BY FS_CardinalityType
<1>2. CASE SteersWithSlot' = SteersWithSlot /\ live' = live
  BY <1>1, <1>2
<1>3. ASSUME NEW s \in Steers, s \notin SteersWithSlot, live < MaxWorkers,
             SteersWithSlot' = SteersWithSlot \cup {s}, live' = live + 1
      PROVE  Slots' /\ live' \in Nat
  <2>1. /\ IsFiniteSet(SteersWithSlot')
        /\ Cardinality(SteersWithSlot') = Cardinality(SteersWithSlot) + 1
    BY <1>3, FS_AddElement
  <2> QED
    BY <1>1, <1>3, <2>1
<1>4. ASSUME NEW s \in SteersWithSlot,
             SteersWithSlot' = SteersWithSlot \ {s}, live' = live - 1
      PROVE  Slots' /\ live' \in Nat
  <2>1. /\ IsFiniteSet(SteersWithSlot')
        /\ Cardinality(SteersWithSlot') = Cardinality(SteersWithSlot) - 1
    BY <1>4, FS_RemoveElement
  <2>2. Cardinality(SteersWithSlot') \in Nat
    BY <2>1, FS_CardinalityType
  <2> QED
    BY <1>1, <1>4, <2>1, <2>2
<1> QED
  BY <1>2, <1>3, <1>4

\* The engine thread takes a slot for each node it admits and returns it once.
LEMMA EngineSlots == TypeOK /\ Phases /\ Slots /\ EngineStep => Slots' /\ live' \in Nat
<1> SUFFICES ASSUME TypeOK, Phases, Slots, EngineStep PROVE Slots' /\ live' \in Nat
  OBVIOUS
<1> USE DEF engine, sessions
<1>0. SteersWithSlot' = SteersWithSlot
  BY DEF EngineStep, LoopCancelled, LoopDispatch, LoopEnds, Admit, Partitioned,
    FanCancelled, FanSpawn, Join, FanDone, FoldDebit, DrainPrior, ClosePrior, PlaceNone,
    FoldRecord, FoldDone, Teardown, CloseLast, FinishFlow, SteersWithSlot
<1>1. CASE \/ LoopCancelled \/ LoopEnds \/ Partitioned \/ Join \/ FanDone \/ FoldDone
           \/ FoldDebit \/ DrainPrior \/ ClosePrior \/ PlaceNone
           \/ Teardown \/ CloseLast \/ FinishFlow
  <2>1. node' = node /\ run' = run /\ live' = live
    BY <1>1 DEF LoopCancelled, LoopEnds, Partitioned, Join, FanDone, FoldDone, FoldDebit,
      DrainPrior, ClosePrior, PlaceNone, Teardown, CloseLast, FinishFlow
  <2>2. NodesWithSlot' = NodesWithSlot
    BY <2>1 DEF NodesWithSlot, SlotHeldAtFold
  <2> QED
    BY <1>0, <2>1, <2>2, NodeSlotsMove
<1>2. CASE LoopDispatch
  <2>1. \A n \in Starts : node[n] = "idle"
    BY DEF Starts, Dispatched
  <2>2. NodesWithSlot' = NodesWithSlot
    BY <1>2, <2>1 DEF LoopDispatch, NodesWithSlot, SlotHeldAtFold
  <2> QED
    BY <1>0, <1>2, <2>2, NodeSlotsMove DEF LoopDispatch
<1>3. CASE Admit
  <2> DEFINE n == Min(InState("starts"))
  <2>1. n \in Nodes /\ node[n] = "starts"
    BY <1>3, AdmitsStarting DEF Admit
  <2>2. \/ /\ live < MaxWorkers /\ live' = live + 1
           /\ node' = [node EXCEPT ![n] = "admitted"]
        \/ live' = live /\ node' = [node EXCEPT ![n] = "refused"]
    BY <1>3 DEF Admit
  <2> HIDE DEF n
  <2>3. run' = run /\ n \notin NodesWithSlot
    BY <1>3, <2>1 DEF Admit, NodesWithSlot
  <2>4. CASE live' = live /\ node' = [node EXCEPT ![n] = "refused"]
    <3>1. NodesWithSlot' = NodesWithSlot
      BY <2>1, <2>3, <2>4 DEF NodesWithSlot, SlotHeldAtFold, TypeOK
    <3> QED
      BY <1>0, <2>4, <3>1, NodeSlotsMove
  <2>5. CASE /\ live < MaxWorkers /\ live' = live + 1
             /\ node' = [node EXCEPT ![n] = "admitted"]
    <3>1. NodesWithSlot' = NodesWithSlot \cup {n}
      BY <2>1, <2>3, <2>5 DEF NodesWithSlot, SlotHeldAtFold, TypeOK
    <3> QED
      BY <1>0, <2>1, <2>3, <2>5, <3>1, NodeSlotsMove
  <2> QED
    BY <2>2, <2>4, <2>5
<1>4. CASE FanCancelled
  <2>1. Chunk \in SUBSET NodesWithSlot
    BY DEF Chunk, InState, NodesWithSlot
  <2>2. Chunk \subseteq Nodes
    BY DEF Chunk, InState
  <2>3. /\ \A n \in Chunk : node'[n] = "ran" /\ run'[n].end = "cancelled"
        /\ \A n \in Nodes \ Chunk : node'[n] = node[n] /\ run'[n] = run[n]
    BY <1>4, <2>2 DEF FanCancelled
  <2>4. NodesWithSlot' = NodesWithSlot \ Chunk
    BY <2>2, <2>3 DEF NodesWithSlot, SlotHeldAtFold
  <2>5. live' = live - Cardinality(Chunk)
    BY <1>4 DEF FanCancelled
  <2> QED
    BY <1>0, <2>1, <2>4, <2>5, NodeSlotsMove
<1>5. CASE FanSpawn
  <2>1. \A n \in Chunk : n \in Nodes /\ node[n] = "admitted"
    BY DEF Chunk, InState
  <2>2. NodesWithSlot' = NodesWithSlot
    BY <1>5, <2>1 DEF FanSpawn, NodesWithSlot, SlotHeldAtFold
  <2> QED
    BY <1>0, <1>5, <2>2, NodeSlotsMove DEF FanSpawn
<1>6. CASE FoldRecord
  <2>1. Folding \in Nodes /\ node[Folding] = "ran"
    BY <1>6, FoldingRan DEF FoldRecord, Phases, Placing
  <2>2. /\ node' = [node EXCEPT ![Folding] = "folded"] /\ run' = run
        /\ live' = IF SlotHeldAtFold(Folding) THEN live - 1 ELSE live
    BY <1>6 DEF FoldRecord
  <2>3. NodesWithSlot' = NodesWithSlot \ {Folding}
    BY <2>1, <2>2 DEF NodesWithSlot, SlotHeldAtFold, TypeOK
  <2>4. CASE SlotHeldAtFold(Folding)
    <3>1. {Folding} \in SUBSET NodesWithSlot /\ Cardinality({Folding}) = 1
      BY <2>1, <2>4, FS_Singleton DEF NodesWithSlot
    <3>2. live' = live - Cardinality({Folding})
      BY <2>2, <2>4, <3>1
    <3> QED
      BY <1>0, <2>3, <3>1, <3>2, NodeSlotsMove
  <2>5. CASE ~SlotHeldAtFold(Folding)
    <3>1. NodesWithSlot' = NodesWithSlot /\ live' = live
      BY <2>1, <2>2, <2>3, <2>5 DEF NodesWithSlot
    <3> QED
      BY <1>0, <3>1, NodeSlotsMove
  <2> QED
    BY <2>4, <2>5
<1> QED
  BY <1>1, <1>2, <1>3, <1>4, <1>5, <1>6 DEF EngineStep

\* A node's thread returns the slot itself when there is no fold to do it.
LEMMA NodeSlots ==
    ASSUME TypeOK, Slots, NEW n \in Nodes, NodeStep(n)
    PROVE  Slots' /\ live' \in Nat
<1> USE DEF engine, sessions
<1>0. SteersWithSlot' = SteersWithSlot
  BY DEF NodeStep, Unresolved, Resolved, StartTurn, PanicTurn, EndTurn, SteersWithSlot
<1>1. CASE Unresolved(n) \/ PanicTurn(n)
  <2>1. /\ node[n] \in {"spawned", "leasing", "turn"}
        /\ node' = [node EXCEPT ![n] = "ran"] /\ live' = live - 1
        /\ \E end \in {"unresolved", "panicked"} : run' = [run EXCEPT ![n].end = end]
    BY <1>1 DEF Unresolved, PanicTurn
  <2>2. NodesWithSlot' = NodesWithSlot \ {n}
    BY <2>1 DEF NodesWithSlot, SlotHeldAtFold, TypeOK
  <2>3. {n} \in SUBSET NodesWithSlot /\ Cardinality({n}) = 1
    BY <2>1, FS_Singleton DEF NodesWithSlot
  <2>4. live' = live - Cardinality({n})
    BY <2>1, <2>3
  <2> QED
    BY <1>0, <2>2, <2>3, <2>4, NodeSlotsMove
<1>2. CASE Resolved(n) \/ StartTurn(n)
  <2>1. NodesWithSlot' = NodesWithSlot /\ live' = live
    BY <1>2 DEF Resolved, StartTurn, NodesWithSlot, SlotHeldAtFold, TypeOK
  <2> QED
    BY <1>0, <2>1, NodeSlotsMove
<1>3. ASSUME NEW end \in {"ok", "notok", "failed"}, NEW cost \in Usage,
             EndTurn(n, end, cost)
      PROVE  Slots' /\ live' \in Nat
  <2>1. /\ node[n] = "turn" /\ node'[n] = "ran" /\ run'[n].end = end
        /\ \A m \in Nodes : m # n => node'[m] = node[m] /\ run'[m] = run[m]
    BY <1>3 DEF EndTurn, TypeOK
  <2>2. NodesWithSlot' = NodesWithSlot
    BY <2>1 DEF NodesWithSlot, SlotHeldAtFold
  <2> QED
    BY <1>0, <1>3, <2>2, NodeSlotsMove DEF EndTurn
<1> QED
  BY <1>1, <1>2, <1>3 DEF NodeStep

\* A steer takes one slot and returns it on every way out.
LEMMA SteerSlots ==
    ASSUME TypeOK, Slots, NEW s \in Steers, SteerCheck(s) \/ SteerStep(s)
    PROVE  Slots' /\ live' \in Nat
<1> USE DEF SteerTo
<1>0. NodesWithSlot' = NodesWithSlot
  BY OthersApart DEF NodesWithSlot, SlotHeldAtFold
<1>1. PICK at \in {"refused", "acquire", "resolve", "lock", "turn", "debit", "done"} :
         steer' = [steer EXCEPT ![s] = at]
  BY DEF SteerCheck, SteerStep, SteerAcquire, SteerResolve, SteerLock, SteerTurnFails,
    SteerTurnOk, SteerDebit
<1>2. SteersWithSlot' = IF at \in {"resolve", "lock", "turn", "debit"}
                        THEN SteersWithSlot \cup {s} ELSE SteersWithSlot \ {s}
  BY <1>1 DEF SteersWithSlot, TypeOK
<1>3. \/ /\ steer[s] \in {"idle", "acquire"} /\ at \in {"refused", "acquire"}
         /\ live' = live
      \/ /\ steer[s] = "acquire" /\ at = "resolve"
         /\ live < MaxWorkers /\ live' = live + 1
      \/ /\ steer[s] \in {"resolve", "lock", "turn"} /\ at \in {"lock", "turn", "debit"}
         /\ live' = live
      \/ /\ steer[s] \in {"resolve", "lock", "turn", "debit"}
         /\ at \in {"refused", "done"} /\ live' = live - 1
  BY <1>1 DEF SteerCheck, SteerStep, SteerAcquire, SteerResolve, SteerLock,
    SteerTurnFails, SteerTurnOk, SteerDebit, TypeOK
<1>4. s \in SteersWithSlot <=> steer[s] \in {"resolve", "lock", "turn", "debit"}
  BY DEF SteersWithSlot
<1>5. \/ SteersWithSlot' = SteersWithSlot /\ live' = live
      \/ /\ s \notin SteersWithSlot /\ live < MaxWorkers
         /\ SteersWithSlot' = SteersWithSlot \cup {s} /\ live' = live + 1
      \/ /\ s \in SteersWithSlot
         /\ SteersWithSlot' = SteersWithSlot \ {s} /\ live' = live - 1
  BY <1>2, <1>3, <1>4
<1> QED
  BY <1>0, <1>5, SteerSlotsMove

\* Every step keeps the count exact.
LEMMA SlotsKept == TypeOK /\ Phases /\ Slots /\ Next => Slots' /\ live' \in Nat
<1> SUFFICES ASSUME TypeOK, Phases, Slots, Next PROVE Slots' /\ live' \in Nat
  OBVIOUS
<1>1. CASE CancelJob \/ CloseFlow \/ Watch
  <2>1. NodesWithSlot' = NodesWithSlot
    BY <1>1, OthersApart DEF NodesWithSlot, SlotHeldAtFold
  <2>2. SteersWithSlot' = SteersWithSlot /\ live' = live
    BY <1>1 DEF CancelJob, CloseFlow, Watch, SteersWithSlot
  <2> QED
    BY <2>1, <2>2, NodeSlotsMove
<1> QED
  BY <1>1, EngineSlots, NodeSlots, SteerSlots DEF Next

\* Every step keeps the types; the semaphore's count is a natural by SlotsKept.
LEMMA TypesKept == TypeOK /\ Phases /\ Slots /\ Next => TypeOK'
<1> SUFFICES ASSUME TypeOK, Phases, Slots, Next PROVE TypeOK'
  OBVIOUS
<1> USE DEF TypeOK, engine, sessions
<1>0. live' \in Nat
  BY SlotsKept
<1>1. ASSUME NEW cost \in Usage
      PROVE  Spend(cost) \in [spent : Nat, exhausted : BOOLEAN, warned : BOOLEAN]
  <2>1. Charge(cost) \in Nat
    BY FlowAssumption DEF Charge, Usage
  <2>2. budget.spent + Charge(cost) \in Nat
    BY <2>1
  <2> QED
    BY <2>2 DEF Spend
<1>2. CASE LoopCancelled \/ LoopEnds \/ Teardown
  BY <1>0, <1>2 DEF LoopCancelled, LoopEnds, Teardown
<1>3. CASE LoopDispatch
  BY <1>0, <1>3 DEF LoopDispatch
<1>4. CASE Admit
  BY <1>0, <1>4 DEF Admit
<1>5. CASE Partitioned \/ Join \/ FanDone \/ FoldDone
  BY <1>0, <1>5 DEF Partitioned, Join, FanDone, FoldDone
<1>6. CASE FanCancelled
  <2>1. run' \in [Nodes -> [end : Ends, cost : Usage]]
    BY <1>6 DEF FanCancelled, Ends, Usage
  <2> QED
    BY <1>0, <1>6, <2>1 DEF FanCancelled
<1>7. CASE FanSpawn
  BY <1>0, <1>7 DEF FanSpawn
<1>8. CASE FoldDebit
  <2>1. Folding \in Nodes
    BY <1>8, FoldingRan DEF FoldDebit
  <2>2. budget' \in [spent : Nat, exhausted : BOOLEAN, warned : BOOLEAN]
    BY <1>1, <1>8, <2>1 DEF FoldDebit
  <2>3. token' = [token EXCEPT !.run = @ \/ budget'.exhausted]
    BY <1>8 DEF FoldDebit
  <2>4. token' \in [run : BOOLEAN, registry : BOOLEAN, job : BOOLEAN]
    BY <2>2, <2>3
  <2> QED
    BY <1>0, <1>8, <2>2, <2>4 DEF FoldDebit
<1>9. CASE DrainPrior
  BY <1>0, <1>9 DEF DrainPrior
<1>10. CASE ClosePrior
  <2>1. Folding \in Nodes
    BY <1>10, FoldingRan DEF ClosePrior, Phases, Placing
  <2> QED
    BY <1>0, <1>10, <2>1 DEF ClosePrior, CloseDrained
<1>11. CASE PlaceNone
  <2>1. Folding \in Nodes
    BY <1>11, FoldingRan DEF PlaceNone, Phases, Placing
  <2> QED
    BY <1>0, <1>11, <2>1 DEF PlaceNone
<1>12. CASE FoldRecord
  <2>1. Folding \in Nodes
    BY <1>12, FoldingRan DEF FoldRecord, Phases, Placing
  <2> QED
    BY <1>0, <1>12, <2>1 DEF FoldRecord
<1>13. CASE CloseLast
  BY <1>0, <1>13 DEF CloseLast, CloseDrained
<1>14. CASE FinishFlow
  BY <1>0, <1>14 DEF FinishFlow
<1>15. ASSUME NEW n \in Nodes, NodeStep(n)
       PROVE  TypeOK'
  <2>1. CASE Unresolved(n)
    <3>1. run' \in [Nodes -> [end : Ends, cost : Usage]]
      BY <2>1 DEF Unresolved, Ends
    <3> QED
      BY <1>0, <2>1, <3>1 DEF Unresolved
  <2>2. CASE Resolved(n) \/ StartTurn(n)
    BY <1>0, <2>2 DEF Resolved, StartTurn
  <2>3. CASE PanicTurn(n)
    <3>1. run' \in [Nodes -> [end : Ends, cost : Usage]]
      BY <2>3 DEF PanicTurn, Ends
    <3> QED
      BY <1>0, <2>3, <3>1 DEF PanicTurn, FreeLease
  <2>4. ASSUME NEW end \in {"ok", "notok", "failed"}, NEW cost \in Usage,
               EndTurn(n, end, cost)
        PROVE  TypeOK'
    <3>1. run' \in [Nodes -> [end : Ends, cost : Usage]]
      BY <2>4 DEF EndTurn, Ends, Usage
    <3> QED
      BY <1>0, <2>4, <3>1 DEF EndTurn, FreeLease
  <2> QED
    BY <1>15, <2>1, <2>2, <2>3, <2>4 DEF NodeStep
<1>16. CASE CancelJob \/ CloseFlow \/ Watch
  <2>1. token' \in [run : BOOLEAN, registry : BOOLEAN, job : BOOLEAN]
    BY <1>16 DEF CancelJob, CloseFlow, Watch
  <2>2. UNCHANGED <<strategy, engine, node, run, result, sessions, lease, budget, steer, target>>
    BY <1>16 DEF CancelJob, CloseFlow, Watch
  <2> QED
    BY <1>0, <2>1, <2>2
<1>17. ASSUME NEW s \in Steers, SteerCheck(s) \/ SteerStep(s)
       PROVE  TypeOK'
  <2>1. UNCHANGED <<strategy, engine, node, run, result, sessions, lease>>
    BY <1>17, OthersApart
  <2>2. steer' \in [Steers -> {"idle", "acquire", "resolve", "lock", "turn", "debit",
                               "done", "refused"}]
    BY <1>17 DEF SteerCheck, SteerStep, SteerAcquire, SteerResolve, SteerLock,
      SteerTurnFails, SteerTurnOk, SteerDebit, SteerTo
  <2>3. target' \in [Steers -> Nodes \cup {NoNode}]
    BY <1>17 DEF SteerCheck, SteerStep, SteerAcquire, SteerResolve, SteerLock,
      SteerTurnFails, SteerTurnOk, SteerDebit
  <2>4. CASE budget' = budget /\ token' = token
    BY <1>0, <2>1, <2>2, <2>3, <2>4
  <2>5. ASSUME NEW cost \in Usage, SteerDebit(s, cost)
        PROVE  TypeOK'
    <3>1. budget' \in [spent : Nat, exhausted : BOOLEAN, warned : BOOLEAN]
      BY <1>1, <2>5 DEF SteerDebit
    <3>2. token' = [token EXCEPT !.registry = @ \/ budget'.exhausted]
      BY <2>5 DEF SteerDebit
    <3>3. token' \in [run : BOOLEAN, registry : BOOLEAN, job : BOOLEAN]
      BY <3>1, <3>2
    <3> QED
      BY <1>0, <2>1, <2>2, <2>3, <3>1, <3>3
  <2> QED
    BY <1>17, <2>4, <2>5 DEF SteerCheck, SteerStep, SteerAcquire, SteerResolve, SteerLock,
      SteerTurnFails, SteerTurnOk
<1> QED
  BY <1>2, <1>3, <1>4, <1>5, <1>6, <1>7, <1>8, <1>9, <1>10, <1>11, <1>12, <1>13, <1>14,
    <1>15, <1>16, <1>17 DEF Next, EngineStep

-----------------------------------------------------------------------------
(* The sessions and the steers on them.                                    *)

\* What Drains, Targets and SessionsOwned say together.
Owned == Drains /\ Targets /\ SessionsOwned

\* Every step keeps the sessions owned.
LEMMA OwnedKept == TypeOK /\ Phases /\ Owned /\ Next => Owned'
<1> SUFFICES ASSUME TypeOK, Phases, Owned, Next PROVE Owned'
  OBVIOUS
<1> USE FlowAssumption DEF Owned, Drains, Targets, SessionsOwned, Steerable
<1>1. CASE LoopCancelled \/ LoopEnds \/ FanDone \/ Join \/ Partitioned \/ FoldDone
  <2>1. /\ UNCHANGED <<strategy, node, sessions, reported, steer, target>>
        /\ pc \in {"loop", "admit", "fan", "join", "fold"}
        /\ pc' \in {"loop", "fan", "join", "fold", "teardown"}
    BY <1>1 DEF LoopCancelled, LoopEnds, FanDone, Join, Partitioned, FoldDone
  <2> QED
    BY <2>1 DEF sessions
<1>2. CASE LoopDispatch
  BY <1>2 DEF LoopDispatch, sessions, TypeOK, Starts, Dispatched
<1>3. CASE Admit
  <2>1. PICK n \in Nodes, at \in {"admitted", "refused"} :
           node[n] = "starts" /\ node' = [node EXCEPT ![n] = at]
    BY <1>3, AdmitsStarting DEF Admit
  <2> QED
    BY <1>3, <2>1 DEF Admit, sessions, engine, TypeOK
<1>4. CASE FanCancelled \/ FanSpawn
  <2>1. \A n \in Chunk : n \in Nodes /\ node[n] = "admitted"
    BY DEF Chunk, InState
  <2>2. \A n \in Nodes : node'[n] = node[n] \/ (node[n] = "admitted" /\ node'[n] \in {"ran", "spawned"})
    BY <1>4, <2>1 DEF FanCancelled, FanSpawn
  <2>3. /\ UNCHANGED <<strategy, sessions, reported, steer, target>>
        /\ pc = "fan" /\ pc' \in {"fan", "join"}
    BY <1>4 DEF FanCancelled, FanSpawn, engine
  <2> QED
    BY <2>2, <2>3 DEF sessions
<1>5. CASE FoldDebit
  BY <1>5 DEF FoldDebit, sessions
<1>6. CASE DrainPrior
  BY <1>6 DEF DrainPrior
<1>7. CASE ClosePrior
  <2>1. Folding \in Nodes /\ node[Folding] = "ran" /\ Folding' = Folding
    BY <1>7, FoldingRan DEF ClosePrior, Phases, Placing, Folding, InState
  <2>2. /\ \A n \in Nodes : session'[n] = IF n = drained THEN "closed" ELSE session[n]
        /\ Idle(drained) /\ frontier = NoNode /\ frontier' = Folding /\ drained' = NoNode
        /\ pc = "closePrior" /\ pc' = "record"
        /\ UNCHANGED <<strategy, node, reported, steer, target>>
    BY <1>7 DEF ClosePrior, CloseDrained
  <2>3. frontier' # NoNode => Steerable'
    <3>1. pc = "closePrior" => Steerable
      OBVIOUS
    <3> QED
      BY <2>2, <3>1
  <2>4. Drains'
    BY <2>1, <2>2, <2>3
  <2>5. \A s \in Steers : steer[s] = "turn" => target[s] # drained /\ target[s] \in Nodes
    BY <2>2 DEF Idle, TypeOK
  <2> QED
    BY <2>1, <2>2, <2>4, <2>5
<1>8. CASE PlaceNone
  <2>1. Folding \in Nodes /\ node[Folding] = "ran" /\ Folding' = Folding
    BY <1>8, FoldingRan DEF PlaceNone, Phases, Placing, Folding, InState
  <2> QED
    BY <1>8, <2>1 DEF PlaceNone, TypeOK
<1>9. CASE FoldRecord
  <2>1. Folding \in Nodes /\ node[Folding] = "ran"
    BY <1>9, FoldingRan DEF FoldRecord, Phases, Placing
  <2>2. /\ node' = [node EXCEPT ![Folding] = "folded"] /\ pc = "record" /\ pc' = "fold"
        /\ UNCHANGED <<strategy, sessions, reported, steer, target>>
    BY <1>9 DEF FoldRecord
  <2> QED
    BY <2>1, <2>2 DEF sessions, TypeOK
<1>10. CASE Teardown
  BY <1>10 DEF Teardown, Phases, InState, TypeOK
<1>11. CASE CloseLast
  <2>1. /\ \A n \in Nodes : session'[n] = IF n = drained THEN "closed" ELSE session[n]
        /\ Idle(drained) /\ frontier' = frontier /\ drained' = NoNode
        /\ pc = "closeLast" /\ pc' = "finish"
        /\ UNCHANGED <<strategy, node, reported, steer, target>>
    BY <1>11 DEF CloseLast, CloseDrained
  <2>2. Drains'
    BY <2>1 DEF Phases, InState
  <2>3. \A s \in Steers : steer[s] = "turn" => target[s] # drained /\ target[s] \in Nodes
    BY <2>1 DEF Idle, TypeOK
  <2> QED
    BY <2>1, <2>2, <2>3
<1>12. CASE FinishFlow
  <2>1. \A n \in Nodes : session[n] # "open"
    BY <1>12 DEF FinishFlow, Phases, InState
  <2> QED
    BY <1>12, <2>1 DEF FinishFlow, sessions
<1>13. ASSUME NEW n \in Nodes, NodeStep(n)
       PROVE  Owned'
  <2>1. pc = "join" /\ session[n] = "none"
    BY <1>13 DEF NodeStep, Unresolved, Resolved, StartTurn, PanicTurn, EndTurn, Phases, InState
  <2>2. CASE Unresolved(n) \/ Resolved(n) \/ StartTurn(n) \/ PanicTurn(n)
    <3>1. \A m \in Nodes : m # n => node'[m] = node[m]
      BY <2>2 DEF Unresolved, Resolved, StartTurn, PanicTurn, TypeOK
    <3>2. UNCHANGED <<strategy, pc, session, frontier, drained, reported, steer, target>>
      BY <2>2 DEF Unresolved, Resolved, StartTurn, PanicTurn, sessions, engine
    <3>3. n # frontier /\ n # drained
      <4>1. node[n] \notin {"ran", "folded"}
        BY <2>2 DEF Unresolved, Resolved, StartTurn, PanicTurn
      <4> QED BY <4>1
    <3>4. Drains'
      BY <2>1, <3>1, <3>2, <3>3
    <3> QED BY <3>2, <3>4
  <2>3. ASSUME NEW end \in {"ok", "notok", "failed"}, NEW cost \in Usage,
               EndTurn(n, end, cost)
        PROVE  Owned'
    <3>1. /\ node'[n] = "ran" /\ session'[n] \in {"none", "open"}
          /\ \A m \in Nodes : m # n => node'[m] = node[m] /\ session'[m] = session[m]
          /\ UNCHANGED <<strategy, engine, frontier, drained, steer, target>>
      BY <2>3 DEF EndTurn, TypeOK
    <3>2. Drains' /\ Targets'
      BY <2>1, <3>1 DEF engine
    <3>3. \A s \in Steers : steer[s] = "turn" => target[s] # n /\ target[s] \in Nodes
      BY <2>1 DEF TypeOK
    <3> QED
      BY <2>1, <3>1, <3>2, <3>3 DEF engine
  <2> QED
    BY <1>13, <2>2, <2>3 DEF NodeStep
<1>14. CASE CancelJob \/ CloseFlow \/ Watch
  BY <1>14, OthersApart DEF CancelJob, CloseFlow, Watch, engine, sessions, Folding, InState
<1>15. ASSUME NEW s \in Steers, SteerCheck(s) \/ SteerStep(s)
       PROVE  Owned'
  <2>1. UNCHANGED <<strategy, engine, node, sessions>> /\ Folding' = Folding
    BY <1>15, OthersApart DEF Folding, InState
  <2>2. Drains'
    BY <2>1 DEF engine, sessions
  <2>3. CASE SteerResolve(s)
    BY <2>1, <2>2, <2>3 DEF SteerResolve, SteerTo, engine, sessions, TypeOK
  <2>4. CASE SteerLock(s)
    BY <2>1, <2>2, <2>4 DEF SteerLock, SteerTo, Idle, engine, sessions, TypeOK
  <2>5. CASE \/ SteerCheck(s) \/ SteerAcquire(s) \/ SteerTurnFails(s) \/ SteerTurnOk(s)
             \/ \E cost \in Usage : SteerDebit(s, cost)
    <3>1. target' = target /\ \E at \in {"refused", "acquire", "resolve", "debit", "done"} :
                                 steer' = [steer EXCEPT ![s] = at]
      BY <2>5 DEF SteerCheck, SteerAcquire, SteerTurnFails, SteerTurnOk, SteerDebit, SteerTo
    <3> QED
      BY <2>1, <2>2, <3>1 DEF engine, sessions, TypeOK
  <2> QED
    BY <1>15, <2>3, <2>4, <2>5 DEF SteerStep
<1> QED
  BY <1>1, <1>2, <1>3, <1>4, <1>5, <1>6, <1>7, <1>8, <1>9, <1>10, <1>11, <1>12, <1>13,
    <1>14, <1>15 DEF Next, EngineStep

-----------------------------------------------------------------------------
(* The budget.                                                             *)

\* A debit takes the charge, stays exhausted once it was, and is exhausted when it
\* passes the limit.
LEMMA SpendGrows ==
    ASSUME TypeOK, NEW cost \in Usage
    PROVE  /\ Charge(cost) \in Nat
           /\ cost = NoUsage => Charge(cost) = Limit
           /\ Spend(cost).spent = budget.spent + Charge(cost)
           /\ Spend(cost).exhausted = (budget.exhausted
                                         \/ budget.spent + Charge(cost) > Limit)
           /\ Spend(cost).exhausted \in BOOLEAN
<1>1. /\ Charge(cost) \in Nat
      /\ cost = NoUsage => Charge(cost) = Limit
  BY FlowAssumption DEF Charge, Usage
<1>2. (budget.exhausted \/ budget.spent + Charge(cost) > Limit) \in BOOLEAN
  BY DEF TypeOK
<1> QED
  BY <1>1, <1>2 DEF Spend

\* A step that debits nobody and adds no silent node keeps the charges.
LEMMA ChargesStand ==
    ASSUME Charged, Silent' \subseteq Silent, budget' = budget,
           token.run => token'.run, token.registry => token'.registry
    PROVE  Charged'
BY DEF Charged

\* Every step keeps the charges.
LEMMA ChargedKept == TypeOK /\ Phases /\ Charged /\ Next => Charged'
<1> SUFFICES ASSUME TypeOK, Phases, Charged, Next PROVE Charged'
  OBVIOUS
<1> USE DEF engine, sessions
<1>1. CASE \/ LoopCancelled \/ LoopEnds \/ Partitioned \/ Join \/ FanDone \/ FoldDone
           \/ DrainPrior \/ ClosePrior \/ PlaceNone
           \/ Teardown \/ CloseLast
  <2>1. node' = node /\ run' = run /\ budget' = budget /\ token' = token
    BY <1>1 DEF LoopCancelled, LoopEnds, Partitioned, Join, FanDone, FoldDone,
      DrainPrior, ClosePrior, PlaceNone, Teardown, CloseLast
  <2>2. Placing' => Placing
    BY <1>1 DEF LoopCancelled, LoopEnds, Partitioned, Join, FanDone, FoldDone,
      DrainPrior, ClosePrior, PlaceNone, Teardown, CloseLast, Placing
  <2>3. Folding' = Folding
    BY <2>1 DEF Folding, InState
  <2>4. Silent' \subseteq Silent
    BY <2>1, <2>2, <2>3 DEF Silent
  <2> QED
    BY <2>1, <2>4, ChargesStand
<1>2. CASE LoopDispatch \/ Admit \/ FanCancelled \/ FanSpawn
  <2>1. ~Placing' /\ budget' = budget /\ token' = token
    BY <1>2 DEF LoopDispatch, Admit, FanCancelled, FanSpawn, Placing
  <2>2. \A n \in Chunk : n \in Nodes /\ node[n] = "admitted"
    BY DEF Chunk, InState
  <2>3. \A n \in Nodes : node'[n] = "folded" => node[n] = "folded" /\ run'[n] = run[n]
    <3>1. CASE LoopDispatch
      BY <3>1 DEF LoopDispatch
    <3>2. CASE Admit
      BY <3>2, AdmitsStarting DEF Admit, TypeOK
    <3>3. CASE FanCancelled \/ FanSpawn
      BY <2>2, <3>3 DEF FanCancelled, FanSpawn
    <3> QED
      BY <1>2, <3>1, <3>2, <3>3
  <2>4. Silent' \subseteq Silent
    BY <2>1, <2>3 DEF Silent
  <2> QED
    BY <2>1, <2>4, ChargesStand
<1>3. CASE FoldDebit
  <2>1. Folding \in Nodes /\ run[Folding].cost \in Usage
    BY <1>3, FoldingRan DEF FoldDebit, TypeOK
  <2>2. /\ node' = node /\ run' = run /\ pc = "fold" /\ pc' = "place"
        /\ budget' = Spend(run[Folding].cost)
        /\ token' = [token EXCEPT !.run = @ \/ budget'.exhausted]
    BY <1>3 DEF FoldDebit
  <2>3. Folding' = Folding
    BY <2>2 DEF Folding, InState
  <2>4. \A n \in Silent' : n \in Silent \/ (n = Folding /\ run[Folding].cost = NoUsage)
    BY <2>2, <2>3 DEF Silent, Placing
  <2>5. /\ budget.spent \in Nat /\ budget'.spent \in Nat /\ Limit \in Nat \ {0}
        /\ budget'.spent >= budget.spent
        /\ run[Folding].cost = NoUsage => budget'.spent = budget.spent + Limit
        /\ budget'.spent > Limit => budget'.exhausted
        /\ budget.exhausted => budget'.exhausted
    BY <2>1, <2>2, SpendGrows, FlowAssumption DEF TypeOK
  <2>6. ASSUME Silent' # {} PROVE budget'.spent >= Limit
    BY <2>4, <2>5, <2>6 DEF Charged
  <2>7. ASSUME NEW m \in Silent', NEW n \in Silent', m # n
        PROVE  budget'.exhausted
    <3>1. CASE m \in Silent /\ n \in Silent
      BY <2>5, <2>7, <3>1 DEF Charged
    <3>2. CASE Silent # {} /\ run[Folding].cost = NoUsage
      BY <2>5, <3>2 DEF Charged
    <3> QED
      BY <2>4, <2>7, <3>1, <3>2
  <2>8. budget'.exhausted => token'.run
    BY <2>2 DEF TypeOK
  <2> QED
    BY <2>6, <2>7, <2>8 DEF Charged
<1>4. CASE FoldRecord
  <2>1. Folding \in Nodes
    BY <1>4, FoldingRan DEF FoldRecord, Phases, Placing
  <2>2. /\ node' = [node EXCEPT ![Folding] = "folded"] /\ run' = run
        /\ pc = "record" /\ pc' = "fold" /\ budget' = budget /\ token' = token
    BY <1>4 DEF FoldRecord
  <2>3. Silent' \subseteq Silent
    BY <2>1, <2>2 DEF Silent, Placing, TypeOK
  <2> QED
    BY <2>2, <2>3, ChargesStand
<1>5. ASSUME NEW n \in Nodes, NodeStep(n)
      PROVE  Charged'
  <2>1. /\ pc = "join" /\ pc' = pc /\ budget' = budget /\ token' = token
        /\ \A m \in Nodes : m # n => node'[m] = node[m] /\ run'[m] = run[m]
        /\ node'[n] \in {"leasing", "turn", "ran"}
    BY <1>5 DEF NodeStep, Unresolved, Resolved, StartTurn, PanicTurn, EndTurn, Phases, InState,
      TypeOK
  <2>2. Silent' \subseteq Silent
    BY <2>1 DEF Silent, Placing
  <2> QED
    BY <2>1, <2>2, ChargesStand
<1>6. CASE FinishFlow \/ CancelJob \/ CloseFlow \/ Watch
  <2>1. node' = node /\ run' = run /\ budget' = budget
    BY <1>6 DEF FinishFlow, CancelJob, CloseFlow, Watch
  <2>2. (Placing' => Placing) /\ Folding' = Folding
    BY <1>6 DEF FinishFlow, CancelJob, CloseFlow, Watch, Placing, Folding, InState
  <2>3. Silent' \subseteq Silent
    BY <2>1, <2>2 DEF Silent
  <2>4. (token.run => token'.run) /\ (token.registry => token'.registry)
    BY <1>6 DEF FinishFlow, CancelJob, CloseFlow, Watch, TypeOK
  <2> QED
    BY <2>1, <2>3, <2>4, ChargesStand
<1>7. ASSUME NEW s \in Steers, SteerCheck(s) \/ SteerStep(s)
      PROVE  Charged'
  <2>1. node' = node /\ run' = run /\ pc' = pc /\ Folding' = Folding
    BY <1>7, OthersApart DEF Folding, InState
  <2>2. Silent' = Silent
    BY <2>1 DEF Silent, Placing
  <2>3. CASE budget' = budget /\ token' = token
    BY <2>2, <2>3, ChargesStand
  <2>4. ASSUME NEW cost \in Usage, SteerDebit(s, cost)
        PROVE  Charged'
    <3>1. /\ budget' = Spend(cost)
          /\ token' = [token EXCEPT !.registry = @ \/ budget'.exhausted]
      BY <2>4 DEF SteerDebit
    <3>2. /\ budget.spent \in Nat /\ budget'.spent \in Nat
          /\ budget'.spent >= budget.spent
          /\ budget.exhausted => budget'.exhausted
      BY <3>1, SpendGrows DEF TypeOK
    <3>3. budget'.exhausted => token'.registry
      BY <3>1 DEF TypeOK
    <3> QED
      BY <2>2, <3>2, <3>3, FlowAssumption DEF Charged
  <2> QED
    BY <1>7, <2>3, <2>4 DEF SteerCheck, SteerStep, SteerAcquire, SteerResolve, SteerLock,
      SteerTurnFails, SteerTurnOk
<1> QED
  BY <1>1, <1>2, <1>3, <1>4, <1>5, <1>6, <1>7 DEF Next, EngineStep

-----------------------------------------------------------------------------
(* The invariant.                                                          *)

\* It holds at the start.
LEMMA InitFlow == Init => FlowInv
<1> SUFFICES ASSUME Init PROVE FlowInv
  OBVIOUS
<1> USE FlowAssumption DEF Init
<1>1. TypeOK
  BY DEF TypeOK, Ends, Usage
<1>2. Phases /\ Settled /\ Targets /\ SessionsOwned
  BY DEF Phases, Settled, Targets, SessionsOwned, InState, Placing
<1>3. Drains
  BY DEF Drains
<1>4. Charged
  BY DEF Charged, Silent, Placing
<1>5. Slots
  <2>1. NodesWithSlot = {} /\ SteersWithSlot = {}
    BY DEF NodesWithSlot, SteersWithSlot
  <2> QED
    BY <2>1, FS_EmptySet DEF Slots, SlotsExact
<1> QED
  BY <1>1, <1>2, <1>3, <1>4, <1>5 DEF FlowInv

\* Every step keeps it.
LEMMA NextFlow == FlowInv /\ [Next]_vars => FlowInv'
<1> SUFFICES ASSUME FlowInv, [Next]_vars PROVE FlowInv'
  OBVIOUS
<1> USE DEF FlowInv
<1>1. CASE Next
  <2>1. TypeOK' /\ Phases' /\ Settled' /\ Charged' /\ Slots'
    BY <1>1, TypesKept, PhasesKept, SettledKept, ChargedKept, SlotsKept
  <2>2. Owned'
    BY <1>1, OwnedKept DEF Owned
  <2> QED
    BY <2>1, <2>2 DEF Owned
<1>2. CASE UNCHANGED vars
  <2>1. TypeOK' /\ Phases' /\ Settled'
    BY <1>2 DEF vars, TypeOK, Phases, Settled, InState, Placing
  <2>2. Drains' /\ Targets' /\ SessionsOwned'
    BY <1>2 DEF vars, Drains, Targets, SessionsOwned, Folding, InState, Steerable
  <2>3. Charged' /\ Slots'
    BY <1>2 DEF vars, Charged, Silent, Placing, Folding, InState, Slots, SlotsExact,
      NodesWithSlot, SteersWithSlot, SlotHeldAtFold
  <2> QED
    BY <2>1, <2>2, <2>3
<1> QED
  BY <1>1, <1>2

\* Two silent nodes are two distinct ones.
LEMMA TwoSilent ==
    ASSUME NEW S, IsFiniteSet(S), Cardinality(S) >= 2
    PROVE  \E m, n \in S : m # n
<1>1. PICK m : m \in S
  BY FS_EmptySet
<1>2. Cardinality(S \ {m}) = Cardinality(S) - 1 /\ IsFiniteSet(S \ {m})
  BY <1>1, FS_RemoveElement
<1>3. Cardinality(S) \in Nat
  BY FS_CardinalityType
<1>4. S \ {m} # {}
  BY <1>2, <1>3, FS_EmptySet
<1> QED
  BY <1>1, <1>4

\* What the invariant gives.
LEMMA FlowPromises ==
    FlowInv => SlotsExact /\ SessionsOwned /\ DispatchedNodeFolds /\ SilentBrake
<1> SUFFICES ASSUME FlowInv
             PROVE  SlotsExact /\ SessionsOwned /\ DispatchedNodeFolds /\ SilentBrake
  OBVIOUS
<1>1. SlotsExact /\ SessionsOwned
  BY DEF FlowInv, Slots
<1>2. DispatchedNodeFolds
  <2> SUFFICES ASSUME pc = "loop", NEW n \in Nodes, Dispatched(n)
               PROVE  result[n] # "none" \/ run[n].end = "panicked"
    BY DEF DispatchedNodeFolds
  <2>1. node[n] \in {"refused", "folded"}
    BY DEF FlowInv, TypeOK, Phases, InState, Dispatched
  <2> QED
    BY <2>1 DEF FlowInv, Settled
<1>3. SilentBrake
  <2> DEFINE S == {n \in InState("folded") : run[n].cost = NoUsage}
  <2> SUFFICES ASSUME Cardinality(S) >= 2
               PROVE  budget.exhausted /\ (token.run \/ token.registry)
    BY DEF SilentBrake
  <2>1. S \in SUBSET Nodes /\ S \subseteq Silent
    BY DEF InState, Silent
  <2> HIDE DEF S
  <2>2. IsFiniteSet(S)
    <3>1. IsFiniteSet(Nodes)
      BY FlowAssumption, FS_Interval DEF Nodes
    <3> QED
      BY <2>1, <3>1, FS_Subset
  <2>3. \E m, n \in Silent : m # n
    BY <2>1, <2>2, TwoSilent
  <2> QED
    BY <2>3 DEF FlowInv, Charged
<1> QED
  BY <1>1, <1>2, <1>3

-----------------------------------------------------------------------------
(* The theorems.                                                           *)

\* Every reachable state of a flow satisfies the inductive invariant.
THEOREM FlowCorrect == Spec => []FlowInv
BY InitFlow, NextFlow, PTL DEF Spec

\* The worker semaphore's count is exactly the number of nodes and steers that hold
\* a slot, and never more than max_workers, on every path a worker can take.
THEOREM SlotsExactHolds == Spec => []SlotsExact
<1>1. FlowInv => SlotsExact
  BY FlowPromises
<1> QED
  BY <1>1, FlowCorrect, PTL

\* A worker session is owned by the registry or the fold until it is closed, none is
\* open once the flow has reported, and none is closed under a steer's turn.
THEOREM SessionsOwnedHolds == Spec => []SessionsOwned
<1>1. FlowInv => SessionsOwned
  BY FlowPromises
<1> QED
  BY <1>1, FlowCorrect, PTL

\* Between waves every dispatched node has its result, or its thread panicked.
THEOREM NodesFold == Spec => []DispatchedNodeFolds
<1>1. FlowInv => DispatchedNodeFolds
  BY FlowPromises
<1> QED
  BY <1>1, FlowCorrect, PTL

\* Two folded turns that reported no usage exhaust any budget and trip a token.
THEOREM SilentBrakeHolds == Spec => []SilentBrake
<1>1. FlowInv => SilentBrake
  BY FlowPromises
<1> QED
  BY <1>1, FlowCorrect, PTL
=============================================================================
