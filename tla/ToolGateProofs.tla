-------------------------- MODULE ToolGateProofs ---------------------------
(***************************************************************************)
(* For any number of calls and tools: a gated call is allowed only by an   *)
(* operator, the memory holds only what an operator asked for, and the     *)
(* first accepted answer to a prompt stands.  None of the three is         *)
(* inductive: they need that whatever travels through a call's channel and *)
(* decision is the answer accepted for that very call, and that a pending  *)
(* key has not been answered yet.                                          *)
(*                                                                         *)
(* For any policy files and any mode: the gate around the hub runs a tool  *)
(* only if the operator's own policy lets it or an operator said so, and   *)
(* no rule of the project denies it.                                       *)
(*                                                                         *)
(* For any emitters, clients and connections and any capacities: the event *)
(* stream a client reads through the daemon's hub strictly ascends over    *)
(* all its connections and misses only what the replay ring had dropped.   *)
(* StreamInv accounts for every event a client is still owed: it is in the *)
(* queue of the connection the client reads, was evicted before the client *)
(* came back, or follows the queue of a connection the hub has pruned.     *)
(***************************************************************************)
EXTENDS ToolGate, EventHub, SequenceTheorems, FiniteSetTheorems, WellFoundedInduction,
        TLAPS

\* Only requests that are under way can be pending or answered.
KeysFresh ==
    /\ \A c \in pending : answered[c] = NoDecision
    /\ \A c \in Calls : pc[c] \in {"start", "insert"} =>
                            c \notin pending /\ answered[c] = NoDecision

\* What the thread reads from its channel is the accepted answer; anything else
\* it decides on is the plain deny of a timeout or an interrupt.
AnswersTravel ==
    \A c \in Calls :
        /\ channel[c] # NoDecision => channel[c] = answered[c]
        /\ decision[c] # NoDecision => decision[c] \in {"Deny", answered[c]}

HubInv ==
    /\ TypeOK
    /\ KeysFresh
    /\ AnswersTravel
    /\ AllowNeedsOperator
    /\ MemoryFromOperator

LEMMA InitHub == Init => HubInv
<1> SUFFICES ASSUME Init PROVE HubInv
  OBVIOUS
<1>1. TypeOK
  BY DEF Init, TypeOK
<1>2. KeysFresh /\ AnswersTravel
  BY DEF Init, KeysFresh, AnswersTravel
<1>3. AllowNeedsOperator
  BY DEF Init, AllowNeedsOperator
<1>4. MemoryFromOperator
  BY DEF Init, MemoryFromOperator
<1> QED BY <1>1, <1>2, <1>3, <1>4 DEF HubInv

\* Answers are only ever added, so what was justified by one stays justified.
LEMMA AnswersGrow ==
  ASSUME TypeOK, TypeOK',
         \A c \in Calls : answered[c] # NoDecision => answered'[c] = answered[c]
  PROVE  /\ \A t \in Tools, d \in Decisions :
               AnsweredAlways(t, d) => AnsweredAlways(t, d)'
         /\ \A c \in Calls : allows(answered[c]) => allows(answered'[c])
  BY ApprovalAssumption DEF TypeOK, AnsweredAlways, allows, Decisions

LEMMA NextHub == HubInv /\ [Next]_vars => HubInv'
<1> SUFFICES ASSUME HubInv, [Next]_vars PROVE HubInv'
  OBVIOUS
<1> USE ApprovalAssumption
<1>0. TypeOK /\ KeysFresh /\ AnswersTravel /\ AllowNeedsOperator /\ MemoryFromOperator
  BY DEF HubInv
<1>1. ASSUME NEW c \in Calls, UseMemory(c) PROVE HubInv'
  <2>0. UNCHANGED <<pending, channel, decision, memory, expired, cancelled, answered>>
    BY <1>1 DEF UseMemory
  <2>1. TypeOK'
    BY <1>0, <1>1 DEF TypeOK, UseMemory, Goto
  <2>2. KeysFresh' /\ AnswersTravel' /\ MemoryFromOperator'
    BY <1>0, <1>1
    DEF TypeOK, UseMemory, Goto, KeysFresh, AnswersTravel, MemoryFromOperator,
        AnsweredAlways
  <2>3. AllowNeedsOperator'
    BY <1>0, <1>1
    DEF TypeOK, UseMemory, Goto, AllowNeedsOperator, MemoryFromOperator, AnsweredAlways
  <2> QED BY <2>1, <2>2, <2>3 DEF HubInv
<1>2. ASSUME NEW c \in Calls,
             \/ NotRemembered(c) \/ FileRequest(c) \/ Announce(c) \/ KeepWaiting(c)
             \/ PollTimeout(c) \/ RemoveKey(c)
      PROVE  HubInv'
  <2>1. TypeOK'
    BY <1>0, <1>2
    DEF TypeOK, NotRemembered, FileRequest, Announce, KeepWaiting, PollTimeout,
        RemoveKey, Goto
  <2>2. KeysFresh'
    BY <1>0, <1>2
    DEF TypeOK, NotRemembered, FileRequest, Announce, KeepWaiting, PollTimeout,
        RemoveKey, Goto, KeysFresh
  <2>3. UNCHANGED <<channel, decision, memory, result, answered>>
    BY <1>2
    DEF NotRemembered, FileRequest, Announce, KeepWaiting, PollTimeout, RemoveKey
  <2>4. AnswersTravel' /\ AllowNeedsOperator' /\ MemoryFromOperator'
    BY <1>0, <2>3 DEF AnswersTravel, AllowNeedsOperator, MemoryFromOperator,
                      AnsweredAlways
  <2> QED BY <2>1, <2>2, <2>4 DEF HubInv
<1>3. ASSUME NEW c \in Calls, GiveUp(c) \/ Receive(c) PROVE HubInv'
  <2>1. TypeOK'
    BY <1>0, <1>3 DEF TypeOK, GiveUp, Receive, Goto, Decisions
  <2>2. KeysFresh'
    BY <1>0, <1>3 DEF TypeOK, GiveUp, Receive, Goto, KeysFresh
  <2>3. AnswersTravel'
    BY <1>0, <1>3 DEF TypeOK, GiveUp, Receive, Goto, AnswersTravel, Decisions
  <2>4. UNCHANGED <<memory, result, answered>>
    BY <1>3 DEF GiveUp, Receive
  <2>5. AllowNeedsOperator' /\ MemoryFromOperator'
    BY <1>0, <2>4 DEF AllowNeedsOperator, MemoryFromOperator, AnsweredAlways
  <2> QED BY <2>1, <2>2, <2>3, <2>5 DEF HubInv
<1>4. ASSUME NEW c \in Calls, Record(c) PROVE HubInv'
  <2>0. ToolOf[c] \in Tools
    BY ApprovalAssumption
  <2>1. TypeOK'
    BY <1>0, <1>4, <2>0 DEF TypeOK, Record, Goto, Verdict
  <2>2. KeysFresh' /\ AnswersTravel'
    BY <1>0, <1>4 DEF TypeOK, Record, Goto, KeysFresh, AnswersTravel
  <2>3. UNCHANGED answered
    BY <1>4 DEF Record
  \* An allow or an "always" is no plain deny, so it is this call's answer.
  <2>4. allows(decision[c]) \/ remember(decision[c]) => decision[c] = answered[c]
    BY <1>0 DEF AnswersTravel, allows, remember, Decisions
  <2>5. AllowNeedsOperator'
    <3>1. \A b \in Calls : b # c => result'[b] = result[b]
      BY <1>0, <1>4 DEF TypeOK, Record
    <3>2. result'[c] = "allow" => allows(answered[c])
      BY <1>0, <1>4, <2>4 DEF TypeOK, Record, Verdict
    <3> QED BY <1>0, <2>3, <3>1, <3>2 DEF AllowNeedsOperator, AnsweredAlways
  <2>6. MemoryFromOperator'
    <3>1. \A t \in Tools : t # ToolOf[c] => memory'[t] = memory[t]
      BY <1>0, <1>4 DEF TypeOK, Record
    <3>2. \/ memory'[ToolOf[c]] = memory[ToolOf[c]]
          \/ /\ remember(decision[c])
             /\ memory'[ToolOf[c]] = Verdict(decision[c])
      BY <1>0, <1>4, <2>0 DEF TypeOK, Record
    <3>3. remember(decision[c]) =>
             /\ Verdict(decision[c]) = "allow" => answered[c] = "AllowAlways"
             /\ Verdict(decision[c]) = "deny" => answered[c] = "DenyAlways"
      BY <2>4 DEF Verdict, allows, remember
    <3> QED BY <1>0, <2>0, <2>3, <3>1, <3>2, <3>3
            DEF MemoryFromOperator, AnsweredAlways
  <2> QED BY <2>1, <2>2, <2>5, <2>6 DEF HubInv
<1>5. ASSUME NEW c \in Calls, NEW d \in Decisions, respond(c, d) PROVE HubInv'
  <2>1. TypeOK'
    BY <1>0, <1>5 DEF TypeOK, respond
  <2>2. answered[c] = NoDecision /\ pc[c] \notin {"start", "insert"}
    BY <1>0, <1>5 DEF KeysFresh, respond
  <2>3. KeysFresh'
    BY <1>0, <1>5, <2>2 DEF TypeOK, KeysFresh, respond
  <2>4. AnswersTravel'
    BY <1>0, <1>5, <2>2 DEF TypeOK, AnswersTravel, respond, Decisions
  <2>5. \A b \in Calls : answered[b] # NoDecision => answered'[b] = answered[b]
    BY <1>0, <1>5, <2>2 DEF TypeOK, respond
  <2>6. /\ \A t \in Tools, e \in Decisions : AnsweredAlways(t, e) => AnsweredAlways(t, e)'
        /\ \A b \in Calls : allows(answered[b]) => allows(answered'[b])
    BY <1>0, <2>1, <2>5, AnswersGrow
  <2>7. UNCHANGED <<memory, result>>
    BY <1>5 DEF respond
  <2>8. AllowNeedsOperator'
    BY <1>0, <2>6, <2>7 DEF AllowNeedsOperator, Decisions
  <2>9. MemoryFromOperator'
    BY <1>0, <2>6, <2>7 DEF MemoryFromOperator, Decisions
  <2> QED BY <2>1, <2>3, <2>4, <2>8, <2>9 DEF HubInv
<1>6. ASSUME NEW c \in Calls, DeadlinePasses(c) PROVE HubInv'
  BY <1>0, <1>6
  DEF HubInv, TypeOK, DeadlinePasses, KeysFresh, AnswersTravel, AllowNeedsOperator,
      MemoryFromOperator, AnsweredAlways
<1>7. CASE CancelTurn
  BY <1>0, <1>7
  DEF HubInv, TypeOK, CancelTurn, KeysFresh, AnswersTravel, AllowNeedsOperator,
      MemoryFromOperator, AnsweredAlways
<1>8. CASE UNCHANGED vars
  BY <1>0, <1>8
  DEF HubInv, TypeOK, vars, KeysFresh, AnswersTravel, AllowNeedsOperator,
      MemoryFromOperator, AnsweredAlways
<1> QED BY <1>1, <1>2, <1>3, <1>4, <1>5, <1>6, <1>7, <1>8 DEF Next, CallStep

\* The hub's inductive invariant: types, fresh keys, answers that reach only their
\* own call, and both statements about the operator.
THEOREM HubCorrect == Spec => []HubInv
  BY InitHub, NextHub, PTL DEF Spec

\* Every variable of the approval hub keeps its type.
THEOREM HubTypeCorrect == Spec => []TypeOK
  BY HubCorrect, PTL DEF HubInv

\* No gated call runs without an operator's allow for it or for its tool: a
\* timeout, an interrupt or a dropped prompt never lets a call through.
THEOREM OperatorDecides == Spec => []AllowNeedsOperator
  BY HubCorrect, PTL DEF HubInv

\* The decision memory holds only answers given with "always".
THEOREM MemoryIsOperators == Spec => []MemoryFromOperator
  BY HubCorrect, PTL DEF HubInv

\* No step of the hub replaces an accepted answer.
LEMMA AnswersKept ==
    ASSUME HubInv, [Next]_vars, NEW c \in Calls, answered[c] # NoDecision
    PROVE  answered'[c] = answered[c]
<1>1. ASSUME NEW b \in Calls, NEW d \in Decisions, respond(b, d)
      PROVE  answered'[c] = answered[c]
  <2>1. b # c
    BY <1>1 DEF respond, HubInv, KeysFresh
  <2> QED BY <1>1, <2>1 DEF respond, HubInv, TypeOK
<1>2. ASSUME NEW b \in Calls, CallStep(b) \/ DeadlinePasses(b)
      PROVE  answered' = answered
  BY <1>2
  DEF CallStep, DeadlinePasses, UseMemory, NotRemembered, FileRequest, Announce,
      GiveUp, KeepWaiting, Receive, PollTimeout, RemoveKey, Record
<1>3. CASE CancelTurn
  BY <1>3 DEF CancelTurn
<1>4. CASE UNCHANGED vars
  BY <1>4 DEF vars
<1> QED BY <1>1, <1>2, <1>3, <1>4 DEF Next

\* An accepted answer is never replaced: a second session.respond for the same
\* prompt is refused because the first took the key.
THEOREM AnswerStands == Spec => FirstAnswerStands
<1>1. HubInv /\ [Next]_vars =>
        [\A c \in Calls : answered[c] # NoDecision => answered'[c] = answered[c]]_vars
  BY AnswersKept
<1> QED BY <1>1, HubCorrect, PTL DEF Spec, FirstAnswerStands

\* Until the deadline or a cancel the answer is on its way: in the channel while the
\* thread polls, then in its decision, then in the result.  Once the key is removed
\* no answer is accepted any more.
AnswerInTime ==
    \A c \in Calls :
        /\ pc[c] \in {"record", "done"} => c \notin pending
        /\ ~cancelled /\ ~expired[c] =>
              /\ pc[c] \in {"start", "insert", "announce", "check", "wait"} =>
                    channel[c] = answered[c]
              /\ pc[c] \in {"remove", "record"} =>
                    decision[c] = answered[c] /\ answered[c] # NoDecision
              /\ pc[c] = "done" /\ answered[c] # NoDecision =>
                    result[c] = Verdict(answered[c])

LEMMA NextAnswer == HubInv /\ AnswerInTime /\ [Next]_vars => AnswerInTime'
<1> SUFFICES ASSUME HubInv, AnswerInTime, [Next]_vars PROVE AnswerInTime'
  OBVIOUS
<1>0. TypeOK /\ KeysFresh
  BY DEF HubInv
<1>1. ASSUME NEW c \in Calls, CallStep(c) PROVE AnswerInTime'
  <2>1. UNCHANGED <<expired, cancelled, answered>>
    BY <1>1
    DEF CallStep, UseMemory, NotRemembered, FileRequest, Announce, GiveUp, KeepWaiting,
        Receive, PollTimeout, RemoveKey, Record
  <2>2. \A b \in Calls : b # c =>
           /\ pc'[b] = pc[b] /\ channel'[b] = channel[b] /\ decision'[b] = decision[b]
           /\ result'[b] = result[b] /\ (b \in pending' <=> b \in pending)
    BY <1>0, <1>1
    DEF TypeOK, CallStep, UseMemory, NotRemembered, FileRequest, Announce, GiveUp,
        KeepWaiting, Receive, PollTimeout, RemoveKey, Record, Goto
  <2>3. pc'[c] \in {"record", "done"} => c \notin pending'
    BY <1>0, <1>1
    DEF TypeOK, KeysFresh, AnswerInTime, CallStep, UseMemory, NotRemembered, FileRequest,
        Announce, GiveUp, KeepWaiting, Receive, PollTimeout, RemoveKey, Record, Goto
  <2>4. ASSUME ~cancelled, ~expired[c]
        PROVE  /\ pc'[c] \in {"start", "insert", "announce", "check", "wait"} =>
                     channel'[c] = answered[c]
               /\ pc'[c] \in {"remove", "record"} =>
                     decision'[c] = answered[c] /\ answered[c] # NoDecision
               /\ pc'[c] = "done" /\ answered[c] # NoDecision =>
                     result'[c] = Verdict(answered[c])
    <3>1. CASE UseMemory(c) \/ NotRemembered(c) \/ FileRequest(c) \/ Announce(c)
      BY <1>0, <2>4, <3>1
      DEF TypeOK, KeysFresh, AnswerInTime, UseMemory, NotRemembered, FileRequest,
          Announce, Goto
    <3>2. CASE GiveUp(c) \/ KeepWaiting(c) \/ PollTimeout(c) \/ RemoveKey(c)
      BY <1>0, <2>4, <3>2
      DEF TypeOK, AnswerInTime, GiveUp, KeepWaiting, PollTimeout, RemoveKey, Goto
    <3>3. CASE Receive(c) \/ Record(c)
      BY <1>0, <2>4, <3>3 DEF TypeOK, AnswerInTime, Receive, Record, Goto
    <3> QED BY <1>1, <3>1, <3>2, <3>3 DEF CallStep
  <2> QED BY <2>1, <2>2, <2>3, <2>4 DEF AnswerInTime
<1>2. ASSUME NEW c \in Calls, NEW d \in Decisions, respond(c, d) PROVE AnswerInTime'
  BY <1>0, <1>2 DEF TypeOK, KeysFresh, AnswerInTime, respond
<1>3. ASSUME NEW c \in Calls, DeadlinePasses(c) PROVE AnswerInTime'
  BY <1>0, <1>3 DEF TypeOK, AnswerInTime, DeadlinePasses
<1>4. CASE CancelTurn
  BY <1>4 DEF AnswerInTime, CancelTurn
<1>5. CASE UNCHANGED vars
  BY <1>5 DEF AnswerInTime, vars
<1> QED BY <1>1, <1>2, <1>3, <1>4, <1>5 DEF Next

\* An answer that was accepted while the turn was not cancelled and its deadline not
\* passed decides its call, however polls, answers and other calls interleave.
THEOREM AnswersDecide == Spec => []AnswerDecides
<1>1. Init => AnswerInTime
  BY DEF Init, AnswerInTime
<1>2. AnswerInTime => AnswerDecides
  BY DEF AnswerInTime, AnswerDecides
<1> QED BY <1>1, <1>2, NextAnswer, HubCorrect, PTL DEF Spec

-----------------------------------------------------------------------------
(* What the layered policy decides.                                        *)

\* Every nonempty set of positions has a first one.
LEMMA FirstExists ==
    ASSUME NEW S, S \subseteq Nat, S # {}
    PROVE  \E m \in S : \A k \in S : m <= k
<1> DEFINE R == OpToRel(<, Nat)
<1>1. IsWellFoundedOn(R, Nat)
  BY NatLessThanWellFounded
<1>2. \A x, y \in Nat : x < y => <<x, y>> \in R
  BY DEF OpToRel
<1> HIDE DEF R
<1>3. PICK m \in S : \A k \in S : ~(<<k, m>> \in R)
  BY <1>1, WFMin
<1>4. ASSUME NEW k \in S PROVE m <= k
  <2>1. k \in Nat /\ m \in Nat
    OBVIOUS
  <2>2. ~(k < m)
    BY <2>1, <1>2, <1>3
  <2> QED BY <2>1, <2>2
<1> QED BY <1>3, <1>4

\* The first matching rule, when there is one, decides.
LEMMA FirstMatchDecides ==
    ASSUME NEW rules \in Seq(Rules), NEW default, NEW tool,
           NEW m \in Matching(rules, tool),
           \A k \in Matching(rules, tool) : m <= k
    PROVE  Decide(rules, default, tool) = rules[m].action
<1> DEFINE M == Matching(rules, tool)
           first == CHOOSE i \in M : \A j \in M : i <= j
<1>1. M \subseteq Nat
  BY DEF Matching
<1> HIDE DEF M
<1>2. first \in M /\ \A j \in M : first <= j
  BY DEF M
<1>3. first = m
  BY <1>1, <1>2 DEF M
<1> QED BY <1>3 DEF Decide, M

\* The layered rules: a position of the project's part matches only as a denial,
\* the operator's part follows it unchanged.
LEMMA LayersSplit ==
    ASSUME NEW P \in Seq(Rules), NEW G \in Seq(Rules), NEW tool \in Tools
    PROVE  LET L == Denials(P) \o G
           IN  /\ L \in Seq(Rules)
               /\ Matching(L, tool) = {i \in Matching(P, tool) : P[i].action = "Deny"}
                                        \cup {Len(P) + k : k \in Matching(G, tool)}
               /\ \A i \in Matching(P, tool) : P[i].action = "Deny" => L[i] = P[i]
               /\ \A k \in Matching(G, tool) : L[Len(P) + k] = G[k]
<1> DEFINE N == Denials(P)
           L == N \o G
           n == Len(P)
<1>1. n \in Nat /\ DOMAIN P = 1..n /\ \A i \in 1..n : P[i] \in Rules
  OBVIOUS
<1>2. \A r \in Rules : [r EXCEPT !.tools = {}] \in Rules
                       /\ [r EXCEPT !.tools = {}].tools = {}
  BY DEF Rules
<1>3. N \in Seq(Rules) /\ Len(N) = n
  <2>1. N \in [1..n -> Rules]
    BY <1>1, <1>2 DEF Denials
  <2>2. N \in Seq(Rules)
    BY <2>1, <1>1
  <2> QED BY <2>1, <2>2, <1>1, LenProperties
<1>4. \A i \in 1..n : /\ P[i].action = "Deny" => N[i] = P[i]
                      /\ P[i].action # "Deny" => N[i].tools = {}
  BY <1>1, <1>2 DEF Denials
<1> HIDE DEF N
<1>5. Len(G) \in Nat /\ DOMAIN G = 1..Len(G)
  OBVIOUS
<1>6. /\ L \in Seq(Rules) /\ Len(L) = n + Len(G)
      /\ \A i \in 1..(n + Len(G)) : L[i] = IF i <= n THEN N[i] ELSE G[i - n]
  <2>1. /\ N \o G \in Seq(Rules) /\ Len(N \o G) = Len(N) + Len(G)
        /\ \A i \in 1..(Len(N) + Len(G)) :
              (N \o G)[i] = IF i <= Len(N) THEN N[i] ELSE G[i - Len(N)]
    BY <1>3, ConcatProperties
  <2> QED BY <2>1, <1>3
<1>7. DOMAIN L = 1..(n + Len(G))
  BY <1>6
<1> HIDE DEF L, n
<1>8. \A i \in 1..n : L[i] = N[i]
  BY <1>1, <1>5, <1>6
<1>9. \A k \in 1..Len(G) : n + k \in 1..(n + Len(G)) /\ L[n + k] = G[k]
  <2> TAKE k \in 1..Len(G)
  <2>1. n + k \in 1..(n + Len(G)) /\ ~(n + k <= n) /\ (n + k) - n = k
    BY <1>1, <1>5
  <2> QED BY <2>1, <1>6
<1>10. \A i \in 1..(n + Len(G)) : i \in 1..n \/ \E k \in 1..Len(G) : i = n + k
  <2> TAKE i \in 1..(n + Len(G))
  <2>1. CASE i <= n
    BY <2>1, <1>1
  <2>2. CASE ~(i <= n)
    <3>1. i - n \in 1..Len(G) /\ i = n + (i - n)
      BY <2>2, <1>1, <1>5
    <3> QED BY <3>1
  <2> QED BY <2>1, <2>2
<1>11. Matching(L, tool) = {i \in Matching(P, tool) : P[i].action = "Deny"}
                             \cup {n + k : k \in Matching(G, tool)}
  <2>1. ASSUME NEW i \in Matching(L, tool)
        PROVE  \/ i \in Matching(P, tool) /\ P[i].action = "Deny"
               \/ \E k \in Matching(G, tool) : i = n + k
    <3>1. i \in 1..(n + Len(G)) /\ tool \in L[i].tools
      BY <1>7 DEF Matching
    <3>2. CASE i \in 1..n
      BY <3>1, <3>2, <1>1, <1>4, <1>8 DEF Matching
    <3>3. CASE \E k \in 1..Len(G) : i = n + k
      BY <3>1, <3>3, <1>5, <1>9 DEF Matching
    <3> QED BY <3>1, <3>2, <3>3, <1>10
  <2>2. ASSUME NEW i \in Matching(P, tool), P[i].action = "Deny"
        PROVE  i \in Matching(L, tool)
    <3>1. i \in 1..n /\ i \in 1..(n + Len(G)) /\ tool \in P[i].tools
      BY <1>1, <1>5 DEF Matching
    <3> QED BY <3>1, <2>2, <1>4, <1>7, <1>8 DEF Matching
  <2>3. ASSUME NEW k \in Matching(G, tool) PROVE n + k \in Matching(L, tool)
    BY <1>5, <1>7, <1>9 DEF Matching
  <2> QED BY <2>1, <2>2, <2>3
<1>12. \A i \in Matching(P, tool) : P[i].action = "Deny" => L[i] = P[i]
  BY <1>1, <1>4, <1>8 DEF Matching
<1>13. \A k \in Matching(G, tool) : L[n + k] = G[k]
  BY <1>5, <1>9 DEF Matching
<1> QED BY <1>6, <1>11, <1>12, <1>13 DEF L, N, n

\* A project can only harden: with the project's rules the policy says "Deny" if one
\* of them denies the tool, and otherwise exactly what the operator's rules say.
LEMMA ProjectHardens ==
    ASSUME NEW P \in Seq(Rules), NEW G \in Seq(Rules), NEW default, NEW tool \in Tools
    PROVE  Decide(Denials(P) \o G, default, tool) =
              IF \E i \in Matching(P, tool) : P[i].action = "Deny"
              THEN "Deny" ELSE Decide(G, default, tool)
<1> DEFINE L == Denials(P) \o G
           D == {i \in Matching(P, tool) : P[i].action = "Deny"}
           MG == Matching(G, tool)
           n == Len(P)
<1>1. /\ L \in Seq(Rules)
      /\ Matching(L, tool) = D \cup {n + k : k \in MG}
      /\ \A i \in D : L[i] = P[i]
      /\ \A k \in MG : L[n + k] = G[k]
  BY LayersSplit
<1>2. n \in Nat /\ D \subseteq 1..n /\ MG \subseteq Nat \ {0}
  BY DEF Matching
<1> HIDE DEF L, MG, n
<1>3. CASE D # {}
  <2>1. PICK m \in D : \A k \in D : m <= k
    <3>1. D \subseteq Nat
      BY <1>2
    <3> HIDE DEF D
    <3> QED BY <3>1, <1>3, FirstExists
  <2>2. m \in Matching(L, tool) /\ \A k \in Matching(L, tool) : m <= k
    <3>0. m \in Nat /\ m <= n
      BY <1>2
    <3>1. ASSUME NEW k \in MG PROVE m <= n + k
      <4>1. k \in Nat
        BY <1>2
      <4> QED BY <3>0, <4>1, <1>2
    <3> QED BY <2>1, <3>1, <1>1
  <2>3. Decide(L, default, tool) = L[m].action
    BY <1>1, <2>2, FirstMatchDecides
  <2> QED BY <2>3, <1>1, <1>3 DEF L
<1>4. CASE D = {} /\ MG # {}
  <2>1. PICK m \in MG : \A k \in MG : m <= k
    BY <1>2, <1>4, FirstExists
  <2>2. n + m \in Matching(L, tool) /\ \A k \in Matching(L, tool) : n + m <= k
    BY <2>1, <1>1, <1>2, <1>4
  <2>3. Decide(L, default, tool) = L[n + m].action
    BY <1>1, <2>2, FirstMatchDecides
  <2>4. Decide(G, default, tool) = G[m].action
    BY <2>1, FirstMatchDecides DEF MG
  <2> QED BY <2>3, <2>4, <1>1, <1>4 DEF L
<1>5. CASE D = {} /\ MG = {}
  <2>1. Matching(L, tool) = {}
    BY <1>1, <1>5
  <2> QED BY <2>1, <1>5 DEF Decide, MG, L
<1> QED BY <1>3, <1>4, <1>5

-----------------------------------------------------------------------------
(* The gate.                                                               *)

\* What must be true of a call that ran.
Permitted(c) ==
    /\ \A i \in Matching(project.rules, ToolOf[c]) : project.rules[i].action # "Deny"
    /\ LET operators == Decide(global.rules, global.default, ToolOf[c])
       IN  \/ operators = "Allow"
           \/ /\ operators = "Ask"
              /\ allows(answered[c]) \/ AnsweredAlways(ToolOf[c], "AllowAlways")

\* A call has entered the approver only because the policy said to ask.
Consulted == \A c \in Calls : pc[c] # "start" => Action(c) = "Ask"

\* The inductive invariant of the gate, besides the hub's.
GateInv ==
    /\ HubInv /\ Consulted /\ GateHonoured
    /\ inner \in [Calls -> {"none", "ran", "denied"}]
    /\ global \in GlobalFiles /\ project \in ProjectFiles

\* Every step of the gate is a step of the hub or leaves the hub alone.
LEMMA GateStepsHub == [GateNext]_gateVars => [Next]_vars
<1> SUFFICES ASSUME [GateNext]_gateVars PROVE [Next]_vars
  OBVIOUS
<1>1. CASE Environment
  BY <1>1 DEF Environment, Next
<1>2. ASSUME NEW c \in Calls, GateStep(c) PROVE [Next]_vars
  BY <1>2 DEF GateStep, PolicyAllows, PolicyDenies, Consult, Approved, Refused, Enforce, Next
<1>3. CASE UNCHANGED gateVars
  BY <1>3 DEF gateVars
<1> QED BY <1>1, <1>2, <1>3 DEF GateNext

\* What the policy says about a call is what the operator's own policy says, unless
\* the project denies it.
LEMMA ActionLayered ==
    ASSUME GateInv, NEW c \in Calls
    PROVE  Action(c) = IF \E i \in Matching(project.rules, ToolOf[c]) :
                             project.rules[i].action = "Deny"
                       THEN "Deny" ELSE Decide(global.rules, global.default, ToolOf[c])
<1>1. project.rules \in Seq(Rules) /\ global.rules \in Seq(Rules) /\ ToolOf[c] \in Tools
  BY GateAssumption, ApprovalAssumption DEF GateInv
<1> QED BY <1>1, ProjectHardens DEF Action, FromLayers

\* Every step of the gate preserves its invariant.
LEMMA NextGate == GateInv /\ [GateNext]_gateVars => GateInv'
<1> SUFFICES ASSUME GateInv, [GateNext]_gateVars PROVE GateInv'
  OBVIOUS
<1>1. HubInv /\ HubInv'
  BY GateStepsHub, NextHub DEF GateInv
<1>2. UNCHANGED <<mode, global, project>>
  BY DEF GateNext, GateStep, PolicyAllows, PolicyDenies, Consult, Approved, Refused,
         Enforce, Environment, gateVars
<1>3. \A c \in Calls : Action(c)' = Action(c)
  BY <1>2 DEF Action, Decide, FromLayers
<1>4. inner' \in [Calls -> {"none", "ran", "denied"}]
  BY DEF GateInv, GateNext, GateStep, PolicyAllows, PolicyDenies, Consult, Approved,
         Refused, Enforce, Environment, gateVars
<1>5. Consulted'
  <2> SUFFICES ASSUME NEW c \in Calls, pc'[c] # "start" PROVE Action(c) = "Ask"
    BY <1>3 DEF Consulted
  <2>1. CASE pc[c] # "start"
    BY <2>1 DEF GateInv, Consulted
  <2>2. CASE pc[c] = "start"
    <3>1. ASSUME NEW b \in Calls, Consult(b) PROVE Action(c) = "Ask"
      <4>1. b # c => pc'[c] = pc[c]
        BY <3>1, <1>1
        DEF Consult, CallStep, UseMemory, NotRemembered, FileRequest, Announce, GiveUp,
            KeepWaiting, Receive, PollTimeout, RemoveKey, Record, Goto, HubInv, TypeOK
      <4> QED BY <2>2, <3>1, <4>1 DEF Consult
    <3>2. CASE Environment \/ UNCHANGED vars
      BY <2>2, <3>2 DEF Environment, DeadlinePasses, respond, CancelTurn, vars
    <3>3. ASSUME NEW b \in Calls, \/ PolicyAllows(b) \/ PolicyDenies(b)
                                  \/ Approved(b) \/ Refused(b)
          PROVE  UNCHANGED vars
      BY <3>3 DEF PolicyAllows, PolicyDenies, Approved, Refused, Enforce
    <3> QED BY <3>1, <3>2, <3>3 DEF GateNext, GateStep, gateVars
  <2> QED BY <2>1, <2>2
<1>6. GateHonoured'
  <2> SUFFICES ASSUME NEW c \in Calls, inner'[c] = "ran" PROVE Permitted(c)'
    BY DEF GateHonoured, Permitted
  <2>1. Permitted(c) => Permitted(c)'
    <3>1. /\ \A t \in Tools, d \in Decisions : AnsweredAlways(t, d) => AnsweredAlways(t, d)'
          /\ allows(answered[c]) => allows(answered'[c])
      BY <1>1, AnswersKept, AnswersGrow, GateStepsHub DEF HubInv
    <3>2. ToolOf[c] \in Tools /\ "AllowAlways" \in Decisions
      BY ApprovalAssumption DEF Decisions
    <3> QED BY <1>2, <3>1, <3>2 DEF Permitted, Decide
  <2>2. CASE inner[c] = "ran"
    BY <2>1, <2>2 DEF GateInv, GateHonoured, Permitted
  <2>3. CASE inner[c] # "ran"
    <3>1. PolicyAllows(c) \/ Approved(c)
      BY <2>3 DEF GateInv, GateNext, GateStep, PolicyAllows, PolicyDenies, Consult,
                  Approved, Refused, Enforce, Environment, gateVars
    <3>2. CASE PolicyAllows(c)
      BY <3>2, <2>1, ActionLayered DEF PolicyAllows, Permitted
    <3>3. CASE Approved(c)
      <4>1. Action(c) = "Ask" /\ result[c] = "allow"
        BY <3>3 DEF Approved, GateInv, Consulted
      <4>2. allows(answered[c]) \/ AnsweredAlways(ToolOf[c], "AllowAlways")
        BY <4>1, <1>1 DEF HubInv, AllowNeedsOperator
      <4> QED BY <4>1, <4>2, <2>1, ActionLayered DEF Permitted
    <3> QED BY <3>1, <3>2, <3>3
  <2> QED BY <2>2, <2>3
<1> QED BY <1>1, <1>2, <1>4, <1>5, <1>6 DEF GateInv

\* The gate composes the hub: its behaviours are behaviours of the approval hub, so
\* everything proved of the hub holds behind the gate.
THEOREM GateRunsHub == GateSpec => Spec
<1>1. GateInit => Init
  BY DEF GateInit
<1> QED BY <1>1, GateStepsHub, PTL DEF GateSpec, Spec

\* A tool that ran was allowed by the operator's own policy or by the operator, and
\* no rule of the project denies it, for all policy files, modes, calls and races.
THEOREM GateIsHonoured == GateSpec => []GateHonoured
<1>1. GateInit => GateInv
  <2> SUFFICES ASSUME GateInit PROVE GateInv
    OBVIOUS
  <2>1. HubInv
    BY InitHub DEF GateInit
  <2>2. Consulted /\ GateHonoured
    BY DEF GateInit, Init, Consulted, GateHonoured
  <2> QED BY <2>1, <2>2 DEF GateInit, GateInv
<1>2. GateInv => GateHonoured
  BY DEF GateInv
<1> QED BY <1>1, <1>2, NextGate, PTL DEF GateSpec

-----------------------------------------------------------------------------
(* The daemon's event stream.                                              *)

Ascending(frames) ==
    \A i, j \in DOMAIN frames : i < j => frames[i].seq < frames[j].seq

\* Nothing in it is numbered beyond m.
UpTo(frames, m) == \A i \in DOMAIN frames : frames[i].seq <= m

SeqsIn(frames) == {frames[i].seq : i \in DOMAIN frames}

\* The numbers a connection K has still to write.
Queued(K) == SeqsIn(K.backlog) \cup SeqsIn(K.channel)

\* A connection writes in order: its backlog ascends, its channel ascends and
\* begins after the backlog.
InOrder(K, m) ==
    /\ Ascending(K.backlog) /\ Ascending(K.channel)
    /\ UpTo(K.backlog, m) /\ UpTo(K.channel, m)
    /\ \A i \in DOMAIN K.backlog, j \in DOMAIN K.channel :
            K.backlog[i].seq < K.channel[j].seq

\* What the client c that reads K and has everything up to mark is owed: its
\* queue is all news, and whatever it is entitled to is queued, was evicted, or
\* comes after the queue of a connection the hub has dropped.
Owed(K, c, mark, out, gone) ==
    /\ \A n \in Queued(K) : mark < n
    /\ \A n \in DOMAIN out : mark < n /\ VisibleTo(out[n], Filter[c]) =>
            \/ n \in gone \cup Queued(K)
            \/ ~K.subscribed /\ \A p \in Queued(K) : p < n

\* Numbers are broadcast in order: the emitter at the gate holds the next one.
Numbered ==
    /\ \A i \in DOMAIN sent : sent[i].seq = i
    /\ \A e \in Emitters : e # gate => minted[e] = NoFrame
    /\ gate = NoEmitter => next = Len(sent) + 1
    /\ gate # NoEmitter => /\ minted[gate] # NoFrame
                           /\ minted[gate].seq = Len(sent) + 1
                           /\ next = Len(sent) + 2

Rings ==
    /\ Ascending(replay) /\ UpTo(replay, Len(sent))
    /\ \A k \in DOMAIN conn : InOrder(conn[k], Len(sent))

\* What a client has received up to its cursor.
Received(c) ==
    /\ since[c] <= Len(sent)
    /\ cursor[c] = NoCursor => got[c] = <<>>
    /\ cursor[c] # NoCursor =>
        /\ cursor[c] <= Len(sent)
        /\ \A i \in DOMAIN got[c] : got[c][i] <= cursor[c]
        /\ \A i, j \in DOMAIN got[c] : i < j => got[c][i] < got[c][j]
        /\ \A n \in DOMAIN sent :
              since[c] < n /\ n <= cursor[c] /\ VisibleTo(sent[n], Filter[c]) =>
                  n \in ToSet(got[c]) \cup evicted[c]

Mark(c) == IF cursor[c] = NoCursor THEN since[c] ELSE cursor[c]

Attached(c) ==
    reading[c] # NoConn =>
        /\ reading[c] \in DOMAIN conn
        /\ conn[reading[c]].owner = c
        /\ Owed(conn[reading[c]], c, Mark(c), sent, evicted[c])

StreamInv ==
    /\ HubTypeOK
    /\ Numbered
    /\ Rings
    /\ \A c \in Clients : Received(c) /\ Attached(c)

\* The rank of a position among the positions in I.
Rank(I, i) == Cardinality({j \in I : j <= i})

LEMMA RankLemma ==
  ASSUME NEW m \in Nat, NEW I \in SUBSET (1..m)
  PROVE  /\ IsFiniteSet(I) /\ Cardinality(I) \in Nat
         /\ \A i \in I : Rank(I, i) \in 1..Cardinality(I)
         /\ \A i, j \in I : i < j => Rank(I, i) < Rank(I, j)
         /\ \A n \in 1..Cardinality(I) : \E i \in I : Rank(I, i) = n
<1>1. IsFiniteSet(1..m)
  BY FS_Interval
<1>2. IsFiniteSet(I)
  BY <1>1, FS_Subset
<1>3. Cardinality(I) \in Nat
  BY <1>2, FS_CardinalityType
<1>4. ASSUME NEW i \in I
      PROVE  Rank(I, i) \in 1..Cardinality(I)
  <2> DEFINE S == {j \in I : j <= i}
  <2>1. S \in SUBSET I /\ i \in S
    OBVIOUS
  <2>2. IsFiniteSet(S) /\ Cardinality(S) <= Cardinality(I)
    BY <2>1, <1>2, FS_Subset
  <2>3. Cardinality(S) \in Nat
    BY <2>2, FS_CardinalityType
  <2>4. Cardinality(S) # 0
    BY <2>1, <2>2, FS_EmptySet
  <2>5. QED
    BY <2>2, <2>3, <2>4, <1>3 DEF Rank
<1>5. ASSUME NEW i \in I, NEW j \in I, i < j
      PROVE  Rank(I, i) < Rank(I, j)
  <2> DEFINE S == {p \in I : p <= i}
             T == {p \in I : p <= j}
  <2>0. I \subseteq Nat
    OBVIOUS
  <2>7. i \in Nat /\ j \in Nat /\ j <= j /\ ~(j <= i)
    BY <1>5, <2>0
  <2>8. \A p \in Nat : p <= i => p <= j
    BY <1>5, <2>7
  <2>1. S \in SUBSET T /\ j \in T /\ j \notin S /\ T \in SUBSET I
    BY <2>0, <2>7, <2>8
  <2>2. IsFiniteSet(T)
    BY <2>1, <1>2, FS_Subset
  <2>3. Cardinality(S) <= Cardinality(T) /\ Cardinality(S) # Cardinality(T)
    BY <2>1, <2>2, FS_Subset
  <2>4. Rank(I, i) = Cardinality(S) /\ Rank(I, j) = Cardinality(T)
    BY DEF Rank
  <2>5. Cardinality(S) \in Nat /\ Cardinality(T) \in Nat
    BY <1>4, <2>4
  <2>6. QED
    BY <2>3, <2>4, <2>5
<1>6. ASSUME NEW n \in 1..Cardinality(I), \A i \in I : Rank(I, i) # n
      PROVE  FALSE
  <2> DEFINE N == 1..Cardinality(I)
             T == N \ {n}
             f == [i \in I |-> Rank(I, i)]
  <2>1. IsFiniteSet(N) /\ Cardinality(N) = Cardinality(I)
    BY <1>3, FS_Interval
  <2>2. T \in SUBSET N /\ T # N
    BY <1>6
  <2>3. IsFiniteSet(T) /\ Cardinality(T) <= Cardinality(N) /\ Cardinality(T) # Cardinality(N)
    BY <2>1, <2>2, FS_Subset
  <2>4. Cardinality(T) < Cardinality(I)
    BY <2>1, <2>3, <1>3, FS_CardinalityType
  <2>5. f \in [I -> T]
    BY <1>4, <1>6
  <2> HIDE DEF f, T, N
  <2>6. PICK x, y \in I : x # y /\ f[x] = f[y]
    BY <1>2, <2>3, <2>4, <2>5, FS_PigeonHole
  <2>7. Rank(I, x) = Rank(I, y)
    BY <2>6 DEF f
  <2>8. x < y \/ y < x
    BY <2>6
  <2>9. Rank(I, x) \in Nat /\ Rank(I, y) \in Nat
    BY <1>4, <1>3
  <2>10. QED
    BY <1>5, <2>7, <2>8, <2>9
<1>7. QED
  BY <1>2, <1>3, <1>4, <1>5, <1>6

\* The frames at the positions in I: all of them, no others, in order.
LEMMA AtPositionsLemma ==
  ASSUME NEW frames \in Seq(Frames), NEW I \in SUBSET DOMAIN frames
  PROVE  LET w == AtPositions(frames, I)
         IN  /\ w \in Seq(Frames)
             /\ \A n \in DOMAIN w : \E i \in I : w[n] = frames[i]
             /\ \A i \in I : \E n \in DOMAIN w : w[n] = frames[i]
             /\ Ascending(frames) => Ascending(w)
<1> DEFINE w == AtPositions(frames, I)
           nth(n) == CHOOSE i \in I : Rank(I, i) = n
           C == Cardinality(I)
<1>1. Len(frames) \in Nat /\ I \in SUBSET (1..Len(frames))
  OBVIOUS
<1>2. /\ C \in Nat
      /\ \A i \in I : Rank(I, i) \in 1..C
      /\ \A i, j \in I : i < j => Rank(I, i) < Rank(I, j)
      /\ \A n \in 1..C : \E i \in I : Rank(I, i) = n
  BY <1>1, RankLemma
<1>3. w = [n \in 1..C |-> frames[nth(n)]]
  BY DEF AtPositions, Rank
<1>4. \A n \in 1..C : nth(n) \in I /\ Rank(I, nth(n)) = n
  BY <1>2
<1> HIDE DEF nth, C, w
<1>5. DOMAIN w = 1..C
  BY <1>3
<1>6. \A n \in 1..C : w[n] = frames[nth(n)] /\ w[n] \in Frames
  BY <1>3, <1>4
<1>7. w \in Seq(Frames)
  <2>1. w \in [1..C -> Frames]
    BY <1>3, <1>4
  <2>2. QED
    BY <1>2, <2>1
<1>8. \A i, j \in I : Rank(I, i) = Rank(I, j) => i = j
  <2> SUFFICES ASSUME NEW i \in I, NEW j \in I, Rank(I, i) = Rank(I, j) PROVE i = j
    OBVIOUS
  <2>1. Rank(I, i) \in Nat /\ Rank(I, j) \in Nat
    BY <1>2
  <2>2. i \in Nat /\ j \in Nat
    BY <1>1
  <2>3. ~(i < j) /\ ~(j < i)
    BY <1>2, <2>1
  <2>4. QED
    BY <2>2, <2>3
<1>9. \A i \in I : \E n \in DOMAIN w : w[n] = frames[i]
  <2> SUFFICES ASSUME NEW i \in I PROVE \E n \in DOMAIN w : w[n] = frames[i]
    OBVIOUS
  <2>1. Rank(I, i) \in 1..C
    BY <1>2
  <2>2. nth(Rank(I, i)) = i
    BY <2>1, <1>4, <1>8
  <2>3. QED
    BY <2>1, <2>2, <1>5, <1>6
<1>10. ASSUME Ascending(frames), NEW p \in DOMAIN w, NEW q \in DOMAIN w, p < q
       PROVE  w[p].seq < w[q].seq
  <2>1. p \in 1..C /\ q \in 1..C
    BY <1>5
  <2>2. nth(p) \in I /\ nth(q) \in I /\ Rank(I, nth(p)) = p /\ Rank(I, nth(q)) = q
    BY <2>1, <1>4
  <2>3. nth(p) \in Nat /\ nth(q) \in Nat
    BY <2>2, <1>1
  <2>4. p \in Nat /\ q \in Nat
    BY <2>1, <1>2
  <2>5. ~(nth(q) < nth(p)) /\ nth(p) # nth(q)
    BY <1>2, <2>2, <2>4, <1>10
  <2>6. nth(p) < nth(q)
    BY <2>3, <2>5
  <2>7. frames[nth(p)].seq < frames[nth(q)].seq
    BY <1>10, <2>2, <2>6 DEF Ascending
  <2>8. QED
    BY <2>1, <2>7, <1>6
<1>11. \A n \in DOMAIN w : \E i \in I : w[n] = frames[i]
  BY <1>4, <1>5, <1>6
<1>12. Ascending(frames) => Ascending(w)
  BY <1>10 DEF Ascending
<1>13. QED
  BY <1>7, <1>9, <1>11, <1>12 DEF w

LEMMA FrameSeqs == \A f \in Frames : f.seq \in Nat /\ f.seq \in Seqs /\ f.seq >= 1
  BY HubAssumption DEF Frames, Seqs

\* A number above all the others goes at the end.
LEMMA AppendInOrder ==
  ASSUME NEW m \in Nat, NEW q \in Seq(Frames), Ascending(q), UpTo(q, m),
         NEW f \in Frames, f.seq = m + 1
  PROVE  /\ Append(q, f) \in Seq(Frames)
         /\ Ascending(Append(q, f)) /\ UpTo(Append(q, f), m + 1)
         /\ SeqsIn(Append(q, f)) = SeqsIn(q) \cup {m + 1}
<1> DEFINE w == Append(q, f)
           l == Len(q)
<1>0. /\ w \in Seq(Frames) /\ l \in Nat
      /\ DOMAIN w = 1..(l + 1) /\ DOMAIN q = 1..l
      /\ \A i \in 1..l : w[i] = q[i] /\ q[i] \in Frames
      /\ w[l + 1] = f
  OBVIOUS
<1>1. /\ w \in Seq(Frames) /\ l \in Nat
      /\ DOMAIN w = 1..(l + 1) /\ DOMAIN q = 1..l
      /\ \A i \in 1..l : w[i] = q[i] /\ w[i].seq \in Nat
      /\ w[l + 1] = f
  <2> HIDE DEF w, l
  <2>1. QED
    BY <1>0, FrameSeqs
<1> HIDE DEF w, l
<1>2. \A i \in 1..l : w[i].seq <= m
  BY <1>1 DEF UpTo
<1>3. UpTo(w, m + 1)
  BY <1>1, <1>2 DEF UpTo
<1>4. Ascending(w)
  <2> SUFFICES ASSUME NEW i \in 1..(l + 1), NEW j \in 1..(l + 1), i < j
               PROVE  w[i].seq < w[j].seq
    BY <1>1 DEF Ascending
  <2>1. i \in 1..l
    BY <1>1
  <2>2. CASE j = l + 1
    BY <2>1, <2>2, <1>1, <1>2
  <2>3. CASE j \in 1..l
    BY <2>1, <2>3, <1>1 DEF Ascending
  <2>4. QED
    BY <2>2, <2>3, <1>1
<1>5. SeqsIn(w) = SeqsIn(q) \cup {m + 1}
  <2>1. \A i \in 1..(l + 1) : i \in 1..l \/ i = l + 1
    BY <1>1
  <2>2. 1..l \subseteq 1..(l + 1) /\ l + 1 \in 1..(l + 1)
    BY <1>1
  <2>3. QED
    BY <1>1, <2>1, <2>2 DEF SeqsIn
<1>6. QED
  BY <1>1, <1>3, <1>4, <1>5 DEF w

\* What remains once the first is gone.
LEMMA TailInOrder ==
  ASSUME NEW m \in Nat, NEW q \in Seq(Frames), q # <<>>, Ascending(q), UpTo(q, m)
  PROVE  /\ Tail(q) \in Seq(Frames) /\ Head(q) \in Frames
         /\ Ascending(Tail(q)) /\ UpTo(Tail(q), m)
         /\ Head(q).seq \in SeqsIn(q)
         /\ SeqsIn(Tail(q)) = SeqsIn(q) \ {Head(q).seq}
         /\ \A n \in SeqsIn(Tail(q)) : Head(q).seq < n
<1> DEFINE w == Tail(q)
           l == Len(q)
<1>0. /\ w \in Seq(Frames) /\ l \in Nat /\ l >= 1 /\ Len(w) = l - 1
      /\ DOMAIN w = 1..(l - 1) /\ DOMAIN q = 1..l
      /\ \A i \in 1..l : q[i] \in Frames
      /\ Head(q) = q[1]
  <2>1. Head(q) \in Frames /\ w \in Seq(Frames)
        /\ Len(w) = l - 1 /\ \A i \in 1..Len(w) : w[i] = q[i + 1]
    BY HeadTailProperties
  <2>2. l # 0
    BY EmptySeq
  <2>3. QED
    BY <2>1, <2>2
<1>1. /\ w \in Seq(Frames) /\ l \in Nat /\ l >= 1
      /\ DOMAIN w = 1..(l - 1) /\ DOMAIN q = 1..l
      /\ \A i \in 1..(l - 1) : w[i] = q[i + 1]
      /\ \A i \in 1..l : q[i].seq \in Nat
      /\ Head(q) = q[1] /\ Head(q) \in Frames
  <2>1. \A i \in 1..Len(w) : w[i] = q[i + 1]
    BY HeadTailProperties
  <2> HIDE DEF w, l
  <2>2. 1 \in 1..l
    BY <1>0
  <2>3. QED
    BY <1>0, <2>1, <2>2, FrameSeqs
<1> HIDE DEF w, l
<1>10. 1 \in 1..l /\ \A i \in 1..(l - 1) : i + 1 \in 1..l /\ 1 < i + 1
  BY <1>1
<1>2. UpTo(w, m)
  <2> SUFFICES ASSUME NEW i \in 1..(l - 1) PROVE w[i].seq <= m
    BY <1>1 DEF UpTo
  <2>1. QED
    BY <1>1, <1>10 DEF UpTo
<1>3. Ascending(w)
  <2> SUFFICES ASSUME NEW i \in 1..(l - 1), NEW j \in 1..(l - 1), i < j
               PROVE  w[i].seq < w[j].seq
    BY <1>1 DEF Ascending
  <2>1. i + 1 < j + 1
    BY <1>1
  <2>2. w[i] = q[i + 1] /\ w[j] = q[j + 1]
    BY <1>1
  <2>3. i + 1 \in DOMAIN q /\ j + 1 \in DOMAIN q
    BY <1>1, <1>10
  <2>4. QED
    BY <2>1, <2>2, <2>3 DEF Ascending
<1>4. \A i \in 1..(l - 1) : q[1].seq < w[i].seq
  BY <1>1, <1>10 DEF Ascending
<1>5. Head(q).seq \in SeqsIn(q)
  BY <1>1, <1>10 DEF SeqsIn
<1>6. \A n \in SeqsIn(w) : Head(q).seq < n
  BY <1>1, <1>4 DEF SeqsIn
<1>7. SeqsIn(w) \subseteq SeqsIn(q) \ {Head(q).seq}
  <2> SUFFICES ASSUME NEW i \in 1..(l - 1)
               PROVE  w[i].seq \in SeqsIn(q) /\ w[i].seq # Head(q).seq
    BY <1>1 DEF SeqsIn
  <2>1. i + 1 \in 1..l /\ w[i] = q[i + 1]
    BY <1>1, <1>10
  <2>2. q[1].seq < q[i + 1].seq /\ q[1].seq \in Nat /\ q[i + 1].seq \in Nat
    BY <2>1, <1>1, <1>4, <1>10
  <2>3. w[i].seq \in SeqsIn(q)
    BY <2>1, <1>1 DEF SeqsIn
  <2>4. w[i].seq # Head(q).seq
    BY <2>1, <2>2, <1>1
  <2>5. QED
    BY <2>3, <2>4
<1>8. SeqsIn(q) \ {Head(q).seq} \subseteq SeqsIn(w)
  <2> SUFFICES ASSUME NEW i \in 1..l, i # 1
               PROVE  q[i].seq \in SeqsIn(w)
    BY <1>1 DEF SeqsIn
  <2>1. i - 1 \in 1..(l - 1) /\ (i - 1) + 1 = i
    BY <1>1
  <2>2. w[i - 1] = q[i]
    BY <2>1, <1>1
  <2>3. QED
    BY <2>1, <2>2, <1>1 DEF SeqsIn
<1>9. QED
  BY <1>1, <1>2, <1>3, <1>5, <1>6, <1>7, <1>8 DEF w

LEMMA QueuedUpTo ==
  ASSUME NEW m \in Nat, NEW K \in ConnStates, InOrder(K, m)
  PROVE  Queued(K) \subseteq Seqs /\ \A n \in Queued(K) : n <= m
<1>1. K.backlog \in Seq(Frames) /\ K.channel \in Seq(Frames)
  BY DEF ConnStates
<1>2. \A i \in DOMAIN K.backlog : K.backlog[i] \in Frames
  BY <1>1
<1>3. \A i \in DOMAIN K.channel : K.channel[i] \in Frames
  BY <1>1
<1>4. QED
  BY <1>2, <1>3, FrameSeqs DEF Queued, SeqsIn, InOrder, UpTo

LEMMA MoreSent ==
  ASSUME NEW m \in Nat, NEW K \in ConnStates, InOrder(K, m)
  PROVE  InOrder(K, m + 1)
<1>1. K.backlog \in Seq(Frames) /\ K.channel \in Seq(Frames)
  BY DEF ConnStates
<1>2. \A i \in DOMAIN K.backlog : K.backlog[i].seq \in Nat
  BY <1>1, FrameSeqs
<1>3. \A i \in DOMAIN K.channel : K.channel[i].seq \in Nat
  BY <1>1, FrameSeqs
<1>4. QED
  BY <1>2, <1>3 DEF InOrder, UpTo

\* A connection as its thread writes the next frame.
NextFrame(K) == Head(IF K.backlog # <<>> THEN K.backlog ELSE K.channel)
Remaining(K) ==
    IF K.backlog # <<>> THEN [K EXCEPT !.backlog = Tail(@)]
                        ELSE [K EXCEPT !.channel = Tail(@)]

LEMMA WriteLemma ==
  ASSUME NEW m \in Nat, NEW K \in ConnStates, InOrder(K, m),
         K.backlog # <<>> \/ K.channel # <<>>
  PROVE  /\ Remaining(K) \in ConnStates /\ NextFrame(K) \in Frames
         /\ Remaining(K).owner = K.owner /\ Remaining(K).subscribed = K.subscribed
         /\ InOrder(Remaining(K), m)
         /\ NextFrame(K).seq \in Queued(K)
         /\ Queued(Remaining(K)) = Queued(K) \ {NextFrame(K).seq}
         /\ \A n \in Queued(Remaining(K)) : NextFrame(K).seq < n
<1> DEFINE B == K.backlog
           C == K.channel
           R == Remaining(K)
<1>1. B \in Seq(Frames) /\ C \in Seq(Frames)
  BY DEF ConnStates
<1>2. /\ Ascending(B) /\ Ascending(C) /\ UpTo(B, m) /\ UpTo(C, m)
      /\ \A i \in DOMAIN B, j \in DOMAIN C : B[i].seq < C[j].seq
  BY DEF InOrder
<1>3. Queued(K) = SeqsIn(B) \cup SeqsIn(C)
  BY DEF Queued
<1>4. \A x \in SeqsIn(B), y \in SeqsIn(C) : x < y
  BY <1>2 DEF SeqsIn
<1>5. SeqsIn(B) \subseteq Nat /\ SeqsIn(C) \subseteq Nat
  <2>1. \A i \in DOMAIN B : B[i].seq \in Nat
    BY <1>1, FrameSeqs
  <2>2. \A i \in DOMAIN C : C[i].seq \in Nat
    BY <1>1, FrameSeqs
  <2>3. QED
    BY <2>1, <2>2 DEF SeqsIn
<1>6. CASE B # <<>>
  <2>1. R = [K EXCEPT !.backlog = Tail(B)] /\ NextFrame(K) = Head(B)
    BY <1>6 DEF Remaining, NextFrame
  <2>2. /\ Tail(B) \in Seq(Frames) /\ Head(B) \in Frames
        /\ Ascending(Tail(B)) /\ UpTo(Tail(B), m)
        /\ Head(B).seq \in SeqsIn(B)
        /\ SeqsIn(Tail(B)) = SeqsIn(B) \ {Head(B).seq}
        /\ \A n \in SeqsIn(Tail(B)) : Head(B).seq < n
    BY <1>1, <1>2, <1>6, TailInOrder
  <2>3. /\ R \in ConnStates /\ R.owner = K.owner /\ R.subscribed = K.subscribed
        /\ R.backlog = Tail(B) /\ R.channel = C
    BY <2>1, <2>2 DEF ConnStates
  <2> HIDE DEF B, C, R
  <2>4. Queued(R) = (SeqsIn(B) \ {Head(B).seq}) \cup SeqsIn(C)
    BY <2>2, <2>3 DEF Queued
  <2>5. Head(B).seq \notin SeqsIn(C)
    BY <2>2, <1>4, <1>5
  <2>6. \A i \in DOMAIN Tail(B), j \in DOMAIN C : Tail(B)[i].seq < C[j].seq
    BY <2>2, <1>4 DEF SeqsIn
  <2>7. InOrder(R, m)
    BY <2>2, <2>3, <2>6, <1>2 DEF InOrder
  <2>8. \A n \in Queued(R) : Head(B).seq < n
    BY <2>2, <2>4, <1>4
  <2>9. Queued(R) = Queued(K) \ {Head(B).seq}
    BY <2>4, <2>5, <1>3
  <2>10. QED
    BY <2>1, <2>2, <2>3, <2>7, <2>8, <2>9, <1>3 DEF R
<1>7. CASE B = <<>>
  <2>0. C # <<>>
    BY <1>7
  <2>1. R = [K EXCEPT !.channel = Tail(C)] /\ NextFrame(K) = Head(C)
    BY <1>7 DEF Remaining, NextFrame
  <2>2. /\ Tail(C) \in Seq(Frames) /\ Head(C) \in Frames
        /\ Ascending(Tail(C)) /\ UpTo(Tail(C), m)
        /\ Head(C).seq \in SeqsIn(C)
        /\ SeqsIn(Tail(C)) = SeqsIn(C) \ {Head(C).seq}
        /\ \A n \in SeqsIn(Tail(C)) : Head(C).seq < n
    BY <1>1, <1>2, <2>0, TailInOrder
  <2>3. /\ R \in ConnStates /\ R.owner = K.owner /\ R.subscribed = K.subscribed
        /\ R.backlog = B /\ R.channel = Tail(C)
    BY <2>1, <2>2 DEF ConnStates
  <2>4. DOMAIN B = {}
    BY <1>7
  <2> HIDE DEF B, C, R
  <2>5. SeqsIn(B) = {}
    BY <2>4 DEF SeqsIn
  <2>6. Queued(R) = SeqsIn(C) \ {Head(C).seq}
    BY <2>2, <2>3, <2>5 DEF Queued
  <2>7. InOrder(R, m)
    BY <2>2, <2>3, <2>4, <1>2 DEF InOrder
  <2>8. QED
    BY <2>1, <2>2, <2>3, <2>5, <2>6, <2>7, <1>3 DEF R
<1>8. QED
  BY <1>6, <1>7

\* A connection as the hub delivers a frame to it.
Delivered(K, f) ==
    IF ~(K.subscribed /\ VisibleTo(f, Filter[K.owner])) THEN K
    ELSE IF Len(K.channel) >= SubscriberCapacity THEN [K EXCEPT !.subscribed = FALSE]
    ELSE [K EXCEPT !.channel = Append(@, f)]

LEMMA DeliverLemma ==
  ASSUME NEW m \in Nat, NEW K \in ConnStates, InOrder(K, m),
         NEW f \in Frames, f.seq = m + 1
  PROVE  LET D == Delivered(K, f)
         IN  /\ D \in ConnStates /\ D.owner = K.owner
             /\ InOrder(D, m + 1)
             /\ Queued(K) \subseteq Queued(D)
             /\ Queued(D) \subseteq Queued(K) \cup {m + 1}
             /\ VisibleTo(f, Filter[K.owner]) => m + 1 \in Queued(D) \/ ~D.subscribed
             /\ ~K.subscribed => ~D.subscribed /\ Queued(D) = Queued(K)
             /\ ~D.subscribed => Queued(D) = Queued(K)
<1> DEFINE D == Delivered(K, f)
<1>1. K.backlog \in Seq(Frames) /\ K.channel \in Seq(Frames) /\ K.subscribed \in BOOLEAN
  BY DEF ConnStates
<1>2. InOrder(K, m + 1)
  BY MoreSent
<1>3. CASE ~(K.subscribed /\ VisibleTo(f, Filter[K.owner]))
  <2>1. D = K
    BY <1>3 DEF Delivered
  <2>2. QED
    BY <2>1, <1>2, <1>3
<1>4. CASE K.subscribed /\ VisibleTo(f, Filter[K.owner])
           /\ Len(K.channel) >= SubscriberCapacity
  <2>1. D = [K EXCEPT !.subscribed = FALSE]
    BY <1>4 DEF Delivered
  <2>2. /\ D \in ConnStates /\ D.owner = K.owner /\ D.subscribed = FALSE
        /\ D.backlog = K.backlog /\ D.channel = K.channel
    BY <2>1 DEF ConnStates
  <2> HIDE DEF D
  <2>3. Queued(D) = Queued(K)
    BY <2>2 DEF Queued
  <2>4. InOrder(D, m + 1)
    BY <2>2, <1>2 DEF InOrder
  <2>5. QED
    BY <2>2, <2>3, <2>4, <1>4 DEF D
<1>5. CASE K.subscribed /\ VisibleTo(f, Filter[K.owner])
           /\ ~(Len(K.channel) >= SubscriberCapacity)
  <2>1. D = [K EXCEPT !.channel = Append(K.channel, f)]
    BY <1>5 DEF Delivered
  <2>2. Ascending(K.channel) /\ UpTo(K.channel, m)
    BY DEF InOrder
  <2>3. /\ Append(K.channel, f) \in Seq(Frames)
        /\ Ascending(Append(K.channel, f)) /\ UpTo(Append(K.channel, f), m + 1)
        /\ SeqsIn(Append(K.channel, f)) = SeqsIn(K.channel) \cup {m + 1}
    BY <1>1, <2>2, AppendInOrder
  <2>4. /\ D \in ConnStates /\ D.owner = K.owner /\ D.subscribed = K.subscribed
        /\ D.backlog = K.backlog /\ D.channel = Append(K.channel, f)
    BY <2>1, <2>3 DEF ConnStates
  <2> HIDE DEF D
  <2>5. Queued(D) = Queued(K) \cup {m + 1}
    BY <2>3, <2>4 DEF Queued
  <2>6. \A x \in SeqsIn(K.backlog), y \in SeqsIn(D.channel) : x < y
    <3>1. \A x \in SeqsIn(K.backlog), y \in SeqsIn(K.channel) : x < y
      BY DEF InOrder, SeqsIn
    <3>2. \A x \in SeqsIn(K.backlog) : x \in Nat /\ x <= m
      <4>1. \A i \in DOMAIN K.backlog : K.backlog[i].seq \in Nat
        BY <1>1, FrameSeqs
      <4>2. QED
        BY <4>1 DEF InOrder, UpTo, SeqsIn
    <3>3. QED
      BY <2>3, <2>4, <3>1, <3>2
  <2>7. InOrder(D, m + 1)
    <3>1. \A i \in DOMAIN D.backlog, j \in DOMAIN D.channel :
             D.backlog[i].seq < D.channel[j].seq
      BY <2>4, <2>6 DEF SeqsIn
    <3>2. QED
      BY <2>3, <2>4, <3>1, <1>2 DEF InOrder
  <2>8. QED
    BY <2>4, <2>5, <2>7, <1>5 DEF D
<1>6. QED
  BY <1>3, <1>4, <1>5

LEMMA OwedAfterDelivery ==
  ASSUME NEW m \in Nat, NEW K \in ConnStates, InOrder(K, m),
         NEW f \in Frames, f.seq = m + 1,
         NEW out \in Seq(Frames), Len(out) = m,
         NEW mark \in Nat, mark <= m, NEW gone,
         Owed(K, K.owner, mark, out, gone)
  PROVE  Owed(Delivered(K, f), K.owner, mark, Append(out, f), gone)
<1> DEFINE D == Delivered(K, f)
           c == K.owner
           w == Append(out, f)
<1>1. /\ D \in ConnStates /\ D.owner = K.owner
      /\ InOrder(D, m + 1)
      /\ Queued(K) \subseteq Queued(D)
      /\ Queued(D) \subseteq Queued(K) \cup {m + 1}
      /\ VisibleTo(f, Filter[c]) => m + 1 \in Queued(D) \/ ~D.subscribed
      /\ ~K.subscribed => ~D.subscribed /\ Queued(D) = Queued(K)
      /\ ~D.subscribed => Queued(D) = Queued(K)
  BY DeliverLemma
<1>2. /\ DOMAIN w = 1..(m + 1) /\ DOMAIN out = 1..m
      /\ w[m + 1] = f /\ \A n \in 1..m : w[n] = out[n]
  OBVIOUS
<1>3. Queued(K) \subseteq Seqs /\ \A n \in Queued(K) : n <= m
  BY QueuedUpTo
<1>4. Seqs \subseteq Nat
  BY DEF Seqs
<1>5. \A n \in Queued(K) : mark < n
  BY DEF Owed
<1>6. \A n \in 1..m : mark < n /\ VisibleTo(out[n], Filter[c]) =>
          n \in gone \cup Queued(K) \/ (~K.subscribed /\ \A p \in Queued(K) : p < n)
  BY <1>2 DEF Owed
<1> HIDE DEF D, c, w
<1>7. \A n \in Queued(D) : mark < n
  BY <1>1, <1>5
<1>8. ASSUME NEW n \in 1..(m + 1), mark < n, VisibleTo(w[n], Filter[c])
      PROVE  n \in gone \cup Queued(D) \/ (~D.subscribed /\ \A p \in Queued(D) : p < n)
  <2>1. CASE n = m + 1
    <3>1. VisibleTo(f, Filter[c])
      BY <1>2, <1>8, <2>1
    <3>2. ASSUME NEW p \in Queued(K) PROVE p < m + 1
      <4>1. p \in Nat /\ p <= m
        BY <1>3, <1>4
      <4>2. QED
        BY <4>1
    <3>3. QED
      BY <1>1, <2>1, <3>1, <3>2
  <2>2. CASE n \in 1..m
    BY <1>1, <1>2, <1>6, <1>8, <2>2
  <2>3. QED
    BY <2>1, <2>2
<1>9. QED
  BY <1>2, <1>7, <1>8 DEF Owed, D, c, w

LEMMA InitStream == HubInit => StreamInv
<1> SUFFICES ASSUME HubInit PROVE StreamInv
  OBVIOUS
<1>1. HubTypeOK
  <2>1. <<>> \in Seq(Frames) /\ <<>> \in Seq(Seqs) /\ Len(<<>>) = 0
    OBVIOUS
  <2>2. DOMAIN conn = {} /\ 1..0 = {}
    BY DEF HubInit
  <2>3. QED
    BY <2>1, <2>2, HubAssumption DEF HubInit, HubTypeOK
<1>2. Numbered
  BY HubAssumption DEF HubInit, Numbered
<1>3. Rings
  BY DEF HubInit, Rings, Ascending, UpTo
<1>4. \A c \in Clients : Received(c) /\ Attached(c)
  BY DEF HubInit, Received, Attached
<1>5. QED
  BY <1>1, <1>2, <1>3, <1>4 DEF StreamInv

LEMMA MintStream ==
  ASSUME StreamInv, NEW e \in Emitters, NEW s \in Scopes, Mint(e, s)
  PROVE  StreamInv'
<1> DEFINE f == [seq |-> next, session |-> s]
<1>1. /\ HubTypeOK /\ Numbered /\ Rings
      /\ \A c \in Clients : Received(c) /\ Attached(c)
  BY DEF StreamInv
<1>2. /\ next <= MaxEvents /\ gate = NoEmitter
      /\ gate' = e /\ minted' = [minted EXCEPT ![e] = f] /\ next' = next + 1
      /\ replay' = replay /\ sent' = sent /\ opened' = opened /\ conn' = conn
      /\ reading' = reading /\ cursor' = cursor /\ got' = got
      /\ since' = since /\ evicted' = evicted
  BY DEF Mint, client
<1>3. /\ next \in 1..(MaxEvents + 1) /\ minted \in [Emitters -> Frames \cup {NoFrame}]
      /\ Len(sent) \in Nat
  BY <1>1 DEF HubTypeOK
<1>4. f \in Frames /\ f.seq = next /\ f # NoFrame
  BY <1>2, <1>3, HubAssumption DEF Frames, Seqs
<1> HIDE DEF f
<1>5. next' \in 1..(MaxEvents + 1)
  BY <1>2, <1>3, HubAssumption
<1>6. minted' \in [Emitters -> Frames \cup {NoFrame}] /\ minted'[e] = f
      /\ \A d \in Emitters : d # e => minted'[d] = minted[d]
  BY <1>2, <1>3, <1>4
<1>7. HubTypeOK'
  BY <1>1, <1>2, <1>5, <1>6 DEF HubTypeOK
<1>8. Numbered'
  <2>1. next = Len(sent) + 1 /\ \A d \in Emitters : minted[d] = NoFrame
    BY <1>1, <1>2, HubAssumption DEF Numbered
  <2>2. next' = Len(sent) + 2
    BY <1>2, <1>3, <2>1
  <2>3. e # NoEmitter
    BY HubAssumption
  <2>4. QED
    BY <1>1, <1>2, <1>4, <1>6, <2>1, <2>2, <2>3 DEF Numbered
<1>9. Rings'
  BY <1>1, <1>2 DEF Rings
<1>10. \A c \in Clients : Received(c)' /\ Attached(c)'
  BY <1>1, <1>2 DEF Received, Attached, Mark
<1>11. QED
  BY <1>7, <1>8, <1>9, <1>10 DEF StreamInv

\* The ring keeps its order and its bound.
LEMMA PushLemma ==
  ASSUME NEW m \in Nat, NEW q \in Seq(Frames), Ascending(q), UpTo(q, m),
         Len(q) <= ReplayCapacity, NEW f \in Frames, f.seq = m + 1
  PROVE  LET ring == Append(q, f)
             w == IF Len(ring) > ReplayCapacity THEN Tail(ring) ELSE ring
         IN  /\ w \in Seq(Frames) /\ Len(w) <= ReplayCapacity
             /\ Ascending(w) /\ UpTo(w, m + 1)
<1> DEFINE ring == Append(q, f)
<1>1. ring \in Seq(Frames) /\ Ascending(ring) /\ UpTo(ring, m + 1)
  BY AppendInOrder
<1>2. Len(ring) = Len(q) + 1 /\ Len(q) \in Nat /\ ring # <<>>
  OBVIOUS
<1>3. Len(q) + 1 <= ReplayCapacity + 1
  BY <1>2, HubAssumption
<1> HIDE DEF ring
<1>4. Tail(ring) \in Seq(Frames) /\ Ascending(Tail(ring)) /\ UpTo(Tail(ring), m + 1)
  BY <1>1, <1>2, TailInOrder
<1>5. Len(Tail(ring)) = Len(q)
  BY <1>1, <1>2, HeadTailProperties
<1>6. QED
  BY <1>1, <1>2, <1>3, <1>4, <1>5, HubAssumption DEF ring

LEMMA BroadcastStream ==
  ASSUME StreamInv, NEW e \in Emitters, Broadcast(e)
  PROVE  StreamInv'
<1> DEFINE f == minted[e]
           m == Len(sent)
<1>1. /\ HubTypeOK /\ Numbered /\ Rings
      /\ \A c \in Clients : Received(c) /\ Attached(c)
  BY DEF StreamInv
<1>2. /\ f # NoFrame
      /\ gate' = NoEmitter /\ minted' = [minted EXCEPT ![e] = NoFrame] /\ next' = next
      /\ replay' = PushReplay(f) /\ conn' = FanOut(f)
      /\ sent' = Append(sent, f) /\ opened' = opened
      /\ reading' = reading /\ cursor' = cursor /\ got' = got
      /\ since' = since /\ evicted' = evicted
  BY DEF Broadcast, client
<1>3. /\ minted \in [Emitters -> Frames \cup {NoFrame}]
      /\ sent \in Seq(Frames) /\ m \in Nat /\ replay \in Seq(Frames)
      /\ Len(replay) <= ReplayCapacity
      /\ \A k \in DOMAIN conn : conn[k] \in ConnStates
  BY <1>1 DEF HubTypeOK
<1>4. gate = e /\ f \in Frames /\ f.seq = m + 1 /\ next = m + 2
  <2>1. gate = e
    BY <1>1, <1>2 DEF Numbered
  <2>2. QED
    BY <2>1, <1>1, <1>2, <1>3, HubAssumption DEF Numbered
<1>5. DOMAIN conn' = DOMAIN conn /\ \A k \in DOMAIN conn : conn'[k] = Delivered(conn[k], f)
  BY <1>2 DEF FanOut, Delivered, Addressed, Full
<1>6. /\ sent' \in Seq(Frames) /\ Len(sent') = m + 1
      /\ DOMAIN sent' = 1..(m + 1) /\ DOMAIN sent = 1..m
      /\ sent'[m + 1] = f /\ \A n \in 1..m : sent'[n] = sent[n]
  BY <1>2, <1>3, <1>4
<1>7. /\ minted' \in [Emitters -> Frames \cup {NoFrame}]
      /\ \A d \in Emitters : minted'[d] = NoFrame
  <2>1. \A d \in Emitters : d # e => minted[d] = NoFrame
    BY <1>1, <1>4 DEF Numbered
  <2>2. QED
    BY <1>2, <1>3, <2>1
<1>8. PushReplay(f) = LET ring == Append(replay, f)
                      IN  IF Len(ring) > ReplayCapacity THEN Tail(ring) ELSE ring
  BY DEF PushReplay
<1> HIDE DEF f, m
<1>9. Ascending(replay) /\ UpTo(replay, m) /\ \A k \in DOMAIN conn : InOrder(conn[k], m)
  BY <1>1 DEF Rings, m
<1>10. /\ replay' \in Seq(Frames) /\ Len(replay') <= ReplayCapacity
       /\ Ascending(replay') /\ UpTo(replay', m + 1)
  BY <1>2, <1>3, <1>4, <1>8, <1>9, PushLemma
<1>11. \A k \in DOMAIN conn : conn'[k] \in ConnStates /\ conn'[k].owner = conn[k].owner
                              /\ InOrder(conn'[k], m + 1)
  BY <1>3, <1>4, <1>5, <1>9, DeliverLemma
<1>12. HubTypeOK'
  BY <1>1, <1>2, <1>5, <1>6, <1>7, <1>10, <1>11 DEF HubTypeOK
<1>13. Numbered'
  <2>1. \A i \in 1..(m + 1) : sent'[i].seq = i
    <3> SUFFICES ASSUME NEW i \in 1..(m + 1) PROVE sent'[i].seq = i
      OBVIOUS
    <3>1. CASE i = m + 1
      BY <3>1, <1>4, <1>6
    <3>2. CASE i \in 1..m
      BY <3>2, <1>1, <1>6 DEF Numbered
    <3>3. QED
      BY <3>1, <3>2, <1>3
  <2>2. next' = (m + 1) + 1
    BY <1>2, <1>3, <1>4
  <2>3. QED
    BY <2>1, <2>2, <1>2, <1>6, <1>7 DEF Numbered
<1>14. Rings'
  BY <1>5, <1>6, <1>10, <1>11 DEF Rings
<1>15. ASSUME NEW c \in Clients PROVE Received(c)' /\ Attached(c)'
  <2>1. /\ cursor[c] \in Seqs \cup {NoCursor} /\ since[c] \in Nat
        /\ Seqs \subseteq Nat
    BY <1>1 DEF HubTypeOK, Seqs
  <2>2. Received(c) /\ Attached(c)
    BY <1>1
  <2>3. /\ since[c] <= m
        /\ cursor[c] # NoCursor => cursor[c] \in Nat /\ cursor[c] <= m
    BY <2>1, <2>2 DEF Received, m
  <2>4. Received(c)'
    <3>1. since[c] <= m + 1 /\ (cursor[c] # NoCursor => cursor[c] <= m + 1)
      BY <2>1, <2>3, <1>3
    <3>2. cursor[c] # NoCursor => \A n \in DOMAIN sent' : n <= cursor[c] =>
              n \in DOMAIN sent /\ sent'[n] = sent[n]
      BY <2>3, <1>3, <1>6
    <3>3. QED
      BY <2>2, <3>1, <3>2, <1>2, <1>6 DEF Received
  <2>5. ASSUME reading[c] # NoConn
        PROVE  /\ reading[c] \in DOMAIN conn' /\ conn'[reading[c]].owner = c
               /\ Owed(conn'[reading[c]], c, Mark(c), sent', evicted[c])
    <3> DEFINE K == conn[reading[c]]
    <3>1. reading[c] \in DOMAIN conn /\ K.owner = c
          /\ Owed(K, c, Mark(c), sent, evicted[c])
      BY <2>2, <2>5 DEF Attached
    <3>2. conn'[reading[c]] = Delivered(K, f) /\ K \in ConnStates /\ InOrder(K, m)
      BY <3>1, <1>3, <1>5, <1>9
    <3>3. Mark(c) \in Nat /\ Mark(c) <= m
      BY <2>1, <2>3 DEF Mark
    <3> HIDE DEF K
    <3>4. Owed(Delivered(K, f), c, Mark(c), Append(sent, f), evicted[c])
      BY <3>1, <3>2, <3>3, <1>3, <1>4, OwedAfterDelivery DEF m
    <3>5. QED
      BY <3>1, <3>2, <3>4, <1>2, <1>5, <1>11 DEF K
  <2>6. Mark(c)' = Mark(c)
    BY <1>2 DEF Mark
  <2>7. Attached(c)'
    BY <2>5, <2>6, <1>2 DEF Attached
  <2>8. QED
    BY <2>4, <2>7
<1>16. QED
  BY <1>12, <1>13, <1>14, <1>15 DEF StreamInv

\* What a connection still queues is as it was, or its thread is gone and it queues
\* nothing more.
QueueStands(L, K) ==
    \/ L.subscribed = K.subscribed /\ L.backlog = K.backlog /\ L.channel = K.channel
    \/ ~L.subscribed /\ L.backlog = <<>> /\ L.channel = <<>>

\* A step of one connection's thread that its client does not see.
LEMMA UnseenStream ==
  ASSUME StreamInv, UNCHANGED <<hub, opened, cursor, got, since, evicted>>,
         DOMAIN conn' = DOMAIN conn,
         \A k \in DOMAIN conn : conn'[k] \in ConnStates /\ InOrder(conn'[k], Len(sent)),
         reading' \in [Clients -> Conns \cup {NoConn}],
         \A c \in Clients : reading'[c] # NoConn =>
             /\ reading'[c] = reading[c]
             /\ conn'[reading[c]].owner = conn[reading[c]].owner
             /\ QueueStands(conn'[reading[c]], conn[reading[c]])
  PROVE  StreamInv'
<1>1. /\ HubTypeOK /\ Numbered /\ Rings
      /\ \A c \in Clients : Received(c) /\ Attached(c)
  BY DEF StreamInv
<1>2. /\ next' = next /\ gate' = gate /\ minted' = minted /\ replay' = replay
      /\ sent' = sent /\ opened' = opened /\ cursor' = cursor /\ got' = got
      /\ since' = since /\ evicted' = evicted
  BY DEF hub
<1>3. HubTypeOK'
  BY <1>1, <1>2 DEF HubTypeOK
<1>4. Numbered' /\ Rings'
  BY <1>1, <1>2 DEF Numbered, Rings
<1>5. ASSUME NEW c \in Clients PROVE Received(c)' /\ Attached(c)'
  <2>1. Received(c)'
    BY <1>1, <1>2 DEF Received
  <2>2. Mark(c)' = Mark(c)
    BY <1>2 DEF Mark
  <2>3. ASSUME reading'[c] # NoConn
        PROVE  /\ reading'[c] \in DOMAIN conn' /\ conn'[reading'[c]].owner = c
               /\ Owed(conn'[reading'[c]], c, Mark(c), sent, evicted[c])
    <3> DEFINE K == conn[reading[c]]
               L == conn'[reading[c]]
    <3>1. reading'[c] = reading[c] /\ L.owner = K.owner /\ QueueStands(L, K)
      BY <2>3
    <3>2. /\ reading[c] \in DOMAIN conn /\ K.owner = c
          /\ Owed(K, c, Mark(c), sent, evicted[c])
      BY <1>1, <2>3, <3>1 DEF Attached
    <3> HIDE DEF K, L
    <3>3. \/ Queued(L) = Queued(K) /\ L.subscribed = K.subscribed
          \/ Queued(L) = {} /\ ~L.subscribed
      <4>1. CASE L.subscribed = K.subscribed /\ L.backlog = K.backlog /\ L.channel = K.channel
        BY <4>1 DEF Queued
      <4>2. CASE ~L.subscribed /\ L.backlog = <<>> /\ L.channel = <<>>
        <5>1. DOMAIN L.backlog = {} /\ DOMAIN L.channel = {}
          BY <4>2
        <5> QED
          BY <4>2, <5>1 DEF Queued, SeqsIn
      <4> QED
        BY <3>1, <4>1, <4>2 DEF QueueStands
    <3>4. Owed(L, c, Mark(c), sent, evicted[c])
      BY <3>2, <3>3 DEF Owed
    <3>5. QED
      BY <3>1, <3>2, <3>4 DEF L
  <2>4. Attached(c)'
    BY <2>2, <2>3, <1>2 DEF Attached
  <2>5. QED
    BY <2>1, <2>4
<1>6. QED
  BY <1>3, <1>4, <1>5 DEF StreamInv

LEMMA ReadByOwner ==
  ASSUME StreamInv, NEW c \in Clients, reading[c] # NoConn
  PROVE  reading[c] \in DOMAIN conn /\ conn[reading[c]].owner = c
  BY DEF StreamInv, Attached

\* The thread of a connection ends, or its client goes away.
LEMMA ClosingStream ==
  ASSUME StreamInv, NEW k \in DOMAIN conn,
         conn' = [conn EXCEPT ![k].phase = "closing"], UNCHANGED <<hub, opened, client>>
  PROVE  StreamInv'
<1>1. \A j \in DOMAIN conn : conn[j] \in ConnStates /\ InOrder(conn[j], Len(sent))
  BY DEF StreamInv, HubTypeOK, Rings
<1>2. /\ DOMAIN conn' = DOMAIN conn
      /\ \A j \in DOMAIN conn : j # k => conn'[j] = conn[j]
      /\ conn'[k] = [conn[k] EXCEPT !.phase = "closing"]
  OBVIOUS
<1>3. /\ conn'[k] \in ConnStates /\ conn'[k].owner = conn[k].owner
      /\ conn'[k].subscribed = conn[k].subscribed
      /\ conn'[k].backlog = conn[k].backlog /\ conn'[k].channel = conn[k].channel
  BY <1>1, <1>2 DEF ConnStates
<1>4. InOrder(conn'[k], Len(sent))
  BY <1>1, <1>3 DEF InOrder
<1>5. reading' = reading /\ reading \in [Clients -> Conns \cup {NoConn}]
      /\ UNCHANGED <<hub, opened, cursor, got, since, evicted>>
  BY DEF client, StreamInv, HubTypeOK
<1>6. \A c \in Clients : reading[c] # NoConn => reading[c] \in DOMAIN conn
  BY ReadByOwner
<1>7. QED
  BY <1>1, <1>2, <1>3, <1>4, <1>5, <1>6, UnseenStream DEF QueueStands

LEMMA UnsubscribeStream ==
  ASSUME StreamInv, NEW k \in DOMAIN conn, Unsubscribe(k)
  PROVE  StreamInv'
<1>1. \A j \in DOMAIN conn : conn[j] \in ConnStates /\ InOrder(conn[j], Len(sent))
  BY DEF StreamInv, HubTypeOK, Rings
<1>2. /\ DOMAIN conn' = DOMAIN conn
      /\ \A j \in DOMAIN conn : j # k => conn'[j] = conn[j]
  BY DEF Unsubscribe
<1>3. /\ conn'[k] \in ConnStates
      /\ conn'[k].backlog = <<>> /\ conn'[k].channel = <<>>
      /\ ~conn'[k].subscribed /\ conn'[k].owner = conn[k].owner
  <2>1. conn'[k] = [conn[k] EXCEPT !.phase = "closed", !.subscribed = FALSE,
                                  !.backlog = <<>>, !.channel = <<>>]
    BY DEF Unsubscribe
  <2>2. <<>> \in Seq(Frames)
    OBVIOUS
  <2>3. QED
    BY <2>1, <2>2, <1>1 DEF ConnStates
<1>4. InOrder(conn'[k], Len(sent))
  BY <1>3 DEF InOrder, Ascending, UpTo
<1>5. reading' = reading /\ reading \in [Clients -> Conns \cup {NoConn}]
      /\ UNCHANGED <<hub, opened, cursor, got, since, evicted>>
  BY DEF Unsubscribe, client, StreamInv, HubTypeOK
<1>6. \A c \in Clients : reading[c] # NoConn => reading[c] \in DOMAIN conn
  BY ReadByOwner
<1>7. \A j \in DOMAIN conn : conn'[j].owner = conn[j].owner /\ QueueStands(conn'[j], conn[j])
  BY <1>2, <1>3 DEF QueueStands
<1>8. QED
  BY <1>1, <1>2, <1>3, <1>4, <1>5, <1>6, <1>7, UnseenStream

LEMMA LostStream ==
  ASSUME StreamInv, NEW c \in Clients, ConnectionLost(c)
  PROVE  StreamInv'
<1>1. \A j \in DOMAIN conn : conn[j] \in ConnStates /\ InOrder(conn[j], Len(sent))
  BY DEF StreamInv, HubTypeOK, Rings
<1>2. /\ reading' \in [Clients -> Conns \cup {NoConn}] /\ conn' = conn
      /\ \A d \in Clients : reading'[d] # NoConn => reading'[d] = reading[d]
      /\ UNCHANGED <<hub, opened, cursor, got, since, evicted>>
  BY DEF ConnectionLost, StreamInv, HubTypeOK
<1>3. QED
  BY <1>1, <1>2, UnseenStream DEF QueueStands

LEMMA WriteStream ==
  ASSUME StreamInv, NEW k \in DOMAIN conn, WriteFrame(k)
  PROVE  StreamInv'
<1>0. PICK c \in Clients : c = conn[k].owner
  BY DEF StreamInv, HubTypeOK, ConnStates
<1> DEFINE K == conn[k]
           f == NextFrame(K)
           R == Remaining(K)
           m == Len(sent)
<1>1. /\ HubTypeOK /\ Numbered /\ Rings
      /\ \A d \in Clients : Received(d) /\ Attached(d)
  BY DEF StreamInv
<1>2. /\ \A j \in DOMAIN conn : conn[j] \in ConnStates /\ InOrder(conn[j], m)
      /\ m \in Nat /\ K.owner = c /\ sent \in Seq(Frames) /\ DOMAIN sent = 1..m
      /\ reading \in [Clients -> Conns \cup {NoConn}]
  BY <1>0, <1>1 DEF HubTypeOK, Rings
<1>3. K.backlog # <<>> \/ K.channel # <<>>
  BY DEF WriteFrame
<1>4. /\ R \in ConnStates /\ f \in Frames
      /\ R.owner = c /\ R.subscribed = K.subscribed
      /\ InOrder(R, m) /\ f.seq \in Queued(K)
      /\ Queued(R) = Queued(K) \ {f.seq}
      /\ \A n \in Queued(R) : f.seq < n
  BY <1>2, <1>3, WriteLemma
<1>5. UNCHANGED <<hub, opened>>
  BY DEF WriteFrame
<1>6. CASE reading[c] # k
  <2>1. PICK W \in {R, [R EXCEPT !.phase = "closing"]} : conn' = [conn EXCEPT ![k] = W]
    BY <1>0, <1>6 DEF WriteFrame, Remaining
  <2>2. UNCHANGED client
    BY <1>0, <1>6 DEF WriteFrame
  <2>3. W \in ConnStates /\ W.backlog = R.backlog /\ W.channel = R.channel
    <3> HIDE DEF R
    <3>1. QED
      BY <2>1, <1>4 DEF ConnStates
  <2>4. InOrder(W, m)
    BY <2>3, <1>4 DEF InOrder
  <2>5. \A d \in Clients : reading[d] # NoConn => reading[d] \in DOMAIN conn /\ reading[d] # k
    BY <1>0, <1>6, ReadByOwner
  <2>6. reading' = reading /\ UNCHANGED <<hub, opened, cursor, got, since, evicted>>
    BY <2>2, <1>5 DEF client
  <2>7. /\ DOMAIN conn' = DOMAIN conn
        /\ \A j \in DOMAIN conn : conn'[j] \in ConnStates /\ InOrder(conn'[j], m)
        /\ \A j \in DOMAIN conn : j # k => conn'[j] = conn[j]
    BY <2>1, <2>3, <2>4, <1>2
  <2>8. QED
    BY <2>5, <2>6, <2>7, <1>2, UnseenStream DEF QueueStands
<1>7. CASE reading[c] = k
  <2>1. /\ cursor' = [cursor EXCEPT ![c] = f.seq]
        /\ got' = [got EXCEPT ![c] = Append(@, f.seq)]
        /\ reading' = reading /\ since' = since /\ evicted' = evicted
        /\ conn' = [conn EXCEPT ![k] = R]
    BY <1>0, <1>7 DEF WriteFrame, Receives, NextFrame, Remaining
  <2>2. /\ next' = next /\ gate' = gate /\ minted' = minted /\ replay' = replay
        /\ sent' = sent /\ opened' = opened
    BY <1>5 DEF hub
  <2>3. /\ DOMAIN conn' = DOMAIN conn /\ conn'[k] = R
        /\ \A j \in DOMAIN conn : j # k => conn'[j] = conn[j]
    BY <2>1
  <2>4. k # NoConn
    <3>1. k \in Conns
      BY <1>1, HubAssumption DEF HubTypeOK, Conns
    <3>2. QED
      BY <3>1, HubAssumption
  <2>5. Received(c) /\ Owed(K, c, Mark(c), sent, evicted[c])
    BY <1>1, <1>2, <1>7, <2>4 DEF Attached
  <2>6. Queued(K) \subseteq Seqs /\ \A n \in Queued(K) : n <= m
    BY <1>2, QueuedUpTo
  <2> HIDE DEF R, f, m, K
  <2>7. /\ f.seq \in Seqs /\ f.seq \in Nat /\ f.seq <= m /\ Mark(c) < f.seq
        /\ Seqs \subseteq Nat /\ f.seq # NoCursor
    BY <1>4, <2>5, <2>6, HubAssumption DEF Owed, Seqs
  <2>8. /\ cursor \in [Clients -> Seqs \cup {NoCursor}] /\ got \in [Clients -> Seq(Seqs)]
        /\ since \in [Clients -> 0..MaxEvents]
    BY <1>1 DEF HubTypeOK
  <2>9. /\ cursor' \in [Clients -> Seqs \cup {NoCursor}] /\ cursor'[c] = f.seq
        /\ got' \in [Clients -> Seq(Seqs)] /\ got'[c] = Append(got[c], f.seq)
        /\ \A d \in Clients : d # c => cursor'[d] = cursor[d] /\ got'[d] = got[d]
    BY <1>2, <2>1, <2>7, <2>8
  <2>10. \A j \in DOMAIN conn : conn'[j] \in ConnStates /\ InOrder(conn'[j], m)
    BY <1>2, <1>4, <2>3
  <2>11. HubTypeOK'
    BY <1>1, <2>1, <2>2, <2>3, <2>9, <2>10 DEF HubTypeOK
  <2>12. Numbered' /\ Rings'
    BY <1>1, <2>2, <2>3, <2>10 DEF Numbered, Rings, m
  <2>13. ASSUME NEW n \in 1..m, Mark(c) < n, VisibleTo(sent[n], Filter[c]), n # f.seq
         PROVE  \/ n \in evicted[c]
                \/ n \in Queued(R)
                \/ ~R.subscribed /\ \A p \in Queued(K) : p < n
    BY <1>2, <1>4, <2>5, <2>13 DEF Owed
  <2>14. Received(c)'
    <3> DEFINE g == got[c]
               h == Append(g, f.seq)
               l == Len(g)
    <3>1. g \in Seq(Seqs)
      BY <1>2, <2>8
    <3>2. /\ DOMAIN h = 1..(l + 1) /\ DOMAIN g = 1..l /\ l \in Nat
          /\ h[l + 1] = f.seq /\ \A i \in 1..l : h[i] = g[i] /\ g[i] \in Seqs
      BY <3>1, <2>7
    <3>3. \A i \in 1..l : g[i] < f.seq
      <4> SUFFICES ASSUME NEW i \in 1..l PROVE g[i] < f.seq
        OBVIOUS
      <4>1. cursor[c] # NoCursor
        BY <2>5, <3>2 DEF Received
      <4>2. g[i] <= cursor[c] /\ cursor[c] < f.seq /\ cursor[c] \in Nat
        BY <4>1, <1>2, <2>5, <2>7, <2>8, <3>2 DEF Received, Mark
      <4>3. g[i] \in Nat
        BY <2>7, <3>2
      <4>4. QED
        BY <4>2, <4>3, <2>7
    <3>4. \A i, j \in 1..l : i < j => g[i] < g[j]
      BY <2>5, <3>2 DEF Received
    <3> HIDE DEF g, h, l
    <3>5. \A i \in DOMAIN h : h[i] <= f.seq
      <4> SUFFICES ASSUME NEW i \in 1..(l + 1) PROVE h[i] <= f.seq
        BY <3>2
      <4>1. CASE i \in 1..l
        <5>1. h[i] = g[i] /\ g[i] \in Nat /\ g[i] < f.seq
          BY <4>1, <2>7, <3>2, <3>3
        <5>2. QED
          BY <5>1, <2>7
      <4>2. CASE i = l + 1
        BY <4>2, <2>7, <3>2
      <4>3. QED
        BY <4>1, <4>2, <3>2
    <3>6. \A i, j \in DOMAIN h : i < j => h[i] < h[j]
      <4> SUFFICES ASSUME NEW i \in 1..(l + 1), NEW j \in 1..(l + 1), i < j
                   PROVE  h[i] < h[j]
        BY <3>2
      <4>1. i \in 1..l
        BY <3>2
      <4>2. CASE j \in 1..l
        BY <4>1, <4>2, <3>2, <3>4
      <4>3. CASE j = l + 1
        BY <4>1, <4>3, <3>2, <3>3
      <4>4. QED
        BY <4>2, <4>3, <3>2
    <3>7. ToSet(g) \subseteq ToSet(h) /\ f.seq \in ToSet(h)
      <4>1. \A i \in DOMAIN g : i \in DOMAIN h /\ h[i] = g[i]
        BY <3>2
      <4>2. l + 1 \in DOMAIN h
        BY <3>2
      <4>3. QED
        BY <3>2, <4>1, <4>2 DEF ToSet
    <3>8. ASSUME NEW n \in 1..m, since[c] < n, n <= f.seq, VisibleTo(sent[n], Filter[c])
          PROVE  n \in ToSet(h) \cup evicted[c]
      <4>1. CASE n = f.seq
        BY <4>1, <3>7
      <4>2. CASE n # f.seq /\ Mark(c) < n
        <5>1. n \notin Queued(R)
          BY <1>4, <2>7, <3>8, <4>2
        <5>2. ~(f.seq < n)
          BY <2>7, <3>8
        <5>3. QED
          BY <1>4, <2>13, <3>8, <4>2, <5>1, <5>2
      <4>3. CASE ~(Mark(c) < n)
        <5>1. cursor[c] # NoCursor
          BY <3>8, <4>3 DEF Mark
        <5>2. cursor[c] \in Nat
          BY <5>1, <1>2, <2>7, <2>8
        <5>3. n <= cursor[c]
          BY <5>1, <5>2, <4>3 DEF Mark
        <5>4. n \in ToSet(g) \cup evicted[c]
          BY <5>1, <5>3, <3>8, <1>2, <2>5 DEF Received, g
        <5>5. QED
          BY <5>4, <3>7
      <4>4. QED
        BY <4>1, <4>2, <4>3
    <3>9. since[c] <= m
      BY <2>5 DEF Received, m
    <3>10. /\ got'[c] = h /\ cursor'[c] = f.seq /\ sent' = sent /\ since' = since
           /\ evicted' = evicted /\ DOMAIN sent = 1..m
      BY <1>2, <2>1, <2>2, <2>9 DEF h, g
    <3>11. QED
      BY <2>7, <3>5, <3>6, <3>8, <3>9, <3>10 DEF Received, m
  <2>15. Attached(c)'
    <3>1. \A n \in Queued(R) : f.seq < n
      BY <1>4
    <3>2. ASSUME NEW n \in 1..m, f.seq < n, VisibleTo(sent[n], Filter[c])
          PROVE  n \in evicted[c] \cup Queued(R)
                 \/ (~R.subscribed /\ \A p \in Queued(R) : p < n)
      <4>1. n # f.seq
        BY <2>7, <3>2
      <4>2. Mark(c) < n
        <5>1. Mark(c) \in Nat
          <6>1. since[c] \in Nat
            BY <2>8, HubAssumption
          <6>2. cursor[c] \in Seqs \cup {NoCursor}
            BY <2>8
          <6>3. QED
            BY <6>1, <6>2, <2>7 DEF Mark
        <5>2. QED
          BY <5>1, <2>7, <3>2
      <4>3. QED
        BY <4>1, <4>2, <3>2, <2>13, <1>4
    <3>3. Owed(R, c, f.seq, sent, evicted[c])
      BY <3>1, <3>2, <1>2 DEF Owed
    <3>4. Mark(c)' = f.seq
      BY <2>7, <2>9 DEF Mark
    <3>5. reading'[c] = k /\ conn'[k] = R /\ k \in DOMAIN conn' /\ R.owner = c
          /\ sent' = sent /\ evicted' = evicted
      BY <1>4, <1>7, <2>1, <2>2, <2>3
    <3>6. QED
      BY <3>3, <3>4, <3>5 DEF Attached
  <2>16. ASSUME NEW d \in Clients, d # c PROVE Received(d)' /\ Attached(d)'
    <3>1. Received(d) /\ Attached(d) /\ cursor'[d] = cursor[d] /\ got'[d] = got[d]
      BY <1>1, <2>9, <2>16
    <3>2. Received(d)'
      BY <3>1, <2>1, <2>2 DEF Received
    <3>3. Mark(d)' = Mark(d)
      BY <3>1, <2>1 DEF Mark
    <3>4. reading[d] # NoConn => reading[d] \in DOMAIN conn /\ conn'[reading[d]] = conn[reading[d]]
      BY <1>2, <2>3, <2>16, ReadByOwner DEF K
    <3>5. Attached(d)'
      BY <3>1, <3>3, <3>4, <2>1, <2>2, <2>3 DEF Attached
    <3>6. QED
      BY <3>2, <3>5
  <2>17. QED
    BY <2>11, <2>12, <2>14, <2>15, <2>16 DEF StreamInv
<1>8. QED
  BY <1>6, <1>7

LEMMA LastSentLemma ==
  ASSUME StreamInv
  PROVE  LastSent = Len(sent) /\ Len(sent) \in 0..MaxEvents
<1>1. sent \in Seq(Frames) /\ Len(sent) \in Nat
      /\ \A i \in DOMAIN sent : sent[i].seq = i
  BY DEF StreamInv, HubTypeOK, Numbered
<1>2. CASE sent = <<>>
  BY <1>2, HubAssumption DEF LastSent
<1>3. CASE sent # <<>>
  <2>1. Len(sent) # 0 /\ DOMAIN sent = 1..Len(sent)
    BY <1>1, <1>3, EmptySeq
  <2>2. Len(sent) \in DOMAIN sent
    BY <1>1, <2>1
  <2>3. sent[Len(sent)] \in Frames /\ sent[Len(sent)].seq = Len(sent)
    BY <1>1, <2>2
  <2>4. Len(sent) \in 1..MaxEvents
    BY <2>3 DEF Frames, Seqs
  <2>5. QED
    BY <1>3, <2>3, <2>4, HubAssumption DEF LastSent, Last
<1>4. QED
  BY <1>2, <1>3

\* What subscribe replays: news only, in order, and all the ring still has of it.
LEMMA BacklogLemma ==
  ASSUME StreamInv, NEW c \in Clients
  PROVE  /\ Backlog(c) \in Seq(Frames)
         /\ Ascending(Backlog(c)) /\ UpTo(Backlog(c), Len(sent))
         /\ cursor[c] = NoCursor => Backlog(c) = <<>>
         /\ cursor[c] # NoCursor =>
              /\ \A n \in SeqsIn(Backlog(c)) : cursor[c] < n
              /\ \A i \in DOMAIN replay :
                    cursor[c] < replay[i].seq /\ VisibleTo(replay[i], Filter[c]) =>
                        replay[i].seq \in SeqsIn(Backlog(c))
<1>1. /\ replay \in Seq(Frames) /\ Ascending(replay) /\ UpTo(replay, Len(sent))
      /\ cursor[c] \in Seqs \cup {NoCursor}
  BY DEF StreamInv, HubTypeOK, Rings
<1>2. CASE cursor[c] = NoCursor
  <2>1. Backlog(c) = <<>> /\ <<>> \in Seq(Frames)
    BY <1>2 DEF Backlog
  <2>2. QED
    BY <1>2, <2>1 DEF Ascending, UpTo
<1>3. CASE cursor[c] # NoCursor
  <2> DEFINE I == {i \in DOMAIN replay : /\ replay[i].seq > cursor[c]
                                         /\ VisibleTo(replay[i], Filter[c])}
             w == AtPositions(replay, I)
  <2>1. Backlog(c) = w
    BY <1>3 DEF Backlog
  <2>2. I \in SUBSET DOMAIN replay
    OBVIOUS
  <2>3. cursor[c] \in Nat
    BY <1>1, <1>3 DEF Seqs
  <2>4. \A i \in DOMAIN replay : replay[i].seq \in Nat
    BY <1>1, FrameSeqs
  <2>5. \A i \in I : cursor[c] < replay[i].seq
    BY <2>3, <2>4
  <2>6. \A i \in DOMAIN replay :
           cursor[c] < replay[i].seq /\ VisibleTo(replay[i], Filter[c]) => i \in I
    BY <2>3, <2>4
  <2> HIDE DEF I, w
  <2>7. /\ w \in Seq(Frames)
        /\ \A n \in DOMAIN w : \E i \in I : w[n] = replay[i]
        /\ \A i \in I : \E n \in DOMAIN w : w[n] = replay[i]
        /\ Ascending(w)
    BY <1>1, <2>2, AtPositionsLemma DEF w
  <2>8. UpTo(w, Len(sent))
    BY <1>1, <2>2, <2>7 DEF UpTo
  <2>9. \A n \in SeqsIn(w) : cursor[c] < n
    BY <2>5, <2>7 DEF SeqsIn
  <2>10. \A i \in I : replay[i].seq \in SeqsIn(w)
    BY <2>7 DEF SeqsIn
  <2>11. QED
    BY <1>3, <2>1, <2>6, <2>7, <2>8, <2>9, <2>10
<1>4. QED
  BY <1>2, <1>3

LEMMA SubscribeStream ==
  ASSUME StreamInv, NEW c \in Clients, Subscribe(c)
  PROVE  StreamInv'
<1> DEFINE k == opened + 1
           K == Connection(c, Backlog(c))
           m == Len(sent)
           missed == {f.seq : f \in {g \in SentTo(c) : g.seq > cursor[c]} \ ToSet(replay)}
<1>1. /\ HubTypeOK /\ Numbered /\ Rings
      /\ \A d \in Clients : Received(d) /\ Attached(d)
  BY DEF StreamInv
<1>2. /\ reading[c] = NoConn /\ opened < MaxConns /\ opened' = k
      /\ conn' = [j \in DOMAIN conn \cup {k} |-> IF j = k THEN K ELSE conn[j]]
      /\ reading' = [reading EXCEPT ![c] = k]
      /\ next' = next /\ gate' = gate /\ minted' = minted /\ replay' = replay
      /\ sent' = sent /\ cursor' = cursor /\ got' = got
  BY DEF Subscribe, hub
<1>4. \/ /\ cursor[c] = NoCursor
         /\ since' = [since EXCEPT ![c] = LastSent] /\ evicted' = evicted
      \/ /\ cursor[c] # NoCursor /\ since' = since
         /\ evicted' = [evicted EXCEPT ![c] = @ \cup missed]
  BY DEF Subscribe
<1>5. /\ opened \in 0..MaxConns /\ DOMAIN conn = 1..opened
      /\ \A j \in DOMAIN conn : conn[j] \in ConnStates /\ InOrder(conn[j], m)
      /\ reading \in [Clients -> Conns \cup {NoConn}]
      /\ cursor \in [Clients -> Seqs \cup {NoCursor}]
      /\ since \in [Clients -> 0..MaxEvents] /\ evicted \in [Clients -> SUBSET Seqs]
      /\ sent \in Seq(Frames) /\ m \in Nat /\ DOMAIN sent = 1..m
  BY <1>1 DEF HubTypeOK, Rings
<1>6. k \in Conns /\ k \notin DOMAIN conn /\ DOMAIN conn \cup {k} = 1..k /\ k # NoConn
      /\ k \in 0..MaxConns
  <2>1. k \in 1..MaxConns /\ k \notin 1..opened /\ (1..opened) \cup {k} = 1..k
    BY <1>2, <1>5, HubAssumption
  <2>2. QED
    BY <2>1, <1>5, HubAssumption DEF Conns
<1> HIDE DEF k
<1>7. /\ DOMAIN conn' = 1..k /\ conn'[k] = K
      /\ \A j \in DOMAIN conn : j \in DOMAIN conn' /\ conn'[j] = conn[j]
  BY <1>2, <1>6
<1>8. /\ Backlog(c) \in Seq(Frames)
      /\ Ascending(Backlog(c)) /\ UpTo(Backlog(c), m)
      /\ cursor[c] = NoCursor => Backlog(c) = <<>>
      /\ cursor[c] # NoCursor =>
           /\ \A n \in SeqsIn(Backlog(c)) : cursor[c] < n
           /\ \A i \in DOMAIN replay :
                 cursor[c] < replay[i].seq /\ VisibleTo(replay[i], Filter[c]) =>
                     replay[i].seq \in SeqsIn(Backlog(c))
  BY BacklogLemma
<1>9. /\ K \in ConnStates /\ K.owner = c /\ K.backlog = Backlog(c) /\ K.channel = <<>>
  <2>1. <<>> \in Seq(Frames)
    OBVIOUS
  <2>2. QED
    BY <2>1, <1>8 DEF Connection, ConnStates
<1>10. InOrder(K, m) /\ Queued(K) = SeqsIn(Backlog(c))
  <2>1. DOMAIN <<>> = {}
    OBVIOUS
  <2>2. QED
    BY <2>1, <1>8, <1>9 DEF InOrder, Ascending, UpTo, Queued, SeqsIn
<1>11. LastSent = m /\ m \in 0..MaxEvents
  BY LastSentLemma
<1> HIDE DEF K
<1>12. missed \subseteq Seqs
  <2>1. \A f \in SentTo(c) : f \in Frames
    BY <1>5 DEF SentTo, ToSet
  <2>2. QED
    BY <2>1, FrameSeqs
<1> HIDE DEF m, missed
<1>13. /\ since' \in [Clients -> 0..MaxEvents] /\ evicted' \in [Clients -> SUBSET Seqs]
       /\ \A d \in Clients : d # c => since'[d] = since[d] /\ evicted'[d] = evicted[d]
       /\ cursor[c] = NoCursor => since'[c] = m /\ evicted'[c] = evicted[c]
       /\ cursor[c] # NoCursor => since'[c] = since[c] /\ evicted'[c] = evicted[c] \cup missed
  BY <1>4, <1>5, <1>11, <1>12
<1>14. \A j \in DOMAIN conn' : conn'[j] \in ConnStates /\ InOrder(conn'[j], m)
  BY <1>5, <1>6, <1>7, <1>9, <1>10
<1>15. HubTypeOK'
  <2>1. reading' \in [Clients -> Conns \cup {NoConn}]
    BY <1>2, <1>5, <1>6
  <2>2. QED
    BY <1>1, <1>2, <1>6, <1>7, <1>13, <1>14, <2>1 DEF HubTypeOK
<1>16. Numbered' /\ Rings'
  BY <1>1, <1>2, <1>14 DEF Numbered, Rings, m
<1>17. Received(c)'
  BY <1>1, <1>2, <1>5, <1>13 DEF Received, m
<1>18. Attached(c)'
  <2>1. reading'[c] = k /\ k \in DOMAIN conn' /\ conn'[k] = K /\ K.owner = c
    BY <1>2, <1>5, <1>6, <1>7, <1>9
  <2>2. CASE cursor[c] = NoCursor
    <3>1. Mark(c)' = m
      BY <2>2, <1>2, <1>13 DEF Mark
    <3>2. Queued(K) = {}
      <4>1. DOMAIN <<>> = {}
        OBVIOUS
      <4>2. QED
        BY <4>1, <2>2, <1>8, <1>10 DEF SeqsIn
    <3>3. \A n \in 1..m : ~(m < n)
      BY <1>5
    <3>4. Owed(K, c, m, sent, evicted'[c])
      BY <3>2, <3>3, <1>5 DEF Owed
    <3>5. QED
      BY <2>1, <3>1, <3>4, <1>2 DEF Attached
  <2>3. CASE cursor[c] # NoCursor
    <3>1. Mark(c)' = cursor[c]
      BY <2>3, <1>2 DEF Mark
    <3>2. \A n \in Queued(K) : cursor[c] < n
      BY <2>3, <1>8, <1>10
    <3>3. ASSUME NEW n \in 1..m, cursor[c] < n, VisibleTo(sent[n], Filter[c])
          PROVE  n \in evicted'[c] \cup Queued(K)
      <4>1. sent[n] \in Frames /\ sent[n].seq = n /\ sent[n] \in SentTo(c)
        <5>1. n \in DOMAIN sent /\ sent[n] \in Frames
          BY <1>5
        <5>2. sent[n].seq = n
          BY <5>1, <1>1 DEF Numbered
        <5>3. sent[n] \in ToSet(sent)
          BY <5>1 DEF ToSet
        <5>4. QED
          BY <5>1, <5>2, <5>3, <3>3 DEF SentTo
      <4>2. CASE sent[n] \in ToSet(replay)
        <5>1. PICK i \in DOMAIN replay : replay[i] = sent[n]
          BY <4>2 DEF ToSet
        <5>2. QED
          BY <5>1, <4>1, <3>3, <2>3, <1>8, <1>10
      <4>3. CASE sent[n] \notin ToSet(replay)
        <5>1. sent[n].seq > cursor[c]
          BY <4>1, <3>3, <2>3, <1>5 DEF Seqs
        <5>2. n \in missed
          BY <5>1, <4>1, <4>3 DEF missed
        <5>3. QED
          BY <5>2, <2>3, <1>13
      <4>4. QED
        BY <4>2, <4>3
    <3>4. Owed(K, c, cursor[c], sent, evicted'[c])
      BY <3>2, <3>3, <1>5 DEF Owed
    <3>5. QED
      BY <2>1, <3>1, <3>4, <1>2 DEF Attached
  <2>4. QED
    BY <2>2, <2>3
<1>19. ASSUME NEW d \in Clients, d # c PROVE Received(d)' /\ Attached(d)'
  <2>1. Received(d) /\ Attached(d) /\ since'[d] = since[d] /\ evicted'[d] = evicted[d]
        /\ reading'[d] = reading[d]
    BY <1>1, <1>2, <1>5, <1>13, <1>19
  <2>2. Received(d)'
    BY <2>1, <1>2 DEF Received
  <2>3. Mark(d)' = Mark(d)
    BY <2>1, <1>2 DEF Mark
  <2>4. Attached(d)'
    BY <2>1, <2>3, <1>2, <1>7 DEF Attached
  <2>5. QED
    BY <2>2, <2>4
<1>20. QED
  BY <1>15, <1>16, <1>17, <1>18, <1>19 DEF StreamInv

LEMMA StepStream == StreamInv /\ [HubNext]_hubVars => StreamInv'
<1> SUFFICES ASSUME StreamInv, [HubNext]_hubVars PROVE StreamInv'
  OBVIOUS
<1>1. ASSUME NEW e \in Emitters, Broadcast(e) PROVE StreamInv'
  BY <1>1, BroadcastStream
<1>2. ASSUME NEW e \in Emitters, NEW s \in Scopes, Mint(e, s) PROVE StreamInv'
  BY <1>2, MintStream
<1>3. ASSUME NEW c \in Clients, Subscribe(c) PROVE StreamInv'
  BY <1>3, SubscribeStream
<1>4. ASSUME NEW c \in Clients, ConnectionLost(c) PROVE StreamInv'
  BY <1>4, LostStream
<1>5. ASSUME NEW k \in DOMAIN conn, Serve(k) PROVE StreamInv'
  <2>1. CASE WriteFrame(k)
    BY <2>1, WriteStream
  <2>2. CASE KeepAliveFails(k)
    BY <2>2, ClosingStream DEF KeepAliveFails
  <2>3. CASE ChannelEnds(k)
    BY <2>3, ClosingStream DEF ChannelEnds
  <2>4. CASE Unsubscribe(k)
    BY <2>4, UnsubscribeStream
  <2>5. QED
    BY <1>5, <2>1, <2>2, <2>3, <2>4 DEF Serve, Leave
<1>6. CASE UNCHANGED hubVars
  <2>1. /\ UNCHANGED <<hub, opened, cursor, got, since, evicted>>
        /\ conn' = conn /\ reading' = reading
    BY <1>6 DEF hubVars, client
  <2>2. /\ reading \in [Clients -> Conns \cup {NoConn}]
        /\ \A k \in DOMAIN conn : conn[k] \in ConnStates /\ InOrder(conn[k], Len(sent))
    BY DEF StreamInv, HubTypeOK, Rings
  <2>3. QED
    BY <2>1, <2>2, UnseenStream DEF QueueStands
<1>7. QED
  BY <1>1, <1>2, <1>3, <1>4, <1>5, <1>6 DEF HubNext

\* The daemon numbers and broadcasts in order, and every client is owed exactly
\* what its queue, its evictions and a dropped subscription account for.
THEOREM StreamCorrect == HubSpec => []StreamInv
<1>1. QED
  BY InitStream, StepStream, PTL DEF HubSpec

\* For any number of emitters, clients and connections and any capacities of the
\* ring and the channels, what a client receives strictly ascends.
THEOREM StreamAscendsHolds == HubSpec => []StreamAscends
<1>1. StreamInv => StreamAscends
  <2> SUFFICES ASSUME StreamInv, NEW c \in Clients,
                      NEW i \in DOMAIN got[c], NEW j \in DOMAIN got[c], i < j
               PROVE  got[c][i] < got[c][j]
    BY DEF StreamAscends
  <2>1. Received(c)
    BY DEF StreamInv
  <2>2. cursor[c] # NoCursor
    BY <2>1 DEF Received
  <2>3. QED
    BY <2>1, <2>2 DEF Received
<1>2. QED
  BY <1>1, StreamCorrect, PTL

\* For any of them, a client misses only what the ring had dropped when it came
\* back.
THEOREM OnlyEvictedMissedHolds == HubSpec => []OnlyEvictedMissed
<1>1. StreamInv => OnlyEvictedMissed
  <2> SUFFICES ASSUME StreamInv, NEW c \in Clients, cursor[c] # NoCursor,
                      NEW f \in SentTo(c), since[c] < f.seq, f.seq <= cursor[c]
               PROVE  f.seq \in ToSet(got[c]) \cup evicted[c]
    BY DEF OnlyEvictedMissed
  <2>1. Received(c) /\ Numbered
    BY DEF StreamInv
  <2>2. PICK n \in DOMAIN sent : sent[n] = f
    BY DEF SentTo, ToSet
  <2>3. f.seq = n /\ VisibleTo(sent[n], Filter[c])
    BY <2>1, <2>2 DEF Numbered, SentTo
  <2>4. QED
    BY <2>1, <2>3 DEF Received
<1>2. QED
  BY <1>1, StreamCorrect, PTL
=============================================================================
