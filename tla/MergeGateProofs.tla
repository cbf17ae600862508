--------------------------- MODULE MergeGateProofs ---------------------------
(***************************************************************************)
(* What a receipt and a cleared merge rest on, proved for every set of     *)
(* runs, jobs and verifications, every checks.json and every policy.       *)
(***************************************************************************)
EXTENDS MergeGate, SequenceTheorems, FiniteSetTheorems, WellFoundedInduction, TLAPS

Statuses == {"pass", "fail", "flaky", "error"}

\* What the attempts of a check with this status were like.
Attempted(s) ==
    CASE s = "pass" -> {"pass"}
      [] s = "fail" -> {"fail"}
      [] s = "flaky" -> {"pass", "fail"}
      [] s = "error" -> {"error"}

\* Statuses, check by check, are those of the attempts witnessed.
Agrees(statuses, witnessed) ==
    /\ statuses \in Seq(Statuses)
    /\ Len(witnessed) = Len(statuses)
    /\ \A i \in 1 .. Len(statuses) : witnessed[i] = Attempted(statuses[i])

\* The declarations selected are numbered from 1.
IsList(ds) == Len(ds) \in Nat /\ DOMAIN ds = 1 .. Len(ds)

\* A verification runs the checks of the kinds it was asked for, a CI job's those of
\* every kind.
Asked(v) ==
    /\ decls[v] = Selected(full[v], only[v])
    /\ v \in Jobs => only[v] = Kinds

\* The inputs and results of the verifications.
Verifications ==
    /\ request \in [Verifiers -> Requests \cup {<<>>}]
    /\ only \in [Verifiers -> {{}, Kinds} \cup Filters]
    /\ full \in [Verifiers -> Seq(Decls)]
    /\ DOMAIN decls = Verifiers
    /\ results \in [Verifiers -> Seq(Statuses)]
    /\ seen \in [Verifiers -> Seq(SUBSET Outcomes)]
    /\ \A v \in Verifiers : /\ IsList(decls[v])
                            /\ Agrees(results[v], seen[v])
                            /\ pc[v] # "checks" => results[v] = <<>>
                            /\ pc[v] = "checks" => Asked(v)

\* The sealing p is of the statement its checks, attempts and policy give.
Rests(p) ==
    /\ IsList(p.decls)
    /\ p.by \in Verifiers
    /\ p.stmt.run \in Runs
    /\ p.stmt.spec \in Seq(Decls)
    /\ p.decls = Selected(p.stmt.spec, p.only)
    /\ p.by \in Jobs => p.only = Kinds
    /\ \E statuses \in Seq(Statuses) :
          /\ Len(statuses) = Len(p.decls)
          /\ Agrees(statuses, p.seen)
          /\ p.stmt = BuildStatement(p.stmt.run, statuses, p.decls, p.stmt.spec,
                                     p.plane, TierOf(p.by), p.by)

SealedRests == \A p \in sealed : Rests(p)

\* Whatever was done to a receipt file, its signature is of a sealed statement.
SignedSealed ==
    \A f \in files :
       /\ f = [id |-> f.id, stmt |-> f.stmt, key |-> f.key, signs |-> f.signs]
       /\ \E p \in sealed : f.signs = p.stmt

\* A job posts nothing before it is done, and then decides nothing more.
DoneDecides ==
    /\ DOMAIN decision = Jobs
    /\ \A c \in posted : c.job \in Jobs /\ pc[c.job] = "done"

MergeInv ==
    /\ TypeOK /\ Verifications /\ SealedRests /\ SignedSealed /\ DoneDecides
    /\ ClearedIsEarned

-----------------------------------------------------------------------------
(* The verdict.                                                            *)

\* selected returns a list.
LEMMA SelectedIsList ==
    ASSUME NEW spec \in Seq(Decls), NEW kinds
    PROVE  IsList(Selected(spec, kinds))
<1> DEFINE n == Cardinality(Kept(spec, kinds))
<1>1. Kept(spec, kinds) \in SUBSET (1 .. Len(spec))
  BY DEF Kept
<1>2. n \in Nat
  <2>1. Len(spec) \in Nat
    OBVIOUS
  <2>2. IsFiniteSet(1 .. Len(spec))
    BY <2>1, FS_Interval
  <2>3. IsFiniteSet(Kept(spec, kinds))
    BY <1>1, <2>2, FS_Subset
  <2> QED
    BY <2>3, FS_CardinalityType
<1>3. Selected(spec, kinds) = [k \in 1 .. n |-> spec[Nth(Kept(spec, kinds), k)]]
  BY DEF Selected
<1>4. Len(Selected(spec, kinds)) = n
  BY <1>2, <1>3
<1> QED
  BY <1>2, <1>3, <1>4 DEF IsList

\* Every declaration of the kinds asked for has a place in the list, and the list has
\* no others.
LEMMA SelectedIsKept ==
    ASSUME NEW spec \in Seq(Decls), NEW kinds
    PROVE  Range(Selected(spec, kinds)) = {d \in Range(spec) : d.kind \in kinds}
<1> DEFINE K == Kept(spec, kinds)
           n == Cardinality(K)
           Below(i) == {j \in K : j <= i}
           rank == [i \in K |-> Cardinality(Below(i))]
<1>1. K \in SUBSET (1 .. Len(spec)) /\ Len(spec) \in Nat
  BY DEF Kept
<1>2. IsFiniteSet(K) /\ n \in Nat /\ IsFiniteSet(1 .. n) /\ Cardinality(1 .. n) = n
  <2>1. IsFiniteSet(1 .. Len(spec))
    BY <1>1, FS_Interval
  <2>2. IsFiniteSet(K)
    BY <1>1, <2>1, FS_Subset
  <2>3. n \in Nat
    BY <2>2, FS_CardinalityType
  <2>4. IsFiniteSet(1 .. n) /\ Cardinality(1 .. n) = n
    BY <2>3, FS_Interval
  <2> QED
    BY <2>2, <2>3, <2>4
<1>3. Selected(spec, kinds) = [k \in 1 .. n |-> spec[Nth(K, k)]]
  BY DEF Selected
<1>4. \A i \in K : i \in Int
  BY <1>1
<1> HIDE DEF K
<1>5. ASSUME NEW i \in K
      PROVE  /\ IsFiniteSet(Below(i)) /\ i \in Below(i)
             /\ Cardinality(Below(i)) \in 1 .. n
  <2>1. Below(i) \in SUBSET K /\ i \in Below(i)
    BY <1>4
  <2>2. IsFiniteSet(Below(i)) /\ Cardinality(Below(i)) <= n
    BY <1>2, <2>1, FS_Subset
  <2>3. Cardinality(Below(i)) \in Nat /\ Cardinality(Below(i)) # 0
    BY <2>1, <2>2, FS_CardinalityType, FS_EmptySet
  <2> QED
    BY <1>2, <2>1, <2>2, <2>3
<1>6. ASSUME NEW i \in K, NEW j \in K, i < j
      PROVE  Cardinality(Below(i)) # Cardinality(Below(j))
  <2>1. Below(i) \in SUBSET Below(j) /\ j \notin Below(i) /\ j \in Below(j)
    BY <1>4, <1>6
  <2>2. IsFiniteSet(Below(j))
    BY <1>5
  <2> HIDE DEF Below
  <2> QED
    BY <2>1, <2>2, FS_Subset
<1>7. ASSUME NEW i \in K, NEW j \in K, Cardinality(Below(i)) = Cardinality(Below(j))
      PROVE  i = j
  <2>1. i \in Int /\ j \in Int
    BY <1>4
  <2>2. ~(i < j) /\ ~(j < i)
    BY <1>6, <1>7
  <2> QED
    BY <2>1, <2>2
<1>8. rank \in Surjection(K, 1 .. n)
  <2>1. rank \in [K -> 1 .. n]
    BY <1>5
  <2>2. rank \in Injection(K, 1 .. n)
    BY <1>7, <2>1 DEF Injection, IsInjective
  <2> HIDE DEF rank
  <2> QED
    BY <1>2, <2>2, FS_Injection
<1>9. ASSUME NEW i \in K PROVE Nth(K, Cardinality(Below(i))) = i
  <2> DEFINE Ranked(m) == m \in K /\ Cardinality({j \in K : j <= m}) = Cardinality(Below(i))
  <2>1. Ranked(i)
    OBVIOUS
  <2>2. \A m : Ranked(m) => m = i
    BY <1>7
  <2> QED
    BY <2>1, <2>2 DEF Nth
<1>10. ASSUME NEW k \in 1 .. n PROVE Nth(K, k) \in K
  <2>1. PICK i \in K : rank[i] = k
    BY <1>8 DEF Surjection
  <2> QED
    BY <1>9, <2>1
<1>11. /\ \A k \in 1 .. n : Nth(K, k) \in K
       /\ \A i \in K : \E k \in 1 .. n : Nth(K, k) = i
  BY <1>5, <1>9, <1>10
<1>12. K = {i \in 1 .. Len(spec) : spec[i].kind \in kinds}
  BY DEF K, Kept
<1>13. Range(Selected(spec, kinds)) = {spec[i] : i \in K}
  <2> HIDE DEF n
  <2> QED
    BY <1>3, <1>11 DEF Range
<1>14. Range(spec) = {spec[i] : i \in 1 .. Len(spec)}
  BY DEF Range
<1> QED
  BY <1>12, <1>13, <1>14

\* fold_status gives the status of what the attempts were like (run_check makes at
\* least one attempt).
LEMMA StatusOfAttempts ==
    ASSUME NEW n \in Nat \ {0}, NEW o \in AttemptsOf(n)
    PROVE  LET status == FoldStatus(Tally(o))
           IN  /\ status \in Statuses
               /\ Witnessed(o) = Attempted(status)
               /\ Witnessed(o) \in SUBSET Outcomes
<1> DEFINE P == {i \in DOMAIN o : o[i] = "pass"}
           t == Tally(o)
<1>1. PICK k \in 0 .. n : o \in [1 .. k -> Outcomes]
  BY DEF AttemptsOf
<1>2. o \in Seq(Outcomes) /\ Len(o) = k /\ DOMAIN o = 1 .. k
  BY <1>1
<1>3. k # 0
  BY <1>2 DEF AttemptsOf
<1>4. /\ P \in SUBSET (1 .. k)
      /\ IsFiniteSet(1 .. k) /\ Cardinality(1 .. k) = k
      /\ IsFiniteSet(P) /\ Cardinality(P) \in Nat
  <2>1. P \in SUBSET (1 .. k)
    BY <1>2
  <2>2. IsFiniteSet(1 .. k) /\ Cardinality(1 .. k) = k
    BY <1>3, FS_Interval
  <2> QED
    BY <2>1, <2>2, FS_Subset, FS_CardinalityType
<1>5. (Cardinality(P) = k <=> P = 1 .. k) /\ (Cardinality(P) = 0 <=> P = {})
  BY <1>4, FS_Subset, FS_EmptySet
<1>6. t.attempts = k /\ t.passed = Cardinality(P) /\ (t.errored <=> "error" \in Range(o))
  BY <1>2 DEF Tally, Range
<1>7. Range(o) \in SUBSET Outcomes /\ Range(o) # {}
  BY <1>2, <1>3 DEF Range
<1>8. CASE "error" \in Range(o)
  <2>1. FoldStatus(t) = "error"
    BY <1>6, <1>8 DEF FoldStatus
  <2> QED
    BY <2>1, <1>8 DEF Witnessed, Attempted, Statuses, Outcomes
<1>9. CASE "error" \notin Range(o)
  <2>1. Witnessed(o) = Range(o) /\ Range(o) \in SUBSET {"pass", "fail"}
    BY <1>7, <1>9 DEF Witnessed, Outcomes
  <2>2. CASE P = 1 .. k
    <3>1. FoldStatus(t) = "pass"
      BY <1>3, <1>5, <1>6, <1>9, <2>2 DEF FoldStatus
    <3>2. Range(o) = {"pass"}
      BY <1>2, <1>3, <2>2 DEF Range
    <3> QED
      BY <2>1, <3>1, <3>2 DEF Attempted, Statuses, Outcomes
  <2>3. CASE P = {}
    <3>1. FoldStatus(t) = "fail"
      BY <1>3, <1>5, <1>6, <1>9, <2>3 DEF FoldStatus
    <3>2. "pass" \notin Range(o)
      BY <1>2, <2>3 DEF Range
    <3>3. Range(o) = {"fail"}
      BY <1>7, <2>1, <3>2
    <3> QED
      BY <2>1, <3>1, <3>3 DEF Attempted, Statuses, Outcomes
  <2>4. CASE P # {} /\ P # 1 .. k
    <3>1. FoldStatus(t) = "flaky"
      BY <1>3, <1>5, <1>6, <1>9, <2>4 DEF FoldStatus
    <3>2. "pass" \in Range(o)
      BY <1>2, <2>4 DEF Range
    <3>3. PICK i \in 1 .. k : o[i] # "pass"
      BY <1>2, <1>4, <2>4
    <3>4. o[i] \in Range(o)
      BY <1>2, <3>3 DEF Range
    <3>5. Range(o) = {"pass", "fail"}
      BY <2>1, <3>2, <3>3, <3>4
    <3> QED
      BY <2>1, <3>1, <3>5 DEF Attempted, Statuses, Outcomes
  <2> QED
    BY <2>2, <2>3, <2>4
<1> QED
  BY <1>8, <1>9

\* The number of attempts is never zero.
LEMMA RerunsPositive ==
    ASSUME NEW q \in Requests \cup {<<>>}
    PROVE  Reruns(q) \in Nat \ {0}
BY MergeGateAssumption DEF Reruns

\* aggregate_status against the attempts of the required checks.
LEMMA VerdictOfAttempts ==
    ASSUME NEW ds, IsList(ds), NEW statuses, NEW witnessed,
           Agrees(statuses, witnessed), Len(statuses) = Len(ds)
    PROVE  LET required == RequiredOf(ds)
               verdict == AggregateStatus(statuses, ds)
           IN  /\ verdict = "passed" <=>
                     (required # {} /\ \A i \in required : witnessed[i] = {"pass"})
               /\ verdict = "failed" <=>
                     /\ \A i \in required : witnessed[i] # {"error"}
                     /\ \E i \in required : witnessed[i] = {"fail"}
<1> DEFINE R == RequiredOf(ds)
           S == {statuses[i] : i \in R}
           verdict == AggregateStatus(statuses, ds)
<1>1. \A i \in R : /\ statuses[i] \in Statuses
                   /\ witnessed[i] = {"pass"} <=> statuses[i] = "pass"
                   /\ witnessed[i] = {"fail"} <=> statuses[i] = "fail"
                   /\ witnessed[i] = {"error"} <=> statuses[i] = "error"
  <2> SUFFICES ASSUME NEW i \in R
               PROVE  /\ statuses[i] \in Statuses
                      /\ witnessed[i] = {"pass"} <=> statuses[i] = "pass"
                      /\ witnessed[i] = {"fail"} <=> statuses[i] = "fail"
                      /\ witnessed[i] = {"error"} <=> statuses[i] = "error"
    OBVIOUS
  <2>1. i \in 1 .. Len(statuses)
    BY DEF RequiredOf, IsList
  <2>2. statuses[i] \in Statuses /\ witnessed[i] = Attempted(statuses[i])
    BY <2>1 DEF Agrees
  <2>3. /\ Attempted("pass") = {"pass"} /\ Attempted("fail") = {"fail"}
        /\ Attempted("flaky") = {"pass", "fail"} /\ Attempted("error") = {"error"}
    BY DEF Attempted
  <2>4. {"pass"} # {"fail"} /\ {"pass"} # {"error"} /\ {"fail"} # {"error"}
    OBVIOUS
  <2>5. {"pass", "fail"} \notin {{"pass"}, {"fail"}, {"error"}}
    <3>1. \A e : "pass" \in {e} /\ "fail" \in {e} => FALSE
      OBVIOUS
    <3>2. "pass" \in {"pass", "fail"} /\ "fail" \in {"pass", "fail"}
      OBVIOUS
    <3> QED
      BY <3>1, <3>2
  <2> QED
    BY <2>2, <2>3, <2>4, <2>5 DEF Statuses
<1>2. S \in SUBSET Statuses
  BY <1>1
<1>3. verdict = CASE S = {} -> "inconclusive"
                  [] "error" \in S -> "error"
                  [] "error" \notin S /\ "fail" \in S -> "failed"
                  [] S \cap {"error", "fail"} = {} /\ "flaky" \in S -> "inconclusive"
                  [] S = {"pass"} -> "passed"
  BY DEF AggregateStatus, RequiredOf
<1>4. (verdict = "passed" <=> S = {"pass"})
      /\ (verdict = "failed" <=> "error" \notin S /\ "fail" \in S)
  <2>1. CASE S = {}
    BY <1>3, <2>1
  <2>2. CASE "error" \in S
    BY <1>3, <2>2
  <2>3. CASE "error" \notin S /\ "fail" \in S
    BY <1>3, <2>3
  <2>4. CASE S # {} /\ S \cap {"error", "fail"} = {} /\ "flaky" \in S
    BY <1>3, <2>4
  <2>5. CASE S # {} /\ S \cap {"error", "fail", "flaky"} = {}
    <3>1. S = {"pass"}
      BY <1>2, <2>5 DEF Statuses
    <3> QED
      BY <1>3, <3>1
  <2> QED
    BY <2>1, <2>2, <2>3, <2>4, <2>5
<1>5. S = {"pass"} <=> R # {} /\ \A i \in R : statuses[i] = "pass"
  OBVIOUS
<1> HIDE DEF R, verdict
<1>6. "error" \notin S /\ "fail" \in S <=>
         (\A i \in R : statuses[i] # "error") /\ (\E i \in R : statuses[i] = "fail")
  OBVIOUS
<1> QED
  BY <1>1, <1>4, <1>5, <1>6 DEF R, verdict

-----------------------------------------------------------------------------
(* The decision over a statement.                                          *)

\* A list in which some check has the name n has a first one.
LEMMA FirstNamed ==
    ASSUME NEW s, NEW n, NEW m \in Nat, DOMAIN s.checks = 1 .. m,
           \E i \in DOMAIN s.checks : s.checks[i].name = n
    PROVE  \E i \in DOMAIN s.checks :
              s.checks[i].name = n /\ CheckNamed(s, n) = s.checks[i]
<1> DEFINE T == {i \in DOMAIN s.checks : s.checks[i].name = n}
<1>1. T \in SUBSET Nat /\ T # {}
  OBVIOUS
<1>2. PICK x \in T : \A y \in T : x <= y
  <2> DEFINE R == OpToRel(<, Nat)
  <2>1. IsWellFoundedOn(R, Nat)
    BY NatLessThanWellFounded
  <2>2. \A x, y \in Nat : x < y => <<x, y>> \in R
    BY DEF OpToRel
  <2> HIDE DEF R, T
  <2>3. PICK x \in T : \A y \in T : ~(<<y, x>> \in R)
    BY <1>1, <2>1, WFMin
  <2>4. ASSUME NEW y \in T PROVE x <= y
    <3>1. x \in Nat /\ y \in Nat /\ ~(y < x)
      BY <1>1, <2>2, <2>3
    <3> QED
      BY <3>1
  <2> QED
    BY <2>4
<1>4. \E i \in DOMAIN s.checks : /\ s.checks[i].name = n
                                 /\ \A j \in DOMAIN s.checks : s.checks[j].name = n => i <= j
  BY <1>2
<1> QED
  BY <1>4 DEF CheckNamed

\* What enforce_merge_bar has seen when it clears a statement.
LEMMA BarCleared ==
    ASSUME NEW s, EnforceMergeBar(s) = 0
    PROVE  /\ s.verdict = "passed"
           /\ s.bar.pin # <<>> => s.bar.pin[1] = s.spec
           /\ MissingChecks(s) = {} /\ FailedChecks(s) = {} /\ UnmetEvidence(s) = {}
<1>1. ~(s.bar.pin # <<>> /\ s.bar.pin[1] # s.spec)
  BY DEF EnforceMergeBar, Neutral
<1>2. GateOutcome(s) = 0
  BY <1>1 DEF EnforceMergeBar, GateOutcome
<1>3. MissingChecks(s) \cup FailedChecks(s) \cup UnmetEvidence(s) = {}
  BY <1>1, <1>2 DEF EnforceMergeBar
<1>4. s.verdict = "passed"
  BY <1>2 DEF GateOutcome
<1> QED
  BY <1>1, <1>3, <1>4

\* A sealed statement that the merge bar clears was earned by its run.
LEMMA ClearedEarned ==
    ASSUME NEW p \in sealed, Rests(p), EnforceMergeBar(p.stmt) = 0
    PROVE  Earned(p.stmt, p.stmt.run) /\ p.stmt.tier = TierOf(p.stmt.issued)
<1> DEFINE s == p.stmt
<1>1. PICK st \in Seq(Statuses) :
         /\ Len(st) = Len(p.decls)
         /\ Agrees(st, p.seen)
         /\ s = BuildStatement(s.run, st, p.decls, s.spec, p.plane, TierOf(p.by), p.by)
  BY DEF Rests
<1>2. /\ s.verdict = AggregateStatus(st, p.decls)
      /\ s.bar = p.plane /\ s.tier = TierOf(p.by) /\ s.issued = p.by
      /\ s.replay = (s.run \notin LegacyRuns)
  <2> HIDE DEF s
  <2> QED
    BY <1>1 DEF BuildStatement
<1>3. s.checks = [i \in DOMAIN p.decls |->
                    [name |-> p.decls[i].name, verdict |-> CheckStatusToVerdict(st[i])]]
  BY <1>1 DEF BuildStatement
<1>4. IsList(p.decls)
  BY DEF Rests
<1>5. /\ s.verdict = "passed"
      /\ s.bar.pin # <<>> => s.bar.pin[1] = s.spec
      /\ MissingChecks(s) = {} /\ FailedChecks(s) = {} /\ UnmetEvidence(s) = {}
  BY BarCleared
<1>6. RequiredOf(p.decls) # {} /\ \A i \in RequiredOf(p.decls) : p.seen[i] = {"pass"}
  <2>1. AggregateStatus(st, p.decls) = "passed" <=>
           RequiredOf(p.decls) # {} /\ \A i \in RequiredOf(p.decls) : p.seen[i] = {"pass"}
    BY <1>1, <1>4, VerdictOfAttempts
  <2> QED
    BY <1>2, <1>5, <2>1
<1>7. ASSUME NEW n \in p.plane.required
      PROVE  \E i \in DOMAIN p.decls : p.decls[i].name = n /\ p.seen[i] = {"pass"}
  <2>1. \E i \in DOMAIN s.checks : s.checks[i].name = n
    BY <1>2, <1>5 DEF MissingChecks
  <2>2. Len(p.decls) \in Nat /\ DOMAIN s.checks = 1 .. Len(p.decls)
    BY <1>3, <1>4 DEF IsList
  <2>3. PICK i \in DOMAIN s.checks :
           s.checks[i].name = n /\ CheckNamed(s, n) = s.checks[i]
    BY <2>1, <2>2, FirstNamed
  <2>4. CheckNamed(s, n).verdict = "passed"
    BY <1>2, <1>5 DEF FailedChecks
  <2>5. i \in DOMAIN p.decls /\ p.decls[i].name = n /\ CheckStatusToVerdict(st[i]) = "passed"
    BY <1>3, <2>3, <2>4
  <2>6. i \in 1 .. Len(st)
    BY <1>1, <2>2, <2>3
  <2>7. st[i] \in Statuses /\ p.seen[i] = Attempted(st[i])
    BY <1>1, <2>6 DEF Agrees
  <2>8. st[i] = "pass"
    BY <2>5, <2>7 DEF CheckStatusToVerdict, Statuses
  <2> QED
    BY <2>5, <2>7, <2>8 DEF Attempted
<1>8. "replay" \in p.plane.evidence => s.run \notin LegacyRuns
  <2> SUFFICES ASSUME "replay" \in p.plane.evidence PROVE s.run \notin LegacyRuns
    OBVIOUS
  <2>1. EvidenceSatisfied(s, "replay")
    BY <1>2, <1>5 DEF UnmetEvidence
  <2> QED
    BY <1>2, <2>1 DEF EvidenceSatisfied
<1>9. p.plane.pin # <<>> => p.plane.pin[1] = s.spec
  BY <1>2, <1>5
<1>10. s.tier = TierOf(s.issued)
  BY <1>2
<1>11. /\ p.by \in Jobs => p.only = Kinds
       /\ Range(p.decls) = {d \in Range(s.spec) : d.kind \in p.only}
  BY SelectedIsKept DEF Rests
<1>12. Due(s.spec, p.only) = {d \in Range(p.decls) : d.required}
  BY <1>11 DEF Due
<1>13. Due(s.spec, p.only) # {}
  BY <1>6, <1>12 DEF RequiredOf, Range
<1>14. ASSUME NEW d \in Due(s.spec, p.only) PROVE Passed(p, d)
  BY <1>6, <1>12 DEF RequiredOf, Passed
<1>15. Earned(s, s.run)
  BY <1>7, <1>8, <1>9, <1>11, <1>13, <1>14 DEF Earned, EarnedBy
<1> QED
  BY <1>10, <1>15
-----------------------------------------------------------------------------
(* The steps.                                                              *)

\* What was earned stays earned: nothing unseals a statement.
LEMMA EarnedKept ==
    ASSUME NEW s, NEW r, sealed \subseteq sealed', Earned(s, r)
    PROVE  Earned(s, r)'
BY DEF Earned

\* Clearance does not depend on anything but the decisions and the sealed statements.
LEMMA ClearedKept ==
    ASSUME ClearedIsEarned, sealed \subseteq sealed', UNCHANGED <<run, recorded, posted>>,
           UNCHANGED decision
    PROVE  ClearedIsEarned'
<1>1. ASSUME NEW j \in Jobs, decision'[j].exit = 0
      PROVE  /\ decision'[j].at = "decided"
             /\ Earned(decision[j].stmt, run[j])'
             /\ TierOf(decision'[j].stmt.issued) >= decision'[j].floor
             /\ decision'[j].pinned => decision'[j].key = HostKey
  <2>1. /\ decision[j].at = "decided"
        /\ Earned(decision[j].stmt, run[j])
        /\ TierOf(decision[j].stmt.issued) >= decision[j].floor
        /\ decision[j].pinned => decision[j].key = HostKey
    BY <1>1 DEF ClearedIsEarned
  <2> QED
    BY <2>1 DEF Earned
<1>2. ASSUME NEW e \in recorded', e.allow PROVE \E r \in Runs : Earned(e.of, r)'
  <2>1. PICK r \in Runs : Earned(e.of, r)
    BY <1>2 DEF ClearedIsEarned
  <2> QED
    BY <2>1, EarnedKept
<1>3. \A c \in posted' : c.success => decision'[c.job].exit = 0
  BY DEF ClearedIsEarned
<1> QED
  BY <1>1, <1>2, <1>3 DEF ClearedIsEarned

\* The rest of the invariant when only verifications move on.
LEMMA RestKept ==
    ASSUME MergeInv, UNCHANGED <<files, sealed, decision, run, recorded, posted>>,
           \A j \in Jobs : pc[j] = "done" => pc'[j] = "done"
    PROVE  SealedRests' /\ SignedSealed' /\ DoneDecides' /\ ClearedIsEarned'
<1>1. ClearedIsEarned'
  BY ClearedKept DEF MergeInv
<1> QED
  BY <1>1 DEF MergeInv, SealedRests, Rests, SignedSealed, DoneDecides

\* A verification that returns leaves nothing behind.
LEMMA ReturnKeeps ==
    ASSUME MergeInv, NEW v \in Verifiers, Return(v), pc[v] # "done",
           UNCHANGED <<checksFile, planeFile, edits, run>>
    PROVE  /\ TypeOK' /\ Verifications'
           /\ \A j \in Jobs : pc[j] = "done" => pc'[j] = "done"
<1> USE DEF MergeInv
<1>1. TypeOK'
  BY DEF TypeOK, Return
<1>2. IsList(<<>>) /\ Agrees(<<>>, <<>>)
  BY DEF IsList, Agrees
<1>3. /\ request' \in [Verifiers -> Requests \cup {<<>>}]
      /\ results' \in [Verifiers -> Seq(Statuses)]
      /\ seen' \in [Verifiers -> Seq(SUBSET Outcomes)]
      /\ only' \in [Verifiers -> {{}, Kinds} \cup Filters]
      /\ full' \in [Verifiers -> Seq(Decls)]
      /\ DOMAIN decls' = Verifiers
  BY DEF Verifications, Return
<1>4. ASSUME NEW w \in Verifiers
      PROVE  /\ IsList(decls'[w])
             /\ Agrees(results'[w], seen'[w])
             /\ pc'[w] # "checks" => results'[w] = <<>>
             /\ pc'[w] = "checks" => Asked(w)'
  <2>1. CASE w = v
    BY <1>2, <2>1 DEF Verifications, Return, TypeOK
  <2>2. CASE w # v
    BY <2>2 DEF Verifications, Return, TypeOK, Asked
  <2> QED
    BY <2>1, <2>2
<1>5. \A j \in Jobs : pc[j] = "done" => pc'[j] = "done"
  BY DEF Return, TypeOK, Verifiers
<1> QED
  BY <1>1, <1>3, <1>4, <1>5 DEF Verifications, IsList, Agrees

LEMMA InitInv == Init => MergeInv
<1> SUFFICES ASSUME Init PROVE MergeInv
  OBVIOUS
<1>1. TypeOK
  BY MergeGateAssumption DEF Init, TypeOK
<1>2. Verifications
  <2>1. IsList(<<>>) /\ Agrees(<<>>, <<>>)
    BY DEF IsList, Agrees
  <2> QED
    BY <2>1 DEF Init, Verifications
<1>3. SealedRests /\ SignedSealed /\ DoneDecides
  BY DEF Init, SealedRests, SignedSealed, DoneDecides
<1>4. ClearedIsEarned
  BY DEF Init, ClearedIsEarned, Undecided
<1> QED
  BY <1>1, <1>2, <1>3, <1>4 DEF MergeInv
\* Starting a verification.
LEMMA VerifyStartInv ==
    ASSUME MergeInv, NEW v \in Verifiers, VerifyStart(v)
    PROVE  MergeInv'
<1>1. PICK q \in Requests, kinds \in (IF v \in Jobs THEN {Kinds} ELSE Filters) :
         /\ pc' = [pc EXCEPT ![v] = "checks"]
         /\ request' = [request EXCEPT ![v] = q]
         /\ only' = [only EXCEPT ![v] = kinds]
         /\ full' = [full EXCEPT ![v] = checksFile.spec]
         /\ decls' = [decls EXCEPT ![v] = Selected(checksFile.spec, kinds)]
  BY DEF VerifyStart
<1>2. /\ pc[v] = "idle"
      /\ UNCHANGED <<shared, run, cancel, results, decision, seen, sealed>>
  BY DEF VerifyStart
<1>3. checksFile.spec \in Seq(Decls) /\ IsList(Selected(checksFile.spec, kinds))
  <2>1. checksFile.spec \in Seq(Decls)
    BY MergeGateAssumption DEF MergeInv, TypeOK
  <2> QED
    BY <2>1, SelectedIsList
<1>4. results[v] = <<>> /\ Len(results[v]) = 0
  BY <1>2 DEF MergeInv, Verifications
<1>5. TypeOK'
  <2>1. ASSUME NEW w \in Verifiers, pc'[w] = "checks"
        PROVE  Len(results'[w]) <= Len(decls'[w])
    <3>1. CASE w = v
      BY <1>1, <1>2, <1>3, <1>4, <3>1 DEF MergeInv, Verifications, IsList
    <3>2. CASE w # v
      BY <1>1, <1>2, <2>1, <3>2 DEF MergeInv, Verifications, TypeOK
    <3> QED
      BY <3>1, <3>2
  <2> QED
    BY <1>1, <1>2, <2>1 DEF MergeInv, TypeOK, shared
<1>6. Verifications'
  <2>1. /\ request' \in [Verifiers -> Requests \cup {<<>>}] /\ DOMAIN decls' = Verifiers
        /\ only' \in [Verifiers -> {{}, Kinds} \cup Filters]
        /\ full' \in [Verifiers -> Seq(Decls)]
    BY <1>1, <1>3 DEF MergeInv, Verifications
  <2>2. ASSUME NEW w \in Verifiers
        PROVE  /\ IsList(decls'[w]) /\ (pc'[w] # "checks" => results'[w] = <<>>)
               /\ pc'[w] = "checks" => Asked(w)'
    <3>1. CASE w = v
      BY <1>1, <1>3, <3>1 DEF MergeInv, Verifications, TypeOK, Asked
    <3>2. CASE w # v
      BY <1>1, <1>2, <3>2 DEF MergeInv, Verifications, TypeOK, Asked
    <3> QED
      BY <3>1, <3>2
  <2> QED
    BY <1>2, <2>1, <2>2 DEF MergeInv, Verifications, IsList, Agrees
<1>7. \A j \in Jobs : pc[j] = "done" => pc'[j] = "done"
  BY <1>1, <1>2 DEF MergeInv, TypeOK, Verifiers
<1> QED
  BY <1>2, <1>5, <1>6, <1>7, RestKept DEF MergeInv, shared

\* A verification that ends without a receipt.
LEMMA GivesUpInv ==
    ASSUME MergeInv, NEW v \in Verifiers, Return(v), pc[v] # "done",
           UNCHANGED <<shared, run, decision, sealed>>
    PROVE  MergeInv'
<1>1. TypeOK' /\ Verifications' /\ (\A j \in Jobs : pc[j] = "done" => pc'[j] = "done")
  BY ReturnKeeps DEF shared
<1> QED
  BY <1>1, RestKept DEF MergeInv, shared

\* run_check appends one status, that of the attempts it made.
LEMMA RunCheckInv ==
    ASSUME MergeInv, NEW v \in Verifiers, RunCheck(v)
    PROVE  MergeInv'
<1>1. PICK o \in AttemptsOf(Reruns(request[v])) :
         /\ results' = [results EXCEPT ![v] = Append(@, FoldStatus(Tally(o)))]
         /\ seen' = [seen EXCEPT ![v] = Append(@, Witnessed(o))]
  BY DEF RunCheck
<1>2. /\ pc[v] = "checks" /\ Len(results[v]) < Len(decls[v])
      /\ UNCHANGED <<shared, pc, run, request, only, full, decls, cancel, decision, sealed>>
  BY DEF RunCheck
<1> DEFINE status == FoldStatus(Tally(o))
<1>3. /\ status \in Statuses
      /\ Witnessed(o) = Attempted(status)
      /\ Witnessed(o) \in SUBSET Outcomes
  <2>1. Reruns(request[v]) \in Nat \ {0}
    BY RerunsPositive DEF MergeInv, Verifications
  <2> QED
    BY <2>1, StatusOfAttempts
<1> HIDE DEF status
<1>4. /\ results[v] \in Seq(Statuses) /\ seen[v] \in Seq(SUBSET Outcomes)
      /\ results'[v] = Append(results[v], status)
      /\ seen'[v] = Append(seen[v], Attempted(status))
      /\ \A w \in Verifiers \ {v} : results'[w] = results[w] /\ seen'[w] = seen[w]
  BY <1>1, <1>3 DEF MergeInv, Verifications, status
<1>5. Agrees(results'[v], seen'[v])
  <2>1. Agrees(results[v], seen[v])
    BY DEF MergeInv, Verifications
  <2>2. /\ results'[v] \in Seq(Statuses) /\ Len(results'[v]) = Len(results[v]) + 1
        /\ Len(seen'[v]) = Len(results'[v])
    BY <1>3, <1>4, <2>1 DEF Agrees
  <2>3. ASSUME NEW i \in 1 .. Len(results'[v])
        PROVE  seen'[v][i] = Attempted(results'[v][i])
    <3>1. CASE i = Len(results[v]) + 1
      BY <1>4, <2>1, <2>2, <3>1 DEF Agrees
    <3>2. CASE i # Len(results[v]) + 1
      BY <1>4, <2>1, <2>2, <3>2 DEF Agrees
    <3> QED
      BY <3>1, <3>2
  <2> QED
    BY <2>2, <2>3 DEF Agrees
<1>6. TypeOK'
  <2>1. ASSUME NEW w \in Verifiers, pc'[w] = "checks"
        PROVE  Len(results'[w]) <= Len(decls'[w])
    <3>1. CASE w = v
      <4>1. Len(results'[v]) = Len(results[v]) + 1 /\ Len(results[v]) \in Nat
        BY <1>3, <1>4
      <4>2. Len(decls[v]) \in Nat
        BY DEF MergeInv, Verifications, IsList
      <4> QED
        BY <1>2, <3>1, <4>1, <4>2
    <3>2. CASE w # v
      BY <1>2, <1>4, <2>1, <3>2 DEF MergeInv, TypeOK
    <3> QED
      BY <3>1, <3>2
  <2> QED
    BY <1>2, <2>1 DEF MergeInv, TypeOK, shared
<1>7. Verifications'
  <2>1. /\ results' \in [Verifiers -> Seq(Statuses)]
        /\ seen' \in [Verifiers -> Seq(SUBSET Outcomes)]
    BY <1>1, <1>3 DEF MergeInv, Verifications, status
  <2>2. ASSUME NEW w \in Verifiers
        PROVE  /\ Agrees(results'[w], seen'[w]) /\ (pc'[w] # "checks" => results'[w] = <<>>)
               /\ pc'[w] = "checks" => Asked(w)'
    <3>1. CASE w = v
      BY <1>2, <1>5, <3>1 DEF MergeInv, Verifications, Asked
    <3>2. CASE w # v
      BY <1>2, <1>4, <3>2 DEF MergeInv, Verifications, Asked
    <3> QED
      BY <3>1, <3>2
  <2> QED
    BY <1>2, <2>1, <2>2 DEF MergeInv, Verifications, IsList, Agrees
<1> QED
  BY <1>2, <1>6, <1>7, RestKept DEF MergeInv, shared

\* seal_and_attest signs the statement the results and the policy in force give.
LEMMA SealAndAttestInv ==
    ASSUME MergeInv, NEW v \in Verifiers, SealAndAttest(v)
    PROVE  MergeInv'
<1> DEFINE s == BuildStatement(run[v], results[v], decls[v], full[v], planeFile, TierOf(v), v)
           p == [stmt |-> s, by |-> v, only |-> only[v], decls |-> decls[v],
                 seen |-> seen[v], plane |-> planeFile]
<1>1. PICK key \in {HostKey, FreshKey} :
         /\ files' = {f \in files : f.id # SealReceipt(s, key).id} \cup {SealReceipt(s, key)}
         /\ sealed' = sealed \cup {p}
  BY DEF SealAndAttest
<1>2. /\ pc[v] = "checks" /\ Len(results[v]) = Len(decls[v])
      /\ Return(v)
      /\ UNCHANGED <<checksFile, planeFile, recorded, posted, edits, run, decision>>
  BY DEF SealAndAttest
<1>3. TypeOK' /\ Verifications' /\ (\A j \in Jobs : pc[j] = "done" => pc'[j] = "done")
  BY <1>2, ReturnKeeps
<1>4. Rests(p)
  <2>1. /\ p.stmt = s /\ p.decls = decls[v] /\ p.by = v /\ p.seen = seen[v]
        /\ p.plane = planeFile /\ p.only = only[v]
    OBVIOUS
  <2>2. s.run = run[v] /\ s.spec = full[v]
    BY DEF BuildStatement
  <2> HIDE DEF p, s
  <2>3. results[v] \in Seq(Statuses) /\ Agrees(results[v], seen[v]) /\ IsList(decls[v])
    BY DEF MergeInv, Verifications
  <2>4. p.stmt = BuildStatement(p.stmt.run, results[v], p.decls, p.stmt.spec,
                                p.plane, TierOf(p.by), p.by)
    BY <2>1, <2>2 DEF s
  <2>5. p.stmt.run \in Runs
    BY <2>1, <2>2 DEF MergeInv, TypeOK
  <2>6. /\ p.stmt.spec \in Seq(Decls) /\ p.decls = Selected(p.stmt.spec, p.only)
        /\ p.by \in Jobs => p.only = Kinds
    BY <1>2, <2>1, <2>2 DEF MergeInv, Verifications, Asked
  <2> QED
    BY <1>2, <2>1, <2>3, <2>4, <2>5, <2>6 DEF Rests
<1>5. p.stmt = s
  OBVIOUS
<1> HIDE DEF p, s
<1>6. SealedRests'
  BY <1>1, <1>4 DEF MergeInv, SealedRests, Rests
<1>7. SignedSealed'
  <2> SUFFICES ASSUME NEW f \in files'
               PROVE  /\ f = [id |-> f.id, stmt |-> f.stmt, key |-> f.key, signs |-> f.signs]
                      /\ \E e \in sealed' : f.signs = e.stmt
    BY DEF SignedSealed
  <2>1. CASE f \in files
    BY <1>1, <2>1 DEF MergeInv, SignedSealed
  <2>2. CASE f = SealReceipt(s, key)
    BY <1>1, <1>5, <2>2 DEF SealReceipt
  <2> QED
    BY <1>1, <2>1, <2>2
<1>8. DoneDecides'
  BY <1>2, <1>3 DEF MergeInv, DoneDecides
<1>9. ClearedIsEarned'
  BY <1>1, <1>2, ClearedKept DEF MergeInv
<1> QED
  BY <1>3, <1>6, <1>7, <1>8, <1>9 DEF MergeInv
\* The gate of a job moves nothing of a verification.
LEMMA GateKeeps ==
    ASSUME MergeInv, NEW j \in Jobs, pc[j] = "gate", pc' = [pc EXCEPT ![j] = "done"],
           UNCHANGED <<checksFile, planeFile, files, edits, run, request, only, full, decls,
                       cancel, results, seen, sealed>>
    PROVE  /\ TypeOK' /\ Verifications' /\ SealedRests' /\ SignedSealed'
           /\ pc'[j] = "done" /\ \A i \in Jobs : pc[i] = "done" => pc'[i] = "done"
<1>1. j \in Verifiers
  BY DEF Verifiers
<1>2. /\ pc'[j] = "done" /\ \A v \in Verifiers : v # j => pc'[v] = pc[v]
      /\ \A i \in Jobs : i \in Verifiers
  BY <1>1 DEF MergeInv, TypeOK, Verifiers
<1>3. TypeOK'
  BY <1>1, <1>2 DEF MergeInv, TypeOK
<1>4. Verifications'
  <2>1. \A v \in Verifiers : /\ pc'[v] # "checks" => results'[v] = <<>>
                             /\ pc'[v] = "checks" => Asked(v)
    BY <1>2 DEF MergeInv, Verifications
  <2> QED
    BY <1>2, <2>1 DEF MergeInv, Verifications, IsList, Agrees, Asked
<1>5. SealedRests' /\ SignedSealed'
  BY DEF MergeInv, SealedRests, Rests, SignedSealed
<1> QED
  BY <1>2, <1>3, <1>4, <1>5

\* A gate that decides nothing over a verdict: it exits with something else than 0.
LEMMA GateStopsInv ==
    ASSUME MergeInv, NEW j \in Jobs, pc[j] = "gate", pc' = [pc EXCEPT ![j] = "done"],
           NEW d, d.exit # 0, decision' = [decision EXCEPT ![j] = d],
           UNCHANGED <<shared, run, request, only, full, decls, cancel, results, seen, sealed>>
    PROVE  MergeInv'
<1>1. /\ TypeOK' /\ Verifications' /\ SealedRests' /\ SignedSealed'
      /\ pc'[j] = "done" /\ \A i \in Jobs : pc[i] = "done" => pc'[i] = "done"
  BY GateKeeps DEF shared
<1>2. DOMAIN decision = Jobs /\ \A c \in posted : c.job \in Jobs /\ pc[c.job] = "done"
  BY DEF MergeInv, DoneDecides
<1>3. /\ decision'[j] = d
      /\ \A i \in Jobs : i # j => decision'[i] = decision[i]
  BY <1>2
<1>4. DoneDecides'
  BY <1>1, <1>2 DEF DoneDecides, shared
<1>5. \A i \in Jobs : decision'[i].exit = 0 => i # j
  BY <1>3
<1>6. \A c \in posted' : c.success => decision'[c.job].exit = 0
  BY <1>2, <1>3 DEF MergeInv, ClearedIsEarned, shared
<1>7. ASSUME NEW i \in Jobs, decision'[i].exit = 0
      PROVE  /\ decision'[i].at = "decided"
             /\ Earned(decision'[i].stmt, run[i])
             /\ TierOf(decision'[i].stmt.issued) >= decision'[i].floor
             /\ decision'[i].pinned => decision'[i].key = HostKey
  BY <1>3, <1>5, <1>7 DEF MergeInv, ClearedIsEarned
<1>8. \A e \in recorded' : e.allow => \E r \in Runs : Earned(e.of, r)
  BY DEF MergeInv, ClearedIsEarned, shared
<1>9. ClearedIsEarned'
  <2>1. UNCHANGED <<run, sealed>>
    OBVIOUS
  <2>2. ASSUME NEW i \in Jobs, decision'[i].exit = 0
        PROVE  Earned(decision[i].stmt, run[i])'
    BY <1>7, <2>1, <2>2 DEF Earned
  <2>3. \A e \in recorded' : e.allow => \E r \in Runs : Earned(e.of, r)'
    BY <1>8, <2>1 DEF Earned
  <2> QED
    BY <1>6, <1>7, <2>2, <2>3 DEF ClearedIsEarned
<1> QED
  BY <1>1, <1>4, <1>9 DEF MergeInv

\* The gate clears only a statement that was sealed and earned, because the receipt
\* verifies.
LEMMA GateDecidesInv ==
    ASSUME MergeInv, NEW j \in Jobs, GateDecides(j)
    PROVE  MergeInv'
<1>1. PICK f \in LoadReceiptForRun(run[j]), pinned \in BOOLEAN, floor \in Floors,
           emit \in {"gh", "unknown"} :
         LET outcome == EnforceIsolationFloor(EnforceMergeBar(f.stmt), f.stmt, floor)
         IN  /\ Trusted(f, pinned)
             /\ recorded' \in {recorded, recorded \cup {[of |-> f.id, allow |-> outcome = 0]}}
             /\ posted' \in IF emit = "gh"
                            THEN {posted, posted \cup {[job |-> j, of |-> f.id, success |-> outcome = 0]}}
                            ELSE {posted}
             /\ decision' = [decision EXCEPT ![j] =
                               [at |-> "decided", exit |-> IF emit = "unknown" THEN 1 ELSE outcome,
                                outcome |-> outcome, of |-> f.id, stmt |-> f.stmt,
                                key |-> f.key, pinned |-> pinned, floor |-> floor]]
  BY DEF GateDecides
<1> DEFINE outcome == EnforceIsolationFloor(EnforceMergeBar(f.stmt), f.stmt, floor)
           exit == IF emit = "unknown" THEN 1 ELSE outcome
           record == [of |-> f.id, allow |-> outcome = 0]
           checkRun == [job |-> j, of |-> f.id, success |-> outcome = 0]
           d == [at |-> "decided", exit |-> exit, outcome |-> outcome, of |-> f.id,
                 stmt |-> f.stmt, key |-> f.key, pinned |-> pinned, floor |-> floor]
<1>2. /\ Trusted(f, pinned)
      /\ recorded' \in {recorded, recorded \cup {record}}
      /\ posted' \in IF emit = "gh" THEN {posted, posted \cup {checkRun}} ELSE {posted}
      /\ decision' = [decision EXCEPT ![j] = d]
  BY <1>1
<1>3. d.at = "decided" /\ d.exit = exit /\ d.stmt = f.stmt /\ d.key = f.key
      /\ d.pinned = pinned /\ d.floor = floor
  OBVIOUS
<1>4. /\ record.of = f.id /\ (record.allow <=> outcome = 0)
      /\ checkRun.job = j /\ (checkRun.success <=> outcome = 0)
  OBVIOUS
<1>5. /\ pc[j] = "gate" /\ pc' = [pc EXCEPT ![j] = "done"]
      /\ UNCHANGED <<checksFile, planeFile, files, edits, run, request, only, full, decls,
                     cancel, results, seen, sealed>>
  BY DEF GateDecides
<1>6. /\ TypeOK' /\ Verifications' /\ SealedRests' /\ SignedSealed'
      /\ pc'[j] = "done" /\ \A i \in Jobs : pc[i] = "done" => pc'[i] = "done"
  BY <1>5, GateKeeps
<1>7. f \in files /\ f.stmt.run = run[j] /\ run[j] \in Runs
  BY DEF LoadReceiptForRun, MergeInv, TypeOK, Verifiers
<1>8. f.id = f.stmt /\ f.signs = f.stmt /\ (pinned => f.key = HostKey)
  BY <1>2 DEF Trusted, VerifyReceipt
<1>9. outcome = 0 => EnforceMergeBar(f.stmt) = 0 /\ f.stmt.tier >= floor
  BY DEF EnforceIsolationFloor, Neutral
<1> HIDE DEF outcome, d, record, checkRun
<1>10. outcome = 0 => Earned(f.stmt, run[j]) /\ TierOf(f.stmt.issued) >= floor
  <2> SUFFICES ASSUME outcome = 0
               PROVE  Earned(f.stmt, run[j]) /\ TierOf(f.stmt.issued) >= floor
    OBVIOUS
  <2>1. PICK p \in sealed : f.signs = p.stmt
    BY <1>7 DEF MergeInv, SignedSealed
  <2>2. Rests(p) /\ EnforceMergeBar(p.stmt) = 0 /\ p.stmt = f.stmt
    BY <1>8, <1>9, <2>1 DEF MergeInv, SealedRests
  <2>3. Earned(p.stmt, p.stmt.run) /\ p.stmt.tier = TierOf(p.stmt.issued)
    BY <2>2, ClearedEarned
  <2> QED
    BY <1>7, <1>9, <2>2, <2>3
<1>11. DOMAIN decision = Jobs /\ \A c \in posted : c.job \in Jobs /\ pc[c.job] = "done"
  BY DEF MergeInv, DoneDecides
<1>12. decision'[j] = d /\ \A i \in Jobs : i # j => decision'[i] = decision[i]
  BY <1>2, <1>11
<1>13. \A c \in posted' : c \in posted \/ (c = checkRun /\ emit = "gh")
  BY <1>2
<1>14. DoneDecides'
  BY <1>2, <1>4, <1>6, <1>11, <1>13 DEF DoneDecides
<1>15. ASSUME NEW i \in Jobs, decision'[i].exit = 0
       PROVE  /\ decision'[i].at = "decided"
              /\ Earned(decision'[i].stmt, run[i])
              /\ TierOf(decision'[i].stmt.issued) >= decision'[i].floor
              /\ decision'[i].pinned => decision'[i].key = HostKey
  <2>1. CASE i = j
    <3>1. outcome = 0
      BY <1>3, <1>12, <1>15, <2>1
    <3> QED
      BY <1>3, <1>8, <1>10, <1>12, <2>1, <3>1
  <2>2. CASE i # j
    BY <1>12, <1>15, <2>2 DEF MergeInv, ClearedIsEarned
  <2> QED
    BY <2>1, <2>2
<1>16. ASSUME NEW e \in recorded', e.allow PROVE \E r \in Runs : Earned(e.of, r)
  <2>1. CASE e \in recorded
    BY <1>16, <2>1 DEF MergeInv, ClearedIsEarned
  <2>2. CASE e = record
    BY <1>4, <1>7, <1>8, <1>10, <1>16, <2>2
  <2> QED
    BY <1>2, <2>1, <2>2
<1>17. ASSUME NEW c \in posted', c.success PROVE decision'[c.job].exit = 0
  <2>1. CASE c \in posted
    <3>1. c.job \in Jobs /\ c.job # j
      BY <1>5, <1>11, <2>1
    <3> QED
      BY <1>12, <1>17, <2>1, <3>1 DEF MergeInv, ClearedIsEarned
  <2>2. CASE c = checkRun /\ emit = "gh"
    BY <1>3, <1>4, <1>12, <1>17, <2>2
  <2> QED
    BY <1>13, <2>1, <2>2
<1>18. ClearedIsEarned'
  BY <1>5, <1>15, <1>16, <1>17 DEF ClearedIsEarned, Earned
<1> QED
  BY <1>6, <1>14, <1>18 DEF MergeInv

\* Edits of the two configuration files change nothing that was read before.
LEMMA EditInv ==
    ASSUME MergeInv, EditChecks \/ EditPlane
    PROVE  MergeInv'
<1>1. /\ UNCHANGED <<files, recorded, posted, verifyVars, decision, seen, sealed>>
      /\ TypeOK'
  BY MergeGateAssumption DEF EditChecks, EditPlane, MergeInv, TypeOK, verifyVars
<1>2. Verifications'
  BY <1>1 DEF MergeInv, Verifications, verifyVars, IsList, Agrees, Asked
<1> QED
  BY <1>1, <1>2, RestKept DEF MergeInv, verifyVars

\* An altered receipt keeps the signature it had.
LEMMA AlterReceiptInv ==
    ASSUME MergeInv, AlterReceipt
    PROVE  MergeInv'
<1>1. /\ UNCHANGED <<checksFile, planeFile, recorded, posted, verifyVars, decision, seen, sealed>>
      /\ edits' = edits + 1 /\ edits < MaxEdits
  BY DEF AlterReceipt
<1>2. PICK f \in files : \E s : files' = (files \ {f}) \cup {[f EXCEPT !.stmt = s]}
  BY DEF AlterReceipt
<1>3. PICK s : files' = (files \ {f}) \cup {[f EXCEPT !.stmt = s]}
  BY <1>2
<1>4. TypeOK'
  BY <1>1, MergeGateAssumption DEF MergeInv, TypeOK, verifyVars
<1>5. Verifications'
  BY <1>1 DEF MergeInv, Verifications, verifyVars, IsList, Agrees, Asked
<1>6. SignedSealed'
  <2>1. f = [id |-> f.id, stmt |-> f.stmt, key |-> f.key, signs |-> f.signs]
    BY DEF MergeInv, SignedSealed
  <2>2. [f EXCEPT !.stmt = s] = [id |-> f.id, stmt |-> s, key |-> f.key, signs |-> f.signs]
    BY <2>1
  <2> DEFINE g == [id |-> f.id, stmt |-> s, key |-> f.key, signs |-> f.signs]
  <2>3. /\ g = [id |-> g.id, stmt |-> g.stmt, key |-> g.key, signs |-> g.signs]
        /\ g.signs = f.signs
    OBVIOUS
  <2> HIDE DEF g
  <2>4. files' = (files \ {f}) \cup {g}
    BY <1>3, <2>2 DEF g
  <2> QED
    BY <1>1, <2>3, <2>4 DEF MergeInv, SignedSealed
<1>7. SealedRests' /\ DoneDecides'
  BY <1>1 DEF MergeInv, SealedRests, Rests, DoneDecides, verifyVars
<1>8. ClearedIsEarned'
  BY <1>1, ClearedKept DEF MergeInv, verifyVars
<1> QED
  BY <1>4, <1>5, <1>6, <1>7, <1>8 DEF MergeInv

LEMMA NextInv == MergeInv /\ [Next]_vars => MergeInv'
<1> SUFFICES ASSUME MergeInv, [Next]_vars PROVE MergeInv'
  OBVIOUS
<1>1. ASSUME NEW v \in Verifiers, VerifyStartFails(v) PROVE MergeInv'
  BY <1>1, GivesUpInv DEF VerifyStartFails
<1>2. ASSUME NEW v \in Verifiers, VerifyCancelled(v) PROVE MergeInv'
  BY <1>2, GivesUpInv DEF VerifyCancelled
<1>3. ASSUME NEW v \in Verifiers, VerifyDies(v) PROVE MergeInv'
  BY <1>3, GivesUpInv DEF VerifyDies
<1>4. ASSUME NEW v \in Verifiers, CancelVerify(v) PROVE MergeInv'
  <2>1. UNCHANGED <<shared, pc, run, request, only, full, decls, results, decision, seen, sealed>>
    BY <1>4 DEF CancelVerify
  <2>2. TypeOK' /\ Verifications'
    BY <2>1 DEF MergeInv, TypeOK, Verifications, IsList, Agrees, Asked, shared
  <2> QED
    BY <2>1, <2>2, RestKept DEF MergeInv, shared
<1>5. ASSUME NEW j \in Jobs, GateWithoutReceipt(j) PROVE MergeInv'
  <2> DEFINE d == [at |-> "no_receipt", exit |-> 1]
  <2>1. d.exit # 0
    OBVIOUS
  <2> HIDE DEF d
  <2> QED
    BY <1>5, <2>1, GateStopsInv DEF GateWithoutReceipt, d
<1>6. ASSUME NEW j \in Jobs, GateRefuses(j) PROVE MergeInv'
  <2>1. PICK f : decision' = [decision EXCEPT ![j] = [at |-> "refused", exit |-> 2, of |-> f.id]]
    BY <1>6 DEF GateRefuses
  <2> DEFINE d == [at |-> "refused", exit |-> 2, of |-> f.id]
  <2>2. d.exit # 0
    OBVIOUS
  <2> HIDE DEF d
  <2>3. decision' = [decision EXCEPT ![j] = d]
    BY <2>1 DEF d
  <2> QED
    BY <1>6, <2>2, <2>3, GateStopsInv DEF GateRefuses
<1>7. ASSUME NEW j \in Jobs, GateBadFloor(j) PROVE MergeInv'
  <2> DEFINE d == [at |-> "bad_floor", exit |-> 1]
  <2>1. d.exit # 0
    OBVIOUS
  <2> HIDE DEF d
  <2> QED
    BY <1>7, <2>1, GateStopsInv DEF GateBadFloor, d
<1>8. CASE UNCHANGED vars
  <2>1. UNCHANGED <<shared, verifyVars, decision, seen, sealed>>
    BY <1>8 DEF vars
  <2>2. TypeOK' /\ Verifications'
    BY <2>1 DEF MergeInv, TypeOK, Verifications, IsList, Agrees, Asked, shared, verifyVars
  <2> QED
    BY <2>1, <2>2, RestKept DEF MergeInv, shared, verifyVars
<1> QED
  BY <1>1, <1>2, <1>3, <1>4, <1>5, <1>6, <1>7, <1>8, VerifyStartInv, RunCheckInv,
     SealAndAttestInv, GateDecidesInv, EditInv, AlterReceiptInv
     DEF Next, Step, Gate, Done

\* The inductive invariant of verifications, receipts and the gate.
THEOREM MergeCorrect == Spec => []MergeInv
<1> QED BY InitInv, NextInv, PTL DEF Spec

\* A signed verdict is the one the attempts of the required checks give
\* (run_check, fold_status, aggregate_status), for every checks.json, every number of
\* reruns and every cancel.
THEOREM VerdictMatchesHolds == Spec => []VerdictMatchesAttempts
<1>1. MergeInv => VerdictMatchesAttempts
  <2> SUFFICES ASSUME MergeInv, NEW p \in sealed
               PROVE  LET required == RequiredOf(p.decls)
                      IN  /\ p.stmt.verdict = "passed" <=>
                                (required # {} /\ \A i \in required : p.seen[i] = {"pass"})
                          /\ p.stmt.verdict = "failed" <=>
                                /\ \A i \in required : p.seen[i] # {"error"}
                                /\ \E i \in required : p.seen[i] = {"fail"}
    BY DEF VerdictMatchesAttempts
  <2>1. Rests(p)
    BY DEF MergeInv, SealedRests
  <2>2. PICK st \in Seq(Statuses) :
           /\ Len(st) = Len(p.decls) /\ Agrees(st, p.seen)
           /\ p.stmt = BuildStatement(p.stmt.run, st, p.decls, p.stmt.spec,
                                      p.plane, TierOf(p.by), p.by)
    BY <2>1 DEF Rests
  <2>3. p.stmt.verdict = AggregateStatus(st, p.decls)
    BY <2>2 DEF BuildStatement
  <2>4. IsList(p.decls)
    BY <2>1 DEF Rests
  <2>5. /\ AggregateStatus(st, p.decls) = "passed" <=>
              (/\ RequiredOf(p.decls) # {}
               /\ \A i \in RequiredOf(p.decls) : p.seen[i] = {"pass"})
        /\ AggregateStatus(st, p.decls) = "failed" <=>
              /\ \A i \in RequiredOf(p.decls) : p.seen[i] # {"error"}
              /\ \E i \in RequiredOf(p.decls) : p.seen[i] = {"fail"}
    BY <2>2, <2>4, VerdictOfAttempts
  <2> QED
    BY <2>3, <2>5
<1> QED BY <1>1, MergeCorrect, PTL

\* No merge is cleared that was not earned (gate, enforce_merge_bar,
\* enforce_isolation_floor, verify_gate_receipt), whatever is edited, cancelled or
\* dies in between.
THEOREM ClearedIsEarnedHolds == Spec => []ClearedIsEarned
<1>1. MergeInv => ClearedIsEarned
  BY DEF MergeInv
<1> QED BY <1>1, MergeCorrect, PTL
=============================================================================
