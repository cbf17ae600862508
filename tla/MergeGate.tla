------------------------------ MODULE MergeGate ------------------------------
(***************************************************************************)
(* Verification receipts and the merge gate.  A verification re-runs the   *)
(* checks of checks.json for a captured run, folds them into a verdict,    *)
(* seals the verdict with the policy's merge bar into a signed statement   *)
(* and stores it as a receipt.  The CI job (verify, then gate --run) takes *)
(* a stored receipt of the run and turns it into an exit code.  The daemon *)
(* (verify.start) issues receipts into the same directory.                 *)
(*                                                                         *)
(* Sources: verify_runner.rs, commands/verify.rs, commands/gate,           *)
(* receipt_store.rs, policy_plane.rs, nerve-core verdict.rs, receipt.rs    *)
(* and receipt_gate.rs.  A content address is the content itself.          *)
(***************************************************************************)
EXTENDS Integers, Sequences, FiniteSets, SequencesExt

CONSTANTS
    Runs,        \* captured runs
    LegacyRuns,  \* those captured without a root hash
    Jobs,        \* CI jobs: nerve verify, then nerve gate --run
    Daemons,     \* verify.start requests to the daemon
    Specs,       \* what checks.json can declare: sequences of declarations
    Planes,      \* what policy-plane.json can declare; empty when absent or broken
    Requests,    \* --reruns: <<>> when not given, <<n>> otherwise
    Filters,     \* the kinds "only" can select
    DaemonTier,  \* isolation tier of the daemon's launcher
    Floors,      \* --require-isolation; 0, the weakest tier, when not given
    MaxEdits     \* edits of checks.json, policy-plane.json and receipt files

Verifiers == Jobs \cup Daemons

VARIABLES
    checksFile,  \* checks.json: whether it parses, and its declarations
    planeFile,   \* policy-plane.json
    files,       \* the receipts directory
    recorded,    \* the gate's decisions in the evidence ledger
    posted,      \* check runs posted on the code host
    edits,       \* edits made
    pc, run, request, only, full, decls,   \* a verification: its step and inputs,
    cancel,                          \* its cancel token,
    results,                         \* and its results
    decision,    \* what a CI job's gate decided
    seen,        \* history: what the attempts of each check were like
    sealed       \* history: statements signed, with what they rest on

shared == <<checksFile, planeFile, files, recorded, posted, edits>>
verifyVars == <<pc, run, request, only, full, decls, cancel, results>>
vars == <<shared, verifyVars, decision, seen, sealed>>

Kinds == {"test", "lint"}
Decls == [name : STRING, kind : Kinds, command : STRING, required : BOOLEAN]
Outcomes == {"pass", "fail", "error"}
EmptyBar == [required |-> {}, pin |-> <<>>, evidence |-> {}]
Contained == 2
HostKey == "host"
FreshKey == "fresh"

\* What a bystander would say of the attempts of a check, for the history.
Witnessed(attempts) == IF "error" \in Range(attempts) THEN {"error"} ELSE Range(attempts)
Undecided == [at |-> "undecided", exit |-> -1]

ASSUME MergeGateAssumption ==
    /\ LegacyRuns \subseteq Runs
    /\ Jobs \cap Daemons = {}
    /\ Specs \subseteq Seq(Decls)
    /\ EmptyBar \in Planes
    /\ \A q \in Requests : q = <<>> \/ (Len(q) = 1 /\ q[1] \in Nat)
    /\ MaxEdits \in Nat
    /\ DaemonTier \in 0 .. 3 /\ Floors \subseteq 0 .. 3

-----------------------------------------------------------------------------
(* The verdict.                                                            *)

Reruns(q) == IF q = <<>> THEN 1 ELSE IF q[1] = 0 THEN 1 ELSE q[1]

\* The declarations of the kinds asked for, in the order of the file.
Kept(spec, kinds) == {i \in DOMAIN spec : spec[i].kind \in kinds}
Nth(S, k) == CHOOSE i \in S : Cardinality({j \in S : j <= i}) = k
Selected(spec, kinds) ==
    [k \in 1 .. Cardinality(Kept(spec, kinds)) |-> spec[Nth(Kept(spec, kinds), k)]]

\* What the attempts of one check can give: the loop breaks at an error.
AttemptsOf(n) ==
    {o \in UNION {[1 .. k -> Outcomes] : k \in 0 .. n} :
        /\ \A i \in DOMAIN o : o[i] = "error" => i = Len(o)
        /\ Len(o) < n => o # <<>> /\ Last(o) = "error"}

Tally(o) ==
    [attempts |-> Len(o),
     passed |-> Cardinality({i \in DOMAIN o : o[i] = "pass"}),
     errored |-> \E i \in DOMAIN o : o[i] = "error"]

\* MUTANT: one pass among the attempts is a pass.
FoldStatusAnyPass(t) ==
    CASE t.errored \/ t.attempts = 0 -> "error"
      [] ~t.errored /\ t.attempts # 0 /\ t.passed # 0 -> "pass"
      [] OTHER -> "fail"

FoldStatus(t) ==
    CASE t.errored \/ t.attempts = 0 -> "error"
      [] ~t.errored /\ t.attempts # 0 /\ t.passed = t.attempts -> "pass"
      [] ~t.errored /\ t.attempts # 0 /\ t.passed = 0 -> "fail"
      [] OTHER -> "flaky"

\* The aggregate verdict under the mask of required checks.
AggregateStatus(statuses, ds) ==
    LET required == {statuses[i] : i \in {j \in DOMAIN ds : ds[j].required}}
    IN  CASE required = {} -> "inconclusive"
          [] "error" \in required -> "error"
          [] "error" \notin required /\ "fail" \in required -> "failed"
          [] required \cap {"error", "fail"} = {} /\ "flaky" \in required -> "inconclusive"
          [] required = {"pass"} -> "passed"

CheckStatusToVerdict(s) ==
    CASE s = "pass" -> "passed"
      [] s = "fail" -> "failed"
      [] s = "flaky" -> "inconclusive"
      [] s = "error" -> "error"

-----------------------------------------------------------------------------
(* The receipt.                                                            *)

MergeBarEmpty(bar) == bar.required = {} /\ bar.pin = <<>>
SealedBarEmpty(bar) == MergeBarEmpty(bar) /\ bar.evidence = {}

\* A policy version is pinned only with a bar; no caller passes a ledger pointer.
\* The time of issue tells verifications apart.
BuildStatement(r, statuses, ds, spec, bar, tier, issued) ==
    [run |-> r,
     checks |-> [i \in DOMAIN ds |->
                   [name |-> ds[i].name, verdict |-> CheckStatusToVerdict(statuses[i])]],
     verdict |-> AggregateStatus(statuses, ds),
     issued |-> issued,
     spec |-> spec,
     bar |-> bar,
     policy |-> ~SealedBarEmpty(bar),
     ledgerRef |-> FALSE,
     replay |-> r \notin LegacyRuns,
     tier |-> tier]

SealReceipt(s, key) == [id |-> s, stmt |-> s, key |-> key, signs |-> s]

VerifyReceipt(f) == f.id = f.stmt /\ f.signs = f.stmt

\* What the gate requires before it looks at the verdict; pinned is --trusted-key.
Trusted(f, pinned) == VerifyReceipt(f) /\ (pinned => f.key = HostKey)

-----------------------------------------------------------------------------
(* The decision over a statement: an exit code.                            *)

GateOutcome(s) ==
    CASE s.verdict = "passed" -> 0
      [] s.verdict = "failed" -> 1
      [] OTHER -> 2

\* The first check of that name, as iter().find() returns it.
CheckNamed(s, n) ==
    s.checks[CHOOSE i \in DOMAIN s.checks :
               /\ s.checks[i].name = n
               /\ \A j \in DOMAIN s.checks : s.checks[j].name = n => i <= j]

MissingChecks(s) == {n \in s.bar.required : \A i \in DOMAIN s.checks : s.checks[i].name # n}

FailedChecks(s) == {n \in s.bar.required \ MissingChecks(s) : CheckNamed(s, n).verdict # "passed"}

EvidenceSatisfied(s, kind) ==
    \/ kind = "receipt"
    \/ kind = "replay" /\ s.replay
    \/ kind = "ledger" /\ s.ledgerRef
    \/ kind = "policy" /\ s.policy

UnmetEvidence(s) == {k \in s.bar.evidence : ~EvidenceSatisfied(s, k)}

Neutral(base) == IF base # 0 THEN base ELSE 2

\* MUTANT: the pin of the checkspec is not looked at.
EnforceMergeBarByName(s) ==
    LET base == GateOutcome(s)
    IN  IF base # 0 \/ MissingChecks(s) \cup FailedChecks(s) \cup UnmetEvidence(s) = {}
        THEN base
        ELSE IF FailedChecks(s) # {} THEN 1 ELSE 2

EnforceMergeBar(s) ==
    LET base == GateOutcome(s)
    IN  IF s.bar.pin # <<>> /\ s.bar.pin[1] # s.spec THEN Neutral(base)
        ELSE IF base # 0 \/ MissingChecks(s) \cup FailedChecks(s) \cup UnmetEvidence(s) = {}
             THEN base
             ELSE IF FailedChecks(s) # {} THEN 1 ELSE 2

EnforceIsolationFloor(base, s, floor) == IF s.tier >= floor THEN base ELSE Neutral(base)

-----------------------------------------------------------------------------
(* A verification.                                                         *)

Init ==
    /\ checksFile \in [readable : BOOLEAN, spec : Specs]
    /\ planeFile \in Planes
    /\ files = {} /\ recorded = {} /\ posted = {}
    /\ edits = 0
    /\ pc = [v \in Verifiers |-> "idle"]
    /\ run \in [Verifiers -> Runs]
    /\ request = [v \in Verifiers |-> <<>>]
    /\ only = [v \in Verifiers |-> {}]
    /\ full = [v \in Verifiers |-> <<>>]
    /\ decls = [v \in Verifiers |-> <<>>]
    /\ cancel = [v \in Verifiers |-> FALSE]
    /\ results = [v \in Verifiers |-> <<>>]
    /\ decision = [j \in Jobs |-> Undecided]
    /\ seen = [v \in Verifiers |-> <<>>]
    /\ sealed = {}

\* Whatever a verification ends in, the CI job goes on to its gate step; what the
\* verification held is gone.
Return(v) ==
    /\ pc' = [pc EXCEPT ![v] = IF v \in Jobs THEN "gate" ELSE "done"]
    /\ request' = [request EXCEPT ![v] = <<>>]
    /\ only' = [only EXCEPT ![v] = {}]
    /\ full' = [full EXCEPT ![v] = <<>>]
    /\ decls' = [decls EXCEPT ![v] = <<>>]
    /\ cancel' = [cancel EXCEPT ![v] = FALSE]
    /\ results' = [results EXCEPT ![v] = <<>>]
    /\ seen' = [seen EXCEPT ![v] = <<>>]

\* handle_verify_start loads checks.json; a file that does not parse is an error.
\* nerve verify selects every check.
VerifyStart(v) ==
    /\ pc[v] = "idle"
    /\ checksFile.readable
    /\ \E q \in Requests, kinds \in (IF v \in Jobs THEN {Kinds} ELSE Filters) :
          /\ pc' = [pc EXCEPT ![v] = "checks"]
          /\ request' = [request EXCEPT ![v] = q]
          /\ only' = [only EXCEPT ![v] = kinds]
          /\ full' = [full EXCEPT ![v] = checksFile.spec]
          /\ decls' = [decls EXCEPT ![v] = Selected(checksFile.spec, kinds)]
    /\ UNCHANGED <<shared, run, cancel, results, decision, seen, sealed>>

VerifyStartFails(v) ==
    /\ pc[v] = "idle"
    /\ ~checksFile.readable
    /\ Return(v)
    /\ UNCHANGED <<shared, run, decision, sealed>>

\* The token is looked at before each check.
VerifyCancelled(v) ==
    /\ pc[v] = "checks" /\ cancel[v]
    /\ Len(results[v]) < Len(decls[v])
    /\ Return(v)
    /\ UNCHANGED <<shared, run, decision, sealed>>

\* run_check: a timeout and a child killed by a cancel are failures, a launch that
\* fails and a cancel between two attempts are errors.
RunCheck(v) ==
    /\ pc[v] = "checks" /\ Len(results[v]) < Len(decls[v])
    /\ \E attempts \in AttemptsOf(Reruns(request[v])) :
          /\ cancel[v] => attempts = <<"error">>
          /\ results' = [results EXCEPT ![v] = Append(@, FoldStatus(Tally(attempts)))]
          /\ seen' = [seen EXCEPT ![v] = Append(@, Witnessed(attempts))]
    /\ UNCHANGED <<shared, pc, run, request, only, full, decls, cancel, decision, sealed>>

TierOf(v) == IF v \in Jobs THEN Contained ELSE DaemonTier

\* build_verdict and seal_and_attest: the bar in force is read, the statement signed
\* and the receipt stored.  Signing falls back to a key of its own when the host's
\* key cannot be read.
SealAndAttest(v) ==
    /\ pc[v] = "checks" /\ Len(results[v]) = Len(decls[v])
    /\ \E key \in {HostKey, FreshKey} :
          LET s == BuildStatement(run[v], results[v], decls[v], full[v], planeFile, TierOf(v), v)
              receipt == SealReceipt(s, key)
          IN  /\ files' = {f \in files : f.id # receipt.id} \cup {receipt}
              /\ sealed' = sealed \cup {[stmt |-> s, by |-> v, only |-> only[v],
                                         decls |-> decls[v], seen |-> seen[v],
                                         plane |-> planeFile]}
    /\ Return(v)
    /\ UNCHANGED <<checksFile, planeFile, recorded, posted, edits, run, decision>>

\* job.cancel on verify.start; nerve verify has a token that is never cancelled.
CancelVerify(v) ==
    /\ v \in Daemons /\ pc[v] = "checks" /\ ~cancel[v]
    /\ cancel' = [cancel EXCEPT ![v] = TRUE]
    /\ UNCHANGED <<shared, pc, run, request, only, full, decls, results, decision, seen,
                   sealed>>

\* The verifying process dies, or its receipt cannot be written.
VerifyDies(v) ==
    /\ pc[v] = "checks"
    /\ Return(v)
    /\ UNCHANGED <<shared, run, decision, sealed>>

-----------------------------------------------------------------------------
(* The gate step of a CI job.                                              *)

\* load_receipt_for_run takes the first receipt of the run in directory order.
LoadReceiptForRun(r) == {f \in files : f.stmt.run = r}

GateWithoutReceipt(j) ==
    /\ pc[j] = "gate"
    /\ LoadReceiptForRun(run[j]) = {}
    /\ decision' = [decision EXCEPT ![j] = [at |-> "no_receipt", exit |-> 1]]
    /\ pc' = [pc EXCEPT ![j] = "done"]
    /\ UNCHANGED <<shared, run, request, only, full, decls, cancel, results, seen, sealed>>

\* A --require-isolation that names no tier is an error, before the receipt is verified.
GateBadFloor(j) ==
    /\ pc[j] = "gate"
    /\ LoadReceiptForRun(run[j]) # {}
    /\ decision' = [decision EXCEPT ![j] = [at |-> "bad_floor", exit |-> 1]]
    /\ pc' = [pc EXCEPT ![j] = "done"]
    /\ UNCHANGED <<shared, run, request, only, full, decls, cancel, results, seen, sealed>>

\* A receipt that does not verify: no verdict trusted, nothing recorded or posted.
GateRefuses(j) ==
    /\ pc[j] = "gate"
    /\ \E f \in LoadReceiptForRun(run[j]), pinned \in BOOLEAN :
          /\ ~Trusted(f, pinned)
          /\ decision' = [decision EXCEPT ![j] = [at |-> "refused", exit |-> 2, of |-> f.id]]
    /\ pc' = [pc EXCEPT ![j] = "done"]
    /\ UNCHANGED <<shared, run, request, only, full, decls, cancel, results, seen, sealed>>

\* The outcome is recorded in the ledger and posted, both best effort (--emit none is
\* a post that does not happen); an --emit that is not known is an error after the
\* record.
GateDecides(j) ==
    /\ pc[j] = "gate"
    /\ \E f \in LoadReceiptForRun(run[j]), pinned \in BOOLEAN, floor \in Floors,
         emit \in {"gh", "unknown"} :
          LET outcome == EnforceIsolationFloor(EnforceMergeBar(f.stmt), f.stmt, floor)
              record == [of |-> f.id, allow |-> outcome = 0]
              checkRun == [job |-> j, of |-> f.id, success |-> outcome = 0]
          IN  /\ Trusted(f, pinned)
              /\ recorded' \in {recorded, recorded \cup {record}}
              /\ posted' \in IF emit = "gh" THEN {posted, posted \cup {checkRun}} ELSE {posted}
              /\ decision' = [decision EXCEPT ![j] =
                                [at |-> "decided", exit |-> IF emit = "unknown" THEN 1 ELSE outcome,
                                 outcome |-> outcome, of |-> f.id, stmt |-> f.stmt,
                                 key |-> f.key, pinned |-> pinned, floor |-> floor]]
    /\ pc' = [pc EXCEPT ![j] = "done"]
    /\ UNCHANGED <<checksFile, planeFile, files, edits, run, request, only, full, decls,
                   cancel, results, seen, sealed>>

-----------------------------------------------------------------------------
(* Others who write these files.                                           *)

EditChecks ==
    /\ edits < MaxEdits
    /\ checksFile' \in [readable : BOOLEAN, spec : Specs] \ {checksFile}
    /\ edits' = edits + 1
    /\ UNCHANGED <<planeFile, files, recorded, posted, verifyVars, decision, seen, sealed>>

EditPlane ==
    /\ edits < MaxEdits
    /\ planeFile' \in Planes \ {planeFile}
    /\ edits' = edits + 1
    /\ UNCHANGED <<checksFile, files, recorded, posted, verifyVars, decision, seen, sealed>>

\* A stored statement changes after it was signed.
AlterReceipt ==
    /\ edits < MaxEdits
    /\ \E f \in files :
          \E s \in {[f.stmt EXCEPT !.verdict = "passed"], [f.stmt EXCEPT !.bar = EmptyBar]} \ {f.stmt} :
             files' = (files \ {f}) \cup {[f EXCEPT !.stmt = s]}
    /\ edits' = edits + 1
    /\ UNCHANGED <<checksFile, planeFile, recorded, posted, verifyVars, decision, seen, sealed>>

Step(v) ==
    \/ VerifyStart(v) \/ VerifyStartFails(v) \/ VerifyCancelled(v) \/ RunCheck(v)
    \/ SealAndAttest(v)

Gate(j) ==
    GateWithoutReceipt(j) \/ GateBadFloor(j) \/ GateRefuses(j) \/ GateDecides(j)

Done == (\A v \in Verifiers : pc[v] = "done") /\ UNCHANGED vars

Next ==
    \/ \E v \in Verifiers : Step(v) \/ CancelVerify(v) \/ VerifyDies(v)
    \/ \E j \in Jobs : Gate(j)
    \/ EditChecks \/ EditPlane \/ AlterReceipt
    \/ Done

Spec == Init /\ [][Next]_vars
-----------------------------------------------------------------------------
(* Properties.                                                             *)

RequiredOf(ds) == {i \in DOMAIN ds : ds[i].required}

\* Every variable keeps its type, and a verification has at most one result per check.
TypeOK ==
    /\ checksFile \in [readable : BOOLEAN, spec : Specs]
    /\ planeFile \in Planes
    /\ edits \in 0 .. MaxEdits
    /\ pc \in [Verifiers -> {"idle", "checks", "gate", "done"}]
    /\ run \in [Verifiers -> Runs]
    /\ \A v \in Verifiers : pc[v] = "checks" => Len(results[v]) <= Len(decls[v])

\* A signed verdict is the one the attempts themselves give: passed exactly when
\* some selected check is required and every attempt of every required one passed,
\* failed exactly when all of them could be run and one of them never passed
\* (run_check, fold_status, aggregate_status, through cancels and retries).
VerdictMatchesAttempts ==
    \A p \in sealed :
       LET required == RequiredOf(p.decls)
       IN  /\ p.stmt.verdict = "passed" <=>
                 (required # {} /\ \A i \in required : p.seen[i] = {"pass"})
           /\ p.stmt.verdict = "failed" <=>
                 /\ \A i \in required : p.seen[i] # {"error"}
                 /\ \E i \in required : p.seen[i] = {"fail"}

\* The required checks of a checks.json among those of the kinds asked for.
Due(spec, kinds) == {d \in Range(spec) : d.required /\ d.kind \in kinds}

\* The check declared by d was run in the sealed verification p, and passed each attempt.
Passed(p, d) ==
    /\ d \in Range(p.decls)
    /\ \A k \in DOMAIN p.decls : p.decls[k] = d => p.seen[k] = {"pass"}

\* The sealed verification p earned the statement s for the run r: every required check
\* of checks.json, and every check of the policy in force at the sealing, was run in it
\* and passed each attempt, with the checkspec that policy pins, of a run that replays if
\* the policy asks for it.  A verify.start that asks for some kinds only may leave out
\* the required checks of the others; a CI job's verification leaves out none.
EarnedBy(p, s, r) ==
    /\ p.stmt = s /\ s.run = r
    /\ p.by \in Jobs => p.only = Kinds
    /\ Due(s.spec, p.only) # {} /\ \A d \in Due(s.spec, p.only) : Passed(p, d)
    /\ \A n \in p.plane.required :
          \E i \in DOMAIN p.decls : p.decls[i].name = n /\ p.seen[i] = {"pass"}
    /\ p.plane.pin # <<>> => p.plane.pin[1] = s.spec
    /\ "replay" \in p.plane.evidence => r \notin LegacyRuns

Earned(s, r) == \E p \in sealed : EarnedBy(p, s, r)

\* Clearance is earned, wherever it shows: a gate that exits with 0 has decided, over a
\* receipt that verifies, and does so for a statement earned by the very run it was
\* asked for, in the isolation asked for and, under a trusted key, signed by it; with
\* no receipt, a floor that names no tier or a receipt it refuses it exits with
\* something else.  An "allow" in the ledger is of an earned statement, and a success
\* posted to the code host is of a job that exits with 0.  Cancels, deaths and edits of
\* checks.json, of the policy or of a stored receipt change none of this (gate,
\* load_gate_receipt, enforce_merge_bar, enforce_isolation_floor,
\* verify_gate_receipt).  Which verification of the run it was is left open: the job's
\* own, an earlier one, or one of the daemon over some kinds of check.
ClearedIsEarned ==
    /\ \A j \in Jobs :
          decision[j].exit = 0 =>
             /\ decision[j].at = "decided"
             /\ Earned(decision[j].stmt, run[j])
             /\ TierOf(decision[j].stmt.issued) >= decision[j].floor
             /\ decision[j].pinned => decision[j].key = HostKey
    /\ \A e \in recorded : e.allow => \E r \in Runs : Earned(e.of, r)
    /\ \A c \in posted : c.success => decision[c.job].exit = 0
=============================================================================
