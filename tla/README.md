# nerve-workstation: verification project

TLA+ models of the concurrent core of nerve-workstation: the daemon that runs jobs, agent
sessions, delegated coding agents and multi-agent flows on plain operating-system threads, and
the files it leaves behind. Every module is translated from the Rust source; `PROJECT.json`
maps each definition to the lines it stands for.

Check a run with `tlc -config <cfg> <MC module>`, a proof module with `tlapm <module>.tla`.

## 1. The system

A client (TUI, GUI, CLI, WeChat bridge, MCP) sends `RuntimeCommand`s to the daemon over stdio or
HTTP and receives `RuntimeEvent`s. Long commands become jobs, each with a thread and a
`CancelToken`. There is no async runtime: everything below is threads, mutexes (always taken
through `lock_recover`, so a panic does not poison them), channels and files.

| Component | State | Operations | Talks to |
|---|---|---|---|
| Job manager `jobs/mod.rs` | table of records, order of finished ones, id counter | start, run, cancel, get, list | every executor below; emits `job_*` |
| Live delegated sessions `jobs/delegate`, `delegate_live.rs`, `delegate_store.rs` | registry of handles; per handle a driver slot, close flag, captured turns; a record file | start and park, steer, close, cancel | child process, ledger (sealed run), job manager |
| Delegate drivers `delegate_session*.rs` | child process, pipes, session id | turn, interrupt, close | the agent's CLI |
| Session manager `session_manager/mod.rs`, `session.rs` | live sessions: status, history, token, posture; transcript files | start, resume, message, interrupt, close, set_mode, set_model | orchestrator, approval hub |
| Approval hub `session_manager/approval.rs` | pending prompts, decision memories | request, respond | gate of sessions, flows, delegates |
| Flow driver `flow_job`, `flow/driver` | dispatched nodes, results, live registry, tokens | start, waves, fold, steer, close, finish | workers, budget, leases, steer registry |
| Flow strategies `flow/engine*` | none (pure in the results) | step, fold | flow driver |
| Fleet budget, steer registry, leases `worker/*.rs` | spent totals, slot count, frontier session, lease mutex | debit, acquire, release, register, steer, close_all | flow driver, steer jobs |
| Flow store and replay | definition, record and tape files | persist at node boundaries, replay | flow driver |
| Evidence ledger `ledger_store.rs`, `nerve-core/ledger.rs` | `log.ndjson`, `head.json` | append, query, verify | sealing, verdicts, receipts, policy |
| Run, receipt, outcome, verdict stores | a file per id | write, load, list | verify runner, sealing |
| Verification and merge gate `verify_runner.rs`, `commands/gate`, `nerve-core/receipt*.rs` | checks.json, receipts | verify, seal, gate, record, post | policy plane, receipt store, ledger, code host |
| Event hub `daemon/router.rs`, `daemon/http` | event counter, replay ring, subscribers | emit, subscribe, broadcast, stream | clients |
| Agent orchestrator `nerve-agent/orchestrator`, `provider/retry.rs`, `cost.rs` | conversation, limits, spent cost | turn loop, tool dispatch, retry, overflow recovery, compaction | model vendors, policy gate, session manager |
| Credentials `nerve-agent/auth`, `auth/manager.rs` | credential file, process mutex, lock files | lease, refresh, login, logout | token endpoints, other processes |
| Policy gate `policy/` | rules of two files, mode | decide, enforce | approval hub |
| Policy plane `policy_plane.rs` | policy-plane.json | resolve, sealed bar, record | receipts, ledger |
| Catalog and edits `nerve-fs` | snapshot and codemap caches, warmer slot, generation; the workspace | snapshot, symbols, warm, invalidate, batches | tools |
| Code intelligence `nerve-core` | immutable snapshots, selections | search, codemap, navigation | tools |
| WeChat bridge `nerve-wechat`, `wechat/` | bridge slot, cursor, ring of seen ids | login, start, stop, status, poll loop | gateway, one-shot delegates |
| Front ends, desktop shell | UI state | render, forward | daemon |

What is hard in it: locks are released between reading a state and acting on it (a turn runs for
minutes between `begin_turn` and `finish_turn`; events are emitted outside the lock; a steer is
checked against the budget and then waits for a session); records are read, changed and written
back as files with no lock; a cancel, a close, a deadline or a dying child meets a thread at any
of its steps; a parked thread is woken only if somebody remembers to; panics unwind past the code
that was to clean up. `PROJECT.json` lists these points under `hazards`, each at its line.

What makes each part correct:

- job manager: one owner per record, every job ends with one announced outcome, bounded history;
- delegated sessions: no child left behind, a complete sealed tape, close and cancel end the job;
- sessions: one turn at a time, interrupt reaches it, finished turns stay in the transcript;
- approvals: nothing runs or is remembered without an operator, no prompt hangs a turn;
- ledger: the log verifies unless it was tampered with, acknowledged evidence can be read;
- flows: exact worker slots, the budget brake, no leaked session, exclusive writers, an end;
- event hub: an ascending stream in which only evicted events are missing;
- policy gate: a project hardens what the operator allows and never relaxes it;
- agent runs: well-formed requests, bounded work after a cancel, sound compaction, an end;
- credentials: a refresh token is spent once, what is stored is usable, no lock is kept;
- catalog and edits: no stale answer from a cache, a failed batch is undone or says where not;
- WeChat bridge: a message is handled once, none is passed over, stop ends the thread;
- merge gate: a verdict is what the attempts say, and what clears a change was earned.

## 2. Modules

| Module | Models | Run |
|---|---|---|
| `JobService` | what the job manager promises: the abstract specification | `jobs` |
| `JobManager`, `JobManagerProofs` | job table | `jobs` |
| `DelegateLive`, `DelegateLiveProofs` | one live delegated session and everybody who reaches it | `delegate` |
| `SessionManager`, `SessionManagerProofs` | one session id through its lives | `session` |
| `ApprovalHub` | gated calls that share a memory | `gate` |
| `ToolGate`, `ToolGateProofs` | the policy gate, composed with `ApprovalHub` | `gate` |
| `EvidenceLedger`, `EvidenceLedgerProofs` | appends as system calls | `ledger` |
| `FlowDriver`, `FlowDriverProofs` | one flow with its waves, budget, steers, leases | `flow` |
| `EventHub`, proved in `ToolGateProofs` | numbering, replay ring, subscribers, reconnecting clients | `events` |
| `Credentials`, `CredentialsProofs` | one provider's credential, threads of several processes | `credentials` |
| `FsCatalog`, proved in `SessionManagerProofs` | caches of a workspace, warmers, and batches of edits | `fscatalog` |
| `AgentRun`, proved in `DelegateLiveProofs` | runs of the agent loop on one session history | `agent` |
| `WechatBridge`, proved in `JobManagerProofs` | the bridge host and its threads | `wechat` |
| `MergeGate`, `MergeGateProofs` | verifications, receipts and the gate of a CI job | `merge_gate` |

Each has an `MC` module that instantiates it. Definitions marked `MUTANT` are the plausible bugs
each property is tried against; no specification uses them. Four proof modules prove two
components side by side; the second one's specification has a prefix of its own (`HubSpec`,
`CatalogSpec`, `AgentSpec`, `WechatSpec`), and the two share nothing.

### JobManager

`start` draws a number, resolves the id (client-chosen or `job-<n>`, and a client may choose that
form too), inserts the record under the lock, emits `started` and spawns; the thread emits
progress, executes (a panic becomes a failure), files the outcome and prunes in one lock region,
and emits the outcome after it. `cancel` marks and trips under the lock and emits after it. Every
lock region and every emission is an action of its own. An executor may never return, as that of a
live `delegate.start` parks until somebody closes it; everything else the thread does is fair. One
`start` call is one *run*; `records` maps an id to the run whose record it holds, so a reused id
is a different run.

`JobService` is the same component seen by a client: a job is accepted under an id no listed job
has, goes through its life, is cancelled at most once while it lives, ends with one outcome and
announces it, and the listing holds live jobs and a bounded number of finished ones. It knows no
threads, locks, tokens or order list. `JobManager` implements it (`ImplementsService`): a run's
phase and record map to the job's life, the events it emitted to what was announced. Every lock
region or emission is one abstract step or a stutter.

### DelegateLive

The start thread goes through turn 1, the token check, the record update, `session_idle`,
registration, parking, shutdown, sealing; steers look the handle up, take the session mutex for a
whole turn, and tear the session down on a fatal turn; close and cancel set the flag; the child
may exit at any moment. `persist_delegate_update` is `LoadRecord`, `OpenTemp`, `WriteTemp`,
`RenameTemp`, taken by the start thread, by close and by each steer with no lock and one temporary
name; `fd` says under which name the file is now that an updater has opened, so that a rename moves
whatever is there and a late write lands where it would on a real file system. The driver may have
captured no id, the record may not be where the updates look for it, and any call may fail, which
ends the update in silence (`UpdateFails`).

### SessionManager

One session id: started once, resumed by each of `Resumes` at any moment, also while it is live or
while a turn of an earlier life still runs. A resume reads the file and then inserts, replacing
what is there (`ResumeLoad`, `ResumeInsert`). A turn copies the history at `begin_turn` and comes
back to whatever session then bears the id. `Persist` writes the transcript, or there is no store
or the write fails before or after truncating the file, which nobody is told. Every insertion is a
*life*; `replaced`, `strayed`, `outdated` and `unsaved` are history variables that say which lives
were overwritten by a resume, finished on by a turn of an earlier one, or filled from a file that
was not the last history, and whether the last write failed. The properties name exactly these as
what the code does not guard against.

### ApprovalHub

Each call's thread: look in the memory, file the request, announce it, check token and deadline,
poll, remove the key, record. `respond` may come from any client at any time; the clock and the
turn's token are actions. Calls share one memory, as the node threads of a flow do.

### ToolGate

`PolicyToolBox::call` in front of the hub: the project's denials and the operator's rules in one
list, then tier against mode, then the operator's default. A call whose action is Ask takes the
hub's steps (`Consult` is `ApprovalHub!CallStep`) and its verdict is enforced; others never reach
the hub. The policy files and the mode are chosen at the start, as the code reads them once. The
filter of the project's rules keeps their places and makes those that do not deny match no tool,
which decides the same and lets the layered list be reasoned about by position.

### EvidenceLedger

An append is a head read, a log append in two writes (`writeln!` on an unbuffered file), and
open/truncate, write and rename of the one temporary file. `inode` distinguishes a file from its
name, so that writing to a file that was renamed meanwhile is what it is on a real file system. A
hash is the chain of identities it commits to (no collisions). A crash ends every append under
way between two of these steps; a single write is all or nothing. The history variable `mishaps`
records whether appends have overlapped, a crash or a failed write has happened, so that each
property says exactly under which of them it holds. `read_all` is given position by position: its
k-th record is the k-th line of the log that parses.

### FlowDriver

The engine thread steps the interpreter (Pipeline or Parallel), admits a wave node by node, fans
out in chunks, joins, and folds in declared order: debit, session placement, slot release, result.
Node threads resolve their worker, then take the lease if they write, run and end in every way the
code distinguishes; once resolved, a waiting writer has no step but to get the lease. Steer jobs
check the budget, take a slot, resolve the frontier, wait for its lock, run, debit. Tokens are the
job's, the registry's and the combined one the watcher thread trips. One dimension of the budget
is kept, that of USD: a turn reports a cost, zero among them and then free, or `NoUsage`. The
token dimension is the same but that a total of zero counts as no report.

### EventHub

An emitting thread takes the gate and draws a number (`Mint`), broadcasts in one region of the
hub's mutex, and opens the gate. A connection is its own thread: subscribe, backlog, channel,
keep-alive, unsubscribe. Unsubscribing is all that happens at its end: the client is not told. A
client keeps the id of the last event it saw, loses its connection at
any moment and comes back with it (in the Last-Event-ID header; a fresh connection's `?last_seq=`
cursor is left out). The filter of `subscribe` is given by position, so that the
backlog can be reasoned about: its n-th frame is the n-th of those in the ring that pass
(`AtPositions`). `since`, `got`, `evicted` and `sent` are history variables that
say what the client was entitled to.

### Credentials

A credential is the login that made it and how often it was refreshed. A lease looks at what is
stored, then takes the process mutex and the lock file, loads again, refreshes and saves under the
store's lock; login and logout take the store's lock only. The endpoint (external) accepts a
refresh token once. Answers get lost, saves fail, lock files time out, processes die.

### FsCatalog

One `ProviderCache` and one workspace. A query of symbols is the signature, the read, the
generation check and the insertion as separate steps; a scan goes path by path under the
snapshot's lock and then starts a warmer, which goes through the same steps for every entry. The
editor applies a batch by system calls, each of which may fail, with backups, rollback and the
three steps of `invalidate`. A file is its content and its modification time. `unannounced` is a
history variable: whether a failed batch, which does not invalidate, may have made the cached
snapshot or the scan under way wrong.

### AgentRun

The loop as a program counter: look at the token, pre-empt an overflow, send with retries, look at
the token again, take the response into the history (`AcceptResponse`), then either dispatch its
calls one by one or, if it is final, ask once to verify it (`FinalResponse`, `VerifyCompletion`),
compact, go on. An interrupt may come between any two of these. The provider answers with any number
of calls or fails in any way the code tells apart. A message is its role, the calls it makes or
answers, and the size of its body. The session keeps the history of a run that returned Ok.

### WechatBridge

The host's slot and the bridge threads it has started; `stop` is three steps because it signals
and joins after the lock is released. A thread polls, moves the cursor, and goes through the batch
with the ring of seen ids; every call out may fail, retryably or not. Messages are numbered by the
gateway, which may deliver the last `Redeliver` ones again. `RingReaches` says that the ring of
`SEEN_CAP` ids is long enough for that; as a failed poll lets older messages come after younger
ones, the ids around one that is forgotten lie on both sides of it, hence the factor 2.

### MergeGate

A verification reads checks.json (`VerifyStart`), runs one check per step with all its attempts
(`RunCheck`), then reads the policy in force, signs and stores (`SealAndAttest`); a CI job's is
followed by its gate step whatever it ended in, a daemon's can be cancelled and can ask for some
kinds of checks only (`only`). A gate that is given a malformed floor ends there (`GateBadFloor`);
the others, with no receipt, with one they refuse, or with one they decide on, are actions each
with its exit code. The gate takes *some* receipt of the run, as directory order is that of
content hashes; trust, verdict, bar and isolation floor are the code's pure functions. A content
address is the content itself and a signature the statement signed, so altering a stored receipt
shows exactly if the code compares. `Selected`, too, is given by position: the k-th check is the
k-th declaration of a kind asked for. Others edit checks.json, the policy and receipts. `seen` and
`sealed` are history variables: what the attempts were like, and what a signed statement rests on.

## 3. What the passing runs show

| Run | Instance | Shows |
|---|---|---|
| `jobs` | 3 starts, colliding ids, retention 1 | a run owns its record until it files; the order list is exactly the finished records, at most the bound; the table implements `JobService` (ordered and truthful events, a status that never goes back); although executors may park for ever, every accepted job reaches its executor, every outcome and every accepted cancel is announced |
| `delegate` | 2 steers, close, cancel, dying child, record rewrites that overlap and fail | complete tape, turns only on a live driver, no orphan child, close ends the job; once stored the resume id is never taken out, and the record can be read unless two rewrites overlapped |
| `session` | 3 turns, a start and 2 resumes, 2 postures, panics, failed and torn writes | a turn in flight is the one interrupt reaches unless its life was replaced or strayed on; finished turns are kept, in the file too unless its last write failed, until a stray turn or an outdated resume; a session runs on only if its turn panicked |
| `gate` | 2 calls of one tool, 3 modes, 4 operator and 3 project files, all decisions | a tool that ran was allowed by the operator's own policy or answer and denied by no rule of the project; memory only from "always"; an answer in time decides; every call returns with nobody answering |
| `ledger` | 3 appends, overlapping or not, crashes, errors | without mishaps the chain verifies at each step, the head matches and acknowledged evidence is read; without overlap head.json is never torn; the head never commits to a record that is not in the log |
| `flow` | 3-stage pipeline, or 3 parallel nodes on 2 threads; 2 writers, 2 steers, ceiling 2, budget 1, costs 0, 1 and none, panics | exact slots, no leaked session and no turn on a closed one, the silent-worker brake, a result for every dispatched node that did not panic, every flow ends |
| `events` | 2 emitters, 1 filtered client, 4 events, 2 connections, ring 2, channel 1 | the client's stream ascends over all its connections; it misses only what the ring had dropped; the thread of a stream that the hub or the client has given up ends, unless a write holds it for ever |
| `credentials` | 3 threads in 2 processes, 3 operations, 2 logins, 2 refreshes | a refresh token is presented once and the stored one is current, but for the losses the properties name; every operation ends |
| `fscatalog` | 2 paths, 2 readers, 1 warmer, 1 batch of up to 2 changes | symbols are never stale; a failed batch is undone or reported; the snapshot is the disk |
| `agent` | 2 runs, up to 2 calls, 1 retry, tight windows, several definitions | requests are well formed; after a cancel at most the response in hand and its completion prompt, or one tool result; compaction newest first and within budget; every run ends |
| `wechat` | 2 bridges, 4 messages, ring 1, 1 redelivery, 1 retry | a message starts one turn while the ring knows it; none is passed over but what a failure dropped; every live thread can be stopped, and stop returns |
| `merge_gate` | 1 CI job and 1 verify.start on 2 runs, 2 checkspecs, 2 policies, up to 2 attempts, 1 edit | a verdict is what the attempts give; exit 0, an "allow" in the ledger and a posted success rest on a signed verification in which every required check of the file (of the kinds a daemon was asked for) passed and that met the policy of its sealing |

Bounds. Two actors of a kind are enough to race, a third to find what two left behind (an id
reused after pruning, a session resumed a second time, a slot freed twice). Retention 1 makes
pruning happen on the second finished job. Two approval calls are enough for one to use what the
other made the hub remember; the safety properties are proved for any number (section 5). A budget
of 1 with costs 0, 1 and `NoUsage` reaches "free", "exactly at the limit", "above it" and "silent".
A start and two resumes let a turn of the first life come back to the third. Four events on a
ring of two and a channel of one evict, fill and prune within one connection. Three operations on
three threads, two of one process, let a refresh wait behind both kinds of lock while a third
party logs in or out. The context windows of `agent` (threshold 6, ceiling 8, bodies of 1 and 4)
make one big tool result compact, two overflow. In `merge_gate` the first checkspec
has two required checks of different kinds, of which the daemon asks for one; the policy asks for
the other by name and pins that checkspec; the second checkspec carries that name on a stub: so a
required check fails, is left out, is another one of the same name, or there is none; one of the
runs cannot be replayed. No run has a state constraint: counters are
bounded by the constants, each named in its module. `fscatalog` uses the symmetry of its readers
and checks no liveness; the others use none, as most check liveness and runs, nodes and messages
are ordered.

Deadlock checking is off, but for `merge_gate`, because these systems stop when their finitely many
requests are served.

Fairness. Weak fairness on each thread's next step says only that started threads run. In addition:

- worker turns, turns of delegated agents and session turns end (turn limits, provider and turn
  timeouts); of a job's executor nothing is assumed;
- an approval's deadline passes (300 s);
- a thread that waits for a mutex which stays free gets it (weak fairness is enough, since the
  contenders are finitely many);
- a connection's thread leaves when it finds its channel closed or its client gone (reads time out
  after `SSE_HEARTBEAT`); a write to a client that takes nothing may block for ever;
- a lock file is obtained or given up after 30 s, and requests to token endpoints, providers and
  the WeChat gateway return (they have timeouts);
- nobody has to send, answer, steer, cancel, close, log in, edit, start or stop anything.

## 4. Where the code falls short of what it says

These disagreements were met while modelling. The models have the behaviour, and the passing
properties name it as an exception or are stated so that they do not depend on it.

- Delegates. A cancel between the token check (`jobs/delegate/mod.rs:198`) and `register` (`:225`)
  closes nobody and leaves the start job parked, although `jobs/mod.rs:288-291` says the parked
  thread "finishes as cancelled". `session_idle` precedes the registration. A steer's stale copy
  can erase the record's closed mark. The record is stored under the root of the session's
  workspace (`jobs/delegate/mod.rs:99`, `:113`) and updated under the default one (`:377`,
  `:448`), where it may not be. All rewrites share one temporary name, so that overlapping ones
  can publish an empty or unparseable record, against `delegate_store.rs:274-275`, "so a reader
  never observes a half-written file" (`overlapped`).
- Sessions. `session.start` resumes an id that is live: the running turn's token is dropped with
  the entry it replaces, and no interrupt reaches that turn any more (`replaced`). A turn that
  outlives its session finishes on the next life, overwrites its history and takes its token out
  (`strayed`). A resume may insert what it read before a later write (`outdated`). The transcript
  is rewritten in place, and a missing store or a failed write shows on stderr only (`unsaved`). A
  panicking turn leaves its session running until it is closed (`RunningEnds`).
- Approvals. An acknowledged answer is dropped at the deadline (`AnswerDecides`).
- Flows. The debit calls a budget exhausted above its limit, the steer's check at it
  (`worker/budget.rs`). A reported cost of 0 USD is free, while the token dimension takes a total
  of 0 for no report. A steer that passed the budget check (`flow_job/mod.rs:296`) runs although
  the budget was exhausted while it waited; a steered writer runs without the lease
  (`worker/steer.rs:175`); a budget overrun by a steer trips the token that is later read as a
  cancellation; a panicked node never gets a result (`DispatchedNodeFolds`).
- Ledger. Two concurrent appends read the same head (`ledger_store.rs:84`, no lock) and take the
  same number and predecessor: verify then rejects a log that nobody tampered with, against
  `:3-7`, "a single linear, tamper-evident hash chain so any reader can re-derive it"
  (`LedgerSound` fails without its condition on overlap). Overlapping appends can publish an empty
  head (`HeadNotAhead`), and a crash before the newline makes acknowledged evidence unreadable
  (`LedgerSound`).
- Credentials. A logout during a refresh is undone when the refresh saves, and a login can be
  overwritten by an older refresh (history variable `loggedOut`). A rotated token whose answer or
  save is lost leaves a spent one in the store (`lost`).
- Events. A client that the hub has pruned is not told: its thread unsubscribes and drops the
  writer of a chunked keep-alive response without a last chunk and without closing the connection
  (`daemon/http/mod.rs:301-303`, `:327`), where the hub treats it as disconnected (`StreamEnds` is
  therefore about the thread).
- Agent. A cancel that comes right after the response was accepted (`turn.rs:63`) still lets two
  messages in, the response and the prompt to verify it (`CancelBoundsWork`). The failure guard
  returns between the calls of a response and leaves the rest unanswered in a history the session
  keeps (`turn.rs:186-191`; `:150-151` says "a `Tool` result message per call"; history variable
  `cut`). A stub can be larger than the body it replaces. A response without calls whose finish
  reason is not Stop is sent back as it is.
- Catalog. Two versions with equal time and size have one signature, so that `SymbolsNeverStale`
  fails if the clock may stand still between writes (`Ticks = {0, 1}`), against
  `provider.rs:153-154`; so it does if a file is moved away and back (`SignaturesTell`, section
  5). A failed batch does not invalidate (`unannounced`). `cleanup_backups` also removes the
  backups of files whose rollback failed. A scan whose `start_codemap_warming` comes late cancels
  the newer warmer. Nothing keeps two editors apart.
- WeChat. `stop` empties the slot before the thread has ended, so a second bridge can run on the
  account and handle the same messages (`bridge.rs:15`: "at most once"). A failed reply drops the
  rest of its batch (`dropped`), a failed delegated turn ends the bridge, messages without an id
  are not deduplicated, and a restart forgets ring and cursor.
- Merge gate. `ci-merge-gate.md:24-25` says of the CI job that it "re-runs your checks, seals a
  Receipt, posts a GitHub check-run, and fails the PR unless the verdict is **Passed**". The
  action ignores the exit code of `nerve verify` (`action.yml:168`) and gates with `--run`, and
  `load_receipt_for_run` (`commands/gate/mod.rs:478`) takes the first receipt of the run in
  directory order: a Passed receipt that another verification of the run left clears a job whose
  own re-run failed or sealed nothing. `ClearedIsEarned` therefore asks for a verification of the
  run, not for the job's own. Such a receipt may also be one of `verify.start` with `only`, which
  is Passed although the required checks of the other kinds never ran, unless the policy names
  them; the property says so for the daemon's verifications and excludes it for a CI job's.
  `DEFAULT_RERUNS` is one run in all, where `verify_runner.rs:40-41` and
  `commands/gate/mod.rs:76-77` speak of an extra one. An empty checkspec gives Inconclusive, where
  `verify_runner.rs:81-84` says Error. With `only`, the signed checkspec hash is that of the whole
  file, so it does not pin "exactly *which* checks ran" (`:73-74`), though the receipt lists them.
  No caller passes a ledger pointer, so the evidence kind "ledger" is never met
  (`ci-merge-gate.md:57-58`). An unknown `--emit` is refused only after the ledger has the
  decision.

A hazard of the code that no property covers: a turn keeps the posture it copied at its start
(`session_manager/mod.rs:275`).

## 5. What is proved

Eight proof modules show, for every value of the constants, 31 of the 40 properties the runs
check: all 29 invariants, the action property `CompactionSound` and the refinement of `JobService`.
The other nine are liveness. Each component has an inductive invariant (TLC checked it on the run's
instance wherever it can enumerate it), shown to hold initially and to be kept by every action, one
lemma or step per action; the properties follow from it.

| Module | Proves, for every | Inductive invariant and why it is needed |
|---|---|---|
| `JobManagerProofs` | set of client ids, number of runs, retention bound above 0: `TypeOK`, `RunOwnsRecord`, `RetentionExact`, `ImplementsService` | `TableInv`: numbers not drawn are unused, a run's id is set once resolved, a record's status follows from where its run stands. Retention needs ownership (a pruned id is not that of a running job), ownership that no two runs hold one id. The refinement needs all of it: the abstract status of a job is that of the run that holds the record |
| `JobManagerProofs`, on `WechatBridge` | messages, bridges, ring sizes with `RingReaches`: `HandledOnce` | `WechatInv`, thread by thread: batch and ring are ordered up to `Redeliver`, the ring knows every message with a turn that can still come, no text behind the cursor lacks a turn. That a message pushed out of the ring can no longer come is a count: the ids of a full ring and the new one would have to fit around the oldest in less than `SEEN_CAP` places |
| `ToolGateProofs` | calls, tools, rule files, modes: `AllowNeedsOperator`, `MemoryFromOperator`, `AnswerDecides`, `GateHonoured`, and that the first accepted answer is never replaced | `HubInv`: a pending key is unanswered, and what a call reads from its channel is the answer accepted for that very call. `GateRunsHub` shows that the composed gate takes only hub steps, so `HubInv` carries over; `GateInv` adds that a call that passed has the layered policy's action. The lemmas about `Denials` and `FromLayers` say that the first match in the layered list is a denial of the project or the operator's own first match |
| `ToolGateProofs`, on `EventHub` | emitters, clients, filters, connections, capacities: `StreamAscends`, `OnlyEvictedMissed` | `StreamInv`: the emitter at the gate holds the next number; ring, backlog and channel ascend, the channel behind the backlog; and, the heart of it, `Owed`: every event a client is entitled to beyond its cursor is in the queue of the connection it reads, was evicted, or lies behind the queue of a connection the hub has dropped. Without the last case pruning would break the invariant; with it the client gets the rest by reconnecting. The lemma on `AtPositions` counts ranks (a pigeonhole argument) in place of an induction |
| `CredentialsProofs` | threads, processes, logins, refreshes: `TokenSpentOnce`, `StoredIsCurrent` | `CredInv`: the locks are exclusive across processes, what a refresher holds is the endpoint's current token, a logout has marked every lease it overtakes, a login's credential is its thread's alone until saved |
| `DelegateLiveProofs` | number of steers: `TapeComplete`, `ChildOwned`, `ResumeIdKept` | `LiveInv`: nobody reaches the session before it is registered; slot, child and tape follow the start thread's phase; once the id is stored, it is in the record, in the temporary file and in every copy still to be written, as far as these parse; without overlap one updater at a time owns the temporary file |
| `DelegateLiveProofs`, on `AgentRun` | definitions, runs, calls, retries, budgets: `AgentTypeOK`, `RequestsPaired`, `CancelBoundsWork`, `CompactionSound` | `AgentInv`: the counters agree with the phase; every call in a history is answered but those of the last response still being dispatched; what was added since the cancel. `CompactionSound` needs only that stubbing stops at the budget or when nothing is left, not what the sum over the history is |
| `SessionManagerProofs` | turns, resumes, postures, with no assumption on when clients resume: `TypeOK`, `InterruptReaches`, `TurnsKept` | `SessionInv`: lives are numbered and no turn is of a later one; the session's token is that of a turn of this life; and on a life that nobody strayed on, the copy of the turn in flight is the live history, as `finish_turn` replaces the history by that copy, and the file is that history unless its last write failed |
| `SessionManagerProofs`, on `FsCatalog` | paths, contents, batches, readers, warmers, clocks: `CatalogTypeOK`, `SnapshotSettles`, `BatchUndoneOrReported`; with `SignaturesTell` also `SymbolsNeverStale` | `CatalogTypes`, and for each property one more. `Scanned`: while no batch is between its first write and its invalidate, the cached listing and what a scan has listed so far are right. `Undoable`: undoing the backups from the last to the first gives every path its old content, also when a path has several, and what is being written has one. `Signed`: the files' times are distinct, and as long as a path has the time of an entry, or of what a reader has in hand, it has that content |
| `FlowDriverProofs` | nodes, steers, ceilings, budgets, both strategies: `SlotsExact`, `SessionsOwned`, `DispatchedNodeFolds`, `SilentBrake` | `FlowInv`: which node states each phase of the engine allows, where open sessions are, what silent nodes have charged. The slot count is an equation of cardinalities, kept because each step moves one worker or steer |
| `EvidenceLedgerProofs` | set of appends: `HeadNotAhead`, `LedgerSound` | `LedgerInv`: whatever happens, every head in any inode commits to a record of the log; without overlap one append at a time owns the temporary file; without mishaps the log is m records and their newlines, chained, and the head is that of m or m - 1 by where the append stands |
| `MergeGateProofs` | runs, jobs, verifications, checkspecs, policies, reruns, edits: `VerdictMatchesAttempts`, `ClearedIsEarned` | `MergeInv`: statuses agree with the attempts check by check; a sealed statement is the one its statuses and policy give; every stored receipt, altered or not, carries the signature of a sealed statement. The lemmas are the argument about the pure functions: `fold_status` and `aggregate_status` against the attempts, and what `enforce_merge_bar` has seen when it returns 0. `SelectedIsKept` says that every declaration of a kind asked for is among the selected, which takes the required checks of the verdict back to those of checks.json |

Assumptions. The named `ASSUME`s of the modules, which TLC evaluates in their runs: types of the
constants; the values that stand for nothing (`NoDecision`, `NoCred`, `NoSession`, `NotStored`,
`Absent`, `Newline`, `NoFile`, `NoEntry`, `NoSnapshot`, `NoFrame`, `NoCursor`, `NoConn`) are none
of the real ones; capacities of rings and channels, and the retention bound, are at least 1; rule
files are sequences of rules and checks.json a sequence of declarations. Two hypotheses are
stated where they are used, and the `MC` modules assume them of their instances:

- `SignaturesTell`, for `SymbolsNeverStale`: every write has a time of its own, and no path is
  both moved from and moved to. The second half came out of the proof: with the batch `<<move a b,
  create a, move b a>>` around a reader's read of `a`, the old file is back under its old time
  beside the symbols of the new one.
- `RingReaches`, for `HandledOnce`: `2 * Redeliver <= SEEN_CAP + 1`. It is tight: TLC finds a
  second turn with `Redeliver = 2` and `SEEN_CAP = 2`, and none with 3. The code's ring has 4096
  ids (`bridge.rs:32`); how far back the gateway goes is not in the repository.

The properties' own conditions (no overlap, nothing lost, no panic, no stray turn) are part of what
is stated, as in the runs.

Only model-checked: liveness under fairness, which the provers do not do (`EveryRunSettles`,
`CloseEndsJob`, `RunningEnds`, `EveryCallReturns`, `FlowEnds`, `StreamEnds`, `OperationEnds`,
`RunEnds`, `StopEnds`).

## 6. Not modelled

Conversions and rendering (wire formats, prompts, transcripts, codemaps, UI), subprocess
configuration and sandboxes, cryptography, and pure queries: most of the repository's lines are of
these kinds, and a small instance says nothing about them. Timestamps appear only as "the deadline
passed", "the entry is fresh" and the ticks of a file system's clock. `set_model` and the
checkpoint note change only what a later turn copies. Partial writes inside one system call are
not split, except create-then-write. The workspace is changed by one editor at a time. Of the flow
strategies only Pipeline and Parallel are stepped. The run, outcome and verdict stores write one
file per id with the ledger's pattern, and a receipt's own ledger records are appends like any
other. `components` gives the reason for each.

## 7. Plan

1. The other flow strategies (vote, map-reduce, debate, hierarchical) and replay of the tape.
2. An abstract append-only log refined by the serial ledger.
