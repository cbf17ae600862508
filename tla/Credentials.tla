---------------------------- MODULE Credentials -----------------------------
(***************************************************************************)
(* One provider's stored credential: ensure_fresh, the double-checked      *)
(* refresh under a process mutex and a lock file                           *)
(* (nerve-agent/src/auth/mod.rs), the store it is saved to                 *)
(* (nerve-agent/src/auth/store.rs), and the operations that load, replace  *)
(* and delete it: lease, login and logout (auth/manager.rs,                *)
(* auth/commands.rs, providers.rs).                                        *)
(*                                                                         *)
(* Threads of several processes share the files.  auth.json is replaced by *)
(* a rename, so a load sees one version of it; a crashed process loses its *)
(* threads and its locks, never a file.  The provider's token endpoint is  *)
(* external: a refresh token works once and yields the next.  A credential *)
(* is the login it came from and how often it was refreshed.               *)
(***************************************************************************)
EXTENDS Naturals, FiniteSets

CONSTANTS
    Threads,
    Processes,
    ProcessOf,      \* thread -> the process it runs in
    MaxLogins,      \* bound: logins, the initial one included
    MaxRefreshes,   \* bound: refreshes of one login
    MaxOps,         \* bound: operations started
    NoCred, NoThread

ASSUME CredentialsAssumption ==
    /\ ProcessOf \in [Threads -> Processes]
    /\ NoThread \notin Threads
    /\ MaxLogins \in Nat \ {0} /\ MaxRefreshes \in Nat /\ MaxOps \in Nat

Logins == 1..MaxLogins
Creds == [login : Logins, gen : 0..MaxRefreshes, oauth : BOOLEAN]

ASSUME NoCredAssumption == NoCred \notin Creds

VARIABLES
    stored,         \* the provider's record in auth.json
    expired,        \* credentials whose access token is past its expiry
    logins,         \* logins made so far
    current,        \* token endpoint: login -> the generation whose token works
    ops,            \* operations started so far
    pc,             \* thread -> where its operation stands
    cred,           \* thread -> the credential it loaded, was issued or returns
    force,          \* thread -> force_refresh
    mutex,          \* process -> the thread in its refresh_lock
    refreshLock,    \* the thread that holds agent-auth.<provider>.refresh.lock
    authLock,       \* the thread that holds agent-auth.json.lock
    lost,           \* history: logins with a refreshed token that was not saved
    reused,         \* history: logins one of whose tokens was presented twice
    loggedOut       \* history: logins stored or being refreshed at a logout

locks == <<mutex, refreshLock, authLock>>
history == <<lost, reused, loggedOut>>
vars == <<stored, expired, logins, current, ops, pc, cred, force, locks, history>>

IsExpired(c) == c \in expired
ShouldRefresh(c, forced) == c.oauth /\ (forced \/ IsExpired(c))

\* double_check_is_fresh: may the reloaded credential be returned as it is?
DoubleCheckIsFresh(original, latest, forced) ==
    \/ ~latest.oauth
    \/ ~IsExpired(latest) /\ (~forced \/ original # latest)

Init ==
    /\ stored \in {NoCred, [login |-> 1, gen |-> 0, oauth |-> TRUE]}
    /\ expired = {} /\ logins = 1 /\ ops = 0
    /\ current = [l \in Logins |-> 0]
    /\ pc = [t \in Threads |-> "idle"]
    /\ cred = [t \in Threads |-> NoCred]
    /\ force = [t \in Threads |-> FALSE]
    /\ mutex = [p \in Processes |-> NoThread]
    /\ refreshLock = NoThread /\ authLock = NoThread
    /\ lost = {} /\ reused = {} /\ loggedOut = {}

Goto(t, label) == pc' = [pc EXCEPT ![t] = label]
Begin(t, label) == pc[t] = "idle" /\ ops < MaxOps /\ ops' = ops + 1 /\ Goto(t, label)

-----------------------------------------------------------------------------
(* Time.                                                                   *)

Expire(c) ==
    /\ c.oauth /\ c \notin expired
    /\ c = stored \/ \E t \in Threads : c = cred[t]
    /\ expired' = expired \cup {c}
    /\ UNCHANGED <<stored, logins, current, ops, pc, cred, force, locks, history>>

-----------------------------------------------------------------------------
(* A lease: load the credential, then ensure_fresh.                        *)

\* Nobody is logged in.
LeaseRefused(t) ==
    /\ stored = NoCred /\ Begin(t, "idle")
    /\ UNCHANGED <<stored, expired, logins, current, cred, force, locks, history>>

Lease(t, forced) ==
    /\ stored # NoCred
    /\ Begin(t, IF ShouldRefresh(stored, forced) THEN "wantMutex" ELSE "idle")
    /\ cred' = [cred EXCEPT ![t] = stored]
    /\ force' = [force EXCEPT ![t] = forced]
    /\ UNCHANGED <<stored, expired, logins, current, locks, history>>

LockMutex(t) ==
    /\ pc[t] = "wantMutex" /\ mutex[ProcessOf[t]] = NoThread
    /\ mutex' = [mutex EXCEPT ![ProcessOf[t]] = t]
    /\ Goto(t, "wantRefreshLock")
    /\ UNCHANGED <<stored, expired, logins, current, ops, cred, force, refreshLock,
                   authLock, history>>

LockRefresh(t) ==
    /\ pc[t] = "wantRefreshLock" /\ refreshLock = NoThread
    /\ refreshLock' = t
    /\ Goto(t, "reload")
    /\ UNCHANGED <<stored, expired, logins, current, ops, cred, force, mutex,
                   authLock, history>>

ReleaseRefresh(t) ==
    /\ mutex' = [mutex EXCEPT ![ProcessOf[t]] = NoThread]
    /\ refreshLock' = IF refreshLock = t THEN NoThread ELSE refreshLock

\* acquire_lock_file gives up after 30 seconds.
LockRefreshTimeout(t) ==
    /\ pc[t] = "wantRefreshLock" /\ refreshLock # NoThread
    /\ ReleaseRefresh(t)
    /\ Goto(t, "idle")
    /\ UNCHANGED <<stored, expired, logins, current, ops, cred, force, authLock, history>>

\* MUTANT: the credential loaded before the lock is refreshed.
ReloadSkipped(t) ==
    /\ pc[t] = "reload"
    /\ Goto(t, "refresh")
    /\ UNCHANGED <<stored, expired, logins, current, ops, cred, force, locks, history>>

\* MUTANT: a credential that is already fresh leaves the locks held.
ReloadKeepsLocks(t) ==
    /\ pc[t] = "reload"
    /\ LET latest == IF stored = NoCred THEN cred[t] ELSE stored
           fresh == DoubleCheckIsFresh(cred[t], latest, force[t])
       IN  /\ cred' = [cred EXCEPT ![t] = latest]
           /\ Goto(t, IF fresh THEN "idle" ELSE "refresh")
    /\ UNCHANGED <<stored, expired, logins, current, ops, force, locks, history>>

\* The credential is loaded again under the locks; if it is gone, the one loaded
\* first is refreshed instead.
Reload(t) ==
    /\ pc[t] = "reload"
    /\ LET latest == IF stored = NoCred THEN cred[t] ELSE stored
           fresh == DoubleCheckIsFresh(cred[t], latest, force[t])
       IN  /\ cred' = [cred EXCEPT ![t] = latest]
           /\ IF fresh THEN ReleaseRefresh(t) /\ Goto(t, "idle")
              ELSE Goto(t, "refresh") /\ UNCHANGED <<mutex, refreshLock>>
    /\ UNCHANGED <<stored, expired, logins, current, ops, force, authLock, history>>

Presentable(c) == current[c.login] = c.gen
Rotated(c) == [c EXCEPT !.gen = @ + 1]

\* The endpoint rotates the token and the answer arrives.
RefreshAnswered(t) ==
    /\ pc[t] = "refresh" /\ Presentable(cred[t]) /\ cred[t].gen < MaxRefreshes
    /\ current' = [current EXCEPT ![cred[t].login] = @ + 1]
    /\ cred' = [cred EXCEPT ![t] = Rotated(@)]
    /\ Goto(t, "wantAuthLock")
    /\ UNCHANGED <<stored, expired, logins, ops, force, locks, history>>

\* The request fails before the endpoint saw it, or its answer is lost after it did.
RefreshFails(t) ==
    /\ pc[t] = "refresh"
    /\ \/ UNCHANGED <<current, lost>>
       \/ /\ Presentable(cred[t]) /\ cred[t].gen < MaxRefreshes
          /\ current' = [current EXCEPT ![cred[t].login] = @ + 1]
          /\ lost' = lost \cup {cred[t].login}
    /\ ReleaseRefresh(t)
    /\ Goto(t, "idle")
    /\ UNCHANGED <<stored, expired, logins, ops, cred, force, authLock, reused, loggedOut>>

\* A token that was already used is refused.
RefreshRefused(t) ==
    /\ pc[t] = "refresh" /\ ~Presentable(cred[t])
    /\ reused' = reused \cup {cred[t].login}
    /\ ReleaseRefresh(t)
    /\ Goto(t, "idle")
    /\ UNCHANGED <<stored, expired, logins, current, ops, cred, force, authLock, lost,
                   loggedOut>>

-----------------------------------------------------------------------------
(* save_credential, at the end of a refresh or of a login.                 *)

Saving(t) == pc[t] \in {"wantAuthLock", "loginLock"}

LockAuth(t) ==
    /\ Saving(t) /\ authLock = NoThread
    /\ authLock' = t
    /\ Goto(t, IF pc[t] = "loginLock" THEN "loginSave" ELSE "save")
    /\ UNCHANGED <<stored, expired, logins, current, ops, cred, force, mutex,
                   refreshLock, history>>

\* MUTANT: the refreshed credential is returned and not persisted.
SaveForgotten(t) ==
    /\ pc[t] \in {"save", "loginSave"}
    /\ authLock' = NoThread
    /\ IF pc[t] = "save" THEN ReleaseRefresh(t) ELSE UNCHANGED <<mutex, refreshLock>>
    /\ Goto(t, "idle")
    /\ UNCHANGED <<stored, expired, logins, current, ops, cred, force, history>>

\* Read, insert, write the temporary file and rename it: the rename is the step.
Save(t) ==
    /\ pc[t] \in {"save", "loginSave"}
    /\ stored' = cred[t]
    /\ authLock' = NoThread
    /\ IF pc[t] = "save" THEN ReleaseRefresh(t) ELSE UNCHANGED <<mutex, refreshLock>>
    /\ Goto(t, "idle")
    /\ UNCHANGED <<expired, logins, current, ops, cred, force, history>>

\* The lock times out, or the directory or the file cannot be written: the
\* operation fails and what it was issued is dropped.
SaveFails(t) ==
    /\ pc[t] \in {"wantAuthLock", "loginLock", "save", "loginSave"}
    /\ authLock' = IF authLock = t THEN NoThread ELSE authLock
    /\ IF pc[t] \in {"wantAuthLock", "save"}
       THEN lost' = lost \cup {cred[t].login} /\ ReleaseRefresh(t)
       ELSE UNCHANGED <<lost, mutex, refreshLock>>
    /\ Goto(t, "idle")
    /\ UNCHANGED <<stored, expired, logins, current, ops, cred, force, reused, loggedOut>>

-----------------------------------------------------------------------------
(* Login and logout take only the store's own lock.                        *)

\* An authorization code was exchanged (auth.complete) or an API key given.
Login(t, oauth) ==
    /\ logins < MaxLogins /\ Begin(t, "loginLock")
    /\ logins' = logins + 1
    /\ cred' = [cred EXCEPT ![t] = [login |-> logins + 1, gen |-> 0, oauth |-> oauth]]
    /\ UNCHANGED <<stored, expired, current, force, locks, history>>

InUse(t) == pc[t] # "idle"
Leasing(t) == InUse(t) /\ pc[t] \notin {"loginLock", "loginSave"}

\* delete_credential, one region of the store's lock.
Logout(t) ==
    /\ authLock = NoThread /\ Begin(t, "idle")
    /\ stored' = NoCred
    /\ loggedOut' = loggedOut \cup {l \in Logins :
                        \/ stored # NoCred /\ stored.login = l
                        \/ \E u \in Threads : Leasing(u) /\ cred[u].login = l}
    /\ UNCHANGED <<expired, logins, current, cred, force, locks, lost, reused>>

\* A process dies; the operating system lets its file locks go.
Crash(p) ==
    LET dead == {t \in Threads : ProcessOf[t] = p}
    IN  /\ \E t \in dead : InUse(t)
        /\ pc' = [t \in Threads |-> IF t \in dead THEN "idle" ELSE pc[t]]
        /\ mutex' = [mutex EXCEPT ![p] = NoThread]
        /\ refreshLock' = IF refreshLock \in dead THEN NoThread ELSE refreshLock
        /\ authLock' = IF authLock \in dead THEN NoThread ELSE authLock
        /\ lost' = lost \cup {cred[t].login : t \in {u \in dead : pc[u] \in {"wantAuthLock", "save"}}}
        /\ UNCHANGED <<stored, expired, logins, current, ops, cred, force, reused, loggedOut>>

-----------------------------------------------------------------------------
Step(t) ==
    \/ LockMutex(t) \/ LockRefresh(t) \/ LockRefreshTimeout(t) \/ Reload(t)
    \/ RefreshAnswered(t) \/ RefreshFails(t) \/ RefreshRefused(t)
    \/ LockAuth(t) \/ Save(t) \/ SaveFails(t)

Next ==
    \/ \E t \in Threads :
          \/ LeaseRefused(t) \/ Logout(t) \/ Step(t)
          \/ \E b \in BOOLEAN : Lease(t, b) \/ Login(t, b)
    \/ \E c \in Creds : Expire(c)
    \/ \E p \in Processes : Crash(p)

Spec == Init /\ [][Next]_vars

\* A thread that has begun runs on: the lock files and the endpoint's requests
\* have timeouts, and the mutex is free for good once its last holder is done.
FairSpec == Spec /\ \A t \in Threads : WF_vars(Step(t))

-----------------------------------------------------------------------------
(* Properties.                                                             *)

\* Every variable keeps its type.
TypeOK ==
    /\ stored \in Creds \cup {NoCred} /\ expired \subseteq Creds
    /\ logins \in Logins /\ ops \in 0..MaxOps
    /\ current \in [Logins -> 0..MaxRefreshes]
    /\ pc \in [Threads -> {"idle", "wantMutex", "wantRefreshLock", "reload", "refresh",
                           "wantAuthLock", "save", "loginLock", "loginSave"}]
    /\ cred \in [Threads -> Creds \cup {NoCred}]
    /\ force \in [Threads -> BOOLEAN]
    /\ mutex \in [Processes -> Threads \cup {NoThread}]
    /\ refreshLock \in Threads \cup {NoThread} /\ authLock \in Threads \cup {NoThread}
    /\ lost \subseteq Logins /\ reused \subseteq Logins /\ loggedOut \subseteq Logins

\* "a rotated refresh token saved by the first refresher is reused instead of
\* refreshed again" (ensure_fresh): no refresh token is presented twice, whatever
\* threads and processes race, unless a refreshed token never reached the store
\* or a logout took away what the waiters would have reloaded.
TokenSpentOnce == reused \subseteq lost \cup loggedOut

\* What is stored can be refreshed: the stored token is the endpoint's current one,
\* unless a refreshed token was lost, a refresh is about to save the next one, or
\* a logout got between.
StoredIsCurrent ==
    stored # NoCred /\ stored.oauth =>
        \/ Presentable(stored)
        \/ stored.login \in lost \cup loggedOut
        \/ \E t \in Threads : pc[t] \in {"wantAuthLock", "save"} /\ cred[t].login = stored.login

\* Every lease, login and refresh that was begun ends, whoever crashes or holds the
\* locks.
OperationEnds == \A t \in Threads : InUse(t) ~> ~InUse(t)

=============================================================================
