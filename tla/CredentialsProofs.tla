------------------------- MODULE CredentialsProofs --------------------------
(***************************************************************************)
(* For any number of threads, processes, logins and refreshes: no refresh  *)
(* token is presented twice unless a refreshed one was lost or a logout    *)
(* got between, and what is stored can be refreshed.                       *)
(*                                                                         *)
(* Neither is inductive.  Both rest on the refresh lock being exclusive    *)
(* (Locked), on what a thread inside it knows about its credential         *)
(* (RefreshedIsCurrent), on a logout having marked every lease it          *)
(* overtakes (OvertakenMarked), and on a login's credential being nobody   *)
(* else's until it is saved (LoginFresh).                                  *)
(***************************************************************************)
EXTENDS Credentials, TLAPS

\* Where a thread must be inside the process mutex, and inside the lock file.
InMutex == {"wantRefreshLock", "reload", "refresh", "wantAuthLock", "save"}
InRefreshLock == {"reload", "refresh", "wantAuthLock", "save"}
LoggingIn == {"loginLock", "loginSave"}

\* A thread holds the locks its place in the code says it holds, so there is at
\* most one refresher, whatever process it runs in.
HoldsLocks(t) ==
    /\ pc[t] \in InMutex => mutex[ProcessOf[t]] = t
    /\ pc[t] \in InRefreshLock => refreshLock = t
    /\ pc[t] \in {"save", "loginSave"} => authLock = t

Locked == \A t \in Threads : HoldsLocks(t)

\* An operation under way has a credential; no credential is of a later login,
\* and a later login's token was never refreshed.
Known ==
    /\ \A t \in Threads : InUse(t) => cred[t] # NoCred
    /\ \A t \in Threads : cred[t] # NoCred => cred[t].login <= logins
    /\ stored # NoCred => stored.login <= logins
    /\ \A l \in Logins : l > logins => current[l] = 0

\* The credential a thread is about to refresh works, unless a token of its login
\* was lost or it was logged out; the one it is about to save works.
RefreshedIsCurrent ==
    \A t \in Threads :
        /\ pc[t] = "refresh" =>
              Presentable(cred[t]) \/ cred[t].login \in lost \cup loggedOut
        /\ pc[t] \in {"wantAuthLock", "save"} => Presentable(cred[t])

\* A lease that finds the store empty under its locks was overtaken by a logout.
OvertakenMarked ==
    stored = NoCred => \A t \in Threads : Leasing(t) => cred[t].login \in loggedOut

\* Until it is saved, a login's credential is new and held by its thread alone.
LoginFresh ==
    \A t \in Threads : pc[t] \in LoggingIn =>
        /\ cred[t].gen = 0 /\ current[cred[t].login] = 0
        /\ stored # NoCred => stored.login # cred[t].login
        /\ \A u \in Threads : u # t /\ InUse(u) => cred[u].login # cred[t].login

\* The inductive invariant.
CredInv ==
    /\ TypeOK /\ Locked /\ Known
    /\ RefreshedIsCurrent /\ OvertakenMarked /\ LoginFresh
    /\ TokenSpentOnce /\ StoredIsCurrent

-----------------------------------------------------------------------------
\* What a credential is made of, and what a rotation changes.
LEMMA CredFields ==
    /\ \A c \in Creds : c.login \in Logins /\ c.gen \in 0..MaxRefreshes
    /\ \A c \in Creds : Rotated(c).login = c.login /\ Rotated(c).gen = c.gen + 1
    /\ \A c \in Creds : c.gen < MaxRefreshes => Rotated(c) \in Creds
BY CredentialsAssumption DEF Creds, Rotated

\* A new login's credential.
LEMMA LoginCred ==
    ASSUME NEW l \in Logins, NEW o \in BOOLEAN
    PROVE  LET c == [login |-> l, gen |-> 0, oauth |-> o]
           IN  c \in Creds /\ c.login = l /\ c.gen = 0
BY CredentialsAssumption DEF Creds

\* There is at most one thread inside the refresh lock, and one per process
\* inside its mutex.
LEMMA OneRefresher ==
    ASSUME Locked, NEW t \in Threads, NEW u \in Threads, t # u
    PROVE  /\ pc[t] \in InRefreshLock => pc[u] \notin InRefreshLock
           /\ pc[t] \in InMutex /\ ProcessOf[t] = ProcessOf[u] => pc[u] \notin InMutex
BY DEF Locked, HoldsLocks

\* A thread that leaves the critical section gives back its own locks only.
LEMMA ReleaseKeepsLocks ==
    ASSUME TypeOK, Locked, NEW t \in Threads, pc[t] \in InMutex,
           ReleaseRefresh(t), Goto(t, "idle"),
           authLock' = authLock \/ (authLock = t /\ authLock' = NoThread)
    PROVE  Locked'
<1> SUFFICES ASSUME NEW u \in Threads PROVE HoldsLocks(u)'
    BY DEF Locked
<1>1. CASE u = t
    BY <1>1 DEF HoldsLocks, Goto, TypeOK, InMutex, InRefreshLock
<1>2. CASE u # t
    <2>1. pc'[u] = pc[u] /\ HoldsLocks(u)
        BY <1>2 DEF Goto, TypeOK, Locked
    <2>2. pc[u] \in InMutex => mutex'[ProcessOf[u]] = mutex[ProcessOf[u]]
        BY <1>2, OneRefresher, CredentialsAssumption DEF ReleaseRefresh, TypeOK
    <2>3. refreshLock = u => refreshLock' = u
        BY <1>2 DEF ReleaseRefresh
    <2>4. authLock = u => authLock' = u
        BY <1>2
    <2> QED BY <2>1, <2>2, <2>3, <2>4 DEF HoldsLocks
<1> QED BY <1>1, <1>2

\* Giving the locks back keeps their types.
LEMMA ReleaseType ==
    ASSUME TypeOK, NEW t \in Threads, ReleaseRefresh(t)
    PROVE  /\ mutex' \in [Processes -> Threads \cup {NoThread}]
           /\ refreshLock' \in Threads \cup {NoThread}
BY CredentialsAssumption DEF ReleaseRefresh, TypeOK

\* Initially nobody is logged in, or one fresh login is stored.
LEMMA InitCred == Init => CredInv
<1> SUFFICES ASSUME Init PROVE CredInv
    OBVIOUS
<1>1. stored # NoCred => stored \in Creds /\ stored.login = 1 /\ stored.gen = 0
    <2>1. 1 \in Logins
        BY CredentialsAssumption DEF Logins
    <2> QED BY <2>1, LoginCred DEF Init
<1>2. TypeOK
    BY <1>1, CredentialsAssumption DEF Init, TypeOK, Logins
<1>3. Locked /\ Known /\ RefreshedIsCurrent /\ LoginFresh
    BY <1>1, CredentialsAssumption
    DEF Init, Locked, Known, RefreshedIsCurrent, LoginFresh, HoldsLocks, InMutex,
        InRefreshLock, LoggingIn, InUse, Logins
<1>4. OvertakenMarked /\ TokenSpentOnce
    BY DEF Init, OvertakenMarked, Leasing, InUse, TokenSpentOnce
<1>5. StoredIsCurrent
    BY <1>1, CredentialsAssumption DEF Init, StoredIsCurrent, Presentable, Logins
<1> QED BY <1>2, <1>3, <1>4, <1>5 DEF CredInv

\* A refused lease changes nothing but the count of operations.
LEMMA LeaseRefusedKeeps ==
    ASSUME CredInv, NEW t \in Threads, LeaseRefused(t)
    PROVE  CredInv'
<1> USE DEF CredInv, LeaseRefused, Begin, Goto, locks, history
<1>1. TypeOK'
    BY CredentialsAssumption DEF TypeOK
<1>2. Locked'
    BY DEF Locked, HoldsLocks, InMutex, InRefreshLock, TypeOK
<1>3. Known'
    BY DEF Known, InUse, TypeOK
<1>4. RefreshedIsCurrent'
    BY DEF RefreshedIsCurrent, Presentable, TypeOK
<1>5. OvertakenMarked'
    BY DEF OvertakenMarked, Leasing, InUse, TypeOK
<1>6. LoginFresh'
    BY DEF LoginFresh, LoggingIn, InUse, TypeOK
<1>7. TokenSpentOnce'
    BY DEF TokenSpentOnce
<1>8. StoredIsCurrent'
    BY DEF StoredIsCurrent, Presentable, TypeOK
<1> QED BY <1>1, <1>2, <1>3, <1>4, <1>5, <1>6, <1>7, <1>8

\* A lease reads what is stored, so it starts with a known credential.
LEMMA LeaseKeeps ==
    ASSUME CredInv, NEW t \in Threads, \E b \in BOOLEAN : Lease(t, b)
    PROVE  CredInv'
<1> USE DEF CredInv, Lease, Begin, Goto, locks, history
<1>1. TypeOK'
    BY CredentialsAssumption DEF TypeOK
<1>2. Locked'
    BY DEF Locked, HoldsLocks, InMutex, InRefreshLock, TypeOK
<1>3. Known'
    BY DEF Known, InUse, TypeOK
<1>4. RefreshedIsCurrent'
    BY DEF RefreshedIsCurrent, Presentable, TypeOK
<1>5. OvertakenMarked'
    BY DEF OvertakenMarked, Leasing, InUse, TypeOK
<1>6. LoginFresh'
    BY DEF LoginFresh, LoggingIn, InUse, TypeOK
<1>7. TokenSpentOnce'
    BY DEF TokenSpentOnce
<1>8. StoredIsCurrent'
    BY DEF StoredIsCurrent, Presentable, TypeOK
<1> QED BY <1>1, <1>2, <1>3, <1>4, <1>5, <1>6, <1>7, <1>8

\* The mutex was free: no other thread of the process is past it.
LEMMA LockMutexKeeps ==
    ASSUME CredInv, NEW t \in Threads, LockMutex(t)
    PROVE  CredInv'
<1> USE CredentialsAssumption DEF CredInv, LockMutex, Goto, locks, history
<1>1. TypeOK'
    BY DEF TypeOK
<1>2. Locked'
    <2> SUFFICES ASSUME NEW u \in Threads PROVE HoldsLocks(u)'
        BY DEF Locked
    <2>1. CASE u = t
        BY <2>1 DEF HoldsLocks, TypeOK, InMutex, InRefreshLock
    <2>2. CASE u # t
        <3>1. pc'[u] = pc[u] /\ HoldsLocks(u)
            BY <2>2 DEF TypeOK, Locked
        <3>2. pc[u] \in InMutex => ProcessOf[u] # ProcessOf[t]
            BY <3>1 DEF HoldsLocks
        <3>3. pc[u] \in InMutex => mutex'[ProcessOf[u]] = mutex[ProcessOf[u]]
            BY <3>2 DEF TypeOK
        <3> QED BY <3>1, <3>3 DEF HoldsLocks
    <2> QED BY <2>1, <2>2
<1>3. Known'
    BY DEF Known, InUse, TypeOK
<1>4. RefreshedIsCurrent'
    BY DEF RefreshedIsCurrent, Presentable, TypeOK
<1>5. OvertakenMarked'
    BY DEF OvertakenMarked, Leasing, InUse, TypeOK
<1>6. LoginFresh'
    BY DEF LoginFresh, LoggingIn, InUse, TypeOK
<1>7. TokenSpentOnce'
    BY DEF TokenSpentOnce
<1>8. StoredIsCurrent'
    BY DEF StoredIsCurrent, Presentable, TypeOK
<1> QED BY <1>1, <1>2, <1>3, <1>4, <1>5, <1>6, <1>7, <1>8

\* The lock file was free: no thread of any process is past it.
LEMMA LockRefreshKeeps ==
    ASSUME CredInv, NEW t \in Threads, LockRefresh(t)
    PROVE  CredInv'
<1> USE CredentialsAssumption DEF CredInv, LockRefresh, Goto, locks, history
<1>1. TypeOK'
    BY DEF TypeOK
<1>2. Locked'
    BY DEF Locked, HoldsLocks, InMutex, InRefreshLock, TypeOK
<1>3. Known'
    BY DEF Known, InUse, TypeOK
<1>4. RefreshedIsCurrent'
    BY DEF RefreshedIsCurrent, Presentable, TypeOK
<1>5. OvertakenMarked'
    BY DEF OvertakenMarked, Leasing, InUse, TypeOK
<1>6. LoginFresh'
    BY DEF LoginFresh, LoggingIn, InUse, TypeOK
<1>7. TokenSpentOnce'
    BY DEF TokenSpentOnce
<1>8. StoredIsCurrent'
    BY DEF StoredIsCurrent, Presentable, TypeOK
<1> QED BY <1>1, <1>2, <1>3, <1>4, <1>5, <1>6, <1>7, <1>8

\* A timed-out wait gives back the mutex only.
LEMMA LockRefreshTimeoutKeeps ==
    ASSUME CredInv, NEW t \in Threads, LockRefreshTimeout(t)
    PROVE  CredInv'
<1> USE DEF CredInv, LockRefreshTimeout, Goto, locks, history
<1>1. TypeOK'
    BY ReleaseType DEF TypeOK
<1>2. Locked'
    <2>1. pc[t] \in InMutex
        BY DEF InMutex
    <2> QED BY <2>1, ReleaseKeepsLocks
<1>3. Known'
    BY DEF Known, InUse, TypeOK
<1>4. RefreshedIsCurrent'
    BY DEF RefreshedIsCurrent, Presentable, TypeOK
<1>5. OvertakenMarked'
    BY DEF OvertakenMarked, Leasing, InUse, TypeOK
<1>6. LoginFresh'
    BY DEF LoginFresh, LoggingIn, InUse, TypeOK
<1>7. TokenSpentOnce'
    BY DEF TokenSpentOnce
<1>8. StoredIsCurrent'
    BY DEF StoredIsCurrent, Presentable, TypeOK
<1> QED BY <1>1, <1>2, <1>3, <1>4, <1>5, <1>6, <1>7, <1>8

\* The credential read under the locks works, or is known not to.
LEMMA ReloadKeeps ==
    ASSUME CredInv, NEW t \in Threads, Reload(t)
    PROVE  CredInv'
<1> USE DEF CredInv, Reload, Goto, locks, history
<1> DEFINE latest == IF stored = NoCred THEN cred[t] ELSE stored
           fresh == DoubleCheckIsFresh(cred[t], latest, force[t])
<1>0. /\ cred[t] # NoCred /\ latest # NoCred /\ latest.login <= logins
      /\ cred' = [cred EXCEPT ![t] = latest]
    BY DEF Known, InUse
<1>1. TypeOK'
    BY ReleaseType DEF TypeOK
<1>2. Locked'
    <2>1. CASE fresh
        <3>1. pc[t] \in InMutex
            BY DEF InMutex
        <3> QED BY <2>1, <3>1, ReleaseKeepsLocks
    <2>2. CASE ~fresh
        BY <2>2 DEF Locked, HoldsLocks, InMutex, InRefreshLock, TypeOK
    <2> QED BY <2>1, <2>2
<1>3. Known'
    BY <1>0 DEF Known, InUse, TypeOK
<1>4. RefreshedIsCurrent'
    <2>1. ASSUME pc'[t] = "refresh"
          PROVE  Presentable(latest) \/ latest.login \in lost \cup loggedOut
        <3>1. ~fresh
            BY <2>1 DEF TypeOK
        <3>2. CASE stored = NoCred
            BY <3>2 DEF OvertakenMarked, Leasing, InUse
        <3>3. CASE stored # NoCred
            <4>1. stored.oauth
                BY <3>1, <3>3 DEF DoubleCheckIsFresh
            <4>2. \A u \in Threads : pc[u] \notin {"wantAuthLock", "save"}
                BY OneRefresher DEF InRefreshLock
            <4> QED BY <3>3, <4>1, <4>2 DEF StoredIsCurrent
        <3> QED BY <3>2, <3>3
    <2>2. pc'[t] \in {"idle", "refresh"} /\ cred'[t] = latest
        BY DEF TypeOK
    <2>3. \A u \in Threads : u # t => pc'[u] = pc[u] /\ cred'[u] = cred[u]
        BY DEF TypeOK
    <2> HIDE DEF Reload, latest
    <2>4. UNCHANGED <<current, lost, loggedOut>>
        BY DEF Reload, history
    <2> QED BY <2>1, <2>2, <2>3, <2>4 DEF RefreshedIsCurrent, Presentable
<1>5. OvertakenMarked'
    BY DEF OvertakenMarked, Leasing, InUse, TypeOK
<1>6. LoginFresh'
    BY DEF LoginFresh, LoggingIn, InUse, TypeOK
<1>7. TokenSpentOnce'
    BY DEF TokenSpentOnce
<1>8. StoredIsCurrent'
    BY DEF StoredIsCurrent, Presentable, TypeOK
<1> QED BY <1>1, <1>2, <1>3, <1>4, <1>5, <1>6, <1>7, <1>8

\* The endpoint's token and the refresher's move on together; nobody else is refreshing.
LEMMA RefreshAnsweredKeeps ==
    ASSUME CredInv, NEW t \in Threads, RefreshAnswered(t)
    PROVE  CredInv'
<1> USE DEF CredInv, RefreshAnswered, Goto, locks, history
<1> DEFINE c == cred[t]
           l == cred[t].login
<1>0. /\ c \in Creds /\ l \in Logins /\ l <= logins /\ c.gen \in 0..MaxRefreshes
      /\ current \in [Logins -> 0..MaxRefreshes]
    BY CredFields DEF Known, InUse, TypeOK
<1>a. \A u \in Threads : u # t => pc[u] \notin {"refresh", "wantAuthLock", "save"}
    BY OneRefresher DEF InRefreshLock
<1>b. \A u \in Threads : pc[u] \in LoggingIn => cred[u].login # l
    BY DEF LoginFresh, InUse, LoggingIn
<1>c. /\ Rotated(c) \in Creds /\ Rotated(c).login = l /\ Rotated(c).gen = c.gen + 1
      /\ current[l] = c.gen /\ current'[l] = c.gen + 1
      /\ \A k \in Logins : k # l => current'[k] = current[k]
      /\ current' \in [Logins -> 0..MaxRefreshes]
    BY <1>0, CredFields, CredentialsAssumption DEF Presentable
<1>d. /\ pc'[t] = "wantAuthLock" /\ cred'[t] = Rotated(c)
      /\ \A u \in Threads : u # t => pc'[u] = pc[u] /\ cred'[u] = cred[u]
      /\ UNCHANGED <<stored, logins, lost, loggedOut, reused>>
    BY DEF TypeOK
<1>1. TypeOK'
    BY <1>0, <1>c DEF TypeOK
<1>2. Locked'
    BY DEF Locked, HoldsLocks, InMutex, InRefreshLock, TypeOK
<1>3. Known'
    <2>1. \A k \in Logins : k > logins => current'[k] = 0
        BY <1>0, <1>c DEF Known, TypeOK, Logins
    <2> QED BY <2>1, <1>0, <1>c, <1>d, NoCredAssumption DEF Known, InUse
<1>4. RefreshedIsCurrent'
    BY <1>a, <1>c, <1>d DEF RefreshedIsCurrent, Presentable
<1>5. OvertakenMarked'
    BY <1>c, <1>d DEF OvertakenMarked, Leasing, InUse
<1>6. LoginFresh'
    <2> SUFFICES ASSUME NEW u \in Threads, pc'[u] \in LoggingIn
                 PROVE  /\ cred'[u].gen = 0 /\ current'[cred'[u].login] = 0
                        /\ stored' # NoCred => stored'.login # cred'[u].login
                        /\ \A v \in Threads : v # u /\ pc'[v] # "idle"
                              => cred'[v].login # cred'[u].login
        BY DEF LoginFresh, InUse
    <2>1. u # t /\ pc[u] \in LoggingIn /\ cred'[u] = cred[u] /\ cred[u].login # l
        BY <1>b, <1>d DEF LoggingIn
    <2>2. cred[u].login \in Logins
        BY <2>1, CredFields DEF Known, InUse, TypeOK, LoggingIn
    <2> QED BY <2>1, <2>2, <1>c, <1>d DEF LoginFresh, InUse
<1>7. TokenSpentOnce'
    BY DEF TokenSpentOnce
<1>8. StoredIsCurrent'
    <2>1. stored # NoCred => stored.login \in Logins
        BY CredFields DEF TypeOK
    <2>2. CASE stored # NoCred /\ stored.login = l
        BY <2>2, <1>c, <1>d DEF StoredIsCurrent
    <2>3. CASE ~(stored # NoCred /\ stored.login = l)
        BY <2>1, <2>3, <1>a, <1>c, <1>d DEF StoredIsCurrent, Presentable
    <2> QED BY <2>2, <2>3
<1> QED BY <1>1, <1>2, <1>3, <1>4, <1>5, <1>6, <1>7, <1>8

\* An answer that is lost leaves the login marked.
LEMMA RefreshFailsKeeps ==
    ASSUME CredInv, NEW t \in Threads, RefreshFails(t)
    PROVE  CredInv'
<1> USE DEF CredInv, RefreshFails, Goto, locks, history
<1> DEFINE c == cred[t]
           l == cred[t].login
<1>0. /\ c \in Creds /\ l \in Logins /\ l <= logins /\ c.gen \in 0..MaxRefreshes
      /\ current \in [Logins -> 0..MaxRefreshes]
    BY CredFields DEF Known, InUse, TypeOK
<1>a. \A u \in Threads : u # t => pc[u] \notin {"refresh", "wantAuthLock", "save"}
    BY OneRefresher DEF InRefreshLock
<1>b. \A u \in Threads : pc[u] \in LoggingIn => cred[u].login # l
    BY DEF LoginFresh, InUse, LoggingIn
<1>c. /\ current' \in [Logins -> 0..MaxRefreshes]
      /\ \A k \in Logins : k # l => current'[k] = current[k]
      /\ lost \subseteq lost' /\ lost' \subseteq lost \cup {l}
      /\ l \in lost' \/ current' = current
    BY <1>0, CredentialsAssumption DEF Presentable
<1>d. /\ pc'[t] = "idle"
      /\ \A u \in Threads : u # t => pc'[u] = pc[u]
      /\ UNCHANGED <<stored, logins, cred, loggedOut, reused>>
    BY DEF TypeOK
<1>1. TypeOK'
    BY <1>0, <1>c, ReleaseType DEF TypeOK
<1>2. Locked'
    <2>1. pc[t] \in InMutex
        BY DEF InMutex
    <2> QED BY <2>1, ReleaseKeepsLocks
<1>3. Known'
    <2>1. \A k \in Logins : k > logins => current'[k] = 0
        BY <1>0, <1>c DEF Known, TypeOK, Logins
    <2> QED BY <2>1, <1>d DEF Known, InUse
<1>4. RefreshedIsCurrent'
    BY <1>a, <1>d DEF RefreshedIsCurrent
<1>5. OvertakenMarked'
    BY <1>d DEF OvertakenMarked, Leasing, InUse
<1>6. LoginFresh'
    <2> SUFFICES ASSUME NEW u \in Threads, pc'[u] \in LoggingIn
                 PROVE  /\ cred'[u].gen = 0 /\ current'[cred'[u].login] = 0
                        /\ stored' # NoCred => stored'.login # cred'[u].login
                        /\ \A v \in Threads : v # u /\ pc'[v] # "idle"
                              => cred'[v].login # cred'[u].login
        BY DEF LoginFresh, InUse
    <2>1. u # t /\ pc[u] \in LoggingIn /\ cred[u].login # l
        BY <1>b, <1>d DEF LoggingIn
    <2>2. cred[u].login \in Logins
        BY <2>1, CredFields DEF Known, InUse, TypeOK, LoggingIn
    <2> QED BY <2>1, <2>2, <1>c, <1>d DEF LoginFresh, InUse
<1>7. TokenSpentOnce'
    BY <1>c, <1>d DEF TokenSpentOnce
<1>8. StoredIsCurrent'
    <2>1. stored # NoCred => stored.login \in Logins
        BY CredFields DEF TypeOK
    <2>2. CASE stored # NoCred /\ stored.login = l
        BY <2>2, <1>a, <1>c, <1>d DEF StoredIsCurrent, Presentable
    <2>3. CASE ~(stored # NoCred /\ stored.login = l)
        BY <2>1, <2>3, <1>a, <1>c, <1>d DEF StoredIsCurrent, Presentable
    <2> QED BY <2>2, <2>3
<1> QED BY <1>1, <1>2, <1>3, <1>4, <1>5, <1>6, <1>7, <1>8

\* A refused token belongs to a login that lost one or was logged out.
LEMMA RefreshRefusedKeeps ==
    ASSUME CredInv, NEW t \in Threads, RefreshRefused(t)
    PROVE  CredInv'
<1> USE DEF CredInv, RefreshRefused, Goto, locks, history
<1>1. TypeOK'
    <2>1. cred[t].login \in Logins
        BY CredFields DEF Known, InUse, TypeOK
    <2> QED BY <2>1, ReleaseType DEF TypeOK
<1>2. Locked'
    <2>1. pc[t] \in InMutex
        BY DEF InMutex
    <2> QED BY <2>1, ReleaseKeepsLocks
<1>3. Known'
    BY DEF Known, InUse, TypeOK
<1>4. RefreshedIsCurrent'
    BY DEF RefreshedIsCurrent, Presentable, TypeOK
<1>5. OvertakenMarked'
    BY DEF OvertakenMarked, Leasing, InUse, TypeOK
<1>6. LoginFresh'
    BY DEF LoginFresh, LoggingIn, InUse, TypeOK
<1>7. TokenSpentOnce'
    <2>1. cred[t].login \in lost \cup loggedOut
        BY DEF RefreshedIsCurrent
    <2> QED BY <2>1 DEF TokenSpentOnce
<1>8. StoredIsCurrent'
    BY DEF StoredIsCurrent, Presentable, TypeOK
<1> QED BY <1>1, <1>2, <1>3, <1>4, <1>5, <1>6, <1>7, <1>8

\* Taking the store's lock.
LEMMA LockAuthKeeps ==
    ASSUME CredInv, NEW t \in Threads, LockAuth(t)
    PROVE  CredInv'
<1> USE CredentialsAssumption DEF CredInv, LockAuth, Goto, Saving, locks, history
<1>1. TypeOK'
    BY DEF TypeOK
<1>2. Locked'
    BY DEF Locked, HoldsLocks, InMutex, InRefreshLock, TypeOK
<1>3. Known'
    BY DEF Known, InUse, TypeOK
<1>4. RefreshedIsCurrent'
    BY DEF RefreshedIsCurrent, Presentable, TypeOK
<1>5. OvertakenMarked'
    BY DEF OvertakenMarked, Leasing, InUse, TypeOK
<1>6. LoginFresh'
    BY DEF LoginFresh, LoggingIn, InUse, TypeOK
<1>7. TokenSpentOnce'
    BY DEF TokenSpentOnce
<1>8. StoredIsCurrent'
    BY DEF StoredIsCurrent, Presentable, TypeOK
<1> QED BY <1>1, <1>2, <1>3, <1>4, <1>5, <1>6, <1>7, <1>8

\* What is saved works: it was just refreshed, or is a new login's.
LEMMA SaveKeeps ==
    ASSUME CredInv, NEW t \in Threads, Save(t)
    PROVE  CredInv'
<1> USE DEF CredInv, Save, Goto, locks, history
<1>0. cred[t] # NoCred
    BY DEF Known, InUse
<1>d. /\ pc'[t] = "idle" /\ stored' = cred[t]
      /\ \A u \in Threads : u # t => pc'[u] = pc[u]
      /\ UNCHANGED <<logins, cred, current, lost, loggedOut, reused>>
    BY DEF TypeOK, history
<1>1. TypeOK'
    BY ReleaseType DEF TypeOK
<1>2. Locked'
    <2>1. CASE pc[t] = "save"
        <3>1. pc[t] \in InMutex /\ authLock = t
            BY <2>1 DEF InMutex, Locked, HoldsLocks
        <3> QED BY <2>1, <3>1, ReleaseKeepsLocks
    <2>2. CASE pc[t] = "loginSave"
        BY <2>2 DEF Locked, HoldsLocks, InMutex, InRefreshLock, TypeOK
    <2> QED BY <2>1, <2>2
<1>3. Known'
    BY DEF Known, InUse, TypeOK
<1>4. RefreshedIsCurrent'
    BY DEF RefreshedIsCurrent, Presentable, TypeOK
<1>5. OvertakenMarked'
    BY <1>0, <1>d DEF OvertakenMarked
<1>6. LoginFresh'
    BY <1>0, <1>d DEF LoginFresh, LoggingIn, InUse, TypeOK
<1>7. TokenSpentOnce'
    BY DEF TokenSpentOnce
<1>8. StoredIsCurrent'
    <2>1. Presentable(cred[t])
        BY DEF RefreshedIsCurrent, LoginFresh, LoggingIn, Presentable
    <2> QED BY <2>1, <1>d DEF StoredIsCurrent, Presentable
<1> QED BY <1>1, <1>2, <1>3, <1>4, <1>5, <1>6, <1>7, <1>8

\* A refreshed token that is not saved leaves its login marked.
LEMMA SaveFailsKeeps ==
    ASSUME CredInv, NEW t \in Threads, SaveFails(t)
    PROVE  CredInv'
<1> USE DEF CredInv, SaveFails, Goto, locks, history
<1>0. cred[t] # NoCred /\ cred[t].login \in Logins
    BY CredFields DEF Known, InUse, TypeOK
<1>1. TypeOK'
    BY <1>0, ReleaseType, CredentialsAssumption DEF TypeOK
<1>2. Locked'
    <2>1. CASE pc[t] \in {"wantAuthLock", "save"}
        <3>1. pc[t] \in InMutex
            BY <2>1 DEF InMutex
        <3> QED BY <2>1, <3>1, ReleaseKeepsLocks
    <2>2. CASE pc[t] \in {"loginLock", "loginSave"}
        BY <2>2 DEF Locked, HoldsLocks, InMutex, InRefreshLock, TypeOK
    <2> QED BY <2>1, <2>2
<1>3. Known'
    BY DEF Known, InUse, TypeOK
<1>4. RefreshedIsCurrent'
    BY DEF RefreshedIsCurrent, Presentable, TypeOK
<1>5. OvertakenMarked'
    BY DEF OvertakenMarked, Leasing, InUse, TypeOK
<1>6. LoginFresh'
    BY DEF LoginFresh, LoggingIn, InUse, TypeOK
<1>7. TokenSpentOnce'
    BY DEF TokenSpentOnce
<1>8. StoredIsCurrent'
    BY DEF StoredIsCurrent, Presentable, TypeOK
<1> QED BY <1>1, <1>2, <1>3, <1>4, <1>5, <1>6, <1>7, <1>8

\* A login's credential is of a login nobody has seen.
LEMMA LoginKeeps ==
    ASSUME CredInv, NEW t \in Threads, \E b \in BOOLEAN : Login(t, b)
    PROVE  CredInv'
<1> USE DEF CredInv, Login, Begin, Goto, locks, history
<1> DEFINE l == logins + 1
<1>0. l \in Logins /\ logins < l /\ l \in Nat /\ logins \in Nat
    BY CredentialsAssumption DEF TypeOK, Logins
<1>c. PICK b \in BOOLEAN : cred' = [cred EXCEPT ![t] = [login |-> l, gen |-> 0, oauth |-> b]]
    OBVIOUS
<1>d. /\ cred'[t] \in Creds /\ cred'[t].login = l /\ cred'[t].gen = 0
      /\ pc'[t] = "loginLock" /\ pc[t] = "idle" /\ logins' = l
      /\ \A u \in Threads : u # t => pc'[u] = pc[u] /\ cred'[u] = cred[u]
      /\ UNCHANGED <<stored, current, lost, loggedOut, reused>>
    BY <1>0, <1>c, LoginCred DEF TypeOK, history
<1>e. \A u \in Threads : cred[u] # NoCred => cred[u].login \in Logins /\ cred[u].login < l
    BY <1>0, CredFields DEF Known, TypeOK, Logins
<1>1. TypeOK'
    BY <1>0, <1>c, LoginCred, CredentialsAssumption DEF TypeOK
<1>2. Locked'
    BY DEF Locked, HoldsLocks, InMutex, InRefreshLock, TypeOK
<1>3. Known'
    <2>1. stored # NoCred => stored.login \in Logins
        BY CredFields DEF TypeOK
    <2> QED BY <2>1, <1>0, <1>d, <1>e, NoCredAssumption DEF Known, InUse, Logins
<1>4. RefreshedIsCurrent'
    BY DEF RefreshedIsCurrent, Presentable, TypeOK
<1>5. OvertakenMarked'
    BY DEF OvertakenMarked, Leasing, InUse, TypeOK
<1>6. LoginFresh'
    <2> SUFFICES ASSUME NEW u \in Threads, pc'[u] \in LoggingIn
                 PROVE  /\ cred'[u].gen = 0 /\ current'[cred'[u].login] = 0
                        /\ stored' # NoCred => stored'.login # cred'[u].login
                        /\ \A v \in Threads : v # u /\ pc'[v] # "idle"
                              => cred'[v].login # cred'[u].login
        BY DEF LoginFresh, InUse
    <2>1. CASE u = t
        <3>1. stored # NoCred => stored.login # l
            BY <1>0, CredFields DEF Known, TypeOK, Logins
        <3>2. current[l] = 0
            BY <1>0 DEF Known
        <3>3. \A v \in Threads : v # t /\ pc[v] # "idle" => cred[v].login # l
            BY <1>0, <1>e DEF Known, InUse, Logins
        <3> QED BY <2>1, <3>1, <3>2, <3>3, <1>d
    <2>2. CASE u # t
        <3>1. pc[u] \in LoggingIn /\ cred'[u] = cred[u] /\ cred[u] # NoCred
            BY <2>2, <1>d DEF Known, InUse, LoggingIn
        <3>2. cred[u].login # l
            BY <3>1, <1>0, <1>e DEF Logins
        <3> QED BY <3>1, <3>2, <2>2, <1>d DEF LoginFresh, InUse
    <2> QED BY <2>1, <2>2
<1>7. TokenSpentOnce'
    BY DEF TokenSpentOnce
<1>8. StoredIsCurrent'
    BY DEF StoredIsCurrent, Presentable, TypeOK
<1> QED BY <1>1, <1>2, <1>3, <1>4, <1>5, <1>6, <1>7, <1>8

\* A logout marks every lease that is under way.
LEMMA LogoutKeeps ==
    ASSUME CredInv, NEW t \in Threads, Logout(t)
    PROVE  CredInv'
<1> USE DEF CredInv, Logout, Begin, Goto, locks, history
<1>1. TypeOK'
    BY CredentialsAssumption DEF TypeOK
<1>2. Locked'
    BY DEF Locked, HoldsLocks, InMutex, InRefreshLock, TypeOK
<1>3. Known'
    BY DEF Known, InUse, TypeOK
<1>4. RefreshedIsCurrent'
    BY DEF RefreshedIsCurrent, Presentable, TypeOK
<1>5. OvertakenMarked'
    <2> SUFFICES ASSUME NEW u \in Threads, Leasing(u)'
                 PROVE  cred'[u].login \in loggedOut'
        BY DEF OvertakenMarked
    <2>1. u # t /\ Leasing(u) /\ cred'[u] = cred[u]
        BY DEF Leasing, InUse, TypeOK
    <2>2. cred[u].login \in Logins
        BY <2>1, CredFields DEF Known, Leasing, TypeOK
    <2> QED BY <2>1, <2>2
<1>6. LoginFresh'
    BY DEF LoginFresh, LoggingIn, InUse, TypeOK
<1>7. TokenSpentOnce'
    BY DEF TokenSpentOnce
<1>8. StoredIsCurrent'
    BY DEF StoredIsCurrent, Presentable, TypeOK
<1> QED BY <1>1, <1>2, <1>3, <1>4, <1>5, <1>6, <1>7, <1>8

\* Time passing touches nothing that the invariant speaks about but a type.
LEMMA ExpireKeeps ==
    ASSUME CredInv, NEW c \in Creds, Expire(c)
    PROVE  CredInv'
BY DEF CredInv, Expire, locks, history, TypeOK, Locked, HoldsLocks, Known, InUse,
       RefreshedIsCurrent, Presentable, OvertakenMarked, Leasing, LoginFresh,
       TokenSpentOnce, StoredIsCurrent

\* A crash lets go of the locks of the dead threads and marks the logins whose
\* refreshed tokens died with them; every other thread keeps what it had.
LEMMA CrashKeeps ==
    ASSUME CredInv, NEW p \in Processes, Crash(p)
    PROVE  CredInv'
<1> USE DEF CredInv, history
<1> DEFINE dead == {t \in Threads : ProcessOf[t] = p}
           marked == {cred[t].login : t \in {u \in dead : pc[u] \in {"wantAuthLock", "save"}}}
<1>1. /\ pc' = [t \in Threads |-> IF t \in dead THEN "idle" ELSE pc[t]]
      /\ lost' = lost \cup marked
      /\ mutex' = [mutex EXCEPT ![p] = NoThread]
      /\ refreshLock' = IF refreshLock \in dead THEN NoThread ELSE refreshLock
      /\ authLock' = IF authLock \in dead THEN NoThread ELSE authLock
      /\ UNCHANGED <<stored, expired, logins, current, ops, cred, force, reused, loggedOut>>
    BY DEF Crash
<1>2. marked \subseteq Logins
    BY CredFields DEF Known, InUse, TypeOK
<1>3. TypeOK'
    <2> HIDE DEF marked
    <2> QED BY <1>1, <1>2, CredentialsAssumption DEF TypeOK
<1>4. \A t \in Threads : pc'[t] # "idle" => t \notin dead /\ pc'[t] = pc[t]
    BY <1>1
<1>5. Locked'
    <2> SUFFICES ASSUME NEW t \in Threads PROVE HoldsLocks(t)'
        BY DEF Locked
    <2>1. CASE t \in dead
        BY <2>1, <1>1 DEF HoldsLocks, InMutex, InRefreshLock
    <2>2. CASE t \notin dead
        <3>1. pc'[t] = pc[t] /\ ProcessOf[t] # p /\ HoldsLocks(t)
            BY <2>2, <1>1 DEF Locked
        <3>2. mutex'[ProcessOf[t]] = mutex[ProcessOf[t]]
            BY <3>1, <1>1, CredentialsAssumption DEF TypeOK
        <3> QED BY <2>2, <3>1, <3>2, <1>1 DEF HoldsLocks
    <2> QED BY <2>1, <2>2
<1>6. Known'
    BY <1>1, <1>4 DEF Known, InUse
<1>7. RefreshedIsCurrent'
    BY <1>1, <1>4 DEF RefreshedIsCurrent, Presentable
<1>8. OvertakenMarked'
    BY <1>1, <1>4 DEF OvertakenMarked, Leasing, InUse
<1>9. LoginFresh'
    BY <1>1, <1>4 DEF LoginFresh, LoggingIn, InUse
<1>10. TokenSpentOnce'
    BY <1>1 DEF TokenSpentOnce
<1>11. StoredIsCurrent'
    BY <1>1 DEF StoredIsCurrent, Presentable
<1> QED BY <1>3, <1>5, <1>6, <1>7, <1>8, <1>9, <1>10, <1>11

-----------------------------------------------------------------------------
\* Every step of the program, the endpoint and the clock preserves it.
LEMMA NextCred == CredInv /\ [Next]_vars => CredInv'
<1> SUFFICES ASSUME CredInv, [Next]_vars PROVE CredInv'
    OBVIOUS
<1>1. ASSUME NEW t \in Threads, Step(t) PROVE CredInv'
    BY <1>1, LockMutexKeeps, LockRefreshKeeps, LockRefreshTimeoutKeeps, ReloadKeeps,
       RefreshAnsweredKeeps, RefreshFailsKeeps, RefreshRefusedKeeps, LockAuthKeeps,
       SaveKeeps, SaveFailsKeeps
    DEF Step
<1>2. ASSUME NEW t \in Threads, LeaseRefused(t) \/ Logout(t) PROVE CredInv'
    BY <1>2, LeaseRefusedKeeps, LogoutKeeps
<1>3. ASSUME NEW t \in Threads, NEW b \in BOOLEAN, Lease(t, b) \/ Login(t, b) PROVE CredInv'
    BY <1>3, LeaseKeeps, LoginKeeps
<1>4. ASSUME NEW c \in Creds, Expire(c) PROVE CredInv'
    BY <1>4, ExpireKeeps
<1>5. ASSUME NEW p \in Processes, Crash(p) PROVE CredInv'
    BY <1>5, CrashKeeps
<1>6. CASE UNCHANGED vars
    BY <1>6
    DEF vars, locks, history, CredInv, TypeOK, Locked, HoldsLocks, Known, InUse,
        RefreshedIsCurrent, Presentable, OvertakenMarked, Leasing, LoginFresh,
        TokenSpentOnce, StoredIsCurrent
<1> QED BY <1>1, <1>2, <1>3, <1>4, <1>5, <1>6 DEF Next

\* The invariant of the stored credential, for every instance.
THEOREM CredentialsCorrect == Spec => []CredInv
BY InitCred, NextCred, PTL DEF Spec

\* ensure_fresh never spends a refresh token twice, whatever threads and processes
\* race, unless the token that replaced it was lost or a logout took it away.
THEOREM TokenSpentOnceHolds == Spec => []TokenSpentOnce
<1>1. CredInv => TokenSpentOnce
    BY DEF CredInv
<1> QED BY <1>1, CredentialsCorrect, PTL

\* What auth.json holds can be refreshed, unless a refreshed token was lost, a
\* logout got between, or the next one is about to be saved.
THEOREM StoredIsCurrentHolds == Spec => []StoredIsCurrent
<1>1. CredInv => StoredIsCurrent
    BY DEF CredInv
<1> QED BY <1>1, CredentialsCorrect, PTL
=============================================================================
