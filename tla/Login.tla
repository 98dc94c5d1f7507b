------------------------------- MODULE Login -------------------------------
(***************************************************************************)
(* The login of ostool at a board server: TokenManager, the credential     *)
(* store and the requests that use a token.  Several tasks make requests;  *)
(* the tasks of one process share its TokenManager, all processes of the   *)
(* user share the store, which is the keyring of the system or, without    *)
(* one, the file hosts.json.                                               *)
(*                                                                         *)
(* A login is the number of its tokens: the authentication server answers  *)
(* a refresh with new tokens and honours the old refresh token no longer.  *)
(***************************************************************************)
EXTENDS Integers, FiniteSets

CONSTANTS
  Tasks,     \* what makes requests
  Processes, \* where tasks run
  NoLogin,   \* no record
  NoTask,    \* nobody
  MaxTokens  \* bound: tokens that are ever issued

ASSUME LoginAssumption == MaxTokens \in Nat /\ NoTask \notin Tasks

VARIABLES
  process,     \* the process of every task
  keyring,     \* the host has a keyring
  stored,      \* the record of the server in the store
  torn,        \* hosts.json was cut while it was written
  cached,      \* TokenManager::cached of every process
  guard,       \* who holds the lock on cached, of every process
  refreshLock, \* who holds the RefreshLock
  at,          \* what every task does
  mine,        \* the record that the task is working with
  issued,      \* tokens so far
  honoured,    \* the refresh tokens that the server honours
  aged         \* the tokens with an access token that is expired or about to be

loginVars == <<process, keyring, stored, torn, cached, guard, refreshLock, at, mine, issued, honoured, aged>>
serverVars == <<issued, honoured>>

Record(kind, n, by) == [kind |-> kind, n |-> n, by |-> by]
OAuth(n, by) == Record("oauth", n, by)

LoginInit ==
  /\ process \in [Tasks -> Processes] /\ keyring \in BOOLEAN
  /\ stored \in {NoLogin, OAuth(1, "login"), Record("pat", 1, "login")}
  /\ torn = FALSE /\ issued = 1 /\ honoured = {1} /\ aged = {}
  /\ cached = [p \in Processes |-> NoLogin] /\ guard = [p \in Processes |-> NoTask]
  /\ refreshLock = NoTask
  /\ at = [t \in Tasks |-> "idle"] /\ mine = [t \in Tasks |-> NoLogin]

Fresh(r) == r.n \notin aged
IsOAuth(r) == r # NoLogin /\ r.kind = "oauth"

-----------------------------------------------------------------------------
(***************************************************************************)
(* credential_store.rs.  Every call reads hosts.json, unless the keyring   *)
(* answers first; another process may just be writing it.                  *)
(***************************************************************************)
Writing(t) == \E u \in Tasks : process[u] # process[t] /\ at[u] \in {"save", "keep", "drop", "revoked", "rejected"}
LoadFails(t) == torn \/ (~keyring /\ Writing(t))
LoadWorks == keyring \/ ~torn
StoreSave(t, r) == (keyring \/ ~torn) /\ stored' = r
StoreDelete == ~torn /\ stored' = NoLogin
StoreFails(t) == LoadFails(t) \/ ~keyring

-----------------------------------------------------------------------------
(***************************************************************************)
(* authorization_token.                                                    *)
(***************************************************************************)
Goto(t, step) == at' = [at EXCEPT ![t] = step]
Work(t, r) == mine' = [mine EXCEPT ![t] = r]
Cache(t, r) == cached' = [cached EXCEPT ![process[t]] = r]
LetGo(t) == guard' = [guard EXCEPT ![process[t]] = NoTask]
Still == UNCHANGED <<process, keyring>>

\* The record of the process, or else of the store.
HeldLogin(t) == IF cached[process[t]] # NoLogin THEN cached[process[t]] ELSE stored

\* The lock on cached is held until the token is there: an expired access token needs a refresh.
Ask(t) ==
  /\ at[t] = "idle" /\ guard[process[t]] = NoTask
  /\ cached[process[t]] # NoLogin \/ LoadWorks
  /\ HeldLogin(t) # NoLogin
  /\ IF Fresh(HeldLogin(t)) THEN Goto(t, "send") /\ UNCHANGED guard
     ELSE /\ Goto(t, IF IsOAuth(HeldLogin(t)) THEN "wait" ELSE "expired")
          /\ guard' = [guard EXCEPT ![process[t]] = t]
  /\ Work(t, HeldLogin(t)) /\ Cache(t, HeldLogin(t))
  /\ Still /\ UNCHANGED <<stored, torn, refreshLock, serverVars, aged>>

\* A personal access token that is expired is deleted.
DropExpired(t) ==
  /\ at[t] = "expired" /\ StoreDelete
  /\ Cache(t, NoLogin) /\ Goto(t, "idle") /\ LetGo(t)
  /\ Still /\ UNCHANGED <<torn, refreshLock, mine, serverVars, aged>>

\* Mutant: what the store holds now is not looked at.
Mutant_NoReload(t) ==
  /\ at[t] = "wait" /\ refreshLock = NoTask /\ LoadWorks
  /\ refreshLock' = t /\ Goto(t, "refresh") /\ UNCHANGED <<cached, guard, mine>>
  /\ Still /\ UNCHANGED <<stored, torn, serverVars, aged>>

\* RefreshLock::acquire, and the store is read again: another process may have done it.  What is
\* refreshed else is still the record that the task came with.
TakeLock(t) ==
  /\ at[t] = "wait" /\ refreshLock = NoTask /\ LoadWorks
  /\ IF IsOAuth(stored) /\ Fresh(stored)
     THEN Work(t, stored) /\ Goto(t, "reload")
     ELSE Goto(t, "refresh") /\ UNCHANGED mine
  /\ refreshLock' = t
  /\ Still /\ UNCHANGED <<stored, torn, cached, guard, serverVars, aged>>

\* The cache gets what a second look finds, whatever a login or a logout has done since the first.
Reload(t) ==
  /\ at[t] = "reload" /\ LoadWorks
  /\ Cache(t, stored) /\ Goto(t, "send") /\ LetGo(t) /\ refreshLock' = NoTask
  /\ Still /\ UNCHANGED <<stored, torn, mine, serverVars, aged>>

\* AuthClient::refresh with the refresh token of the cached record.
Refresh(t) ==
  /\ at[t] = "refresh" /\ mine[t].n \in honoured /\ issued < MaxTokens
  /\ issued' = issued + 1 /\ honoured' = (honoured \ {mine[t].n}) \cup {issued + 1}
  /\ Goto(t, "save") /\ Work(t, OAuth(issued + 1, "refresh"))
  /\ Still /\ UNCHANGED <<stored, torn, cached, guard, refreshLock, aged>>

\* invalid_grant
RefreshRefused(t) ==
  /\ at[t] = "refresh" /\ mine[t].n \notin honoured
  /\ Goto(t, "drop")
  /\ Still /\ UNCHANGED <<stored, torn, cached, guard, refreshLock, mine, serverVars, aged>>

\* The new record is stored before it is used.
SaveRefreshed(t) ==
  /\ at[t] = "save" /\ StoreSave(t, mine[t])
  /\ Cache(t, mine[t]) /\ Goto(t, "send") /\ LetGo(t) /\ refreshLock' = NoTask
  /\ Still /\ UNCHANGED <<torn, mine, serverVars, aged>>

DropRefused(t) ==
  /\ at[t] = "drop" /\ StoreDelete
  /\ Cache(t, NoLogin) /\ Goto(t, "idle") /\ LetGo(t) /\ refreshLock' = NoTask
  /\ Still /\ UNCHANGED <<torn, mine, serverVars, aged>>

\* The question mark: the store cannot be read or written, or the answer of the server is lost,
\* before or after it did what it was asked to.
AskFails(t) ==
  /\ \/ at[t] \in {"wait", "expired", "reload"} /\ LoadFails(t) /\ UNCHANGED serverVars
     \/ at[t] \in {"save", "drop"} /\ StoreFails(t) /\ UNCHANGED serverVars
     \/ at[t] = "refresh" /\ UNCHANGED serverVars
     \/ /\ at[t] = "refresh" /\ mine[t].n \in honoured /\ issued < MaxTokens
        /\ issued' = issued + 1 /\ honoured' = (honoured \ {mine[t].n}) \cup {issued + 1}
  /\ Goto(t, "idle") /\ LetGo(t) /\ refreshLock' = IF refreshLock = t THEN NoTask ELSE refreshLock
  /\ Still /\ UNCHANGED <<stored, torn, cached, mine, aged>>

-----------------------------------------------------------------------------
(***************************************************************************)
(* A request; the gateway refuses a token that is expired or revoked.      *)
(***************************************************************************)
Sent(t) ==
  /\ at[t] = "send" /\ Goto(t, "idle")
  /\ Still /\ UNCHANGED <<stored, torn, cached, guard, refreshLock, mine, serverVars, aged>>

Unauthorized(t) ==
  /\ at[t] = "send" /\ (mine[t].n \in aged \/ mine[t].n \notin honoured)
  /\ Goto(t, "rejected")
  /\ Still /\ UNCHANGED <<stored, torn, cached, guard, refreshLock, mine, serverVars, aged>>

\* invalidate_after_unauthorized: the store first, then the cache; a failure is only logged.
Invalidate(t) ==
  /\ at[t] = "rejected"
  /\ \/ StoreDelete /\ Goto(t, "forget")
     \/ StoreFails(t) /\ UNCHANGED stored /\ Goto(t, "idle")
  /\ Still /\ UNCHANGED <<torn, cached, guard, refreshLock, mine, serverVars, aged>>

Forget(t) ==
  /\ at[t] = "forget" /\ guard[process[t]] = NoTask
  /\ Cache(t, NoLogin) /\ Goto(t, "idle")
  /\ Still /\ UNCHANGED <<stored, torn, guard, refreshLock, mine, serverVars, aged>>

-----------------------------------------------------------------------------
(***************************************************************************)
(* ostool login, login --with-token and logout take no RefreshLock.        *)
(***************************************************************************)
\* complete_device_login polls until the server grants the login.
Granted(t) ==
  /\ at[t] = "idle" /\ issued < MaxTokens
  /\ issued' = issued + 1 /\ honoured' = honoured \cup {issued + 1}
  /\ Work(t, OAuth(issued + 1, "login")) /\ Goto(t, "keep")
  /\ Still /\ UNCHANGED <<stored, torn, cached, guard, refreshLock, aged>>

Import(t) ==
  /\ at[t] = "idle" /\ issued < MaxTokens
  /\ issued' = issued + 1 /\ honoured' = honoured \cup {issued + 1}
  /\ Work(t, Record("pat", issued + 1, "login")) /\ Goto(t, "keep")
  /\ Still /\ UNCHANGED <<stored, torn, cached, guard, refreshLock, aged>>

KeepLogin(t) ==
  /\ at[t] = "keep"
  /\ \/ StoreSave(t, mine[t]) /\ Cache(t, mine[t])
     \/ StoreFails(t) /\ UNCHANGED <<stored, cached>>
  /\ Goto(t, "idle")
  /\ Still /\ UNCHANGED <<torn, guard, refreshLock, mine, serverVars, aged>>

\* The server is asked to revoke the session; a failure is only a warning.
Logout(t) ==
  /\ at[t] = "idle" /\ LoadWorks /\ Goto(t, "revoked")
  /\ honoured' \in {honoured, IF IsOAuth(stored) THEN honoured \ {stored.n} ELSE honoured}
  /\ Still /\ UNCHANGED <<stored, torn, cached, guard, refreshLock, mine, issued, aged>>

LogoutDeletes(t) ==
  /\ at[t] = "revoked"
  /\ \/ StoreDelete /\ Cache(t, NoLogin)
     \/ StoreFails(t) /\ UNCHANGED <<stored, cached>>
  /\ Goto(t, "idle")
  /\ Still /\ UNCHANGED <<torn, guard, refreshLock, mine, serverVars, aged>>

-----------------------------------------------------------------------------
\* An access token runs out, a personal one is withdrawn.
Age(n) ==
  /\ n \in 1..issued /\ n \notin aged /\ aged' = aged \cup {n}
  /\ Still /\ UNCHANGED <<stored, torn, cached, guard, refreshLock, at, mine, serverVars>>

\* A process is killed: the system frees its lock, a write of hosts.json may stay half done.
KillOstool(p) ==
  /\ LET tasks == {t \in Tasks : process[t] = p}
     IN /\ \E t \in tasks : at[t] # "idle"
        /\ at' = [t \in Tasks |-> IF t \in tasks THEN "idle" ELSE at[t]]
        /\ refreshLock' = IF refreshLock \in tasks THEN NoTask ELSE refreshLock
        /\ torn' \in {torn, torn \/ (~keyring /\ \E t \in tasks : at[t] \in {"save", "keep", "drop", "revoked", "rejected"})}
  /\ cached' = [cached EXCEPT ![p] = NoLogin] /\ guard' = [guard EXCEPT ![p] = NoTask]
  /\ Still /\ UNCHANGED <<stored, mine, serverVars, aged>>

LoginNext ==
  \/ \E t \in Tasks :
       \/ Ask(t) \/ DropExpired(t) \/ TakeLock(t) \/ Reload(t) \/ Refresh(t) \/ RefreshRefused(t)
       \/ SaveRefreshed(t) \/ DropRefused(t) \/ AskFails(t) \/ Sent(t) \/ Unauthorized(t) \/ Invalidate(t) \/ Forget(t)
       \/ Granted(t) \/ Import(t) \/ KeepLogin(t) \/ Logout(t) \/ LogoutDeletes(t)
  \/ \E n \in 1..MaxTokens : Age(n)
  \/ \E p \in Processes : KillOstool(p)

LoginSpec == LoginInit /\ [][LoginNext]_loginVars

-----------------------------------------------------------------------------
Refreshing == {"refresh", "save", "drop"}
Locking == Refreshing \cup {"reload"}
Steps == {"idle", "wait", "expired", "send", "rejected", "forget", "keep", "revoked"} \cup Locking
Logins == {NoLogin} \cup [kind : {"oauth", "pat"}, n : Nat, by : {"login", "refresh"}]

LoginTypeOK ==
  /\ process \in [Tasks -> Processes] /\ keyring \in BOOLEAN /\ torn \in BOOLEAN
  /\ stored \in Logins /\ cached \in [Processes -> Logins] /\ mine \in [Tasks -> Logins]
  /\ refreshLock \in Tasks \cup {NoTask} /\ guard \in [Processes -> Tasks \cup {NoTask}]
  /\ at \in [Tasks -> Steps]
  /\ issued \in Nat /\ aged \subseteq 1..issued /\ honoured \subseteq 1..issued

\* The RefreshLock and the lock on cached are held exactly as long as they are needed.
LocksAreHeld ==
  \A t \in Tasks :
    /\ (refreshLock = t) = (at[t] \in Locking)
    /\ (guard[process[t]] = t) = (at[t] \in Locking \cup {"wait", "expired"})

\* As long as a task refreshes, no usable result of another refresh is in the store: what it replaces
\* or deletes at the end is not one.  That is all the RefreshLock protects: the task refreshes the
\* record it came with, so when a result of another process has aged, it is refused and deletes that
\* result; and it replaces or deletes what a login, which takes no lock, stored meanwhile.
RefreshIsNeeded ==
  \A t \in Tasks : at[t] \in Refreshing /\ IsOAuth(stored) /\ stored.by = "refresh" => ~Fresh(stored)

\* What a login is about to store was not made by a refresh.
LoginIsNew == \A t \in Tasks : at[t] = "keep" => mine[t].by = "login"

\* However logins, refreshes, revocations, kills and failing stores of several processes meet, no
\* refresh replaces or deletes the result of another one that can still be used, and no lock is kept or
\* lost.
LoginInv == LoginTypeOK /\ LocksAreHeld /\ RefreshIsNeeded /\ LoginIsNew
=============================================================================
