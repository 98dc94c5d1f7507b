----------------------------- MODULE HostProofs -----------------------------
(***************************************************************************)
(* What holds of the login, the builds, the preparation of QEMU, the       *)
(* layout of FIT images and the console phase of a run for any tasks,      *)
(* processes, targets, mirrors, numbers of runs, segments and sections,    *)
(* and for any output, in chunks cut anywhere, and any shell checks.       *)
(***************************************************************************)
EXTENDS Login, BuildArtifacts, QemuBoot, FitLayout, ConsoleRun, FiniteSetTheorems, SequenceTheorems, WellFoundedInduction, TLAPS

\* The next-state relation of the login, action by action.
LEMMA LoginCases ==
  ASSUME LoginNext, NEW G,
         \A t \in Tasks : Ask(t) => G, \A t \in Tasks : DropExpired(t) => G,
         \A t \in Tasks : TakeLock(t) => G, \A t \in Tasks : Reload(t) => G, \A t \in Tasks : Refresh(t) => G,
         \A t \in Tasks : RefreshRefused(t) => G, \A t \in Tasks : SaveRefreshed(t) => G,
         \A t \in Tasks : DropRefused(t) => G, \A t \in Tasks : AskFails(t) => G,
         \A t \in Tasks : Sent(t) => G, \A t \in Tasks : Unauthorized(t) => G,
         \A t \in Tasks : Invalidate(t) => G, \A t \in Tasks : Forget(t) => G,
         \A t \in Tasks : Granted(t) => G, \A t \in Tasks : Import(t) => G,
         \A t \in Tasks : KeepLogin(t) => G, \A t \in Tasks : Logout(t) => G,
         \A t \in Tasks : LogoutDeletes(t) => G,
         \A n : Age(n) => G, \A p \in Processes : KillOstool(p) => G
  PROVE  G
  BY DEF LoginNext

\* The records that the code makes are records.
LEMMA RecordsAreTyped ==
  ASSUME NEW n \in Nat
  PROVE  /\ OAuth(n, "login") \in Logins /\ OAuth(n, "refresh") \in Logins
         /\ Record("pat", n, "login") \in Logins
         /\ OAuth(n, "login").by = "login" /\ OAuth(n, "refresh").by = "refresh"
         /\ Record("pat", n, "login").by = "login"
  BY DEF OAuth, Record, Logins

\* One more token is issued, and the one that was used is no longer honoured.
LEMMA TokensAreIssued ==
  ASSUME NEW n \in Nat, NEW H, H \subseteq 1..n, NEW A, A \subseteq 1..n, NEW old
  PROVE  /\ n + 1 \in Nat /\ A \subseteq 1..(n + 1)
         /\ (H \ {old}) \cup {n + 1} \subseteq 1..(n + 1)
         /\ H \cup {n + 1} \subseteq 1..(n + 1)
<1>1. n + 1 \in Nat /\ n + 1 \in 1..(n + 1)
  OBVIOUS
<1>2. 1..n \subseteq 1..(n + 1)
  OBVIOUS
<1>. QED BY <1>1, <1>2

\* Every action keeps the invariant of the login.
LEMMA LoginStep ==
  ASSUME LoginInv, LoginNext
  PROVE  LoginInv'
<1>. USE LoginAssumption DEF LoginInv, Goto, Work, Cache, LetGo, Still, serverVars
<1>1. ASSUME NEW t \in Tasks, Ask(t)  PROVE  LoginInv'
  <2>1. LoginTypeOK'
    BY <1>1, RecordsAreTyped DEF Ask, HeldLogin, LoadWorks, LoginTypeOK, Steps, Locking, Refreshing, Logins
  <2>2. LocksAreHeld'
    BY <1>1 DEF Ask, HeldLogin, LoadWorks, LoginTypeOK, LocksAreHeld, Steps, Locking, Refreshing
  <2>3. RefreshIsNeeded'
    BY <1>1 DEF Ask, HeldLogin, LoadWorks, LoginTypeOK, LocksAreHeld, RefreshIsNeeded, LoginIsNew, Refreshing, IsOAuth, Fresh
  <2>4. LoginIsNew'
    BY <1>1, RecordsAreTyped DEF Ask, HeldLogin, LoadWorks, LoginTypeOK, LoginIsNew
  <2>. QED BY <2>1, <2>2, <2>3, <2>4
<1>2. ASSUME NEW t \in Tasks, DropExpired(t)  PROVE  LoginInv'
  <2>1. LoginTypeOK'
    BY <1>2, RecordsAreTyped DEF DropExpired, StoreDelete, LoginTypeOK, Steps, Locking, Refreshing, Logins
  <2>2. LocksAreHeld'
    BY <1>2 DEF DropExpired, StoreDelete, LoginTypeOK, LocksAreHeld, Steps, Locking, Refreshing
  <2>3. RefreshIsNeeded'
    BY <1>2 DEF DropExpired, StoreDelete, LoginTypeOK, LocksAreHeld, RefreshIsNeeded, LoginIsNew, Refreshing, IsOAuth, Fresh
  <2>4. LoginIsNew'
    BY <1>2, RecordsAreTyped DEF DropExpired, StoreDelete, LoginTypeOK, LoginIsNew
  <2>. QED BY <2>1, <2>2, <2>3, <2>4
<1>3. ASSUME NEW t \in Tasks, TakeLock(t)  PROVE  LoginInv'
  <2>1. LoginTypeOK'
    <3>1. at' \in [Tasks -> Steps] /\ guard' \in [Processes -> Tasks \cup {NoTask}]
          /\ refreshLock' \in Tasks \cup {NoTask}
      BY <1>3 DEF TakeLock, LoginTypeOK, Steps, Locking, Refreshing
    <3>2. mine' \in [Tasks -> Logins] /\ cached' \in [Processes -> Logins]
      BY <1>3 DEF TakeLock, LoginTypeOK
    <3>. QED BY <1>3, <3>1, <3>2 DEF TakeLock, LoginTypeOK
  <2>2. LocksAreHeld'
    BY <1>3 DEF TakeLock, LoadWorks, LoginTypeOK, LocksAreHeld, Steps, Locking, Refreshing
  <2>3. RefreshIsNeeded'
    BY <1>3 DEF TakeLock, LoadWorks, LoginTypeOK, LocksAreHeld, RefreshIsNeeded, LoginIsNew, Refreshing, IsOAuth, Fresh
  <2>4. LoginIsNew'
    BY <1>3, RecordsAreTyped DEF TakeLock, LoadWorks, LoginTypeOK, LoginIsNew
  <2>. QED BY <2>1, <2>2, <2>3, <2>4
<1>20. ASSUME NEW t \in Tasks, Reload(t)  PROVE  LoginInv'
  <2>1. LoginTypeOK'
    BY <1>20 DEF Reload, LoginTypeOK, Steps, Locking, Refreshing
  <2>2. LocksAreHeld'
    BY <1>20 DEF Reload, LoginTypeOK, LocksAreHeld, Steps, Locking, Refreshing
  <2>3. RefreshIsNeeded'
    BY <1>20 DEF Reload, LoginTypeOK, RefreshIsNeeded, Refreshing, IsOAuth, Fresh
  <2>4. LoginIsNew'
    BY <1>20 DEF Reload, LoginTypeOK, LoginIsNew
  <2>. QED BY <2>1, <2>2, <2>3, <2>4
<1>4. ASSUME NEW t \in Tasks, Refresh(t)  PROVE  LoginInv'
  <2>1. LoginTypeOK'
    <3>1. issued' \in Nat /\ aged' \subseteq 1..issued' /\ honoured' \subseteq 1..issued'
      BY <1>4, TokensAreIssued DEF Refresh, LoginTypeOK
    <3>2. mine' \in [Tasks -> Logins]
      BY <1>4, <3>1, RecordsAreTyped DEF Refresh, LoginTypeOK
    <3>3. at' \in [Tasks -> Steps]
      BY <1>4 DEF Refresh, LoginTypeOK, Steps, Locking, Refreshing
    <3>. QED BY <1>4, <3>1, <3>2, <3>3 DEF Refresh, LoginTypeOK
  <2>2. LocksAreHeld'
    BY <1>4 DEF Refresh, LoginTypeOK, LocksAreHeld, Steps, Locking, Refreshing
  <2>3. RefreshIsNeeded'
    BY <1>4 DEF Refresh, LoginTypeOK, LocksAreHeld, RefreshIsNeeded, LoginIsNew, Refreshing, IsOAuth, Fresh
  <2>4. LoginIsNew'
    BY <1>4, RecordsAreTyped DEF Refresh, LoginTypeOK, LoginIsNew
  <2>. QED BY <2>1, <2>2, <2>3, <2>4
<1>5. ASSUME NEW t \in Tasks, RefreshRefused(t)  PROVE  LoginInv'
  <2>1. LoginTypeOK'
    BY <1>5, RecordsAreTyped DEF RefreshRefused, LoginTypeOK, Steps, Locking, Refreshing, Logins
  <2>2. LocksAreHeld'
    BY <1>5 DEF RefreshRefused, LoginTypeOK, LocksAreHeld, Steps, Locking, Refreshing
  <2>3. RefreshIsNeeded'
    BY <1>5 DEF RefreshRefused, LoginTypeOK, LocksAreHeld, RefreshIsNeeded, LoginIsNew, Refreshing, IsOAuth, Fresh
  <2>4. LoginIsNew'
    BY <1>5, RecordsAreTyped DEF RefreshRefused, LoginTypeOK, LoginIsNew
  <2>. QED BY <2>1, <2>2, <2>3, <2>4
<1>6. ASSUME NEW t \in Tasks, SaveRefreshed(t)  PROVE  LoginInv'
  <2>1. LoginTypeOK'
    BY <1>6, RecordsAreTyped DEF SaveRefreshed, StoreSave, LoginTypeOK, Steps, Locking, Refreshing, Logins
  <2>2. LocksAreHeld'
    BY <1>6 DEF SaveRefreshed, StoreSave, LoginTypeOK, LocksAreHeld, Steps, Locking, Refreshing
  <2>3. RefreshIsNeeded'
    BY <1>6 DEF SaveRefreshed, StoreSave, LoginTypeOK, LocksAreHeld, RefreshIsNeeded, LoginIsNew, Locking, Refreshing, IsOAuth, Fresh
  <2>4. LoginIsNew'
    BY <1>6, RecordsAreTyped DEF SaveRefreshed, StoreSave, LoginTypeOK, LoginIsNew
  <2>. QED BY <2>1, <2>2, <2>3, <2>4
<1>7. ASSUME NEW t \in Tasks, DropRefused(t)  PROVE  LoginInv'
  <2>1. LoginTypeOK'
    BY <1>7, RecordsAreTyped DEF DropRefused, StoreDelete, LoginTypeOK, Steps, Locking, Refreshing, Logins
  <2>2. LocksAreHeld'
    BY <1>7 DEF DropRefused, StoreDelete, LoginTypeOK, LocksAreHeld, Steps, Locking, Refreshing
  <2>3. RefreshIsNeeded'
    BY <1>7 DEF DropRefused, StoreDelete, LoginTypeOK, LocksAreHeld, RefreshIsNeeded, LoginIsNew, Refreshing, IsOAuth, Fresh
  <2>4. LoginIsNew'
    BY <1>7, RecordsAreTyped DEF DropRefused, StoreDelete, LoginTypeOK, LoginIsNew
  <2>. QED BY <2>1, <2>2, <2>3, <2>4
<1>8. ASSUME NEW t \in Tasks, AskFails(t)  PROVE  LoginInv'
  <2>1. LoginTypeOK'
    <3>1. issued' \in Nat /\ aged' \subseteq 1..issued' /\ honoured' \subseteq 1..issued'
      BY <1>8, TokensAreIssued DEF AskFails, LoginTypeOK
    <3>2. at' \in [Tasks -> Steps] /\ guard' \in [Processes -> Tasks \cup {NoTask}]
          /\ refreshLock' \in Tasks \cup {NoTask}
      BY <1>8 DEF AskFails, LoginTypeOK, Steps, Locking, Refreshing
    <3>. QED BY <1>8, <3>1, <3>2 DEF AskFails, LoginTypeOK
  <2>2. LocksAreHeld'
    BY <1>8 DEF AskFails, LoginTypeOK, LocksAreHeld, Steps, Locking, Refreshing
  <2>3. RefreshIsNeeded'
    BY <1>8 DEF AskFails, LoginTypeOK, LocksAreHeld, RefreshIsNeeded, LoginIsNew, Refreshing, IsOAuth, Fresh
  <2>4. LoginIsNew'
    BY <1>8, RecordsAreTyped DEF AskFails, LoginTypeOK, LoginIsNew
  <2>. QED BY <2>1, <2>2, <2>3, <2>4
<1>9. ASSUME NEW t \in Tasks, Sent(t)  PROVE  LoginInv'
  <2>1. LoginTypeOK'
    BY <1>9, RecordsAreTyped DEF Sent, LoginTypeOK, Steps, Locking, Refreshing, Logins
  <2>2. LocksAreHeld'
    BY <1>9 DEF Sent, LoginTypeOK, LocksAreHeld, Steps, Locking, Refreshing
  <2>3. RefreshIsNeeded'
    BY <1>9 DEF Sent, LoginTypeOK, LocksAreHeld, RefreshIsNeeded, LoginIsNew, Refreshing, IsOAuth, Fresh
  <2>4. LoginIsNew'
    BY <1>9, RecordsAreTyped DEF Sent, LoginTypeOK, LoginIsNew
  <2>. QED BY <2>1, <2>2, <2>3, <2>4
<1>10. ASSUME NEW t \in Tasks, Unauthorized(t)  PROVE  LoginInv'
  <2>1. LoginTypeOK'
    BY <1>10, RecordsAreTyped DEF Unauthorized, LoginTypeOK, Steps, Locking, Refreshing, Logins
  <2>2. LocksAreHeld'
    BY <1>10 DEF Unauthorized, LoginTypeOK, LocksAreHeld, Steps, Locking, Refreshing
  <2>3. RefreshIsNeeded'
    BY <1>10 DEF Unauthorized, LoginTypeOK, LocksAreHeld, RefreshIsNeeded, LoginIsNew, Refreshing, IsOAuth, Fresh
  <2>4. LoginIsNew'
    BY <1>10, RecordsAreTyped DEF Unauthorized, LoginTypeOK, LoginIsNew
  <2>. QED BY <2>1, <2>2, <2>3, <2>4
<1>11. ASSUME NEW t \in Tasks, Invalidate(t)  PROVE  LoginInv'
  <2>1. LoginTypeOK'
    BY <1>11, RecordsAreTyped DEF Invalidate, StoreDelete, LoginTypeOK, Steps, Locking, Refreshing, Logins
  <2>2. LocksAreHeld'
    BY <1>11 DEF Invalidate, StoreDelete, LoginTypeOK, LocksAreHeld, Steps, Locking, Refreshing
  <2>3. RefreshIsNeeded'
    BY <1>11 DEF Invalidate, StoreDelete, LoginTypeOK, LocksAreHeld, RefreshIsNeeded, LoginIsNew, Refreshing, IsOAuth, Fresh
  <2>4. LoginIsNew'
    BY <1>11, RecordsAreTyped DEF Invalidate, StoreDelete, LoginTypeOK, LoginIsNew
  <2>. QED BY <2>1, <2>2, <2>3, <2>4
<1>12. ASSUME NEW t \in Tasks, Forget(t)  PROVE  LoginInv'
  <2>1. LoginTypeOK'
    BY <1>12, RecordsAreTyped DEF Forget, LoginTypeOK, Steps, Locking, Refreshing, Logins
  <2>2. LocksAreHeld'
    BY <1>12 DEF Forget, LoginTypeOK, LocksAreHeld, Steps, Locking, Refreshing
  <2>3. RefreshIsNeeded'
    BY <1>12 DEF Forget, LoginTypeOK, LocksAreHeld, RefreshIsNeeded, LoginIsNew, Refreshing, IsOAuth, Fresh
  <2>4. LoginIsNew'
    BY <1>12, RecordsAreTyped DEF Forget, LoginTypeOK, LoginIsNew
  <2>. QED BY <2>1, <2>2, <2>3, <2>4
<1>13. ASSUME NEW t \in Tasks, Granted(t)  PROVE  LoginInv'
  <2>1. LoginTypeOK'
    BY <1>13, RecordsAreTyped DEF Granted, LoginTypeOK, Steps, Locking, Refreshing, Logins
  <2>2. LocksAreHeld'
    BY <1>13 DEF Granted, LoginTypeOK, LocksAreHeld, Steps, Locking, Refreshing
  <2>3. RefreshIsNeeded'
    BY <1>13 DEF Granted, LoginTypeOK, LocksAreHeld, RefreshIsNeeded, LoginIsNew, Refreshing, IsOAuth, Fresh
  <2>4. LoginIsNew'
    BY <1>13, RecordsAreTyped DEF Granted, LoginTypeOK, LoginIsNew
  <2>. QED BY <2>1, <2>2, <2>3, <2>4
<1>14. ASSUME NEW t \in Tasks, Import(t)  PROVE  LoginInv'
  <2>1. LoginTypeOK'
    BY <1>14, RecordsAreTyped DEF Import, LoginTypeOK, Steps, Locking, Refreshing, Logins
  <2>2. LocksAreHeld'
    BY <1>14 DEF Import, LoginTypeOK, LocksAreHeld, Steps, Locking, Refreshing
  <2>3. RefreshIsNeeded'
    BY <1>14 DEF Import, LoginTypeOK, LocksAreHeld, RefreshIsNeeded, LoginIsNew, Refreshing, IsOAuth, Fresh
  <2>4. LoginIsNew'
    BY <1>14, RecordsAreTyped DEF Import, LoginTypeOK, LoginIsNew
  <2>. QED BY <2>1, <2>2, <2>3, <2>4
<1>15. ASSUME NEW t \in Tasks, KeepLogin(t)  PROVE  LoginInv'
  <2>1. LoginTypeOK'
    BY <1>15, RecordsAreTyped DEF KeepLogin, StoreSave, LoginTypeOK, Steps, Locking, Refreshing, Logins
  <2>2. LocksAreHeld'
    BY <1>15 DEF KeepLogin, StoreSave, LoginTypeOK, LocksAreHeld, Steps, Locking, Refreshing
  <2>3. RefreshIsNeeded'
    BY <1>15 DEF KeepLogin, StoreSave, LoginTypeOK, LocksAreHeld, RefreshIsNeeded, LoginIsNew, Refreshing, IsOAuth, Fresh
  <2>4. LoginIsNew'
    BY <1>15, RecordsAreTyped DEF KeepLogin, StoreSave, LoginTypeOK, LoginIsNew
  <2>. QED BY <2>1, <2>2, <2>3, <2>4
<1>16. ASSUME NEW t \in Tasks, Logout(t)  PROVE  LoginInv'
  <2>1. LoginTypeOK'
    BY <1>16, RecordsAreTyped DEF Logout, LoginTypeOK, Steps, Locking, Refreshing, Logins
  <2>2. LocksAreHeld'
    BY <1>16 DEF Logout, LoginTypeOK, LocksAreHeld, Steps, Locking, Refreshing
  <2>3. RefreshIsNeeded'
    BY <1>16 DEF Logout, LoginTypeOK, LocksAreHeld, RefreshIsNeeded, LoginIsNew, Refreshing, IsOAuth, Fresh
  <2>4. LoginIsNew'
    BY <1>16, RecordsAreTyped DEF Logout, LoginTypeOK, LoginIsNew
  <2>. QED BY <2>1, <2>2, <2>3, <2>4
<1>17. ASSUME NEW t \in Tasks, LogoutDeletes(t)  PROVE  LoginInv'
  <2>1. LoginTypeOK'
    BY <1>17, RecordsAreTyped DEF LogoutDeletes, StoreDelete, LoginTypeOK, Steps, Locking, Refreshing, Logins
  <2>2. LocksAreHeld'
    BY <1>17 DEF LogoutDeletes, StoreDelete, LoginTypeOK, LocksAreHeld, Steps, Locking, Refreshing
  <2>3. RefreshIsNeeded'
    BY <1>17 DEF LogoutDeletes, StoreDelete, LoginTypeOK, LocksAreHeld, RefreshIsNeeded, LoginIsNew, Refreshing, IsOAuth, Fresh
  <2>4. LoginIsNew'
    BY <1>17, RecordsAreTyped DEF LogoutDeletes, StoreDelete, LoginTypeOK, LoginIsNew
  <2>. QED BY <2>1, <2>2, <2>3, <2>4
<1>18. ASSUME NEW n, Age(n)  PROVE  LoginInv'
  BY <1>18 DEF Age, LoginTypeOK, LocksAreHeld, RefreshIsNeeded, LoginIsNew, IsOAuth, Fresh
<1>19. ASSUME NEW p \in Processes, KillOstool(p)  PROVE  LoginInv'
  <2>1. LoginTypeOK'
    BY <1>19 DEF KillOstool, LoginTypeOK, Steps, Logins
  <2>2. LocksAreHeld'
    BY <1>19 DEF KillOstool, LoginTypeOK, LocksAreHeld, Locking, Refreshing
  <2>3. RefreshIsNeeded' /\ LoginIsNew'
    BY <1>19 DEF KillOstool, LoginTypeOK, RefreshIsNeeded, LoginIsNew, Refreshing, IsOAuth, Fresh
  <2>. QED BY <2>1, <2>2, <2>3
<1>. QED BY LoginCases, <1>1, <1>2, <1>3, <1>4, <1>5, <1>6, <1>7, <1>8, <1>9, <1>10, <1>11, <1>12, <1>13, <1>14, <1>15, <1>16, <1>17, <1>18, <1>19, <1>20

\* LoginInv holds for any tasks in any processes: the locks, and the result of a refresh as long as it
\* can be used, are safe from the refreshes of the others.
THEOREM LoginIsSafe == LoginSpec => []LoginInv
<1>1. LoginInit => LoginInv
  <2>. SUFFICES ASSUME LoginInit  PROVE LoginInv
    OBVIOUS
  <2>1. LoginTypeOK
    <3>1. OAuth(1, "login") \in Logins /\ Record("pat", 1, "login") \in Logins /\ NoLogin \in Logins
      BY RecordsAreTyped DEF Logins
    <3>2. issued \in Nat /\ aged \subseteq 1..issued /\ honoured \subseteq 1..issued
      BY DEF LoginInit
    <3>. QED BY <3>1, <3>2 DEF LoginInit, LoginTypeOK, Steps
  <2>2. LocksAreHeld /\ RefreshIsNeeded /\ LoginIsNew
    BY LoginAssumption DEF LoginInit, LocksAreHeld, RefreshIsNeeded, LoginIsNew, Locking, Refreshing
  <2>. QED BY <2>1, <2>2 DEF LoginInv
<1>2. LoginInv /\ [LoginNext]_loginVars => LoginInv'
  <2>1. ASSUME LoginInv, UNCHANGED loginVars  PROVE LoginInv'
    BY <2>1 DEF LoginInv, loginVars, LoginTypeOK, LocksAreHeld, RefreshIsNeeded, LoginIsNew, IsOAuth, Fresh
  <2>. QED BY <2>1, LoginStep
<1>. QED BY <1>1, <1>2, PTL DEF LoginSpec

-----------------------------------------------------------------------------
(***************************************************************************)
(* The preparation of QEMU.                                                *)
(***************************************************************************)
QemuSteps == {"idle", "firmware", "download", "clear", "extract", "sha256", "esp", "initramfs", "cmdline", "vars", "running"}

QemuTypeOK ==
  /\ release \in Nat \ {0} /\ release <= MaxReleases /\ runs \in Nat
  /\ files \in [BootFiles -> Int] /\ step \in QemuSteps /\ job \in Jobs \cup {NoJob}
  /\ used \in [Archs \cup {NoArch} -> {<<>>} \cup {Named(a)[i] : a \in Archs \cup {NoArch}, i \in 1..2}]

\* The digest of the installed release is in the cache only beside its files; an update takes it out
\* before it touches them and puts it back after them.
CacheInv ==
  /\ files["sha256"] \in {Absent, Half} \cup 1..MaxReleases
  /\ ~downgraded => files["sha256"] <= release
  /\ FirmwareIsWhole
  /\ step \in {"download", "clear"} => files["sha256"] # release
  /\ step \in {"extract", "sha256"} => files["sha256"] \in {Absent, Half}
  /\ step = "sha256" => \A f \in CacheFiles : files[f] = release
  /\ step \in {"esp", "initramfs", "cmdline", "vars"} \/ (step = "running" /\ job.uefi) => files["sha256"] = release

\* How much of the disk of the firmware is of this run at each step.
DiskInv ==
  /\ step \in {"download", "clear", "extract", "sha256", "esp", "initramfs", "cmdline", "vars"} => job.uefi
  /\ step \in {"initramfs", "cmdline", "vars"} => files["boot"] = runs
  /\ step \in {"cmdline", "vars"} => files["initramfs"] = job.initramfs
  /\ step = "vars" => files["cmdline"] = job.cmdline
  /\ step = "running" /\ job.uefi =>
       /\ files["boot"] \in {runs, GuestWrote(runs)}
       /\ files["initramfs"] \in {job.initramfs, GuestWrote(runs)}
       /\ files["cmdline"] \in {job.cmdline, GuestWrote(runs)}
       /\ files["nvram"] \in {release, GuestWrote(runs)}
  /\ step = "running" /\ ~job.uefi => loader = [kernel |-> runs, initramfs |-> job.initramfs, cmdline |-> job.cmdline]

\* The file that was used for an architecture is still there and still comes first.
ConfigInv ==
  \A a \in Archs \cup {NoArch} : used[a] # <<>> =>
    used[a] \in configs /\ used[a] = resolve_qemu_config_path(a, configs)

QemuInv == QemuTypeOK /\ CacheInv /\ DiskInv /\ ConfigInv

\* Which configuration file is read, spelled out.
LEMMA ResolveKnown ==
  ASSUME NEW a \in Archs, NEW present
  PROVE  resolve_qemu_config_path(a, present) =
           IF <<"qemu", a>> \in present THEN <<"qemu", a>>
           ELSE IF <<".qemu", a>> \in present THEN <<".qemu", a>>
           ELSE IF <<"qemu", NoArch>> \in present THEN <<"qemu", NoArch>>
           ELSE IF <<".qemu", NoArch>> \in present THEN <<".qemu", NoArch>>
           ELSE <<".qemu", a>>
<1> DEFINE c == candidates(a)
           found == {i \in DOMAIN c : c[i] \in present}
<1>1. /\ DOMAIN c = 1..4
      /\ c[1] = <<"qemu", a>> /\ c[2] = <<".qemu", a>>
      /\ c[3] = <<"qemu", NoArch>> /\ c[4] = <<".qemu", NoArch>>
  <2>1. c = Named(a) \o Named(NoArch)
    BY QemuBootAssumption DEF candidates, Archs
  <2>. QED BY <2>1 DEF Named
<1>2. resolve_qemu_config_path(a, present) =
        IF found # {} THEN c[CHOOSE i \in found : \A j \in found : i <= j] ELSE <<".qemu", a>>
  BY DEF resolve_qemu_config_path, Named
<1>3. ASSUME NEW i \in 1..4, c[i] \in present, \A j \in 1..4 : j < i => c[j] \notin present
      PROVE  resolve_qemu_config_path(a, present) = c[i]
  <2>1. i \in found /\ \A j \in found : i <= j
    BY <1>1, <1>3
  <2>2. found # {} /\ (CHOOSE k \in found : \A j \in found : k <= j) = i
    <3>1. \A k \in found : (\A j \in found : k <= j) => k = i
      BY <1>1, <2>1
    <3>. QED BY <2>1, <3>1
  <2>. QED BY <1>2, <2>2
<1>4. (\A i \in 1..4 : c[i] \notin present) => resolve_qemu_config_path(a, present) = <<".qemu", a>>
  BY <1>1, <1>2
<1> HIDE DEF c
<1>5. CASE c[1] \in present
  BY <1>1, <1>3, <1>5
<1>6. CASE c[1] \notin present /\ c[2] \in present
  BY <1>1, <1>3, <1>6
<1>7. CASE c[1] \notin present /\ c[2] \notin present /\ c[3] \in present
  BY <1>1, <1>3, <1>7
<1>8. CASE c[1] \notin present /\ c[2] \notin present /\ c[3] \notin present /\ c[4] \in present
  BY <1>1, <1>3, <1>8
<1>9. CASE \A i \in 1..4 : c[i] \notin present
  BY <1>1, <1>4, <1>9
<1>. QED BY <1>5, <1>6, <1>7, <1>8, <1>9

\* The same when the architecture is not known.
LEMMA ResolveUnknown ==
  ASSUME NEW present
  PROVE  resolve_qemu_config_path(NoArch, present) =
           IF <<"qemu", NoArch>> \in present THEN <<"qemu", NoArch>> ELSE <<".qemu", NoArch>>
<1> DEFINE c == candidates(NoArch)
           found == {i \in DOMAIN c : c[i] \in present}
<1>1. DOMAIN c = 1..2 /\ c[1] = <<"qemu", NoArch>> /\ c[2] = <<".qemu", NoArch>>
  BY DEF candidates, Named
<1>2. resolve_qemu_config_path(NoArch, present) =
        IF found # {} THEN c[CHOOSE i \in found : \A j \in found : i <= j] ELSE <<".qemu", NoArch>>
  BY DEF resolve_qemu_config_path, Named
<1>3. CASE c[1] \in present
  <2>1. 1 \in found /\ \A j \in found : 1 <= j
    BY <1>1, <1>3
  <2>2. (CHOOSE k \in found : \A j \in found : k <= j) = 1
    <3>1. \A k \in found : (\A j \in found : k <= j) => k = 1
      BY <1>1, <2>1
    <3>. QED BY <2>1, <3>1
  <2>. QED BY <1>1, <1>2, <1>3, <2>1, <2>2
<1>4. CASE c[1] \notin present
  <2>1. found = {} \/ found = {2}
    BY <1>1, <1>4
  <2>. QED BY <1>1, <1>2, <1>4, <2>1
<1>. QED BY <1>3, <1>4

\* A configuration that is read or written keeps the choice of every architecture that has one.
LEMMA ConfigIsKept ==
  ASSUME QemuTypeOK, ConfigInv, NEW arch \in Archs \cup {NoArch},
         configs' = configs \cup {resolve_qemu_config_path(arch, configs)},
         used' = [used EXCEPT ![arch] = resolve_qemu_config_path(arch, configs)]
  PROVE  ConfigInv'
<1> DEFINE path == resolve_qemu_config_path(arch, configs)
<1>0. NoArch \notin Archs
  BY QemuBootAssumption DEF Archs
<1>1. path \in configs \/ path = <<".qemu", arch>>
  BY ResolveKnown, ResolveUnknown
<1>. SUFFICES ASSUME NEW a \in Archs \cup {NoArch}, used'[a] # <<>>
              PROVE  used'[a] \in configs' /\ used'[a] = resolve_qemu_config_path(a, configs')
  BY DEF ConfigInv
<1>3. CASE path \in configs
  <2>1. configs' = configs
    BY <1>3
  <2>2. CASE a = arch
    <3>1. used'[a] = path
      BY <2>2 DEF QemuTypeOK
    <3>2. resolve_qemu_config_path(a, configs') = path
      BY <2>1, <2>2
    <3>. QED BY <1>3, <2>1, <3>1, <3>2
  <2>3. CASE a # arch
    <3>1. used'[a] = used[a]
      BY <2>3 DEF QemuTypeOK
    <3>. QED BY <2>1, <3>1 DEF ConfigInv
  <2>. QED BY <2>2, <2>3
<1>4. CASE path \notin configs /\ a = arch
  <2>1. used'[a] = path /\ path \in configs'
    BY <1>4 DEF QemuTypeOK
  <2>2. CASE a \in Archs
    <3>1. /\ <<"qemu", a>> \notin configs /\ path = <<".qemu", a>>
      BY <1>4, <2>2, ResolveKnown
    <3>2. resolve_qemu_config_path(a, configs') = <<".qemu", a>>
      <4>1. <<"qemu", a>> \notin configs' /\ <<".qemu", a>> \in configs'
        BY <3>1
      <4>. QED BY <2>2, <4>1, ResolveKnown
    <3>. QED BY <2>1, <3>1, <3>2
  <2>3. CASE a = NoArch
    <3>1. <<"qemu", NoArch>> \notin configs /\ path = <<".qemu", NoArch>>
      BY <1>4, <2>3, ResolveUnknown
    <3>2. resolve_qemu_config_path(NoArch, configs') = <<".qemu", NoArch>>
      <4>1. <<"qemu", NoArch>> \notin configs'
        BY <3>1
      <4>. QED BY <4>1, ResolveUnknown
    <3>. QED BY <2>1, <2>3, <3>1, <3>2
  <2>. QED BY <2>2, <2>3
<1>5. CASE path \notin configs /\ a # arch
  <2>1. path = <<".qemu", arch>> /\ used'[a] = used[a] /\ used[a] \in configs
        /\ used[a] = resolve_qemu_config_path(a, configs)
    BY <1>1, <1>5 DEF ConfigInv, QemuTypeOK
  <2>2. \A b : <<"qemu", b>> \in configs' <=> <<"qemu", b>> \in configs
    BY <2>1
  <2>3. \A b : b # arch => (<<".qemu", b>> \in configs' <=> <<".qemu", b>> \in configs)
    BY <2>1
  <2>4. CASE a = NoArch
    BY <1>0, <1>5, <2>1, <2>2, <2>3, <2>4, ResolveUnknown
  <2>5. CASE a \in Archs
    <3>1. used[a] # <<".qemu", arch>>
      BY <1>5, <2>1
    <3>2. \A q \in {<<"qemu", a>>, <<".qemu", a>>, <<"qemu", NoArch>>} : q \in configs' <=> q \in configs
      BY <1>5, <2>2, <2>3
    <3>3. <<".qemu", NoArch>> \in configs => <<".qemu", NoArch>> \in configs'
      OBVIOUS
    <3> HIDE DEF path
    <3>4. resolve_qemu_config_path(a, configs) = IF <<"qemu", a>> \in configs THEN <<"qemu", a>>
           ELSE IF <<".qemu", a>> \in configs THEN <<".qemu", a>>
           ELSE IF <<"qemu", NoArch>> \in configs THEN <<"qemu", NoArch>>
           ELSE IF <<".qemu", NoArch>> \in configs THEN <<".qemu", NoArch>>
           ELSE <<".qemu", a>>
      BY <2>5, ResolveKnown
    <3>5. resolve_qemu_config_path(a, configs') = IF <<"qemu", a>> \in configs' THEN <<"qemu", a>>
           ELSE IF <<".qemu", a>> \in configs' THEN <<".qemu", a>>
           ELSE IF <<"qemu", NoArch>> \in configs' THEN <<"qemu", NoArch>>
           ELSE IF <<".qemu", NoArch>> \in configs' THEN <<".qemu", NoArch>>
           ELSE <<".qemu", a>>
      BY <2>5, ResolveKnown
    <3>6. used[a] \in configs => used[a] # <<".qemu", a>> \/ <<".qemu", a>> \in configs
      OBVIOUS
    <3>. QED BY <2>1, <3>2, <3>3, <3>4, <3>5, <3>6
  <2>. QED BY <2>4, <2>5
<1>. QED BY <1>3, <1>4, <1>5

\* Every action keeps the invariant of the preparation.
LEMMA QemuStep ==
  ASSUME QemuInv, QemuNext
  PROVE  QemuInv'
<1>. USE DEF QemuInv
<1>1. CASE EnsureConfig
  <2>1. QemuTypeOK'
    <3>1. \A arch \in Archs \cup {NoArch} : \E b \in Archs \cup {NoArch}, i \in 1..2 :
            resolve_qemu_config_path(arch, configs) = Named(b)[i]
      <4>1. \A b : Named(b)[1] = <<"qemu", b>> /\ Named(b)[2] = <<".qemu", b>>
        BY DEF Named
      <4>. QED BY <4>1, ResolveKnown, ResolveUnknown
    <3>. QED BY <3>1, <1>1 DEF EnsureConfig, QemuTypeOK, QemuSteps
  <2>2. CacheInv'
    BY <1>1 DEF EnsureConfig, QemuTypeOK, CacheInv, DiskInv, FirmwareIsWhole, BootFiles, CacheFiles, Absent, Half
  <2>3. DiskInv'
    BY <1>1 DEF EnsureConfig, QemuTypeOK, CacheInv, DiskInv, FirmwareIsWhole, BootFiles, CacheFiles, Absent, Half, GuestWrote
  <2>4. ConfigInv'
    BY <1>1, ConfigIsKept DEF EnsureConfig, Jobs
  <2>. QED BY <2>1, <2>2, <2>3, <2>4
<1>2. CASE CacheIsCurrent
  <2>1. QemuTypeOK'
    BY <1>2 DEF CacheIsCurrent, Keep, QemuTypeOK, QemuSteps
  <2>2. CacheInv'
    BY <1>2 DEF CacheIsCurrent, Keep, QemuTypeOK, CacheInv, DiskInv, FirmwareIsWhole, BootFiles, CacheFiles, Absent, Half
  <2>3. DiskInv'
    BY <1>2 DEF CacheIsCurrent, Keep, QemuTypeOK, CacheInv, DiskInv, FirmwareIsWhole, BootFiles, CacheFiles, Absent, Half, GuestWrote
  <2>4. ConfigInv'
    BY <1>2 DEF CacheIsCurrent, Keep, ConfigInv
  <2>. QED BY <2>1, <2>2, <2>3, <2>4
<1>3. CASE ProbeMirrors
  <2>1. QemuTypeOK'
    BY <1>3 DEF ProbeMirrors, Keep, QemuTypeOK, QemuSteps
  <2>2. CacheInv'
    BY <1>3 DEF ProbeMirrors, Keep, QemuTypeOK, CacheInv, DiskInv, FirmwareIsWhole, BootFiles, CacheFiles, Absent, Half
  <2>3. DiskInv'
    BY <1>3 DEF ProbeMirrors, Keep, QemuTypeOK, CacheInv, DiskInv, FirmwareIsWhole, BootFiles, CacheFiles, Absent, Half, GuestWrote
  <2>4. ConfigInv'
    BY <1>3 DEF ProbeMirrors, Keep, ConfigInv
  <2>. QED BY <2>1, <2>2, <2>3, <2>4
<1>4. CASE Download
  <2>1. QemuTypeOK'
    BY <1>4 DEF Download, Keep, QemuTypeOK, QemuSteps
  <2>2. CacheInv'
    BY <1>4 DEF Download, Keep, QemuTypeOK, CacheInv, DiskInv, FirmwareIsWhole, BootFiles, CacheFiles, Absent, Half
  <2>3. DiskInv'
    BY <1>4 DEF Download, Keep, QemuTypeOK, CacheInv, DiskInv, FirmwareIsWhole, BootFiles, CacheFiles, Absent, Half, GuestWrote
  <2>4. ConfigInv'
    BY <1>4 DEF Download, Keep, ConfigInv
  <2>. QED BY <2>1, <2>2, <2>3, <2>4
<1>5. CASE DownloadFails
  <2>1. QemuTypeOK'
    BY <1>5 DEF DownloadFails, Keep, QemuTypeOK, QemuSteps
  <2>2. CacheInv'
    BY <1>5 DEF DownloadFails, Keep, QemuTypeOK, CacheInv, DiskInv, FirmwareIsWhole, BootFiles, CacheFiles, Absent, Half
  <2>3. DiskInv'
    BY <1>5 DEF DownloadFails, Keep, QemuTypeOK, CacheInv, DiskInv, FirmwareIsWhole, BootFiles, CacheFiles, Absent, Half, GuestWrote
  <2>4. ConfigInv'
    BY <1>5 DEF DownloadFails, Keep, ConfigInv
  <2>. QED BY <2>1, <2>2, <2>3, <2>4
<1>6. CASE ClearCache
  <2>1. QemuTypeOK'
    <3>1. CacheFiles \cup {"sha256"} \subseteq BootFiles /\ Absent \in Int
      BY DEF BootFiles, Absent
    <3>. QED BY <1>6, <3>1 DEF ClearCache, Keep, QemuTypeOK, QemuSteps
  <2>2. CacheInv'
    BY <1>6 DEF ClearCache, Keep, QemuTypeOK, CacheInv, DiskInv, FirmwareIsWhole, BootFiles, CacheFiles, Absent, Half
  <2>3. DiskInv'
    BY <1>6 DEF ClearCache, Keep, QemuTypeOK, CacheInv, DiskInv, FirmwareIsWhole, BootFiles, CacheFiles, Absent, Half, GuestWrote
  <2>4. ConfigInv'
    BY <1>6 DEF ClearCache, Keep, ConfigInv
  <2>. QED BY <2>1, <2>2, <2>3, <2>4
<1>7. CASE Extract
  <2>1. QemuTypeOK'
    <3>1. CacheFiles \subseteq BootFiles /\ Half \in Int
      BY DEF BootFiles, Half
    <3>. QED BY <1>7, <3>1 DEF Extract, Keep, Write, QemuTypeOK, QemuSteps
  <2>2. CacheInv'
    BY <1>7 DEF Extract, Keep, Write, QemuTypeOK, CacheInv, DiskInv, FirmwareIsWhole, BootFiles, CacheFiles, Absent, Half
  <2>3. DiskInv'
    BY <1>7 DEF Extract, Keep, Write, QemuTypeOK, CacheInv, DiskInv, FirmwareIsWhole, BootFiles, CacheFiles, Absent, Half, GuestWrote
  <2>4. ConfigInv'
    BY <1>7 DEF Extract, Keep, ConfigInv
  <2>. QED BY <2>1, <2>2, <2>3, <2>4
<1>8. CASE WriteHash
  <2>1. QemuTypeOK'
    BY <1>8 DEF WriteHash, Keep, Write, QemuTypeOK, QemuSteps, BootFiles, Half
  <2>2. CacheInv'
    BY <1>8 DEF WriteHash, Keep, Write, QemuTypeOK, CacheInv, DiskInv, FirmwareIsWhole, BootFiles, CacheFiles, Absent, Half
  <2>3. DiskInv'
    BY <1>8 DEF WriteHash, Keep, Write, QemuTypeOK, CacheInv, DiskInv, FirmwareIsWhole, BootFiles, CacheFiles, Absent, Half, GuestWrote
  <2>4. ConfigInv'
    BY <1>8 DEF WriteHash, Keep, ConfigInv
  <2>. QED BY <2>1, <2>2, <2>3, <2>4
<1>9. CASE CopyBin
  <2>1. QemuTypeOK'
    BY <1>9 DEF CopyBin, Keep, Write, QemuTypeOK, QemuSteps, BootFiles, Half
  <2>2. CacheInv'
    BY <1>9 DEF CopyBin, Keep, Write, QemuTypeOK, CacheInv, DiskInv, FirmwareIsWhole, BootFiles, CacheFiles, Absent, Half
  <2>3. DiskInv'
    BY <1>9 DEF CopyBin, Keep, Write, QemuTypeOK, CacheInv, DiskInv, FirmwareIsWhole, BootFiles, CacheFiles, Absent, Half, GuestWrote
  <2>4. ConfigInv'
    BY <1>9 DEF CopyBin, Keep, ConfigInv
  <2>. QED BY <2>1, <2>2, <2>3, <2>4
<1>10. CASE StageInitramfs
  <2>1. QemuTypeOK'
    BY <1>10 DEF StageInitramfs, Keep, Write, QemuTypeOK, QemuSteps, BootFiles, Half, Absent, Jobs, NoJob
  <2>2. CacheInv'
    BY <1>10 DEF StageInitramfs, Keep, Write, QemuTypeOK, CacheInv, DiskInv, FirmwareIsWhole, BootFiles, CacheFiles, Absent, Half
  <2>3. DiskInv'
    BY <1>10 DEF StageInitramfs, Keep, Write, QemuTypeOK, CacheInv, DiskInv, FirmwareIsWhole, BootFiles, CacheFiles, Absent, Half, GuestWrote
  <2>4. ConfigInv'
    BY <1>10 DEF StageInitramfs, Keep, ConfigInv
  <2>. QED BY <2>1, <2>2, <2>3, <2>4
<1>11. CASE StageCmdline
  <2>1. QemuTypeOK'
    BY <1>11 DEF StageCmdline, Keep, Write, QemuTypeOK, QemuSteps, BootFiles, Half, Absent, Jobs, NoJob
  <2>2. CacheInv'
    BY <1>11 DEF StageCmdline, Keep, Write, QemuTypeOK, CacheInv, DiskInv, FirmwareIsWhole, BootFiles, CacheFiles, Absent, Half
  <2>3. DiskInv'
    BY <1>11 DEF StageCmdline, Keep, Write, QemuTypeOK, CacheInv, DiskInv, FirmwareIsWhole, BootFiles, CacheFiles, Absent, Half, GuestWrote
  <2>4. ConfigInv'
    BY <1>11 DEF StageCmdline, Keep, ConfigInv
  <2>. QED BY <2>1, <2>2, <2>3, <2>4
<1>12. CASE CopyVars
  <2>1. QemuTypeOK'
    <3>1. files["vars"] \in Int /\ Half \in Int /\ "nvram" \in BootFiles
      BY DEF QemuTypeOK, BootFiles, CacheFiles, Half
    <3>. QED BY <1>12, <3>1 DEF CopyVars, Keep, Write, QemuTypeOK, QemuSteps
  <2>2. CacheInv'
    BY <1>12 DEF CopyVars, Keep, Write, QemuTypeOK, CacheInv, DiskInv, FirmwareIsWhole, BootFiles, CacheFiles, Absent, Half
  <2>3. DiskInv'
    BY <1>12 DEF CopyVars, Keep, Write, QemuTypeOK, CacheInv, DiskInv, FirmwareIsWhole, BootFiles, CacheFiles, Absent, Half, GuestWrote
  <2>4. ConfigInv'
    BY <1>12 DEF CopyVars, Keep, ConfigInv
  <2>. QED BY <2>1, <2>2, <2>3, <2>4
<1>13. CASE DirectBoot
  <2>1. QemuTypeOK'
    BY <1>13 DEF DirectBoot, Keep, QemuTypeOK, QemuSteps
  <2>2. CacheInv'
    BY <1>13 DEF DirectBoot, Keep, QemuTypeOK, CacheInv, DiskInv, FirmwareIsWhole, BootFiles, CacheFiles, Absent, Half
  <2>3. DiskInv'
    BY <1>13 DEF DirectBoot, Keep, QemuTypeOK, CacheInv, DiskInv, FirmwareIsWhole, BootFiles, CacheFiles, Absent, Half, GuestWrote
  <2>4. ConfigInv'
    BY <1>13 DEF DirectBoot, Keep, ConfigInv
  <2>. QED BY <2>1, <2>2, <2>3, <2>4
<1>14. CASE GuestWrites
  <2>1. QemuTypeOK'
    BY <1>14 DEF GuestWrites, GuestFiles, Keep, GuestWrote, QemuTypeOK, QemuSteps, BootFiles
  <2>2. CacheInv'
    BY <1>14 DEF GuestWrites, GuestFiles, Keep, GuestWrote, QemuTypeOK, CacheInv, DiskInv, FirmwareIsWhole, BootFiles, CacheFiles, Absent, Half
  <2>3. DiskInv'
    BY <1>14 DEF GuestWrites, GuestFiles, Keep, GuestWrote, QemuTypeOK, CacheInv, DiskInv, FirmwareIsWhole, BootFiles, CacheFiles, Absent, Half
  <2>4. ConfigInv'
    BY <1>14 DEF GuestWrites, GuestFiles, Keep, ConfigInv
  <2>. QED BY <2>1, <2>2, <2>3, <2>4
<1>15. CASE QemuStops
  <2>1. QemuTypeOK'
    BY <1>15 DEF QemuStops, QemuTypeOK, QemuSteps
  <2>2. CacheInv'
    BY <1>15 DEF QemuStops, QemuTypeOK, CacheInv, DiskInv, FirmwareIsWhole, BootFiles, CacheFiles, Absent, Half
  <2>3. DiskInv'
    BY <1>15 DEF QemuStops, QemuTypeOK, CacheInv, DiskInv, FirmwareIsWhole, BootFiles, CacheFiles, Absent, Half, GuestWrote
  <2>4. ConfigInv'
    BY <1>15 DEF QemuStops, ConfigInv
  <2>. QED BY <2>1, <2>2, <2>3, <2>4
<1>16. CASE ReplaceOstool
  <2>0. /\ files' = files /\ step' = step /\ step = "idle"
        /\ release' \in Nat \ {0} /\ release' <= MaxReleases
        /\ ~downgraded' => ~downgraded /\ release < release'
    <3>1. /\ files' = files /\ step' = step /\ step = "idle"
          /\ release' \in 1..MaxReleases /\ release' # release
      BY <1>16 DEF ReplaceOstool
    <3>2. ~downgraded' => ~downgraded /\ ~(release' < release)
      BY <1>16, Zenon DEF ReplaceOstool
    <3>. QED BY <3>1, <3>2, QemuBootAssumption DEF QemuTypeOK
  <2>1. QemuTypeOK'
    BY <1>16, <2>0 DEF ReplaceOstool, QemuTypeOK
  <2>2. CacheInv'
    <3>1. ~downgraded' => files["sha256"] < release'
      BY <2>0 DEF QemuTypeOK, CacheInv, BootFiles
    <3>. QED BY <2>0, <3>1 DEF CacheInv, FirmwareIsWhole, QemuTypeOK, BootFiles
  <2>3. DiskInv'
    BY <1>16, <2>0 DEF ReplaceOstool, DiskInv
  <2>4. ConfigInv'
    BY <1>16 DEF ReplaceOstool, ConfigInv
  <2>. QED BY <2>1, <2>2, <2>3, <2>4
<1>. QED BY <1>1, <1>2, <1>3, <1>4, <1>5, <1>6, <1>7, <1>8, <1>9, <1>10, <1>11, <1>12, <1>13, <1>14, <1>15, <1>16 DEF QemuNext

\* GuestSeesThisRun holds for any architectures, mirrors, releases and runs.
THEOREM GuestIsSafe == QemuSpec => []GuestSeesThisRun
<1>1. QemuInit => QemuInv
  <2>. SUFFICES ASSUME QemuInit  PROVE QemuInv
    OBVIOUS
  <2>1. QemuTypeOK
    BY QemuBootAssumption DEF QemuInit, QemuTypeOK, QemuSteps, Absent
  <2>2. CacheInv /\ DiskInv
    BY QemuBootAssumption DEF QemuInit, CacheInv, DiskInv, FirmwareIsWhole, BootFiles, CacheFiles, Absent
  <2>3. ConfigInv
    BY QemuBootAssumption DEF QemuInit, ConfigInv
  <2>. QED BY <2>1, <2>2, <2>3 DEF QemuInv
<1>2. QemuInv /\ [QemuNext]_qemuVars => QemuInv'
  <2>1. ASSUME QemuInv, UNCHANGED qemuVars  PROVE QemuInv'
    BY <2>1 DEF QemuInv, qemuVars, QemuTypeOK, CacheInv, DiskInv, ConfigInv, FirmwareIsWhole
  <2>. QED BY <2>1, QemuStep
<1>3. QemuInv => GuestSeesThisRun
  BY DEF QemuInv, QemuTypeOK, CacheInv, DiskInv, ConfigInv, GuestSeesThisRun, FirmwareIsWhole,
         BootFilesAreOfThisRun, CacheFiles, BootFiles, Absent, Half
<1>. QED BY <1>1, <1>2, <1>3, PTL DEF QemuSpec

-----------------------------------------------------------------------------
(***************************************************************************)
(* Builds, their artifacts and the runners.                                *)
(***************************************************************************)
Building == {"build", "apply", "post", "analyse", "publish"}
KindNames == {"disassembly", "elf-info", "symbols"}
KindLists == Requests \cup {<<>>}
AnalysisPaths == {Analysis(t, k) : t \in Targets, k \in KindNames}

Commands ==
  [op : {"none", "build", "cargo_build", "prepare"}, system : {"cargo", "custom"}, bin : Names, test : Names,
   kinds : KindLists, runner : {"none", "qemu", "uboot"}, needsBin : BOOLEAN, target : Names, published : Seq(KindNames)]
Invocations ==
  [cargo : {NoName} \cup Paths, elf : {NoName} \cup {Elf(t) : t \in Targets} \cup {RuntimeElf(t) : t \in Targets},
   bin : {NoName} \cup {Bin(t) : t \in Targets}, debug : SUBSET Paths]
Analyses == [target : Names, kinds : KindLists, stamp : Nat, ok : BOOLEAN]

BuildTypeOK ==
  /\ disk \in [Paths -> Nat] /\ stamp \in Nat /\ ready \in Names
  /\ stage \in Building \cup {"idle", "ensure", "fit", "running"}
  /\ command \in Commands /\ invocation \in Invocations /\ analysed \in Analyses

\* Everything that is registered was made from the ELF of the target as it is now.
MadeFrom(t) ==
  /\ t \in Targets /\ disk[Elf(t)] # 0
  /\ invocation.elf \in {Elf(t), RuntimeElf(t)} /\ disk[invocation.elf] = disk[Elf(t)]
  /\ invocation.bin \in {NoName, Bin(t)}
  /\ invocation.bin # NoName => disk[invocation.bin] = disk[Elf(t)]

\* The target is the one that was selected; a command that ended is forgotten.
TargetInv ==
  /\ stage = "idle" => command = NoCommand
  /\ stage = "build" /\ command.system = "custom" => command.target \in Targets
  /\ command.system = "custom" => command.test = NoName /\ command.target = command.bin
  /\ stage \in {"apply", "post", "analyse", "publish"} => command.target \in Targets /\ disk[Elf(command.target)] # 0
  /\ command.target # NoName /\ command.bin # NoName => command.target = command.bin
  /\ command.target # NoName /\ command.test # NoName => command.target = command.test
  /\ stage \in {"ensure", "fit", "running"} /\ ready # NoName =>
       /\ command.bin # NoName => ready = command.bin
       /\ command.test # NoName => ready = command.test

\* How a preparation comes to be true, and stays true until a runner has its image.
ReadyInv ==
  /\ stage \in Building => ready = NoName
  /\ ready # NoName => MadeFrom(ready)
  /\ stage = "post" => command.system = "cargo"
  /\ stage = "post" /\ command.op = "prepare" => invocation.elf = Elf(command.target) /\ invocation.bin = NoName
  /\ stage \in {"analyse", "publish"} /\ command.op = "prepare" => MadeFrom(command.target)
  /\ stage \in {"fit", "running"} => invocation.elf # NoName
  /\ stage = "fit" \/ (stage = "running" /\ (command.runner = "uboot" \/ command.needsBin)) => invocation.bin # NoName
  /\ stage = "running" /\ command.runner = "uboot" => disk[Fit] = disk[invocation.bin]

Outputs(a) == {Analysis(a.target, a.kinds[i]) : i \in 1..Len(a.kinds)}

\* How an analysis comes to be whole: while it is published nothing is registered, and what is
\* published so far is a beginning of what was asked for, made from the ELF.
AnalysisInv ==
  /\ stage \in Building => invocation.debug = {}
  /\ Outputs(analysed) \subseteq AnalysisPaths
  /\ invocation.debug # {} => analysed.ok /\ invocation.debug = Outputs(analysed)
  /\ \A p \in invocation.debug : disk[p] = analysed.stamp
  /\ stage # "publish" /\ ~analysed.ok => \A p \in Outputs(analysed) : disk[p] = 0
  /\ stage # "publish" => command.published = <<>>
  /\ stage = "publish" =>
       /\ Len(command.published) <= Len(command.kinds)
       /\ \A i \in 1..Len(command.published) :
            /\ command.published[i] = command.kinds[i]
            /\ disk[Analysis(command.target, command.kinds[i])] = disk[Elf(command.target)]

BuildInv == BuildTypeOK /\ TargetInv /\ ReadyInv /\ AnalysisInv

\* The files of a target are different files.
LEMMA PathsDiffer ==
  /\ Fit \in Paths /\ NoName \notin Paths
  /\ \A t \in Targets : Elf(t) \in Paths /\ RuntimeElf(t) \in Paths /\ Bin(t) \in Paths
  /\ \A t \in Targets, k \in KindNames : Analysis(t, k) \in Paths
  /\ \A t, u : Elf(t) # RuntimeElf(u) /\ Elf(t) # Bin(u) /\ RuntimeElf(t) # Bin(u)
  /\ \A t : Elf(t) # Fit /\ RuntimeElf(t) # Fit /\ Bin(t) # Fit
  /\ \A t, u : (Elf(t) = Elf(u) => t = u) /\ (RuntimeElf(t) = RuntimeElf(u) => t = u) /\ (Bin(t) = Bin(u) => t = u)
  /\ \A t : Elf(t)[2] = t /\ RuntimeElf(t)[2] = t
<1>1. NoName \notin Paths
  BY BuildAssumption
<1>. QED BY <1>1 DEF Paths, Fit, Elf, RuntimeElf, Bin, Analysis, KindNames

\* No output of an analysis is one of them.
LEMMA OutputsDiffer ==
  ASSUME NEW p \in AnalysisPaths
  PROVE  p \in Paths /\ p # Fit /\ \A u : p # Elf(u) /\ p # RuntimeElf(u) /\ p # Bin(u)
  BY DEF AnalysisPaths, Paths, Fit, Elf, RuntimeElf, Bin, Analysis, KindNames

\* What can be asked for are sequences of kinds.
LEMMA KindListsAreSequences ==
  ASSUME NEW ks \in KindLists
  PROVE  ks \in Seq(KindNames) /\ Len(ks) \in Nat /\ \A i \in 1..Len(ks) : ks[i] \in KindNames
<1>1. Kinds \in Seq(KindNames) /\ Len(Kinds) = 3
  BY DEF Kinds, KindNames
<1>2. SubSeq(Kinds, 1, 2) \in Seq(KindNames) /\ SubSeq(Kinds, 3, 3) \in Seq(KindNames)
  <2>1. \A i \in 1..3 : Kinds[i] \in KindNames
    BY DEF Kinds, KindNames
  <2>. QED BY <2>1, SubSeqProperties
<1>3. ks \in Seq(KindNames)
  <2>1. <<>> \in Seq(KindNames)
    OBVIOUS
  <2>. QED BY <1>2, <2>1 DEF KindLists, Requests
<1>. QED BY <1>3

\* The selected executable is one that Cargo has built, and the one that was named.
LEMMA SelectIsReported ==
  ASSUME NEW reported, NEW bin, NEW test, NEW package, NEW defaultRun,
         select_executable_artifact(reported, bin, test, package, defaultRun) # NoName
  PROVE  LET target == select_executable_artifact(reported, bin, test, package, defaultRun)
         IN /\ target \in reported
            /\ bin # NoName => target = bin
            /\ bin = NoName /\ test # NoName => target = test
<1>1. Cardinality(reported) = 1 => (CHOOSE t \in reported : TRUE) \in reported
  <2>1. CASE reported = {}
    BY <2>1, FS_EmptySet
  <2>2. CASE reported # {}
    BY <2>2
  <2>. QED BY <2>1, <2>2
<1>. QED BY <1>1 DEF select_executable_artifact

\* A selector names an executable or a test.
LEMMA SelectionsAreTyped ==
  \A final \in Selections : final.bin \in Names /\ final.test \in Names
  BY DEF Selections, apply_cargo_selector, Names

\* The values a command begins and ends with are of their types.
LEMMA NullsOfBuild ==
  /\ NoCommand \in Commands /\ OutputArtifacts \in Invocations /\ NoAnalysis \in Analyses
  /\ NoCommand.system = "cargo" /\ NoCommand.op = "none" /\ NoCommand.kinds = <<>> /\ NoCommand.published = <<>>
  /\ NoCommand.bin = NoName /\ NoCommand.test = NoName /\ NoCommand.target = NoName
  /\ OutputArtifacts.debug = {} /\ NoAnalysis.ok /\ Outputs(NoAnalysis) = {}
<1>1. <<>> \in Seq(KindNames) /\ <<>> \in KindLists /\ Len(<<>>) = 0
  BY DEF KindLists
<1>2. NoCommand \in Commands /\ OutputArtifacts \in Invocations /\ NoAnalysis \in Analyses
  BY <1>1 DEF NoCommand, OutputArtifacts, NoAnalysis, Commands, Invocations, Analyses, Names
<1>3. Outputs(NoAnalysis) = {}
  BY <1>1 DEF Outputs, NoAnalysis
<1>. QED BY <1>2, <1>3 DEF NoCommand, OutputArtifacts, NoAnalysis

\* What a preparation registers.
LEMMA PreparedIsTyped ==
  ASSUME NEW cargo \in {NoName} \cup Paths, NEW t \in Targets, NEW exe \in {Elf(t), RuntimeElf(t)},
         NEW bin \in {NoName, Bin(t)}
  PROVE  /\ Prepared(cargo, exe, bin) \in Invocations
         /\ Prepared(cargo, exe, bin).elf = exe /\ Prepared(cargo, exe, bin).bin = bin
         /\ Prepared(cargo, exe, bin).debug = {}
  BY DEF Prepared, Invocations

\* A runner is given to a command, which stays what it is.
LEMMA RunsKeeps ==
  ASSUME command \in Commands, Runs
  PROVE  /\ command' \in Commands /\ command'.runner \in {"qemu", "uboot"}
         /\ command'.op = command.op /\ command'.system = command.system /\ command'.bin = command.bin
         /\ command'.test = command.test /\ command'.target = command.target /\ command'.published = <<>>
<1>1. <<>> \in Seq(KindNames) /\ <<>> \in KindLists
  BY DEF KindLists
<1>. QED BY <1>1 DEF Runs, Commands

\* How a command ends: a build is forgotten, a preparation is ready and may be run at once.
LEMMA FinishedCases ==
  ASSUME command \in Commands, Finished
  PROVE  /\ command' \in Commands /\ command'.published = <<>> /\ stage' \in {"idle", "ensure"}
         /\ stage' = "idle" => command' = NoCommand
         /\ stage' = "ensure" => /\ command'.system = command.system /\ command'.bin = command.bin
                                 /\ command'.test = command.test /\ command'.target = command.target
         /\ ready' = IF command.op = "prepare" THEN command.target ELSE NoName
  BY NullsOfBuild, RunsKeeps DEF Finished, Done

\* Outside of its publication an analysis is left alone.
LEMMA AnalysisIsKept ==
  ASSUME BuildInv, analysed' = analysed, stage # "publish", stage' # "publish",
         \A p \in AnalysisPaths : disk'[p] = disk[p],
         invocation'.debug \in {{}, invocation.debug}, command'.published \in {<<>>, command.published},
         stage' \in Building => stage \in Building \/ invocation'.debug = {}
  PROVE  AnalysisInv'
<1>1. invocation.debug \subseteq AnalysisPaths
  BY DEF BuildInv, AnalysisInv
<1>. QED BY <1>1 DEF BuildInv, AnalysisInv, Outputs

\* A build begins.
LEMMA BeginBuildStep ==
  ASSUME BuildInv, BeginBuild
  PROVE  BuildInv'
<1>1. PICK op \in {"build", "cargo_build", "prepare"}, system \in {"cargo", "custom"}, final \in Selections :
        /\ system = "custom" => final.bin # NoName /\ final.test = NoName
        /\ command' = [NoCommand EXCEPT !.op = op, !.system = system, !.bin = final.bin, !.test = final.test,
                                       !.target = IF system = "custom" THEN final.bin ELSE NoName]
  BY DEF BeginBuild
<1>2. final.bin \in Names /\ final.test \in Names
  BY SelectionsAreTyped
<1>3. /\ command' \in Commands /\ command'.system = system /\ command'.bin = final.bin /\ command'.test = final.test
      /\ command'.target = (IF system = "custom" THEN final.bin ELSE NoName) /\ command'.published = <<>>
  BY <1>1, <1>2, NullsOfBuild DEF Commands, Names
<1>4. invocation' \in Invocations /\ invocation'.debug = {}
  BY DEF BeginBuild, BuildInv, BuildTypeOK, Invocations
<1>5. BuildTypeOK'
  BY <1>3, <1>4 DEF BeginBuild, BuildInv, BuildTypeOK, Building, Names
<1>6. TargetInv'
  BY <1>1, <1>2, <1>3 DEF BeginBuild, TargetInv, Names
<1>7. ReadyInv'
  BY DEF BeginBuild, ReadyInv, Building
<1>8. AnalysisInv'
  BY <1>3, <1>4, AnalysisIsKept DEF BeginBuild
<1>. QED BY <1>5, <1>6, <1>7, <1>8 DEF BuildInv

\* Cargo leaves an executable of the target that was selected.
LEMMA RunCargoStep ==
  ASSUME BuildInv, RunCargo
  PROVE  BuildInv'
<1>1. PICK package, defaultRun \in Names, rebuilt \in SUBSET Reported(command.bin) :
        /\ \A t \in Reported(command.bin) \ rebuilt : disk[Elf(t)] # 0
        /\ rebuilt # {} => stamp < MaxStamps
        /\ LET target == select_executable_artifact(Reported(command.bin), command.bin, command.test, package, defaultRun)
           IN target # NoName /\ command' = [command EXCEPT !.target = target]
        /\ stamp' = IF rebuilt = {} THEN stamp ELSE stamp + 1
        /\ disk' = [p \in Paths |-> IF \E t \in rebuilt : p = Elf(t) THEN stamp + 1 ELSE disk[p]]
  BY Zenon DEF RunCargo
<1> DEFINE target == select_executable_artifact(Reported(command.bin), command.bin, command.test, package, defaultRun)
<1>2. /\ target # NoName /\ target \in Reported(command.bin)
      /\ command.bin # NoName => target = command.bin
      /\ command.bin = NoName /\ command.test # NoName => target = command.test
  BY <1>1, SelectIsReported
<1> HIDE DEF target
<1>3. Reported(command.bin) \subseteq Targets
  BY DEF Reported, BuildInv, BuildTypeOK, Commands, Names
<1>4. /\ command' \in Commands /\ command'.target = target /\ command'.system = "cargo"
      /\ command'.bin = command.bin /\ command'.test = command.test /\ command'.published = command.published
  BY <1>1, <1>2, <1>3 DEF target, RunCargo, BuildInv, BuildTypeOK, Commands, Names
<1>5. disk' \in [Paths -> Nat] /\ stamp' \in Nat
  BY <1>1 DEF BuildInv, BuildTypeOK
<1>6. target \in Targets /\ disk'[Elf(target)] # 0
  <2>1. target \in Targets /\ Elf(target) \in Paths
    BY <1>2, <1>3, PathsDiffer
  <2>2. CASE target \in rebuilt
    BY <1>1, <2>1, <2>2 DEF BuildInv, BuildTypeOK
  <2>3. CASE target \notin rebuilt
    <3>1. \A t \in rebuilt : Elf(target) # Elf(t)
      BY <2>3, PathsDiffer
    <3>. QED BY <1>1, <1>2, <2>1, <2>3, <3>1
  <2>. QED BY <2>1, <2>2, <2>3
<1>7. \A p \in AnalysisPaths : disk'[p] = disk[p]
  BY <1>1, OutputsDiffer
<1>8. BuildTypeOK'
  BY <1>4, <1>5 DEF RunCargo, BuildInv, BuildTypeOK, Building
<1>9. TargetInv'
  BY <1>2, <1>4, <1>6 DEF RunCargo, BuildInv, TargetInv
<1>10. ReadyInv'
  BY DEF RunCargo, BuildInv, ReadyInv, Building
<1>11. AnalysisInv'
  BY <1>4, <1>7, AnalysisIsKept DEF RunCargo, Building
<1>. QED BY <1>8, <1>9, <1>10, <1>11 DEF BuildInv

\* Cargo's executable is registered, with its BIN or without.
LEMMA ApplyOutcomeStep ==
  ASSUME BuildInv, ApplyOutcome
  PROVE  BuildInv'
<1> DEFINE t == command.target
<1>1. t \in Targets /\ disk[Elf(t)] # 0 /\ Elf(t) \in Paths /\ Bin(t) \in Paths
  BY PathsDiffer DEF ApplyOutcome, BuildInv, TargetInv
<1>2. PICK bin \in {NoName, Bin(t)} :
        /\ invocation' = Prepared(Elf(t), Elf(t), bin)
        /\ disk' \in {disk, [disk EXCEPT ![Bin(t)] = disk[Elf(t)]]}
        /\ command.op = "prepare" => bin = NoName
  BY DEF ApplyOutcome
<1>3. /\ invocation' \in Invocations /\ invocation'.elf = Elf(t) /\ invocation'.bin = bin
      /\ invocation'.debug = {}
  BY <1>1, <1>2, PreparedIsTyped
<1>4. /\ disk' \in [Paths -> Nat] /\ disk'[Elf(t)] = disk[Elf(t)]
      /\ \A p \in AnalysisPaths : disk'[p] = disk[p]
  BY <1>1, <1>2, PathsDiffer, OutputsDiffer DEF BuildInv, BuildTypeOK
<1>5. BuildTypeOK'
  BY <1>3, <1>4 DEF ApplyOutcome, BuildInv, BuildTypeOK, Building
<1>6. TargetInv'
  BY <1>1, <1>4 DEF ApplyOutcome, BuildInv, TargetInv
<1>7. ReadyInv'
  BY <1>2, <1>3 DEF ApplyOutcome, BuildInv, ReadyInv, Building
<1>8. AnalysisInv'
  BY <1>3, <1>4, AnalysisIsKept DEF ApplyOutcome
<1>. QED BY <1>5, <1>6, <1>7, <1>8 DEF BuildInv

\* A post-build command changes the executable that is registered, not a copy of it.
LEMMA PostBuildStep ==
  ASSUME BuildInv, PostBuild
  PROVE  BuildInv'
<1> DEFINE t == command.target
<1>1. t \in Targets /\ disk[Elf(t)] # 0 /\ Elf(t) \in Paths
  BY PathsDiffer DEF PostBuild, BuildInv, TargetInv
<1>2. /\ disk' \in [Paths -> Nat] /\ stamp' \in Nat /\ disk'[Elf(t)] # 0
      /\ \A p \in AnalysisPaths : disk'[p] = disk[p]
  BY <1>1, OutputsDiffer DEF PostBuild, BuildInv, BuildTypeOK
<1>3. \/ stage' = "idle" /\ command' = NoCommand
      \/ stage' = "analyse" /\ command' = command
  BY DEF PostBuild, Done
<1>4. BuildTypeOK'
  BY <1>2, <1>3, NullsOfBuild DEF PostBuild, BuildInv, BuildTypeOK, Building
<1>5. TargetInv'
  BY <1>1, <1>2, <1>3, NullsOfBuild DEF PostBuild, BuildInv, TargetInv
<1>6. ReadyInv'
  BY <1>1, <1>2, <1>3 DEF PostBuild, BuildInv, ReadyInv, MadeFrom, Building
<1>7. AnalysisInv'
  BY <1>2, <1>3, NullsOfBuild, AnalysisIsKept DEF PostBuild, Building
<1>. QED BY <1>4, <1>5, <1>6, <1>7 DEF BuildInv

\* A custom command leaves the executable that the configuration names.
LEMMA RunCustomStep ==
  ASSUME BuildInv, RunCustom
  PROVE  BuildInv'
<1> DEFINE t == command.target
<1>1. t \in Targets /\ Elf(t) \in Paths
  BY PathsDiffer DEF RunCustom, BuildInv, TargetInv
<1>2. /\ disk' \in [Paths -> Nat] /\ stamp' \in Nat /\ disk'[Elf(t)] # 0
      /\ \A p \in AnalysisPaths : disk'[p] = disk[p]
  BY <1>1, OutputsDiffer DEF RunCustom, BuildInv, BuildTypeOK
<1>3. BuildTypeOK'
  BY <1>2 DEF RunCustom, BuildInv, BuildTypeOK, Building
<1>4. TargetInv'
  BY <1>1, <1>2 DEF RunCustom, BuildInv, TargetInv
<1>5. ReadyInv'
  BY DEF RunCustom, BuildInv, ReadyInv, Building
<1>6. AnalysisInv'
  BY <1>2, AnalysisIsKept DEF RunCustom, Building
<1>. QED BY <1>3, <1>4, <1>5, <1>6 DEF BuildInv

\* The stripped copy, and the BIN made of it, are of the executable.
LEMMA PrepareElfStep ==
  ASSUME BuildInv, PrepareElf
  PROVE  BuildInv'
<1> DEFINE t == command.target
<1>1. t \in Targets /\ disk[Elf(t)] # 0 /\ Elf(t) \in Paths /\ Bin(t) \in Paths /\ RuntimeElf(t) \in Paths
  BY PathsDiffer DEF PrepareElf, BuildInv, TargetInv
<1>2. PICK toBin \in BOOLEAN :
        LET copied == [disk EXCEPT ![RuntimeElf(t)] = disk[Elf(t)]]
        IN /\ disk' = IF toBin THEN [copied EXCEPT ![Bin(t)] = copied[RuntimeElf(t)]] ELSE copied
           /\ invocation' = Prepared(NoName, RuntimeElf(t), IF toBin THEN Bin(t) ELSE NoName)
  BY DEF PrepareElf
<1>3. /\ invocation' \in Invocations /\ invocation'.elf = RuntimeElf(t)
      /\ invocation'.bin = (IF toBin THEN Bin(t) ELSE NoName) /\ invocation'.debug = {}
  BY <1>1, <1>2, PreparedIsTyped
<1>4. /\ disk' \in [Paths -> Nat] /\ disk'[Elf(t)] = disk[Elf(t)] /\ disk'[RuntimeElf(t)] = disk[Elf(t)]
      /\ toBin => disk'[Bin(t)] = disk[Elf(t)]
      /\ \A p \in AnalysisPaths : disk'[p] = disk[p]
  BY <1>1, <1>2, PathsDiffer, OutputsDiffer DEF BuildInv, BuildTypeOK
<1>5. BuildTypeOK'
  BY <1>3, <1>4 DEF PrepareElf, BuildInv, BuildTypeOK, Building
<1>6. TargetInv'
  BY <1>1, <1>4 DEF PrepareElf, BuildInv, TargetInv
<1>7. ReadyInv'
  BY <1>1, <1>3, <1>4 DEF PrepareElf, BuildInv, ReadyInv, MadeFrom, Building
<1>8. AnalysisInv'
  BY <1>3, <1>4, AnalysisIsKept DEF PrepareElf
<1>. QED BY <1>5, <1>6, <1>7, <1>8 DEF BuildInv

\* A caller of the library prepares what it has changed.
LEMMA PrepareRuntimeArtifactStep ==
  ASSUME BuildInv, NEW t \in Targets, PrepareRuntimeArtifact(t)
  PROVE  BuildInv'
<1>1. disk[Elf(t)] # 0 /\ Elf(t) \in Paths /\ Bin(t) \in Paths /\ RuntimeElf(t) \in Paths
  BY PathsDiffer DEF PrepareRuntimeArtifact
<1>2. PICK toBin \in BOOLEAN, exe \in {Elf(t), RuntimeElf(t)}, cargo \in {NoName, Elf(t)} :
        LET copied == [disk EXCEPT ![exe] = disk[Elf(t)]]
        IN /\ disk' = IF toBin THEN [copied EXCEPT ![Bin(t)] = copied[exe]] ELSE copied
           /\ invocation' = Prepared(cargo, exe, IF toBin THEN Bin(t) ELSE NoName)
  BY DEF PrepareRuntimeArtifact
<1>3. /\ invocation' \in Invocations /\ invocation'.elf = exe
      /\ invocation'.bin = (IF toBin THEN Bin(t) ELSE NoName) /\ invocation'.debug = {}
  BY <1>1, <1>2, PreparedIsTyped
<1>4. /\ disk' \in [Paths -> Nat] /\ disk'[Elf(t)] = disk[Elf(t)] /\ disk'[exe] = disk[Elf(t)]
      /\ toBin => disk'[Bin(t)] = disk[Elf(t)]
      /\ \A p \in AnalysisPaths : disk'[p] = disk[p]
  BY <1>1, <1>2, PathsDiffer, OutputsDiffer DEF BuildInv, BuildTypeOK
<1>5. BuildTypeOK'
  BY <1>3, <1>4 DEF PrepareRuntimeArtifact, BuildInv, BuildTypeOK, Names
<1>6. TargetInv'
  BY DEF PrepareRuntimeArtifact, BuildInv, TargetInv
<1>7. ReadyInv'
  BY <1>1, <1>3, <1>4 DEF PrepareRuntimeArtifact, BuildInv, ReadyInv, MadeFrom, Building
<1>8. AnalysisInv'
  BY <1>3, <1>4, AnalysisIsKept DEF PrepareRuntimeArtifact, Building
<1>. QED BY <1>5, <1>6, <1>7, <1>8 DEF BuildInv

\* A caller of the library changes an executable: nothing counts as ready any more.
LEMMA CallerChangesElfStep ==
  ASSUME BuildInv, NEW t \in Targets, CallerChangesElf(t)
  PROVE  BuildInv'
<1>1. /\ disk' \in [Paths -> Nat] /\ stamp' \in Nat
      /\ \A p \in AnalysisPaths : disk'[p] = disk[p]
  BY PathsDiffer, OutputsDiffer DEF CallerChangesElf, BuildInv, BuildTypeOK
<1>2. BuildTypeOK'
  BY <1>1 DEF CallerChangesElf, BuildInv, BuildTypeOK, Names
<1>3. TargetInv'
  BY DEF CallerChangesElf, BuildInv, TargetInv
<1>4. ReadyInv'
  BY DEF CallerChangesElf, BuildInv, ReadyInv, Building
<1>5. AnalysisInv'
  BY <1>1, AnalysisIsKept DEF CallerChangesElf, Building
<1>. QED BY <1>2, <1>3, <1>4, <1>5 DEF BuildInv

\* The end of a command: what a preparation registered is ready.
LEMMA FinishedStep ==
  ASSUME BuildInv, stage \in {"analyse", "publish"}, Finished, UNCHANGED <<disk, stamp>>,
         invocation'.elf = invocation.elf, invocation'.bin = invocation.bin
  PROVE  /\ command' \in Commands /\ command'.published = <<>> /\ stage' \in {"idle", "ensure"} /\ ready' \in Names
         /\ TargetInv' /\ ReadyInv'
<1>1. command.target \in Targets /\ command.target # NoName
  BY BuildAssumption DEF BuildInv, TargetInv
<1>2. command \in Commands
  BY DEF BuildInv, BuildTypeOK
<1>3. ready' \in Names
  BY <1>1, <1>2, FinishedCases DEF Names
<1>4. TargetInv'
  BY <1>1, <1>2, FinishedCases, NullsOfBuild DEF BuildInv, TargetInv
<1>5. ReadyInv'
  BY <1>1, <1>2, FinishedCases DEF BuildInv, ReadyInv, MadeFrom, Building
<1>. QED BY <1>2, <1>3, <1>4, <1>5, FinishedCases

\* No analysis is asked for.
LEMMA NothingToAnalyseStep ==
  ASSUME BuildInv, NothingToAnalyse
  PROVE  BuildInv'
<1>1. /\ command' \in Commands /\ command'.published = <<>> /\ stage' \in {"idle", "ensure"} /\ ready' \in Names
      /\ TargetInv' /\ ReadyInv'
  BY FinishedStep DEF NothingToAnalyse
<1>2. BuildTypeOK'
  BY <1>1 DEF NothingToAnalyse, BuildInv, BuildTypeOK
<1>3. AnalysisInv'
  BY <1>1, AnalysisIsKept DEF NothingToAnalyse, Building
<1>. QED BY <1>1, <1>2, <1>3 DEF BuildInv

-----------------------------------------------------------------------------
\* The outputs are staged; nothing is published yet.
LEMMA StageOutputsStep ==
  ASSUME BuildInv, StageOutputs
  PROVE  BuildInv'
<1>0. PICK kinds \in Requests : command' = [command EXCEPT !.kinds = kinds]
  BY DEF StageOutputs
<1>1. /\ command' \in Commands /\ command'.kinds = kinds /\ command'.published = command.published
      /\ command'.op = command.op /\ command'.system = command.system /\ command'.bin = command.bin
      /\ command'.test = command.test /\ command'.target = command.target
  BY <1>0 DEF BuildInv, BuildTypeOK, Commands, KindLists
<1>2. BuildTypeOK'
  BY <1>1 DEF StageOutputs, BuildInv, BuildTypeOK, Building
<1>3. TargetInv'
  BY <1>1 DEF StageOutputs, BuildInv, TargetInv
<1>4. ReadyInv'
  BY <1>1 DEF StageOutputs, BuildInv, ReadyInv, MadeFrom, Building
<1>5. AnalysisInv'
  BY <1>1, KindListsAreSequences DEF StageOutputs, BuildInv, AnalysisInv, Outputs, Building, KindLists
<1>. QED BY <1>2, <1>3, <1>4, <1>5 DEF BuildInv

\* One more output takes its place.
LEMMA PublishStep ==
  ASSUME BuildInv, Publish
  PROVE  BuildInv'
<1> DEFINE n == Len(command.published)
           kind == command.kinds[n + 1]
           path == Analysis(command.target, kind)
<1>1. /\ command \in Commands /\ command.published \in Seq(KindNames) /\ n \in Nat
      /\ command.kinds \in Seq(KindNames) /\ Len(command.kinds) \in Nat /\ n < Len(command.kinds)
      /\ n + 1 \in 1..Len(command.kinds) /\ \A i \in 1..Len(command.kinds) : command.kinds[i] \in KindNames
  BY KindListsAreSequences DEF Publish, BuildInv, BuildTypeOK, Commands
<1>2. kind \in KindNames
  BY <1>1
<1>3. /\ command.target \in Targets /\ Elf(command.target) \in Paths
      /\ path \in AnalysisPaths /\ path \in Paths /\ path # Elf(command.target)
  <2>1. command.target \in Targets /\ path \in AnalysisPaths
    BY <1>2 DEF Publish, BuildInv, TargetInv, AnalysisPaths
  <2>. QED BY <2>1, PathsDiffer, OutputsDiffer
<1>4. /\ command' \in Commands /\ command'.published = Append(command.published, kind)
      /\ command'.op = command.op /\ command'.system = command.system /\ command'.bin = command.bin
      /\ command'.test = command.test /\ command'.target = command.target /\ command'.kinds = command.kinds
  <2>1. Append(command.published, kind) \in Seq(KindNames)
    BY <1>1, <1>2
  <2>. QED BY <1>1, <2>1 DEF Publish, Commands
<1>5. disk' = [disk EXCEPT ![path] = disk[Elf(command.target)]]
  BY DEF Publish
<1> HIDE DEF path
<1>6. /\ disk' \in [Paths -> Nat] /\ disk'[path] = disk[Elf(command.target)]
      /\ disk'[Elf(command.target)] = disk[Elf(command.target)]
      /\ \A q \in Paths : q # path => disk'[q] = disk[q]
  BY <1>3, <1>5 DEF BuildInv, BuildTypeOK
<1>7. BuildTypeOK'
  BY <1>4, <1>6 DEF Publish, BuildInv, BuildTypeOK
<1>8. TargetInv'
  BY <1>4, <1>6 DEF Publish, BuildInv, TargetInv
<1>9. ReadyInv'
  <2>1. \A t \in Targets : /\ Elf(t) \in Paths /\ RuntimeElf(t) \in Paths /\ Bin(t) \in Paths
                           /\ Elf(t) # path /\ RuntimeElf(t) # path /\ Bin(t) # path
    BY <1>3, PathsDiffer, OutputsDiffer
  <2>2. command.op = "prepare" => MadeFrom(command.target)'
    BY <1>4, <1>6, <2>1 DEF Publish, BuildInv, ReadyInv, MadeFrom
  <2>. QED BY <1>4, <2>2 DEF Publish, BuildInv, ReadyInv, MadeFrom, Building
<1>10. AnalysisInv'
  <2>1. /\ Len(command'.published) = n + 1
        /\ \A i \in 1..(n + 1) : command'.published[i] = IF i = n + 1 THEN kind ELSE command.published[i]
    BY <1>1, <1>2, <1>4
  <2>2. ASSUME NEW i \in 1..(n + 1)
        PROVE  /\ command'.published[i] = command.kinds[i]
               /\ disk'[Analysis(command.target, command.kinds[i])] = disk'[Elf(command.target)]
    <3>1. CASE i = n + 1
      BY <1>6, <2>1, <3>1 DEF path
    <3>2. CASE i # n + 1
      <4>1. i \in 1..n /\ i \in 1..Len(command.kinds)
        BY <1>1, <3>2
      <4>2. /\ command.published[i] = command.kinds[i]
            /\ disk[Analysis(command.target, command.kinds[i])] = disk[Elf(command.target)]
        BY <4>1 DEF Publish, BuildInv, AnalysisInv
      <4>3. Analysis(command.target, command.kinds[i]) \in Paths
        BY <1>1, <1>3, <4>1, PathsDiffer
      <4>. QED BY <1>6, <2>1, <3>2, <4>2, <4>3
    <3>. QED BY <3>1, <3>2
  <2>3. invocation.debug = {}
    BY DEF Publish, BuildInv, AnalysisInv, Building
  <2>. QED BY <1>1, <1>4, <2>1, <2>2, <2>3 DEF Publish, BuildInv, AnalysisInv, Outputs
<1>. QED BY <1>7, <1>8, <1>9, <1>10 DEF BuildInv

\* All outputs are there, and are registered together.
LEMMA RegisterStep ==
  ASSUME BuildInv, Register
  PROVE  BuildInv'
<1>1. /\ command.kinds \in KindLists /\ command.kinds \in Seq(KindNames) /\ Len(command.kinds) \in Nat
      /\ \A i \in 1..Len(command.kinds) : command.kinds[i] \in KindNames
  BY KindListsAreSequences DEF BuildInv, BuildTypeOK, Commands
<1>2. command.target \in Targets /\ Elf(command.target) \in Paths
  BY PathsDiffer DEF Register, BuildInv, TargetInv
<1> DEFINE outputs == {Analysis(command.target, command.kinds[i]) : i \in 1..Len(command.kinds)}
<1>3. outputs \subseteq AnalysisPaths /\ outputs \subseteq Paths
  BY <1>1, <1>2, PathsDiffer DEF AnalysisPaths
<1>4. \A p \in outputs : disk[p] = disk[Elf(command.target)]
  BY DEF Register, BuildInv, AnalysisInv
<1>5. /\ invocation' \in Invocations /\ invocation'.debug = outputs
      /\ invocation'.elf = invocation.elf /\ invocation'.bin = invocation.bin
  BY <1>3 DEF Register, BuildInv, BuildTypeOK, Invocations
<1>6. /\ analysed' \in Analyses /\ analysed'.ok /\ analysed'.stamp = disk[Elf(command.target)]
      /\ Outputs(analysed') = outputs
  BY <1>1, <1>2 DEF Register, BuildInv, BuildTypeOK, Analyses, Names, Outputs
<1>7. /\ command' \in Commands /\ command'.published = <<>> /\ stage' \in {"idle", "ensure"} /\ ready' \in Names
      /\ TargetInv' /\ ReadyInv'
  BY <1>5, FinishedStep DEF Register
<1>8. BuildTypeOK'
  BY <1>5, <1>6, <1>7 DEF Register, BuildInv, BuildTypeOK
<1>9. AnalysisInv'
  <2>1. Outputs(analysed)' = outputs
    BY <1>6 DEF Outputs
  <2>. QED BY <1>3, <1>4, <1>5, <1>6, <1>7, <2>1 DEF Register, AnalysisInv, Building
<1>. QED BY <1>7, <1>8, <1>9 DEF BuildInv

\* After a failure none of the outputs is left.
LEMMA DiscardOutputsStep ==
  ASSUME BuildInv, DiscardOutputs
  PROVE  BuildInv'
<1>1. /\ command.kinds \in KindLists /\ Len(command.kinds) \in Nat
      /\ \A i \in 1..Len(command.kinds) : command.kinds[i] \in KindNames
  BY KindListsAreSequences DEF BuildInv, BuildTypeOK, Commands
<1>2. command.target \in Targets /\ ready = NoName /\ invocation.debug = {}
  BY DEF DiscardOutputs, BuildInv, TargetInv, ReadyInv, AnalysisInv, Building
<1>3. Outputs(analysed') \subseteq AnalysisPaths /\ AnalysisPaths \subseteq Paths
  BY <1>1, <1>2, OutputsDiffer DEF DiscardOutputs, Outputs, AnalysisPaths
<1>4. disk' \in [Paths -> Nat] /\ \A p \in Outputs(analysed') : disk'[p] = 0
  BY <1>3 DEF DiscardOutputs, Outputs, BuildInv, BuildTypeOK
<1>5. analysed' \in Analyses
  BY <1>1, <1>2 DEF DiscardOutputs, Analyses, Names
<1>6. BuildTypeOK'
  BY <1>4, <1>5, NullsOfBuild DEF DiscardOutputs, Done, BuildInv, BuildTypeOK
<1>7. TargetInv'
  BY BuildAssumption, NullsOfBuild DEF DiscardOutputs, Done, TargetInv
<1>8. ReadyInv'
  BY <1>2, NullsOfBuild DEF DiscardOutputs, Done, ReadyInv, Building
<1>9. AnalysisInv'
  <2>1. Outputs(analysed)' = Outputs(analysed')
    BY DEF Outputs
  <2>. QED BY <1>2, <1>3, <1>4, <2>1, NullsOfBuild DEF DiscardOutputs, Done, AnalysisInv, Building
<1>. QED BY <1>6, <1>7, <1>8, <1>9 DEF BuildInv

-----------------------------------------------------------------------------
\* A runner begins with what was prepared before.
LEMMA BeginRunStep ==
  ASSUME BuildInv, BeginRun
  PROVE  BuildInv'
<1>1. command = NoCommand /\ command \in Commands
  BY DEF BeginRun, BuildInv, BuildTypeOK, TargetInv
<1>2. /\ command' \in Commands /\ command'.published = <<>> /\ command'.system = "cargo"
      /\ command'.bin = NoName /\ command'.test = NoName /\ command'.target = NoName
  BY <1>1, RunsKeeps, NullsOfBuild DEF BeginRun
<1>3. BuildTypeOK'
  BY <1>2 DEF BeginRun, BuildInv, BuildTypeOK
<1>4. TargetInv'
  BY <1>2 DEF BeginRun, TargetInv
<1>5. ReadyInv'
  BY DEF BeginRun, BuildInv, ReadyInv, MadeFrom, Building
<1>6. AnalysisInv'
  BY <1>2, AnalysisIsKept DEF BeginRun, Building
<1>. QED BY <1>3, <1>4, <1>5, <1>6 DEF BuildInv

\* The BIN is made of the ELF that is registered, or the registered one is kept.
LEMMA EnsureBinStep ==
  ASSUME BuildInv, EnsureBin
  PROVE  BuildInv'
<1>1. invocation \in Invocations /\ command \in Commands /\ disk \in [Paths -> Nat]
  BY DEF BuildInv, BuildTypeOK
<1>2. PICK t \in Targets : invocation.elf \in {Elf(t), RuntimeElf(t)}
  BY <1>1 DEF EnsureBin, Invocations
<1>3. invocation.elf[2] = t /\ Bin(t) \in Paths
  BY <1>2, PathsDiffer
<1>4. ready # NoName => ready = t
  BY <1>2, PathsDiffer DEF BuildInv, ReadyInv, MadeFrom
<1> DEFINE made == (command.needsBin \/ command.runner = "uboot") /\ invocation.bin = NoName
<1>5. /\ made => disk' = [disk EXCEPT ![Bin(t)] = disk[invocation.elf]] /\ invocation' = [invocation EXCEPT !.bin = Bin(t)]
      /\ ~made => UNCHANGED <<disk, invocation>>
  BY <1>3 DEF EnsureBin
<1>6. /\ disk' \in [Paths -> Nat] /\ invocation' \in Invocations
      /\ invocation'.elf = invocation.elf /\ invocation'.debug = invocation.debug
      /\ invocation'.bin = IF made THEN Bin(t) ELSE invocation.bin
      /\ made => disk'[Bin(t)] = disk[invocation.elf]
      /\ \A p \in Paths : p # Bin(t) \/ ~made => disk'[p] = disk[p]
  <2>1. CASE made
    <3>1. disk' = [disk EXCEPT ![Bin(t)] = disk[invocation.elf]]
      BY <1>5, <2>1
    <3>2. invocation' = [invocation EXCEPT !.bin = Bin(t)]
      BY <1>5, <2>1
    <3>3. invocation.elf \in Paths /\ Bin(t) \in Paths
      BY <1>2, <1>3, PathsDiffer
    <3>4. invocation' \in Invocations
      BY <1>1, <3>2 DEF Invocations
    <3>. QED BY <1>1, <2>1, <3>1, <3>2, <3>3, <3>4 DEF Invocations
  <2>2. CASE ~made
    BY <1>1, <1>5, <2>2
  <2>. QED BY <2>1, <2>2
<1>7. Bin(t) # NoName /\ stage' \in {"fit", "running"} /\ UNCHANGED <<stamp, command, ready, analysed>>
  BY <1>3, PathsDiffer DEF EnsureBin
<1>8. BuildTypeOK'
  BY <1>6, <1>7 DEF BuildInv, BuildTypeOK
<1>9. TargetInv'
  BY <1>7 DEF EnsureBin, BuildInv, TargetInv
<1>10. ReadyInv'
  <2>1. ready # NoName => MadeFrom(ready)'
    <3>1. /\ Elf(t) \in Paths /\ Elf(t) # Bin(t) /\ RuntimeElf(t) \in Paths /\ RuntimeElf(t) # Bin(t)
      BY PathsDiffer
    <3>2. disk'[Elf(t)] = disk[Elf(t)] /\ disk'[invocation.elf] = disk[invocation.elf]
      BY <1>2, <1>6, <3>1
    <3>. QED BY <1>4, <1>6, <1>7, <3>2, <1>3 DEF BuildInv, ReadyInv, MadeFrom
  <2>2. stage' = "fit" => command.runner = "uboot"
    BY DEF EnsureBin
  <2>3. stage' = "running" => command.runner # "uboot"
    BY DEF EnsureBin
  <2>. QED BY <1>6, <1>7, <2>1, <2>2, <2>3 DEF EnsureBin, ReadyInv, Building, MadeFrom
<1>11. AnalysisInv'
  <2>1. \A p \in AnalysisPaths : disk'[p] = disk[p]
    BY <1>6, OutputsDiffer
  <2>. QED BY <1>6, <1>7, <2>1, AnalysisIsKept DEF EnsureBin, Building
<1>. QED BY <1>8, <1>9, <1>10, <1>11 DEF BuildInv

\* The FIT image is made of the BIN that is registered.
LEMMA WriteFitStep ==
  ASSUME BuildInv, WriteFit
  PROVE  BuildInv'
<1>1. invocation.bin # NoName /\ invocation \in Invocations /\ Fit \in Paths
  BY PathsDiffer DEF WriteFit, BuildInv, BuildTypeOK, ReadyInv
<1>2. PICK t \in Targets : invocation.bin = Bin(t)
  BY <1>1 DEF Invocations
<1>3. invocation.bin \in Paths /\ invocation.bin # Fit
  BY <1>2, PathsDiffer
<1>4. /\ disk' \in [Paths -> Nat] /\ disk'[Fit] = disk[invocation.bin]
      /\ \A p \in Paths : p # Fit => disk'[p] = disk[p]
  BY <1>1, <1>3 DEF WriteFit, BuildInv, BuildTypeOK
<1>5. BuildTypeOK'
  BY <1>4 DEF WriteFit, BuildInv, BuildTypeOK
<1>6. TargetInv'
  BY DEF WriteFit, BuildInv, TargetInv
<1>7. ReadyInv'
  <2>1. \A u \in Targets : /\ Elf(u) \in Paths /\ RuntimeElf(u) \in Paths /\ Bin(u) \in Paths
                           /\ Elf(u) # Fit /\ RuntimeElf(u) # Fit /\ Bin(u) # Fit
    BY PathsDiffer
  <2>2. ready # NoName => MadeFrom(ready)'
    BY <1>1, <1>4, <2>1 DEF WriteFit, BuildInv, ReadyInv, MadeFrom
  <2>. QED BY <1>1, <1>3, <1>4, <2>2 DEF WriteFit, BuildInv, ReadyInv, MadeFrom, Building
<1>8. AnalysisInv'
  <2>1. \A p \in AnalysisPaths : disk'[p] = disk[p]
    BY <1>4, OutputsDiffer
  <2>. QED BY <2>1, AnalysisIsKept DEF WriteFit, Building
<1>. QED BY <1>5, <1>6, <1>7, <1>8 DEF BuildInv

\* A run or a command ends: it is forgotten, and the files are left as they are.
LEMMA EndStep ==
  ASSUME BuildInv, RunEnds \/ StepFails
  PROVE  BuildInv'
<1>1. /\ stage' = "idle" /\ command' = NoCommand /\ stage # "publish"
      /\ UNCHANGED <<disk, stamp, invocation, ready, analysed>>
  BY DEF RunEnds, StepFails, Done
<1>2. BuildTypeOK'
  BY <1>1, NullsOfBuild DEF BuildInv, BuildTypeOK
<1>3. TargetInv'
  BY <1>1, NullsOfBuild DEF TargetInv
<1>4. ReadyInv'
  BY <1>1 DEF BuildInv, ReadyInv, MadeFrom, Building
<1>5. AnalysisInv'
  BY <1>1, NullsOfBuild, AnalysisIsKept DEF Building
<1>. QED BY <1>2, <1>3, <1>4, <1>5 DEF BuildInv

\* The next program begins with nothing registered.
LEMMA NewInvocationStep ==
  ASSUME BuildInv, NewInvocation
  PROVE  BuildInv'
<1>1. BuildTypeOK'
  BY NullsOfBuild DEF NewInvocation, BuildInv, BuildTypeOK, Names
<1>2. TargetInv'
  BY NullsOfBuild DEF NewInvocation, TargetInv
<1>3. ReadyInv'
  BY DEF NewInvocation, ReadyInv, Building
<1>4. AnalysisInv'
  <2>1. Outputs(analysed)' = {}
    BY NullsOfBuild DEF NewInvocation, Outputs
  <2>. QED BY <2>1, NullsOfBuild DEF NewInvocation, AnalysisInv
<1>. QED BY <1>1, <1>2, <1>3, <1>4 DEF BuildInv

\* Every step of a build, of an analysis and of a runner keeps the invariant.
LEMMA BuildStep ==
  ASSUME BuildInv, BuildNext
  PROVE  BuildInv'
<1>1. CASE BeginBuild
  BY <1>1, BeginBuildStep
<1>2. CASE RunCargo
  BY <1>2, RunCargoStep
<1>3. CASE ApplyOutcome
  BY <1>3, ApplyOutcomeStep
<1>4. CASE PostBuild
  BY <1>4, PostBuildStep
<1>5. CASE RunCustom
  BY <1>5, RunCustomStep
<1>6. CASE PrepareElf
  BY <1>6, PrepareElfStep
<1>7. CASE \E t \in Targets : PrepareRuntimeArtifact(t) \/ CallerChangesElf(t)
  BY <1>7, PrepareRuntimeArtifactStep, CallerChangesElfStep
<1>8. CASE NothingToAnalyse \/ StageOutputs
  BY <1>8, NothingToAnalyseStep, StageOutputsStep
<1>9. CASE Publish \/ Register \/ DiscardOutputs
  BY <1>9, PublishStep, RegisterStep, DiscardOutputsStep
<1>10. CASE BeginRun \/ EnsureBin \/ WriteFit
  BY <1>10, BeginRunStep, EnsureBinStep, WriteFitStep
<1>11. CASE RunEnds \/ StepFails \/ NewInvocation
  BY <1>11, EndStep, NewInvocationStep
<1>. QED BY <1>1, <1>2, <1>3, <1>4, <1>5, <1>6, <1>7, <1>8, <1>9, <1>10, <1>11 DEF BuildNext

\* The build invariant holds in every reachable state.
LEMMA BuildIsConsistent == BuildSpec => []BuildInv
<1>1. BuildInit => BuildInv
  <2>1. ASSUME BuildInit  PROVE BuildTypeOK
    BY <2>1, NullsOfBuild DEF BuildInit, BuildTypeOK, Names
  <2>2. ASSUME BuildInit  PROVE TargetInv /\ ReadyInv
    BY <2>2, NullsOfBuild DEF BuildInit, TargetInv, ReadyInv, Building
  <2>3. ASSUME BuildInit  PROVE AnalysisInv
    BY <2>3, NullsOfBuild DEF BuildInit, AnalysisInv
  <2>. QED BY <2>1, <2>2, <2>3 DEF BuildInv
<1>2. BuildInv /\ [BuildNext]_buildVars => BuildInv'
  <2>1. ASSUME BuildInv, UNCHANGED buildVars  PROVE BuildInv'
    BY <2>1 DEF BuildInv, buildVars, BuildTypeOK, TargetInv, ReadyInv, MadeFrom, AnalysisInv, Outputs
  <2>. QED BY <2>1, BuildStep
<1>. QED BY <1>1, <1>2, PTL DEF BuildSpec

\* The image a runner gets after a preparation that worked is made from the ELF as it is now
\* (prepare_with_config, ensure_runtime_bin and generate_fit_image), for any number of targets,
\* builds, changes of the caller and runs.
THEOREM RunsArePrepared == BuildSpec => []RunsWhatWasPrepared
<1>1. BuildInv => RunsWhatWasPrepared
  <2>. SUFFICES ASSUME BuildInv, stage = "running", ready # NoName  PROVE RunsWhatWasPrepared
    BY DEF RunsWhatWasPrepared
  <2>1. /\ MadeFrom(ready) /\ command \in Commands
        /\ command.runner = "uboot" \/ command.needsBin => invocation.bin # NoName
        /\ command.runner = "uboot" => disk[Fit] = disk[invocation.bin]
    BY DEF BuildInv, ReadyInv, BuildTypeOK
  <2>2. disk[Image] # 0 /\ disk[Image] = disk[Elf(ready)]
    BY <2>1 DEF Image, MadeFrom
  <2>3. invocation.elf[2] = ready
    BY <2>1, PathsDiffer DEF MadeFrom
  <2>. QED BY <2>1, <2>2, <2>3 DEF BuildInv, TargetInv, MadeFrom, RunsWhatWasPrepared
<1>. QED BY <1>1, BuildIsConsistent, PTL

\* The registry names all outputs of the last analysis, or none (generate_build_analysis), for any
\* number of targets and of analyses, and however an analysis fails.
THEOREM AnalysesAreWhole == BuildSpec => []AnalysisIsWhole
<1>1. BuildInv => AnalysisIsWhole
  BY DEF BuildInv, AnalysisInv, Outputs, AnalysisIsWhole
<1>. QED BY <1>1, BuildIsConsistent, PTL

\* Whatever is derived from an ELF is of the ELF as it is.
THEOREM DerivedFilesAreCurrent == BuildSpec => []OutputsAreCurrent
<1>. QED BY RunsArePrepared, AnalysesAreWhole, PTL DEF OutputsAreCurrent

-----------------------------------------------------------------------------
(***************************************************************************)
(* FitLayout.                                                              *)
(***************************************************************************)
\* Every set of addresses has a least one.
LEMMA MinIsLeast ==
  ASSUME NEW S, S \subseteq Nat, S # {}
  PROVE  Min(S) \in S /\ \A x \in S : Min(S) <= x
<1>. DEFINE R == {ss \in Nat \X Nat : ss[1] < ss[2]}
<1>1. IsWellFoundedOn(R, Nat)
  BY NatLessThanWellFounded, Zenon DEF OpToRel
<1>2. PICK m \in S : \A x \in S : ~(<<x, m>> \in R)
  BY <1>1, WFMin
<1>3. ASSUME NEW x \in S  PROVE  m <= x
  <2>1. <<x, m>> \in Nat \X Nat /\ <<x, m>>[1] = x /\ <<x, m>>[2] = m
    OBVIOUS
  <2>2. ~(<<x, m>> \in Nat \X Nat /\ <<x, m>>[1] < <<x, m>>[2])
    BY <1>2, Zenon
  <2>3. m \in Nat /\ x \in Nat /\ ~(x < m)
    BY <2>1, <2>2
  <2>. QED BY <2>3
<1>. QED BY <1>3 DEF Min

\* What is derived from several segments is what each of them says.
LEMMA TheIsOnly ==
  ASSUME NEW S, NEW v \in The(S)
  PROVE  S = {v} /\ The(S) = {v}
  BY DEF The

\* A load address comes from a segment that holds the section, in the file and in memory.
LEMMA LmaIsOfSegment ==
  ASSUME NEW e \in ElfMetadata, NEW s \in e.sections, NEW a \in section_lma(s, e)
  PROVE  /\ section_lma(s, e) = {a} /\ a \in Nat
         /\ \E g \in FileBacked(e) :
              /\ a = g.pa + (s.off - g.off) /\ s.off >= g.off /\ s.off + s.size <= g.off + g.fsz
              /\ s.off - g.off = s.va - g.va
<1>. DEFINE holds(g) == /\ s.off >= g.off /\ s.off + s.size <= g.off + g.fsz
                        /\ s.va >= g.va /\ s.va + s.size <= g.va + g.fsz
                        /\ s.off - g.off = s.va - g.va
            L == {g.pa + (s.off - g.off) : g \in {h \in FileBacked(e) : holds(h)}}
<1>1. a \in The(L) /\ section_lma(s, e) = The(L)
  BY DEF section_lma
<1>2. L = {a} /\ section_lma(s, e) = {a}
  BY <1>1, TheIsOnly
<1>3. PICK g \in FileBacked(e) : holds(g) /\ a = g.pa + (s.off - g.off)
  BY <1>2
<1>4. g \in Segment /\ s \in Section
  BY <1>3 DEF FileBacked, ElfMetadata
<1>5. a \in Nat
  BY <1>3, <1>4, FitAssumption DEF Segment, Section, Address
<1>. QED BY <1>2, <1>3, <1>5

\* Every byte of a segment is where the reference has it.
LEMMA ByteOfSegment ==
  ASSUME NEW e \in ElfMetadata, NEW g \in FileBacked(e), NEW k \in Nat, k < g.fsz
  PROVE  [offset |-> g.off + k, pa |-> g.pa + k, va |-> g.va + k] \in BytesOf(e)
<1>1. g \in Segment
  BY DEF FileBacked, ElfMetadata
<1>2. k \in 0..(g.fsz - 1)
  BY <1>1, FitAssumption DEF Segment, Address
<1>. QED BY <1>2 DEF BytesOf

\* In a BIN the bytes keep their distances: each is placed at its load address.
LEMMA BinIsPlaced ==
  ASSUME NEW e \in ElfMetadata, NEW s \in e.sections, NEW i \in Nat, NEW load \in bin_load_base(e),
         NEW f, f.config.format = "bin", f.load = load
  PROVE  \E a \in section_lma(s, e) : /\ section_lma(s, e) = {a} /\ a \in Nat /\ load \in Nat /\ load <= a
                                      /\ PlacedAt(f, e, s, i) = a + i
<1>. DEFINE U == UNION {section_lma(t, e) : t \in e.sections}
<1>1. load = Min(U) /\ \A t \in e.sections : section_lma(t, e) # {}
  BY DEF bin_load_base
<1>2. PICK a \in section_lma(s, e) : TRUE
  BY <1>1
<1>3. section_lma(s, e) = {a} /\ a \in Nat
  BY <1>2, LmaIsOfSegment
<1>4. U \subseteq Nat
  BY LmaIsOfSegment
<1>5. a \in U
  BY <1>2
<1>6. Min(U) \in Nat /\ Min(U) <= a
  BY <1>4, <1>5, MinIsLeast
<1>7. (CHOOSE x \in section_lma(s, e) : TRUE) = a
  BY <1>3
<1>8. PlacedAt(f, e, s, i) = load + a + i - Min(U)
  BY <1>7 DEF PlacedAt
<1>. QED BY <1>1, <1>2, <1>3, <1>6, <1>8

\* The base of an ELF is the same for all its segments.
LEMMA ElfBaseIsOfSegments ==
  ASSUME NEW e \in ElfMetadata, NEW load \in elf_load_base(e)
  PROVE  load \in Nat /\ \A g \in FileBacked(e) : load = g.pa - g.off
<1>. DEFINE B == {g.pa - g.off : g \in FileBacked(e)}
<1>1. load \in The(B) /\ \A g \in FileBacked(e) : g.off <= g.pa
  BY DEF elf_load_base
<1>2. B = {load}
  BY <1>1, TheIsOnly
<1>3. PICK g \in FileBacked(e) : load = g.pa - g.off
  BY <1>2
<1>4. g \in Segment
  BY DEF FileBacked, ElfMetadata
<1>5. load \in Nat
  BY <1>1, <1>3, <1>4, FitAssumption DEF Segment, Address
<1>. QED BY <1>2, <1>5

\* With a derived load address every byte of a section is where a loader of the ELF puts it.
LEMMA BytesArePlaced ==
  ASSUME NEW e \in ElfMetadata, NEW c \in Configs, c.os = "linux", c.load = Derived,
         NEW load \in resolve_load(c, e), NEW f, f.config = c, f.load = load,
         NEW s \in e.sections, NEW i \in 0..(s.size - 1),
         c.format = "bin" \/ (\E b \in BytesOf(e) : b.offset = s.off + i)
  PROVE  \E b \in BytesOf(e) : /\ b.offset = s.off + i /\ b.pa = PlacedAt(f, e, s, i)
                               /\ (c.format = "bin" => b.va = s.va + i)
<1>1. load \in Base(c, e)
  BY FitAssumption DEF resolve_load, Configs
<1>2. s \in Section /\ s.size \in Nat /\ s.off \in Nat /\ s.va \in Nat /\ i \in Nat /\ i < s.size
  BY FitAssumption DEF ElfMetadata, Section, Address
<1>3. CASE c.format = "bin"
  <2>1. PICK a \in section_lma(s, e) : a \in Nat /\ PlacedAt(f, e, s, i) = a + i
    BY <1>1, <1>2, <1>3, BinIsPlaced DEF Base
  <2>2. PICK g \in FileBacked(e) :
          /\ a = g.pa + (s.off - g.off) /\ s.off >= g.off /\ s.off + s.size <= g.off + g.fsz
          /\ s.off - g.off = s.va - g.va
    BY <2>1, LmaIsOfSegment
  <2>3. g.pa \in Nat /\ g.off \in Nat /\ g.va \in Nat /\ g.fsz \in Nat
    BY FitAssumption DEF FileBacked, ElfMetadata, Segment, Address
  <2>. DEFINE k == s.off - g.off + i
              b == [offset |-> g.off + k, pa |-> g.pa + k, va |-> g.va + k]
  <2>4. k \in Nat /\ k < g.fsz
    BY <1>2, <2>2, <2>3
  <2>5. b \in BytesOf(e)
    BY <2>4, ByteOfSegment
  <2>6. b.offset = s.off + i /\ b.pa = a + i /\ b.va = s.va + i
    BY <1>2, <2>2, <2>3
  <2>. QED BY <2>1, <2>5, <2>6
<1>4. CASE c.format # "bin"
  <2>1. PICK b \in BytesOf(e) : b.offset = s.off + i
    BY <1>4
  <2>2. PICK g \in FileBacked(e) : \E n \in 0..(g.fsz - 1) : b = [offset |-> g.off + n, pa |-> g.pa + n, va |-> g.va + n]
    BY <2>1 DEF BytesOf
  <2>3. PICK k \in 0..(g.fsz - 1) : b = [offset |-> g.off + k, pa |-> g.pa + k, va |-> g.va + k]
    BY <2>2
  <2>4. g.pa \in Nat /\ g.off \in Nat /\ k \in Int
    BY FitAssumption DEF FileBacked, ElfMetadata, Segment, Address
  <2>5. load = g.pa - g.off
    BY <1>1, <1>4, ElfBaseIsOfSegments DEF Base
  <2>6. PlacedAt(f, e, s, i) = load + s.off + i
    BY <1>4 DEF PlacedAt, Configs
  <2>7. b.pa = PlacedAt(f, e, s, i)
    BY <1>2, <2>1, <2>3, <2>4, <2>5, <2>6
  <2>. QED BY <1>4, <2>1, <2>7
<1>. QED BY <1>3, <1>4

\* A derived entry is the address where its byte is placed.
LEMMA EntryIsPlaced ==
  ASSUME NEW e \in ElfMetadata, validate_elf_load_data(e), NEW c \in Configs, NEW load,
         NEW entry \in direct_entry(c, e, load), NEW f, f.config = c, f.load = load
  PROVE  /\ entry = e.entry /\ entry >= load /\ entry <= TopAddress
         /\ \E s \in e.sections, i \in 0..TopAddress :
              i < s.size /\ s.va + i = e.entry /\ PlacedAt(f, e, s, i) = entry
<1>1. /\ entry = e.entry /\ load \in Base(c, e)
      /\ \E s \in e.sections : e.entry >= s.va /\ e.entry < s.va + s.size /\ s.va \in section_lma(s, e)
  BY DEF direct_entry
<1>2. PICK s \in e.sections : e.entry >= s.va /\ e.entry < s.va + s.size /\ s.va \in section_lma(s, e)
  BY <1>1
<1>3. /\ s.va \in Nat /\ s.off \in Nat /\ s.size \in Nat /\ e.entry \in Nat /\ TopAddress \in Nat
      /\ s.va + s.size <= TopAddress
  BY FitAssumption DEF ElfMetadata, Section, Address, validate_elf_load_data, checked_end
<1>. DEFINE i == e.entry - s.va
<1>4. i \in 0..TopAddress /\ i \in Nat /\ i < s.size /\ s.va + i = e.entry
  BY <1>2, <1>3
<1>5. load \in Nat /\ load <= s.va /\ PlacedAt(f, e, s, i) = s.va + i
  <2>1. CASE c.format = "bin"
    <3>1. load \in bin_load_base(e)
      BY <1>1, <2>1 DEF Base
    <3>2. PICK a \in section_lma(s, e) : section_lma(s, e) = {a} /\ load \in Nat /\ load <= a /\ PlacedAt(f, e, s, i) = a + i
      BY <1>4, <2>1, <3>1, BinIsPlaced
    <3>. QED BY <1>2, <3>2
  <2>2. CASE c.format # "bin"
    <3>1. load \in elf_load_base(e)
      BY <1>1, <2>2 DEF Base
    <3>2. PICK g \in FileBacked(e) : s.va = g.pa + (s.off - g.off)
      BY <1>2, LmaIsOfSegment
    <3>3. load \in Nat /\ load = g.pa - g.off
      BY <3>1, ElfBaseIsOfSegments
    <3>4. g.pa \in Nat /\ g.off \in Nat
      BY FitAssumption DEF FileBacked, ElfMetadata, Segment, Address
    <3>5. PlacedAt(f, e, s, i) = load + s.off + i
      BY <2>2 DEF PlacedAt, Configs
    <3>. QED BY <1>3, <1>4, <3>2, <3>3, <3>4, <3>5
  <2>. QED BY <2>1, <2>2
<1>. HIDE DEF i
<1>6. entry >= load /\ entry <= TopAddress
  BY <1>1, <1>2, <1>3, <1>5
<1>. QED BY <1>1, <1>4, <1>5, <1>6

\* The entry from the header of a LoongArch kernel lies above its load address.
LEMMA HeaderEntryIsAbove ==
  ASSUME NEW arch, NEW payload, payload.header \in ImageHeader, NEW load \in Address,
         NEW entry \in loongarch_image_entry(arch, payload, load).entry
  PROVE  entry >= load /\ entry <= TopAddress
<1>. DEFINE offset == payload.header.entry - payload.header.load
<1>1. offset \in Int /\ offset >= 0 /\ checked_end(load, offset) /\ entry = load + offset
  BY FitAssumption DEF loongarch_image_entry, ImageHeader, Address
<1>2. load \in Nat /\ TopAddress \in Nat
  BY FitAssumption DEF Address
<1>. QED BY <1>1, <1>2 DEF checked_end

\* The derived load address of a BIN is an address.
LEMMA DerivedLoadIsAddress ==
  ASSUME NEW e \in ElfMetadata, validate_elf_load_data(e), NEW load \in bin_load_base(e)
  PROVE  load \in Address
<1>1. PICK s \in e.sections : TRUE
  BY DEF bin_load_base
<1>2. PICK f : f = [config |-> [format |-> "bin"], load |-> load]
  OBVIOUS
<1>3. PICK a \in section_lma(s, e) : load \in Nat /\ load <= a
  BY <1>2, BinIsPlaced
<1>4. PICK g \in FileBacked(e) : a = g.pa + (s.off - g.off) /\ s.off + s.size <= g.off + g.fsz /\ a \in Nat
  BY LmaIsOfSegment
<1>5. /\ g.pa \in Nat /\ g.off \in Nat /\ g.fsz \in Nat /\ s.off \in Nat /\ s.size \in Nat /\ TopAddress \in Nat
      /\ g.pa + g.fsz <= TopAddress
  <2>1. g \in e.segments /\ g.fsz <= g.msz /\ g.pa + g.msz <= TopAddress
    BY DEF FileBacked, validate_elf_load_data, checked_end
  <2>2. g.msz \in Nat /\ g.pa \in Nat /\ g.off \in Nat /\ g.fsz \in Nat /\ s.off \in Nat /\ s.size \in Nat
    BY <2>1, FitAssumption DEF ElfMetadata, Segment, Section, Address
  <2>. QED BY <2>1, <2>2, FitAssumption
<1>6. load <= TopAddress
  BY <1>3, <1>4, <1>5
<1>. QED BY <1>3, <1>6 DEF Address

\* An image of generate_configured_fit is placed right.
LEMMA ConfiguredFitIsRight ==
  ASSUME elf \in Elfs, NEW c \in Configs, NEW header \in Headers, generate_configured_fit(c, header)
  PROVE  FitIsPlacedRight'
<1>1. elf \in ElfMetadata /\ validate_elf_load_data(elf) /\ header \in ImageHeader /\ elf' = elf
  BY FitAssumption DEF generate_configured_fit
<1>. DEFINE payload == Payload(c, elf, header)
<1>2. PICK load \in resolve_load(c, elf) : \E entry \in resolve_entry(c, elf, load, payload) :
        fit' = [made |-> TRUE, by |-> "config", config |-> c, payload |-> payload, load |-> load, entry |-> entry]
  BY DEF generate_configured_fit
<1>3. PICK entry \in resolve_entry(c, elf, load, payload) :
        fit' = [made |-> TRUE, by |-> "config", config |-> c, payload |-> payload, load |-> load, entry |-> entry]
  BY <1>2
<1>4. payload.header = header
  BY DEF Payload
<1>. HIDE DEF payload
<1>5. /\ fit'.made /\ fit'.by = "config" /\ fit'.config = c /\ fit'.payload = payload
      /\ fit'.load = load /\ fit'.entry = entry
  BY <1>3
<1>6. ASSUME c.os = "linux", c.load = Derived, NEW s \in elf.sections, NEW i \in 0..(s.size - 1),
             c.format = "bin" \/ (\E b \in BytesOf(elf) : b.offset = s.off + i)
      PROVE  \E b \in BytesOf(elf) : /\ b.offset = s.off + i /\ b.pa = PlacedAt(fit', elf, s, i)
                                     /\ (c.format = "bin" => b.va = s.va + i)
  BY <1>1, <1>5, <1>6, BytesArePlaced
<1>7. ASSUME c.os = "linux", c.entry = Derived,
             ~(c.format = "bin" /\ loongarch_image_entry(elf.arch, payload, load).header)
      PROVE  entry \in direct_entry(c, elf, load)
  BY <1>7 DEF resolve_entry
<1>8. ASSUME c.os = "linux", c.entry = Derived,
             ~(c.format = "bin" /\ loongarch_image_entry(elf.arch, payload, load).header)
      PROVE  \E s \in elf.sections, i \in 0..TopAddress :
               i < s.size /\ s.va + i = elf.entry /\ PlacedAt(fit', elf, s, i) = entry /\ entry = elf.entry
  BY <1>1, <1>5, <1>7, <1>8, EntryIsPlaced
<1>9. ASSUME c.entry = Derived
      PROVE  entry >= load /\ entry <= TopAddress
  <2>1. CASE c.os = "elf"
    <3>1. load \in Addresses /\ entry = load
      BY <1>9, <2>1, FitAssumption DEF resolve_load, resolve_entry, Configs
    <3>. QED BY <3>1, FitAssumption DEF Address
  <2>2. CASE c.os = "linux"
    <3>1. CASE c.format = "bin" /\ loongarch_image_entry(elf.arch, payload, load).header
      <4>1. load \in Address
        <5>1. CASE c.load # Derived
          BY <2>2, <5>1, FitAssumption DEF resolve_load, Configs
        <5>2. CASE c.load = Derived
          BY <1>1, <2>2, <3>1, <5>2, DerivedLoadIsAddress DEF resolve_load, Base
        <5>. QED BY <5>1, <5>2
      <4>2. entry \in loongarch_image_entry(elf.arch, payload, load).entry
        BY <1>9, <2>2, <3>1 DEF resolve_entry
      <4>. QED BY <1>1, <1>4, <4>1, <4>2, HeaderEntryIsAbove
    <3>2. CASE ~(c.format = "bin" /\ loongarch_image_entry(elf.arch, payload, load).header)
      BY <1>1, <1>5, <1>7, <1>9, <2>2, <3>2, EntryIsPlaced
    <3>. QED BY <3>1, <3>2
  <2>. QED BY <2>1, <2>2 DEF Configs
<1>10. BytesOf(elf)' = BytesOf(elf) /\ elf'.sections = elf.sections /\ elf'.entry = elf.entry /\ elf'.arch = elf.arch
  BY <1>1 DEF BytesOf
<1>. QED BY <1>1, <1>5, <1>6, <1>8, <1>9, <1>10, Zenon DEF FitIsPlacedRight

\* An image for U-Boot has the DTB that was given, without the initrd of an earlier boot.
LEMMA UbootFitIsRight ==
  ASSUME NEW arch, NEW header \in Headers, NEW dtb \in Dtbs, generate_fit_image(arch, header, dtb)
  PROVE  FitIsPlacedRight'
<1>1. PICK load \in Addresses :
        LET payload == [header |-> header, size |-> 2]
            image == loongarch_image_entry(arch, payload, load)
        IN \E entry \in IF image.header THEN image.entry ELSE {load} :
             fit' = [made |-> TRUE, by |-> "uboot", payload |-> payload, load |-> load, entry |-> entry,
                     given |-> dtb, dtb |-> drop_stale_initrd(dtb)]
  BY DEF generate_fit_image
<1>. DEFINE payload == [header |-> header, size |-> 2]
            image == loongarch_image_entry(arch, payload, load)
<1>2. PICK entry \in (IF image.header THEN image.entry ELSE {load}) :
        fit' = [made |-> TRUE, by |-> "uboot", payload |-> payload, load |-> load, entry |-> entry,
                given |-> dtb, dtb |-> drop_stale_initrd(dtb)]
  BY <1>1
<1>3. load \in Address /\ load \in Nat /\ load <= TopAddress /\ payload.header \in ImageHeader
  BY FitAssumption DEF Address
<1>4. entry >= load /\ entry <= TopAddress
  BY <1>2, <1>3, HeaderEntryIsAbove
<1>5. ASSUME drop_stale_initrd(dtb) # dtb
      PROVE  /\ drop_stale_initrd(dtb).start = Derived /\ drop_stale_initrd(dtb).end = Derived
             /\ \A r \in dtb.reserved \ drop_stale_initrd(dtb).reserved : r[1] = dtb.start /\ r[1] + r[2] = dtb.end
  <2>1. dtb.chosen
    BY <1>5 DEF drop_stale_initrd
  <2>. DEFINE cut == dtb.start # Derived /\ dtb.end # Derived /\ dtb.end >= dtb.start
  <2>2. /\ drop_stale_initrd(dtb).start = Derived /\ drop_stale_initrd(dtb).end = Derived
        /\ drop_stale_initrd(dtb).reserved = IF cut THEN dtb.reserved \ {<<dtb.start, dtb.end - dtb.start>>} ELSE dtb.reserved
    BY <2>1 DEF drop_stale_initrd, Dtbs
  <2>3. ASSUME NEW r \in dtb.reserved \ drop_stale_initrd(dtb).reserved
        PROVE  r[1] = dtb.start /\ r[1] + r[2] = dtb.end
    <3>1. cut /\ r = <<dtb.start, dtb.end - dtb.start>>
      BY <2>2, <2>3
    <3>2. dtb.start \in Nat /\ dtb.end \in Nat
      BY <3>1 DEF Dtbs
    <3>. QED BY <3>1, <3>2
  <2>. QED BY <2>2, <2>3
<1>6. /\ fit'.made /\ fit'.by = "uboot" /\ fit'.given = dtb /\ fit'.dtb = drop_stale_initrd(dtb)
      /\ fit'.load = load /\ fit'.entry = entry
  BY <1>2
<1>. QED BY <1>4, <1>5, <1>6 DEF FitIsPlacedRight

\* FIT images: the bytes and the entry are where the ELF wants them, for any segments and
\* sections that an ELF may have, and the DTB names no initrd of another boot.
THEOREM FitsArePlaced == FitSpec => []FitIsPlacedRight
<1>. DEFINE FitInv == (elf = NoElf \/ elf \in Elfs) /\ FitIsPlacedRight
<1>1. FitInit => FitInv
  BY DEF FitInit, NoFit, FitIsPlacedRight
<1>2. FitInv /\ [FitNext]_fitVars => FitInv'
  <2>. SUFFICES ASSUME FitInv, [FitNext]_fitVars  PROVE  FitInv'
    OBVIOUS
  <2>1. ASSUME NEW e \in Elfs, ChooseElf(e)  PROVE  FitInv'
    <3>1. elf' \in Elfs /\ fit' = NoFit
      BY <2>1 DEF ChooseElf
    <3>. QED BY <3>1 DEF FitIsPlacedRight, NoFit
  <2>2. ASSUME NEW c \in Configs, NEW header \in Headers, generate_configured_fit(c, header)  PROVE  FitInv'
    <3>1. elf \in Elfs /\ elf' = elf
      BY <2>2 DEF generate_configured_fit
    <3>. QED BY <2>2, <3>1, ConfiguredFitIsRight
  <2>3. ASSUME NEW arch, NEW header \in Headers, NEW dtb \in Dtbs, generate_fit_image(arch, header, dtb)  PROVE  FitInv'
    <3>1. elf' = NoElf
      BY <2>3 DEF generate_fit_image
    <3>. QED BY <2>3, <3>1, UbootFitIsRight
  <2>4. CASE UNCHANGED fitVars
    <3>1. elf' = elf /\ fit' = fit
      BY <2>4 DEF fitVars
    <3>2. FitIsPlacedRight'
      BY <3>1, Zenon DEF FitIsPlacedRight
    <3>. QED BY <3>1, <3>2
  <2>. QED BY <2>1, <2>2, <2>3, <2>4 DEF FitNext
<1>. QED BY <1>1, <1>2, PTL DEF FitSpec

-----------------------------------------------------------------------------
(***************************************************************************)
(* ConsoleRun.                                                             *)
(***************************************************************************)
ConsoleTypeOK ==
  /\ steps \in Seq(RawStep) /\ matcher \in Matcher /\ seen \in Text /\ rest \in Text /\ window \in Text
  /\ outcome \in [completed : BOOLEAN, failure : BOOLEAN]
  /\ failMatch \in {"none", "matched", "due"} /\ sender \in Nat /\ sent \in Nat
  /\ queue \in Seq(CommandInputs \cup {"key"})
  /\ writer \in [state : {"up", "failed", "ended", "aborted"}, event : Events]

\* What was found in the window is what there was to be found.
WindowIsEnd ==
  /\ window = EndOf(seen, MatchWindow)
  /\ failMatch = "none" => ~Found(FailPatterns, seen)

\* A step of an accepted configuration, whose patterns fit.
SoundStep(check) ==
  /\ check \in RawStep
  /\ check.command => check.prefix # None
  /\ check.success = {} => check.command /\ check.fail = {}
  /\ \A p \in check.success \cup check.fail \cup ({check.prefix} \ {None}) : Len(p) <= HistoryMax + 1
StepsAreSound == \A k \in 1..Len(steps) : SoundStep(steps[k])

\* The matcher m stands where the output `text` has got to, and `left` of it is since its phase began.
Follows(m, text, left) ==
  /\ m.cur \in 1..Len(steps)
  /\ m.phase \in {"WaitingForPrefix", "Sending"} => steps[m.cur].command
  /\ m.phase = "WaitingForPrefix" =>
       left = ReadOff(steps, text)[m.cur - 1] /\ ~Found({steps[m.cur].prefix}, left)
  /\ m.phase = "Sending" => m.pending = Prompted(steps[m.cur], ReadOff(steps, text)[m.cur - 1]) /\ m.history = <<>>
  /\ m.phase = "WaitingForResult" =>
       /\ steps[m.cur].success # {} /\ left = Prompted(steps[m.cur], ReadOff(steps, text)[m.cur - 1])
       /\ ~Found(steps[m.cur].success, left) /\ ~Found(steps[m.cur].fail, left)
  /\ Waiting(m) => m.history = EndOf(left, HistoryMax)

\* The commands that m takes for written.
Written(m) ==
  {k \in 1..Len(steps) : /\ steps[k].command
                         /\ k < m.cur \/ (k = m.cur /\ m.phase \in {"WaitingForResult", "Completed"})}

Succeeded == outcome.completed \/ writer.event = "SequenceCompleted"
Undone == outcome.failure \/ expired # {} \/ Fails(writer.event)

\* A sequence succeeds or fails, and once.
EndsOnce ==
  /\ matcher.phase = "Completed" => Succeeded \/ Undone
  /\ Succeeded =>
       /\ ~Undone /\ matcher.phase = "Completed" /\ matcher.cur = Len(steps)
       /\ ReadOff(steps, seen)[Len(steps)] # None
  /\ Undone => matcher.phase \in {"Sending", "Completed"}
  /\ matcher.phase # "Completed" \/ Succeeded => sent = Cardinality(Written(matcher))

Queued(q, x) == \E i \in 1..Len(q) : q[i] = x
InOrder(q) == \A i, j \in 1..Len(q) : i < j /\ q[i] = "lastChunk" => q[j] = "key"
Delivering == sender # 0 \/ Queued(queue, "lastChunk") \/ writer.event = "Send"

\* One command is on its way at a time, and only while the matcher waits for it.
DeliveryIsInOrder ==
  /\ Delivering \/ Queued(queue, "chunk") =>
       matcher.phase = "Sending" \/ (matcher.phase = "Completed" /\ Undone)
  /\ Undone /\ matcher.phase = "Sending" => writer.state # "up" \/ ~Delivering
  /\ sender # 0 => ~Queued(queue, "lastChunk") /\ writer.event # "Send"
  /\ writer.event = "Send" => ~Queued(queue, "chunk") /\ ~Queued(queue, "lastChunk")
  /\ InOrder(queue)

ReadsInOrder ==
  IF HasChecks THEN Follows(matcher, seen, rest) /\ EndsOnce /\ DeliveryIsInOrder
  ELSE matcher.phase = "Completed" /\ ~Succeeded

OkIsFinal ==
  result = "Ok" => runnerStage = "done" /\ failMatch = "none" /\ (HasChecks => outcome.completed)

ReadInv == ConsoleTypeOK /\ StepsAreSound /\ WindowIsEnd /\ ReadsInOrder
ConsoleInv == ReadInv /\ OkIsFinal

\* The greater of two numbers.
LEMMA MaxOfTwo ==
  ASSUME NEW i \in Int
  PROVE  Max({i, 1}) = IF i > 1 THEN i ELSE 1
BY DEF Max

\* The end of a text.
LEMMA EndIsText ==
  ASSUME NEW t \in Text, NEW n \in Nat
  PROVE  /\ EndOf(t, n) \in Text
         /\ Len(EndOf(t, n)) = IF Len(t) <= n THEN Len(t) ELSE n
         /\ Len(t) <= n => EndOf(t, n) = t
         /\ \A i \in 1..Len(EndOf(t, n)) : EndOf(t, n)[i] = t[Len(t) - Len(EndOf(t, n)) + i]
<1>1. Len(t) \in Nat /\ Len(t) - n + 1 \in Int
  BY DEF Text
<1>2. CASE Len(t) <= n
  <2>1. Max({Len(t) - n + 1, 1}) = 1
    <3>1. ~(Len(t) - n + 1 > 1)
      BY <1>1, <1>2
    <3>. QED BY <1>1, <3>1, MaxOfTwo
  <2>2. EndOf(t, n) = t
    BY <2>1, SubSeqFull DEF EndOf, Text
  <2>. QED BY <1>1, <1>2, <2>2
<1>3. CASE ~(Len(t) <= n)
  <2>1. Max({Len(t) - n + 1, 1}) = Len(t) - n + 1
    <3>1. Len(t) - n + 1 > 1
      BY <1>1, <1>3
    <3>. QED BY <1>1, <3>1, MaxOfTwo
  <2>2. EndOf(t, n) = SubSeq(t, Len(t) - n + 1, Len(t))
    BY <2>1 DEF EndOf
  <2>3. \A i \in (Len(t) - n + 1)..Len(t) : t[i] \in Letters
    BY <1>1, <1>3 DEF Text
  <2>4. /\ EndOf(t, n) \in Seq(Letters)
        /\ Len(EndOf(t, n)) = IF Len(t) - n + 1 <= Len(t) THEN Len(t) - (Len(t) - n + 1) + 1 ELSE 0
        /\ \A i \in 1..(Len(t) - (Len(t) - n + 1) + 1) : EndOf(t, n)[i] = t[Len(t) - n + 1 + i - 1]
    BY <1>1, <2>2, <2>3, SubSeqProperties
  <2>5. Len(EndOf(t, n)) = n
    BY <1>1, <1>3, <2>4
  <2>6. \A i \in 1..n : EndOf(t, n)[i] = t[Len(t) - n + i]
    BY <1>1, <1>3, <2>4
  <2>. QED BY <1>1, <1>3, <2>4, <2>5, <2>6 DEF Text
<1>. QED BY <1>2, <1>3

\* What follows a place in a text, and a part of it.
LEMMA PartOfText ==
  ASSUME NEW t \in Text, NEW i \in Nat \ {0}, NEW j \in 0..Len(t)
  PROVE  /\ SubSeq(t, i, j) \in Text
         /\ Len(SubSeq(t, i, j)) = IF i <= j THEN j - i + 1 ELSE 0
         /\ \A k \in 1..(j - i + 1) : SubSeq(t, i, j)[k] = t[i + k - 1]
<1>1. \A k \in i..j : t[k] \in Letters
  BY DEF Text
<1>2. j \in Int /\ i \in Int
  BY DEF Text
<1>. QED BY <1>1, <1>2, SubSeqProperties DEF Text

\* Where two texts in a row have their letters.
LEMMA LettersOfBoth ==
  ASSUME NEW a \in Text, NEW b \in Text
  PROVE  /\ a \o b \in Text /\ Len(a \o b) = Len(a) + Len(b)
         /\ Len(a) \in Nat /\ Len(b) \in Nat
         /\ \A i \in 1..(Len(a) + Len(b)) : (a \o b)[i] = IF i <= Len(a) THEN a[i] ELSE b[i - Len(a)]
BY ConcatProperties DEF Text

\* An occurrence, letter by letter.
OccursAt(P, t, e) == \E p \in P : Len(p) <= e /\ \A i \in 1..Len(p) : t[e - Len(p) + i] = p[i]

\* Where the patterns end, letter by letter.
LEMMA EndsByLetter ==
  ASSUME NEW t \in Text, NEW P, P \subseteq Text, NEW e \in 1..Len(t)
  PROVE  e \in Ends(P, t) <=> OccursAt(P, t, e)
<1>1. Len(t) \in Nat
  BY DEF Text
<1>2. ASSUME NEW p \in P, Len(p) <= e
      PROVE  SubSeq(t, e - Len(p) + 1, e) = p <=> \A i \in 1..Len(p) : t[e - Len(p) + i] = p[i]
  <2>1. p \in Text /\ Len(p) \in Nat /\ e - Len(p) + 1 \in Nat \ {0} /\ e \in 0..Len(t)
    BY <1>1, <1>2 DEF Text
  <2>2. /\ SubSeq(t, e - Len(p) + 1, e) \in Text
        /\ Len(SubSeq(t, e - Len(p) + 1, e)) = IF e - Len(p) + 1 <= e THEN e - (e - Len(p) + 1) + 1 ELSE 0
        /\ \A i \in 1..(e - (e - Len(p) + 1) + 1) : SubSeq(t, e - Len(p) + 1, e)[i] = t[e - Len(p) + 1 + i - 1]
    BY <2>1, PartOfText
  <2>3. Len(SubSeq(t, e - Len(p) + 1, e)) = Len(p)
    BY <1>1, <1>2, <2>1, <2>2
  <2>4. \A i \in 1..Len(p) : SubSeq(t, e - Len(p) + 1, e)[i] = t[e - Len(p) + i]
    BY <1>1, <1>2, <2>1, <2>2
  <2>5. (\A i \in 1..Len(p) : SubSeq(t, e - Len(p) + 1, e)[i] = p[i]) => SubSeq(t, e - Len(p) + 1, e) = p
    BY <2>1, <2>2, <2>3, SeqEqual DEF Text
  <2>. QED BY <2>4, <2>5
<1>. QED BY <1>2 DEF Ends, OccursAt

\* An occurrence in the first of two texts is one in both, and there is no other one there.
LEMMA EndsInFirst ==
  ASSUME NEW a \in Text, NEW b \in Text, NEW P, P \subseteq Text, NEW e \in 1..Len(a)
  PROVE  e \in Ends(P, a \o b) <=> e \in Ends(P, a)
<1>1. /\ a \o b \in Text /\ Len(a \o b) = Len(a) + Len(b) /\ Len(a) \in Nat /\ Len(b) \in Nat
      /\ \A i \in 1..Len(a) : (a \o b)[i] = a[i]
  BY LettersOfBoth
<1>2. ASSUME NEW p \in P, Len(p) <= e, NEW i \in 1..Len(p)
      PROVE  (a \o b)[e - Len(p) + i] = a[e - Len(p) + i]
  <2>1. Len(p) \in Nat
    BY DEF Text
  <2>2. e - Len(p) + i \in 1..Len(a)
    BY <1>1, <1>2, <2>1
  <2>. QED BY <1>1, <2>2
<1>3. e \in 1..Len(a \o b)
  BY <1>1
<1>4. OccursAt(P, a \o b, e) <=> OccursAt(P, a, e)
  BY <1>2, Zenon DEF OccursAt
<1>. QED BY <1>1, <1>3, <1>4, EndsByLetter

\* A window and what comes after it are the end of all of it.
LEMMA LettersOfWindow ==
  ASSUME NEW a \in Text, NEW b \in Text, NEW n \in Nat, NEW w, w = EndOf(a, n)
  PROVE  /\ w \in Text /\ Len(w) \in Nat /\ Len(w) <= Len(a) /\ (Len(w) = Len(a) \/ Len(w) = n)
         /\ w \o b \in Text /\ Len(w \o b) = Len(w) + Len(b)
         /\ \A i \in 1..(Len(w) + Len(b)) : (w \o b)[i] = (a \o b)[Len(a) - Len(w) + i]
<1>1. /\ Len(a \o b) = Len(a) + Len(b) /\ Len(a) \in Nat /\ Len(b) \in Nat
      /\ \A i \in 1..(Len(a) + Len(b)) : (a \o b)[i] = IF i <= Len(a) THEN a[i] ELSE b[i - Len(a)]
  BY LettersOfBoth
<1>2. /\ w \in Text /\ Len(w) = IF Len(a) <= n THEN Len(a) ELSE n
      /\ \A i \in 1..Len(w) : w[i] = a[Len(a) - Len(w) + i]
  BY EndIsText
<1>3. /\ w \o b \in Text /\ Len(w \o b) = Len(w) + Len(b) /\ Len(w) \in Nat
      /\ \A i \in 1..(Len(w) + Len(b)) : (w \o b)[i] = IF i <= Len(w) THEN w[i] ELSE b[i - Len(w)]
  BY <1>2, LettersOfBoth
<1>4. Len(w) <= Len(a) /\ (Len(w) = Len(a) \/ Len(w) = n)
  BY <1>1, <1>2
<1>5. ASSUME NEW i \in 1..(Len(w) + Len(b))  PROVE  (w \o b)[i] = (a \o b)[Len(a) - Len(w) + i]
  <2>1. Len(a) - Len(w) + i \in 1..(Len(a) + Len(b))
    BY <1>1, <1>3, <1>4
  <2>2. CASE i <= Len(w)
    <3>1. i \in 1..Len(w) /\ Len(a) - Len(w) + i <= Len(a)
      BY <1>1, <1>3, <2>2
    <3>. QED BY <1>1, <1>2, <1>3, <2>1, <2>2, <3>1
  <2>3. CASE ~(i <= Len(w))
    <3>1. ~(Len(a) - Len(w) + i <= Len(a)) /\ Len(a) - Len(w) + i - Len(a) = i - Len(w)
      BY <1>1, <1>3, <2>3
    <3>. QED BY <1>1, <1>3, <2>1, <2>3, <3>1
  <2>. QED BY <2>2, <2>3
<1>. QED BY <1>2, <1>3, <1>4, <1>5

\* From its end on a text and its window have the same occurrences of patterns that fit.
LEMMA EndsInWindow ==
  ASSUME NEW a \in Text, NEW b \in Text, NEW n \in Nat, NEW P, P \subseteq Text,
         \A p \in P : Len(p) <= n + 1, NEW e \in 1..Len(b)
  PROVE  Len(EndOf(a, n)) + e \in Ends(P, EndOf(a, n) \o b) <=> Len(a) + e \in Ends(P, a \o b)
<1> DEFINE w == EndOf(a, n)
<1>1. /\ a \o b \in Text /\ Len(a \o b) = Len(a) + Len(b) /\ Len(a) \in Nat /\ Len(b) \in Nat
      /\ \A i \in 1..(Len(a) + Len(b)) : (a \o b)[i] = IF i <= Len(a) THEN a[i] ELSE b[i - Len(a)]
  BY LettersOfBoth
<1>2. /\ w \in Text /\ Len(w) \in Nat /\ Len(w) <= Len(a) /\ (Len(w) = Len(a) \/ Len(w) = n)
      /\ w \o b \in Text /\ Len(w \o b) = Len(w) + Len(b)
      /\ \A i \in 1..(Len(w) + Len(b)) : (w \o b)[i] = (a \o b)[Len(a) - Len(w) + i]
  BY LettersOfWindow
<1>. HIDE DEF w
<1>3. ASSUME NEW p \in P
      PROVE  (Len(p) <= Len(w) + e /\ \A i \in 1..Len(p) : (w \o b)[(Len(w) + e) - Len(p) + i] = p[i]) <=>
             (Len(p) <= Len(a) + e /\ \A i \in 1..Len(p) : (a \o b)[(Len(a) + e) - Len(p) + i] = p[i])
  <2>1. Len(p) \in Nat /\ Len(p) <= n + 1
    BY DEF Text
  <2>2. Len(p) <= Len(w) + e <=> Len(p) <= Len(a) + e
    BY <1>1, <1>2, <2>1
  <2>3. ASSUME Len(p) <= Len(w) + e, NEW i \in 1..Len(p)
        PROVE  (w \o b)[(Len(w) + e) - Len(p) + i] = (a \o b)[(Len(a) + e) - Len(p) + i]
    <3>1. /\ (Len(w) + e) - Len(p) + i \in 1..(Len(w) + Len(b))
          /\ Len(a) - Len(w) + ((Len(w) + e) - Len(p) + i) = (Len(a) + e) - Len(p) + i
      BY <1>1, <1>2, <2>1, <2>3
    <3>. QED BY <1>2, <3>1
  <2>. QED BY <2>2, <2>3
<1>4. Len(w) + e \in 1..Len(w \o b) /\ Len(a) + e \in 1..Len(a \o b)
  BY <1>1, <1>2
<1>5. OccursAt(P, w \o b, Len(w) + e) <=> OccursAt(P, a \o b, Len(a) + e)
  BY <1>3, Zenon DEF OccursAt
<1>6. Len(w) + e \in Ends(P, w \o b) <=> Len(a) + e \in Ends(P, a \o b)
  BY <1>1, <1>2, <1>4, <1>5, EndsByLetter
<1>. QED BY <1>6 DEF w

\* Where a text that is found ends, and what comes after it.
LEMMA FirstEnd ==
  ASSUME NEW t \in Text, NEW P, Found(P, t)
  PROVE  /\ Min(Ends(P, t)) \in Ends(P, t) /\ Min(Ends(P, t)) \in 1..Len(t)
         /\ \A e \in Ends(P, t) : Min(Ends(P, t)) <= e
         /\ After(P, t) \in Text /\ Len(After(P, t)) < Len(t)
         /\ Len(After(P, t)) = Len(t) - Min(Ends(P, t))
         /\ \A i \in 1..Len(After(P, t)) : After(P, t)[i] = t[Min(Ends(P, t)) + i]
<1> DEFINE m == Min(Ends(P, t))
<1>1. Ends(P, t) \subseteq 1..Len(t) /\ Ends(P, t) # {} /\ Len(t) \in Nat
  <2>1. Ends(P, t) \subseteq 1..Len(t)
    BY Zenon DEF Ends
  <2>. QED BY <2>1 DEF Found, Text
<1>2. Ends(P, t) \subseteq Nat
  BY <1>1
<1>3. m \in Ends(P, t) /\ \A e \in Ends(P, t) : m <= e
  BY <1>1, <1>2, MinIsLeast
<1>4. m \in 1..Len(t) /\ m + 1 \in Nat \ {0} /\ Len(t) \in 0..Len(t)
  BY <1>1, <1>3
<1>. HIDE DEF m
<1>5. /\ SubSeq(t, m + 1, Len(t)) \in Text
      /\ Len(SubSeq(t, m + 1, Len(t))) = IF m + 1 <= Len(t) THEN Len(t) - (m + 1) + 1 ELSE 0
      /\ \A k \in 1..(Len(t) - (m + 1) + 1) : SubSeq(t, m + 1, Len(t))[k] = t[m + 1 + k - 1]
  BY <1>4, PartOfText
<1>6. Len(SubSeq(t, m + 1, Len(t))) = Len(t) - m /\ Len(t) - m < Len(t)
  BY <1>1, <1>4, <1>5
<1>7. \A k \in 1..(Len(t) - m) : SubSeq(t, m + 1, Len(t))[k] = t[m + k]
  BY <1>1, <1>4, <1>5
<1>8. After(P, t) = SubSeq(t, m + 1, Len(t))
  BY DEF After, m
<1>9. /\ After(P, t) \in Text /\ Len(After(P, t)) < Len(t) /\ Len(After(P, t)) = Len(t) - m
      /\ \A i \in 1..Len(After(P, t)) : After(P, t)[i] = t[m + i]
  BY <1>5, <1>6, <1>7, <1>8
<1>. QED BY <1>3, <1>4, <1>9 DEF m

\* The end that is least is the first one.
LEMMA FirstEndIs ==
  ASSUME NEW t \in Text, NEW P, NEW m \in Ends(P, t), \A e \in Ends(P, t) : m <= e
  PROVE  Found(P, t) /\ Min(Ends(P, t)) = m
<1>1. Found(P, t)
  BY DEF Found
<1>2. Min(Ends(P, t)) \in Ends(P, t) /\ m <= Min(Ends(P, t)) /\ Min(Ends(P, t)) <= m
  BY <1>1, FirstEnd
<1>3. m \in Nat /\ Min(Ends(P, t)) \in Nat
  BY <1>2 DEF Ends, Text
<1>. QED BY <1>1, <1>2, <1>3

\* What was found stays the first that is found, when more is printed.
LEMMA AfterMore ==
  ASSUME NEW a \in Text, NEW b \in Text, NEW P, P \subseteq Text, Found(P, a)
  PROVE  Found(P, a \o b) /\ After(P, a \o b) = After(P, a) \o b
<1> DEFINE m == Min(Ends(P, a))
<1>1. /\ a \o b \in Text /\ Len(a \o b) = Len(a) + Len(b) /\ Len(a) \in Nat /\ Len(b) \in Nat
      /\ \A i \in 1..(Len(a) + Len(b)) : (a \o b)[i] = IF i <= Len(a) THEN a[i] ELSE b[i - Len(a)]
  BY LettersOfBoth
<1>2. /\ m \in Ends(P, a) /\ m \in 1..Len(a) /\ \A e \in Ends(P, a) : m <= e
      /\ After(P, a) \in Text /\ Len(After(P, a)) = Len(a) - m
      /\ \A i \in 1..Len(After(P, a)) : After(P, a)[i] = a[m + i]
  BY FirstEnd
<1>. HIDE DEF m
<1>3. m \in Ends(P, a \o b)
  BY <1>2, EndsInFirst
<1>4. ASSUME NEW e \in Ends(P, a \o b)  PROVE  m <= e
  <2>1. e \in 1..(Len(a) + Len(b))
    BY <1>1 DEF Ends
  <2>2. CASE e <= Len(a)
    <3>1. e \in 1..Len(a)
      BY <1>1, <2>1, <2>2
    <3>. QED BY <1>2, <3>1, EndsInFirst
  <2>3. CASE ~(e <= Len(a))
    BY <1>1, <1>2, <2>1, <2>3
  <2>. QED BY <2>2, <2>3
<1>5. Found(P, a \o b) /\ Min(Ends(P, a \o b)) = m
  BY <1>1, <1>3, <1>4, FirstEndIs
<1>6. /\ After(P, a \o b) \in Text /\ Len(After(P, a \o b)) = Len(a \o b) - m
      /\ \A i \in 1..Len(After(P, a \o b)) : After(P, a \o b)[i] = (a \o b)[m + i]
  BY <1>1, <1>5, FirstEnd
<1>7. /\ After(P, a) \o b \in Text /\ Len(After(P, a) \o b) = Len(a) - m + Len(b)
      /\ \A i \in 1..(Len(After(P, a)) + Len(b)) :
           (After(P, a) \o b)[i] = IF i <= Len(After(P, a)) THEN After(P, a)[i] ELSE b[i - Len(After(P, a))]
  BY <1>2, LettersOfBoth
<1>8. Len(After(P, a \o b)) = Len(After(P, a) \o b)
  BY <1>1, <1>2, <1>6, <1>7
<1>9. ASSUME NEW i \in 1..Len(After(P, a \o b))  PROVE  After(P, a \o b)[i] = (After(P, a) \o b)[i]
  <2>1. i \in 1..(Len(a) - m + Len(b)) /\ m + i \in 1..(Len(a) + Len(b))
    BY <1>1, <1>2, <1>6
  <2>2. CASE i <= Len(a) - m
    <3>1. m + i <= Len(a) /\ i \in 1..Len(After(P, a))
      BY <1>1, <1>2, <2>1, <2>2
    <3>. QED BY <1>1, <1>2, <1>6, <1>7, <2>1, <2>2, <3>1
  <2>3. CASE ~(i <= Len(a) - m)
    <3>1. ~(m + i <= Len(a)) /\ m + i - Len(a) = i - (Len(a) - m)
      BY <1>1, <1>2, <2>1, <2>3
    <3>. QED BY <1>1, <1>2, <1>6, <1>7, <2>1, <2>3, <3>1
  <2>. QED BY <2>2, <2>3
<1>10. After(P, a \o b) = After(P, a) \o b
  BY <1>6, <1>7, <1>8, <1>9, SeqEqual DEF Text
<1>. QED BY <1>5, <1>10

\* Nothing is found at the end of a text that is not found in the text.
LEMMA NothingInWindow ==
  ASSUME NEW a \in Text, NEW n \in Nat, NEW P, P \subseteq Text, ~Found(P, a)
  PROVE  ~Found(P, EndOf(a, n))
<1> DEFINE w == EndOf(a, n)
           d == Len(a) - Len(w)
<1>1. /\ w \in Text /\ Len(w) = IF Len(a) <= n THEN Len(a) ELSE n
      /\ \A i \in 1..Len(w) : w[i] = a[Len(a) - Len(w) + i]
  BY EndIsText
<1>2. Len(a) \in Nat /\ Len(w) \in Nat /\ Len(w) <= Len(a)
  BY <1>1 DEF Text
<1>. HIDE DEF w
<1>3. ASSUME NEW e \in Ends(P, w)  PROVE  FALSE
  <2>1. e \in 1..Len(w)
    BY Zenon DEF Ends
  <2>2. OccursAt(P, w, e)
    BY <1>1, <2>1, EndsByLetter
  <2>3. PICK p \in P : Len(p) <= e /\ \A i \in 1..Len(p) : w[e - Len(p) + i] = p[i]
    BY <2>2 DEF OccursAt
  <2>4. Len(p) \in Nat
    BY DEF Text
  <2>5. Len(p) <= d + e /\ d + e \in 1..Len(a)
    BY <1>2, <2>1, <2>3, <2>4
  <2>6. ASSUME NEW i \in 1..Len(p)  PROVE  a[(d + e) - Len(p) + i] = p[i]
    <3>1. e - Len(p) + i \in 1..Len(w) /\ d + (e - Len(p) + i) = (d + e) - Len(p) + i
      BY <1>2, <2>1, <2>3, <2>4
    <3>. QED BY <1>1, <2>3, <3>1
  <2>7. OccursAt(P, a, d + e)
    BY <2>5, <2>6 DEF OccursAt
  <2>8. d + e \in Ends(P, a)
    BY <2>5, <2>7, EndsByLetter
  <2>. QED BY <2>8 DEF Found
<1>. QED BY <1>3 DEF Found, w

\* To look at the end of what was read without a match, and at what comes, is to look at all of it.
LEMMA WindowFinds ==
  ASSUME NEW a \in Text, NEW b \in Text, NEW n \in Nat, NEW P, P \subseteq Text,
         \A p \in P : Len(p) <= n + 1, ~Found(P, a)
  PROVE  /\ Found(P, EndOf(a, n) \o b) <=> Found(P, a \o b)
         /\ Found(P, a \o b) => After(P, EndOf(a, n) \o b) = After(P, a \o b)
<1> DEFINE w == EndOf(a, n)
<1>1. /\ a \o b \in Text /\ Len(a \o b) = Len(a) + Len(b) /\ Len(a) \in Nat /\ Len(b) \in Nat
      /\ \A i \in 1..(Len(a) + Len(b)) : (a \o b)[i] = IF i <= Len(a) THEN a[i] ELSE b[i - Len(a)]
  BY LettersOfBoth
<1>2. w \in Text /\ ~Found(P, w)
  BY EndIsText, NothingInWindow
<1>3. /\ w \o b \in Text /\ Len(w \o b) = Len(w) + Len(b) /\ Len(w) \in Nat
      /\ \A i \in 1..(Len(w) + Len(b)) : (w \o b)[i] = IF i <= Len(w) THEN w[i] ELSE b[i - Len(w)]
  BY <1>2, LettersOfBoth
<1>4. ASSUME NEW e \in 1..Len(b)
      PROVE  Len(w) + e \in Ends(P, w \o b) <=> Len(a) + e \in Ends(P, a \o b)
  BY EndsInWindow
<1>. HIDE DEF w
<1>5. ASSUME NEW x \in Text, ~Found(P, x), NEW e \in Ends(P, x \o b)
      PROVE  e - Len(x) \in 1..Len(b) /\ e = Len(x) + (e - Len(x))
  <2>1. e \in 1..(Len(x) + Len(b)) /\ Len(x) \in Nat
    <3>1. Len(x \o b) = Len(x) + Len(b) /\ Len(x) \in Nat
      BY LettersOfBoth
    <3>. QED BY <3>1, Zenon DEF Ends
  <2>2. ~(e \in 1..Len(x))
    BY <1>5, EndsInFirst DEF Found
  <2>. QED BY <1>1, <2>1, <2>2
<1>6. ASSUME Found(P, a \o b)
      PROVE  Found(P, w \o b) /\ After(P, w \o b) = After(P, a \o b)
  <2> DEFINE m == Min(Ends(P, a \o b)) - Len(a)
  <2>1. /\ Min(Ends(P, a \o b)) \in Ends(P, a \o b) /\ \A e \in Ends(P, a \o b) : Min(Ends(P, a \o b)) <= e
        /\ After(P, a \o b) \in Text /\ Len(After(P, a \o b)) = Len(a \o b) - Min(Ends(P, a \o b))
        /\ \A i \in 1..Len(After(P, a \o b)) : After(P, a \o b)[i] = (a \o b)[Min(Ends(P, a \o b)) + i]
    BY <1>1, <1>6, FirstEnd
  <2>2. m \in 1..Len(b) /\ Min(Ends(P, a \o b)) = Len(a) + m
    BY <1>5, <2>1
  <2>. HIDE DEF m
  <2>3. Len(w) + m \in Ends(P, w \o b)
    BY <1>4, <2>1, <2>2
  <2>4. ASSUME NEW e \in Ends(P, w \o b)  PROVE  Len(w) + m <= e
    <3>1. e - Len(w) \in 1..Len(b) /\ e = Len(w) + (e - Len(w))
      BY <1>2, <1>5
    <3>2. Len(a) + (e - Len(w)) \in Ends(P, a \o b)
      BY <1>4, <3>1
    <3>3. Len(a) + m <= Len(a) + (e - Len(w))
      BY <2>1, <2>2, <3>2
    <3>. QED BY <1>1, <1>3, <2>2, <3>1, <3>3
  <2>5. Found(P, w \o b) /\ Min(Ends(P, w \o b)) = Len(w) + m
    BY <1>3, <2>3, <2>4, FirstEndIs
  <2>6. /\ After(P, w \o b) \in Text /\ Len(After(P, w \o b)) = Len(w \o b) - Min(Ends(P, w \o b))
        /\ \A i \in 1..Len(After(P, w \o b)) : After(P, w \o b)[i] = (w \o b)[Min(Ends(P, w \o b)) + i]
    BY <1>3, <2>5, FirstEnd
  <2>7. Len(After(P, w \o b)) = Len(b) - m /\ Len(After(P, a \o b)) = Len(b) - m
    BY <1>1, <1>3, <2>1, <2>2, <2>5, <2>6
  <2>8. ASSUME NEW i \in 1..Len(After(P, w \o b))  PROVE  After(P, w \o b)[i] = After(P, a \o b)[i]
    <3>1. i \in 1..(Len(b) - m)
      BY <2>7
    <3>2. /\ (Len(w) + m) + i \in 1..(Len(w) + Len(b)) /\ ~((Len(w) + m) + i <= Len(w))
          /\ ((Len(w) + m) + i) - Len(w) = m + i
          /\ (Len(a) + m) + i \in 1..(Len(a) + Len(b)) /\ ~((Len(a) + m) + i <= Len(a))
          /\ ((Len(a) + m) + i) - Len(a) = m + i
      BY <1>1, <1>3, <2>2, <3>1
    <3>3. (w \o b)[(Len(w) + m) + i] = b[((Len(w) + m) + i) - Len(w)]
      BY <1>3, <3>2
    <3>4. (a \o b)[(Len(a) + m) + i] = b[((Len(a) + m) + i) - Len(a)]
      BY <1>1, <3>2
    <3>. QED BY <2>1, <2>2, <2>5, <2>6, <2>7, <3>1, <3>2, <3>3, <3>4
  <2>9. After(P, w \o b) = After(P, a \o b)
    BY <2>1, <2>6, <2>7, <2>8, SeqEqual DEF Text
  <2>. QED BY <2>5, <2>9
<1>7. ASSUME NEW e \in Ends(P, w \o b)  PROVE  Found(P, a \o b)
  <2>1. e - Len(w) \in 1..Len(b) /\ e = Len(w) + (e - Len(w))
    BY <1>2, <1>5, <1>7
  <2>2. Len(a) + (e - Len(w)) \in Ends(P, a \o b)
    BY <1>4, <1>7, <2>1
  <2>. QED BY <2>2 DEF Found
<1>8. Found(P, w \o b) => Found(P, a \o b)
  BY <1>7 DEF Found
<1>. QED BY <1>6, <1>8 DEF w

\* A window over all that was read is a window over the last one and what is new.
LEMMA WindowMoves ==
  ASSUME NEW a \in Text, NEW b \in Text, NEW n \in Nat
  PROVE  EndOf(EndOf(a, n) \o b, n) = EndOf(a \o b, n)
<1> DEFINE w == EndOf(a, n)
           x == EndOf(w \o b, n)
           y == EndOf(a \o b, n)
<1>1. /\ a \o b \in Text /\ Len(a \o b) = Len(a) + Len(b) /\ Len(a) \in Nat /\ Len(b) \in Nat
      /\ \A i \in 1..(Len(a) + Len(b)) : (a \o b)[i] = IF i <= Len(a) THEN a[i] ELSE b[i - Len(a)]
  BY LettersOfBoth
<1>2. /\ w \in Text /\ Len(w) \in Nat /\ Len(w) <= Len(a) /\ (Len(w) = Len(a) \/ Len(w) = n)
      /\ w \o b \in Text /\ Len(w \o b) = Len(w) + Len(b)
      /\ \A i \in 1..(Len(w) + Len(b)) : (w \o b)[i] = (a \o b)[Len(a) - Len(w) + i]
  BY LettersOfWindow
<1>3. Len(a) <= n <=> Len(w) = Len(a)
  BY <1>1, EndIsText
<1>4. /\ x \in Text /\ Len(x) = IF Len(w \o b) <= n THEN Len(w \o b) ELSE n
      /\ \A i \in 1..Len(x) : x[i] = (w \o b)[Len(w \o b) - Len(x) + i]
  BY <1>2, EndIsText
<1>5. /\ y \in Text /\ Len(y) = IF Len(a \o b) <= n THEN Len(a \o b) ELSE n
      /\ \A i \in 1..Len(y) : y[i] = (a \o b)[Len(a \o b) - Len(y) + i]
  BY <1>1, EndIsText
<1>. HIDE DEF w, x, y
<1>6. Len(x) = Len(y) /\ Len(x) \in Nat /\ Len(x) <= Len(w) + Len(b)
  BY <1>1, <1>2, <1>3, <1>4, <1>5
<1>7. ASSUME NEW i \in 1..Len(x)  PROVE  x[i] = y[i]
  <2>1. /\ (Len(w) + Len(b)) - Len(x) + i \in 1..(Len(w) + Len(b))
        /\ Len(a) - Len(w) + ((Len(w) + Len(b)) - Len(x) + i) = (Len(a) + Len(b)) - Len(x) + i
    BY <1>1, <1>2, <1>6
  <2>2. x[i] = (w \o b)[(Len(w) + Len(b)) - Len(x) + i]
    BY <1>2, <1>4
  <2>3. y[i] = (a \o b)[(Len(a) + Len(b)) - Len(x) + i]
    BY <1>1, <1>5, <1>6
  <2>4. (w \o b)[(Len(w) + Len(b)) - Len(x) + i] = (a \o b)[Len(a) - Len(w) + ((Len(w) + Len(b)) - Len(x) + i)]
    BY <1>2, <2>1
  <2>. QED BY <2>1, <2>2, <2>3, <2>4
<1>8. x = y
  BY <1>4, <1>5, <1>6, <1>7, SeqEqual DEF Text
<1>. QED BY <1>8 DEF w, x, y

-----------------------------------------------------------------------------
(***************************************************************************)
(* Recursive functions: what is defined by what smaller arguments give.    *)
(***************************************************************************)
\* Numbers of which none is the least are none.
LEMMA NoLeast ==
  ASSUME NEW B, B \subseteq Nat, \A n \in B : \E m \in B : m < n
  PROVE  B = {}
<1>1. SUFFICES ASSUME B # {}  PROVE FALSE
  OBVIOUS
<1>2. Min(B) \in B /\ \A x \in B : Min(B) <= x
  BY <1>1, MinIsLeast
<1>3. PICK m \in B : m < Min(B)
  BY <1>2
<1>4. m \in Nat /\ Min(B) \in Nat /\ Min(B) <= m
  BY <1>2
<1>. QED BY <1>3, <1>4

\* A function of S that is given on Stop, and elsewhere by G from the value at `next`, which is smaller.
Equation(f, s, Stop, val, next, G) ==
  f[s] = IF s \in Stop THEN val[s] ELSE G[<<s, f[next[s]]>>]

\* There is such a function: the one that CHOOSE takes satisfies the equation.
LEMMA RecursionExists ==
  ASSUME NEW S, NEW V, NEW size \in [S -> Nat], NEW Stop, NEW val \in [S -> V], NEW next \in [S -> S],
         \A s \in S \ Stop : size[next[s]] < size[s], NEW G \in [S \X V -> V]
  PROVE  \E f \in [S -> V] : \A s \in S : Equation(f, s, Stop, val, next, G)
<1> DEFINE Sol(n) == {f \in [S -> V] : \A s \in S : size[s] < n => Equation(f, s, Stop, val, next, G)}
           Unsolved == {n \in Nat : Sol(n) = {}}
           Differ == {n \in Nat : \E i, j \in Nat : \E f \in Sol(i), g \in Sol(j), s \in S :
                                    size[s] = n /\ n < i /\ n < j /\ f[s] # g[s]}
<1>1. ASSUME NEW n \in Nat, Sol(n) # {}  PROVE  Sol(n + 1) # {}
  <2>1. PICK f \in [S -> V] : \A s \in S : size[s] < n => Equation(f, s, Stop, val, next, G)
    BY <1>1
  <2> DEFINE g == [s \in S |-> IF size[s] < n THEN f[s] ELSE IF s \in Stop THEN val[s] ELSE G[<<s, f[next[s]]>>]]
  <2>2. g \in [S -> V]
    OBVIOUS
  <2>3. ASSUME NEW s \in S, size[s] < n + 1  PROVE  Equation(g, s, Stop, val, next, G)
    <3>1. CASE s \in Stop
      BY <2>1, <3>1 DEF Equation
    <3>2. CASE s \notin Stop
      <4>1. next[s] \in S /\ size[next[s]] \in Nat /\ size[s] \in Nat /\ size[next[s]] < size[s]
        BY <3>2
      <4>2. g[next[s]] = f[next[s]]
        <5>1. size[next[s]] < n
          BY <2>3, <4>1
        <5>. QED BY <4>1, <5>1
      <4>3. g[s] = G[<<s, f[next[s]]>>]
        BY <2>1, <3>2 DEF Equation
      <4>. QED BY <3>2, <4>2, <4>3 DEF Equation
    <3>. QED BY <3>1, <3>2
  <2>4. g \in Sol(n + 1)
    BY <2>2, <2>3
  <2>. QED BY <2>4
<1>2. Sol(0) # {}
  <2>1. val \in Sol(0)
    OBVIOUS
  <2>. QED BY <2>1
<1>3. Unsolved = {}
  <2>1. ASSUME NEW n \in Unsolved  PROVE  \E m \in Unsolved : m < n
    <3>1. n \in Nat \ {0} /\ n - 1 \in Nat /\ (n - 1) + 1 = n
      BY <1>2
    <3>2. Sol(n - 1) = {}
      BY <1>1, <3>1
    <3>. QED BY <3>1, <3>2
  <2>2. Unsolved \subseteq Nat
    OBVIOUS
  <2>. HIDE DEF Unsolved
  <2>. QED BY <2>1, <2>2, NoLeast
<1>4. Differ = {}
  <2>1. ASSUME NEW n \in Differ  PROVE  \E m \in Differ : m < n
    <3>0. PICK i \in Nat, j \in Nat :
            \E f \in Sol(i), g \in Sol(j), s \in S : size[s] = n /\ n < i /\ n < j /\ f[s] # g[s]
      BY <2>1
    <3>1. PICK f \in Sol(i), g \in Sol(j), s \in S : size[s] = n /\ n < i /\ n < j /\ f[s] # g[s]
      BY <3>0
    <3>2. Equation(f, s, Stop, val, next, G) /\ Equation(g, s, Stop, val, next, G)
      BY <3>1
    <3>3. s \notin Stop /\ f[next[s]] # g[next[s]]
      BY <3>1, <3>2 DEF Equation
    <3>4. next[s] \in S /\ size[next[s]] \in Nat /\ size[next[s]] < n /\ size[next[s]] < i /\ size[next[s]] < j
      BY <3>1, <3>3
    <3>5. size[next[s]] \in Differ
      <4>. HIDE DEF Sol
      <4>. QED BY <3>3, <3>4
    <3>. QED BY <3>4, <3>5
  <2>2. Differ \subseteq Nat
    OBVIOUS
  <2>. HIDE DEF Differ
  <2>. QED BY <2>1, <2>2, NoLeast
<1> DEFINE sol == [n \in Nat |-> CHOOSE f \in [S -> V] : f \in Sol(n)]
           F == [s \in S |-> sol[size[s] + 1][s]]
<1>5. ASSUME NEW n \in Nat  PROVE  sol[n] \in Sol(n) /\ sol[n] \in [S -> V]
  <2>1. \E f \in [S -> V] : f \in Sol(n)
    BY <1>3
  <2>2. sol[n] = CHOOSE f \in [S -> V] : f \in Sol(n)
    OBVIOUS
  <2>. QED BY <2>1, <2>2
<1>. HIDE DEF sol
<1>6. ASSUME NEW s \in S, NEW n \in Nat, size[s] < n  PROVE  F[s] = sol[n][s]
  <2>1. size[s] \in Nat /\ size[s] + 1 \in Nat /\ size[s] < size[s] + 1
    OBVIOUS
  <2>2. F[s] = sol[size[s] + 1][s]
    OBVIOUS
  <2>3. sol[size[s] + 1] \in Sol(size[s] + 1) /\ sol[n] \in Sol(n)
    BY <1>5, <2>1
  <2>4. size[s] \notin Differ
    BY <1>4
  <2>. HIDE DEF Sol, F
  <2>. QED BY <1>6, <2>1, <2>2, <2>3, <2>4
<1>7. F \in [S -> V]
  BY <1>5
<1>8. ASSUME NEW s \in S  PROVE  Equation(F, s, Stop, val, next, G)
  <2> DEFINE n == size[s] + 1
  <2>1. n \in Nat /\ size[s] < n /\ size[s] \in Nat
    OBVIOUS
  <2>2. Equation(sol[n], s, Stop, val, next, G)
    BY <1>5, <2>1
  <2>3. F[s] = sol[n][s]
    BY <1>6, <2>1
  <2>4. s \notin Stop => F[next[s]] = sol[n][next[s]]
    <3>1. s \notin Stop => next[s] \in S /\ size[next[s]] \in Nat /\ size[next[s]] < n
      BY <2>1
    <3>. HIDE DEF F, n
    <3>. QED BY <1>6, <2>1, <3>1
  <2>. HIDE DEF F, n
  <2>. QED BY <2>2, <2>3, <2>4 DEF Equation
<1>. HIDE DEF F
<1>. QED BY <1>7, <1>8

-----------------------------------------------------------------------------
(***************************************************************************)
(* What the steps read off a text.                                         *)
(***************************************************************************)
\* Reading a step off a text leaves a text, or there is nothing to read it off.
LEMMA StepsLeaveText ==
  ASSUME NEW check, NEW t \in Text \cup {None}
  PROVE  Prompted(check, t) \in Text \cup {None} /\ ReadStep(check, t) \in Text \cup {None}
<1>1. ASSUME NEW P, NEW x \in Text \cup {None}  PROVE  Skip(P, x) \in Text \cup {None}
  BY FirstEnd DEF Skip
<1>2. Prompted(check, t) \in Text \cup {None}
  BY <1>1 DEF Prompted
<1>. QED BY <1>1, <1>2 DEF ReadStep

\* The recursion over the steps, step by step.
LEMMA ReadOffUnfolds ==
  ASSUME NEW st, NEW text \in Text
  PROVE  /\ ReadOff(st, text) \in [Nat -> Text \cup {None}]
         /\ ReadOff(st, text)[0] = text
         /\ \A k \in Nat \ {0} : ReadOff(st, text)[k] = ReadStep(st[k], ReadOff(st, text)[k - 1])
<1> DEFINE V == Text \cup {None}
           size == [k \in Nat |-> k]
           val == [k \in Nat |-> text]
           next == [k \in Nat |-> IF k = 0 THEN 0 ELSE k - 1]
           G == [x \in Nat \X V |-> ReadStep(st[x[1]], x[2])]
           body(f) == [k \in Nat |-> IF k = 0 THEN text ELSE ReadStep(st[k], f[k - 1])]
<1>1. size \in [Nat -> Nat] /\ val \in [Nat -> V] /\ next \in [Nat -> Nat]
  OBVIOUS
<1>2. \A k \in Nat \ {0} : size[next[k]] < size[k]
  OBVIOUS
<1>3. G \in [Nat \X V -> V]
  BY StepsLeaveText
<1>4. PICK f \in [Nat -> V] : \A k \in Nat : Equation(f, k, {0}, val, next, G)
  <2>. HIDE DEF V, size, val, next, G
  <2>. QED BY <1>1, <1>2, <1>3, RecursionExists
<1>5. ASSUME NEW k \in Nat  PROVE  f[k] = IF k = 0 THEN text ELSE ReadStep(st[k], f[k - 1])
  <2>1. CASE k = 0
    BY <1>4, <2>1 DEF Equation
  <2>2. CASE k # 0
    <3>1. next[k] = k - 1 /\ k - 1 \in Nat /\ f[k - 1] \in V
      BY <2>2
    <3>2. G[<<k, f[k - 1]>>] = ReadStep(st[k], f[k - 1])
      BY <3>1
    <3>3. f[k] = G[<<k, f[next[k]]>>]
      BY <1>4, <2>2 DEF Equation
    <3>. QED BY <2>2, <3>1, <3>2, <3>3
  <2>. QED BY <2>1, <2>2
<1>6. f = body(f)
  BY <1>5
<1>7. ReadOff(st, text) = CHOOSE g : g = body(g)
  BY DEF ReadOff
<1>8. ReadOff(st, text) = body(ReadOff(st, text))
  BY <1>6, <1>7
<1>. DEFINE r == ReadOff(st, text)
<1>9. r[0] = text /\ \A k \in Nat \ {0} : r[k] = ReadStep(st[k], r[k - 1])
  BY <1>8
<1>10. ASSUME NEW k \in Nat  PROVE  r[k] \in V
  <2> DEFINE B == {n \in Nat : r[n] \notin V}
  <2>1. ASSUME NEW n \in B  PROVE  \E m \in B : m < n
    <3>1. n \in Nat \ {0} /\ n - 1 \in Nat
      BY <1>9
    <3>2. r[n - 1] \notin V
      BY <1>9, <3>1, StepsLeaveText
    <3>. QED BY <3>1, <3>2
  <2>2. B = {}
    <3>1. B \subseteq Nat
      OBVIOUS
    <3>. HIDE DEF B
    <3>. QED BY <2>1, <3>1, NoLeast
  <2>. QED BY <2>2
<1>11. r = [k \in Nat |-> r[k]]
  BY <1>8
<1>. QED BY <1>9, <1>10, <1>11

\* The patterns of a step are texts that fit into the history.
LEMMA PatternsOfStep ==
  ASSUME NEW check, SoundStep(check)
  PROVE  /\ check.success \subseteq Text /\ check.fail \subseteq Text
         /\ \A p \in check.success \cup check.fail : Len(p) <= HistoryMax + 1
         /\ check.command => {check.prefix} \subseteq Text /\ \A p \in {check.prefix} : Len(p) <= HistoryMax + 1
         /\ check.success = {} => check.command /\ check.fail = {}
BY DEF SoundStep, RawStep

\* What more is printed is left over.
LEMMA SkipMore ==
  ASSUME NEW P, P \subseteq Text, NEW x \in Text, NEW t \in Text, Skip(P, x) # None
  PROVE  Skip(P, x) \in Text /\ Skip(P, x \o t) = Skip(P, x) \o t
<1>1. Found(P, x) /\ Skip(P, x) = After(P, x) /\ x # None
  BY DEF Skip
<1>2. x \o t \in Text /\ Found(P, x \o t) /\ After(P, x \o t) = After(P, x) \o t /\ After(P, x) \in Text
  BY <1>1, AfterMore, LettersOfBoth, FirstEnd
<1>3. x \o t # None
  BY <1>2, ConsoleAssumption
<1>. QED BY <1>1, <1>2, <1>3 DEF Skip

\* A step that can be read off a text is read off more of it, with more left over.
LEMMA StepReadsMore ==
  ASSUME NEW check, SoundStep(check), NEW x \in Text, NEW t \in Text
  PROVE  /\ Prompted(check, x) # None => Prompted(check, x) \in Text /\ Prompted(check, x \o t) = Prompted(check, x) \o t
         /\ ReadStep(check, x) # None => /\ ReadStep(check, x) \in Text /\ Prompted(check, x) # None
                                        /\ ReadStep(check, x \o t) = ReadStep(check, x) \o t
<1>1. /\ check.success \subseteq Text
      /\ check.command => {check.prefix} \subseteq Text
  BY PatternsOfStep
<1>2. Prompted(check, x) # None => Prompted(check, x) \in Text /\ Prompted(check, x \o t) = Prompted(check, x) \o t
  BY <1>1, SkipMore DEF Prompted
<1>3. ASSUME ReadStep(check, x) # None
      PROVE  /\ ReadStep(check, x) \in Text /\ Prompted(check, x) # None
             /\ ReadStep(check, x \o t) = ReadStep(check, x) \o t
  <2>1. CASE check.success = {}
    BY <1>2, <1>3, <2>1 DEF ReadStep
  <2>2. CASE check.success # {}
    <3>1. Skip(check.success, Prompted(check, x)) # None /\ Prompted(check, x) # None
      BY <1>3, <2>2 DEF ReadStep, Skip
    <3>2. Prompted(check, x) \in Text
      BY <1>2, <3>1
    <3>3. /\ Skip(check.success, Prompted(check, x)) \in Text
          /\ Skip(check.success, Prompted(check, x) \o t) = Skip(check.success, Prompted(check, x)) \o t
      BY <1>1, <3>1, <3>2, SkipMore
    <3>. QED BY <1>2, <2>2, <3>1, <3>3 DEF ReadStep
  <2>. QED BY <2>1, <2>2
<1>. QED BY <1>2, <1>3

\* The steps that are read off a text stay read off when more is printed.
LEMMA ReadsMore ==
  ASSUME StepsAreSound, steps \in Seq(RawStep), NEW x \in Text, NEW t \in Text, NEW k \in 0..Len(steps),
         ReadOff(steps, x)[k] # None
  PROVE  ReadOff(steps, x)[k] \in Text /\ ReadOff(steps, x \o t)[k] = ReadOff(steps, x)[k] \o t
<1> DEFINE r == ReadOff(steps, x)
           q == ReadOff(steps, x \o t)
           B == {n \in 0..Len(steps) : r[n] # None /\ q[n] # r[n] \o t}
<1>1. x \o t \in Text /\ Len(steps) \in Nat
  BY LettersOfBoth
<1>2. /\ r \in [Nat -> Text \cup {None}]
      /\ r[0] = x
      /\ \A n \in Nat \ {0} : r[n] = ReadStep(steps[n], r[n - 1])
  <2>1. r \in [Nat -> Text \cup {None}]
    BY ReadOffUnfolds
  <2>2. r[0] = x
    BY ReadOffUnfolds
  <2>3. \A n \in Nat \ {0} : r[n] = ReadStep(steps[n], r[n - 1])
    BY ReadOffUnfolds
  <2>. QED BY <2>1, <2>2, <2>3
<1>3. /\ q[0] = x \o t
      /\ \A n \in Nat \ {0} : q[n] = ReadStep(steps[n], q[n - 1])
  <2>1. q[0] = x \o t
    BY <1>1, ReadOffUnfolds
  <2>2. \A n \in Nat \ {0} : q[n] = ReadStep(steps[n], q[n - 1])
    BY <1>1, ReadOffUnfolds
  <2>. QED BY <2>1, <2>2
<1>. HIDE DEF r, q
<1>4. ASSUME NEW n \in B  PROVE  \E m \in B : m < n
  <2>1. n \in 0..Len(steps) /\ r[n] # None /\ q[n] # r[n] \o t
    OBVIOUS
  <2>2. n # 0
    <3>1. q[0] = r[0] \o t
      BY <1>2, <1>3
    <3>. QED BY <2>1, <3>1
  <2>3. n \in 1..Len(steps) /\ n - 1 \in 0..Len(steps) /\ n \in Nat \ {0} /\ n - 1 \in Nat /\ n - 1 < n
    BY <1>1, <2>1, <2>2
  <2>4. r[n] = ReadStep(steps[n], r[n - 1]) /\ q[n] = ReadStep(steps[n], q[n - 1])
    BY <1>2, <1>3, <2>3
  <2>5. r[n - 1] # None
    <3>1. ReadStep(steps[n], None) = None
      BY DEF ReadStep, Prompted, Skip
    <3>. QED BY <2>1, <2>4, <3>1
  <2>6. r[n - 1] \in Text
    BY <1>2, <2>3, <2>5
  <2>7. q[n - 1] # r[n - 1] \o t
    <3>1. SoundStep(steps[n])
      BY <2>3 DEF StepsAreSound
    <3>2. ReadStep(steps[n], r[n - 1]) # None
      BY <2>1, <2>4
    <3>3. ReadStep(steps[n], r[n - 1] \o t) = ReadStep(steps[n], r[n - 1]) \o t
      BY <2>6, <3>1, <3>2, StepReadsMore
    <3>. QED BY <2>1, <2>4, <3>3
  <2>. QED BY <2>3, <2>5, <2>7
<1>5. B = {}
  <2>1. B \subseteq Nat
    BY <1>1
  <2>. HIDE DEF B
  <2>. QED BY <1>4, <2>1, NoLeast
<1>6. k \in Nat
  BY <1>1
<1>7. r[k] # None
  BY DEF r
<1>8. q[k] = r[k] \o t /\ r[k] \in Text
  BY <1>2, <1>5, <1>6, <1>7
<1>. QED BY <1>8 DEF r, q

-----------------------------------------------------------------------------
(***************************************************************************)
(* The loop of process_block.                                              *)
(***************************************************************************)
\* advance gives a matcher, with nothing in its history, and says whether it was the last step.
LEMMA AdvanceIsMatcher ==
  ASSUME NEW m \in Matcher
  PROVE  /\ advance(m).m \in Matcher /\ advance(m).m.history = <<>> /\ advance(m).m.pending = m.pending
         /\ m.cur = Len(steps) => /\ advance(m).m.phase = "Completed" /\ advance(m).m.cur = m.cur
                                  /\ advance(m).event = "SequenceCompleted"
         /\ m.cur # Len(steps) => /\ advance(m).m.phase = FirstPhase(steps[m.cur + 1])
                                  /\ advance(m).m.cur = m.cur + 1 /\ advance(m).event = "StepCompleted"
<1>1. <<>> \in Text /\ m.cur \in Nat /\ m.cur + 1 \in Nat
  BY DEF Text, Matcher
<1>2. FirstPhase(steps[m.cur + 1]) \in Phases /\ "Completed" \in Phases
  BY DEF FirstPhase, Phases
<1>3. CASE m.cur = Len(steps)
  <2> DEFINE n == [m EXCEPT !.history = <<>>, !.phase = "Completed"]
  <2>1. advance(m).m = n /\ advance(m).event = "SequenceCompleted"
    BY <1>3 DEF advance
  <2>2. n \in Matcher
    BY <1>1, <1>2 DEF Matcher
  <2>3. n.history = <<>> /\ n.phase = "Completed" /\ n.cur = m.cur /\ n.pending = m.pending
    BY DEF Matcher
  <2>. HIDE DEF n
  <2>. QED BY <1>3, <2>1, <2>2, <2>3
<1>4. CASE m.cur # Len(steps)
  <2> DEFINE n == [m EXCEPT !.history = <<>>, !.cur = @ + 1, !.phase = FirstPhase(steps[m.cur + 1])]
  <2>1. advance(m).m = n /\ advance(m).event = "StepCompleted"
    BY <1>4 DEF advance
  <2>. HIDE DEF FirstPhase
  <2>2. n \in Matcher
    BY <1>1, <1>2 DEF Matcher
  <2>3. /\ n.history = <<>> /\ n.phase = FirstPhase(steps[m.cur + 1]) /\ n.cur = m.cur + 1
        /\ n.pending = m.pending
    BY DEF Matcher
  <2>. HIDE DEF n
  <2>. QED BY <1>4, <2>1, <2>2, <2>3
<1>. QED BY <1>3, <1>4

\* Reading a result leaves less to read.
LEMMA NextScanIsLess ==
  ASSUME NEW s \in ScanState, ReadsResult(s)
  PROVE  NextScan(s) \in ScanState /\ Len(NextScan(s).t) < Len(s.t)
<1>1. s.m \in Matcher /\ s.t \in Text
  BY DEF ScanState
<1>2. After(steps[s.m.cur].success, s.t) \in Text /\ Len(After(steps[s.m.cur].success, s.t)) < Len(s.t)
  BY <1>1, FirstEnd DEF ReadsResult
<1>3. advance(s.m).m \in Matcher /\ advance(s.m).event \in Events
  BY <1>1, AdvanceIsMatcher DEF Events
<1>. QED BY <1>2, <1>3 DEF NextScan, ScanState

\* The recursion over the text, step by step.
LEMMA ScanUnfolds ==
  ASSUME NEW s \in ScanState
  PROVE  Scan[s] = IF ReadsResult(s) THEN Scan[NextScan(s)] ELSE ScanEnd(s)
<1> DEFINE body(f) == [z \in ScanState |-> IF ReadsResult(z) THEN f[NextScan(z)] ELSE ScanEnd(z)]
           Stop == {z \in ScanState : ~ReadsResult(z)}
           val == [z \in ScanState |-> ScanEnd(z)]
           V == {val[z] : z \in ScanState}
           size == [z \in ScanState |-> Len(z.t)]
           next == [z \in ScanState |-> IF ReadsResult(z) THEN NextScan(z) ELSE z]
           G == [x \in ScanState \X V |-> x[2]]
<1>1. /\ size \in [ScanState -> Nat] /\ val \in [ScanState -> V] /\ next \in [ScanState -> ScanState]
      /\ \A z \in ScanState \ Stop : size[next[z]] < size[z]
  <2>1. size \in [ScanState -> Nat]
    BY DEF ScanState, Text
  <2>2. val \in [ScanState -> V]
    OBVIOUS
  <2>3. next \in [ScanState -> ScanState]
    BY NextScanIsLess
  <2>4. \A z \in ScanState \ Stop : size[next[z]] < size[z]
    BY NextScanIsLess
  <2>. QED BY <2>1, <2>2, <2>3, <2>4
<1>2. G \in [ScanState \X V -> V]
  <2>. HIDE DEF V
  <2>. QED OBVIOUS
<1>3. PICK f \in [ScanState -> V] : \A z \in ScanState : Equation(f, z, Stop, val, next, G)
  <2>. HIDE DEF Stop, val, V, size, next, G
  <2>. QED BY <1>1, <1>2, RecursionExists
<1>4. ASSUME NEW z \in ScanState  PROVE  f[z] = IF ReadsResult(z) THEN f[NextScan(z)] ELSE ScanEnd(z)
  <2>1. CASE ReadsResult(z)
    <3>1. z \notin Stop /\ next[z] = NextScan(z) /\ NextScan(z) \in ScanState
      BY <2>1, NextScanIsLess
    <3>2. f[z] = G[<<z, f[next[z]]>>]
      BY <1>3, <3>1 DEF Equation
    <3>3. f[next[z]] \in V
      BY <3>1
    <3>4. f[z] = f[next[z]]
      <4>. HIDE DEF V, next
      <4>. QED BY <3>2, <3>3
    <3>. QED BY <2>1, <3>1, <3>4
  <2>2. CASE ~ReadsResult(z)
    BY <1>3, <2>2 DEF Equation
  <2>. QED BY <2>1, <2>2
<1>5. f = body(f)
  BY <1>4
<1>6. Scan = CHOOSE g : g = body(g)
  BY DEF Scan
<1>7. Scan = body(Scan)
  BY <1>5, <1>6
<1>. QED BY <1>7

\* Output for a command that is on its way is kept, or there is too much of it.
Appended(r, m, t, event) ==
  /\ r \in ScanState /\ r.t = t /\ r.m.cur = m.cur /\ r.m.history = m.history
  /\ \/ r.event = "LimitExceeded" /\ r.m.phase = "Completed"
     \/ r.event = event /\ r.m.phase = m.phase /\ r.m.pending = m.pending \o t

\* Output is put behind what is kept for the matcher, up to the limit.
LEMMA AppendPending ==
  ASSUME NEW m \in Matcher, NEW t \in Text, NEW event \in Events
  PROVE  Appended(append_pending_output(m, t, event), m, t, event)
<1> DEFINE r == append_pending_output(m, t, event)
<1>1. m.pending \in Text /\ m.pending \o t \in Text
  BY LettersOfBoth DEF Matcher
<1>2. CASE Len(m.pending) + Len(t) > PendingLimit
  <2> DEFINE n == [m EXCEPT !.phase = "Completed"]
  <2>1. r = [m |-> n, t |-> t, event |-> "LimitExceeded"]
    BY <1>2 DEF append_pending_output
  <2>2. n \in Matcher /\ n.cur = m.cur /\ n.history = m.history /\ n.phase = "Completed"
    BY DEF Matcher, Phases
  <2>. HIDE DEF n, r
  <2>3. r \in ScanState
    BY <2>1, <2>2 DEF ScanState, Events
  <2>4. Appended(r, m, t, event)
    BY <2>1, <2>2, <2>3 DEF Appended
  <2>. QED BY <2>4 DEF r
<1>3. CASE ~(Len(m.pending) + Len(t) > PendingLimit)
  <2> DEFINE n == [m EXCEPT !.pending = @ \o t]
  <2>1. r = [m |-> n, t |-> t, event |-> event]
    BY <1>3 DEF append_pending_output
  <2>2. /\ n \in Matcher /\ n.cur = m.cur /\ n.history = m.history /\ n.phase = m.phase
        /\ n.pending = m.pending \o t
    BY <1>1 DEF Matcher
  <2>. HIDE DEF n, r
  <2>3. r \in ScanState
    BY <2>1, <2>2 DEF ScanState
  <2>4. Appended(r, m, t, event)
    BY <2>1, <2>2, <2>3 DEF Appended
  <2>. QED BY <2>4 DEF r
<1>. QED BY <1>2, <1>3

\* What was read without a match is kept as far as the history goes.
LEMMA RetainHistory ==
  ASSUME NEW m \in Matcher, NEW t \in Text
  PROVE  /\ retain_boundary_history(m, t) \in Matcher
         /\ retain_boundary_history(m, t).phase = m.phase /\ retain_boundary_history(m, t).cur = m.cur
         /\ retain_boundary_history(m, t).history = EndOf(t, HistoryMax)
<1>1. EndOf(t, HistoryMax) \in Text
  BY EndIsText, ConsoleAssumption
<1>. QED BY <1>1 DEF retain_boundary_history, Matcher

\* The loop, in its state s, stands where the output `text` has got to.
Reading(s, text) ==
  /\ s \in ScanState /\ s.m.cur \in 1..Len(steps) /\ s.m.history = <<>>
  /\ \/ /\ s.m.phase = "WaitingForPrefix" /\ steps[s.m.cur].command
        /\ s.t = ReadOff(steps, text)[s.m.cur - 1]
     \/ /\ s.m.phase = "WaitingForResult" /\ steps[s.m.cur].success # {}
        /\ s.t = Prompted(steps[s.m.cur], ReadOff(steps, text)[s.m.cur - 1])

\* What the loop makes of it: r stands further on, and its event says how it got there.
ReadTo(s, r, text) ==
  /\ r \in ScanState /\ r.m.cur \in s.m.cur..Len(steps) /\ Follows(r.m, text, r.t)
  /\ Waiting(r.m) => r.event \in {s.event, "StepCompleted"}
  /\ r.m.phase = "Sending" => r.event = "Send"
  /\ r.m.phase = "Completed" =>
       \/ Fails(r.event)
       \/ r.event = "SequenceCompleted" /\ r.m.cur = Len(steps) /\ ReadOff(steps, text)[Len(steps)] # None
  /\ ~Fails(r.event) => Written(r.m) = Written(s.m)
  /\ r.m.phase = s.m.phase /\ r.m.cur = s.m.cur => r.t = s.t

\* Nothing is found in no text.
LEMMA NothingInEmpty == \A P : ~Found(P, <<>>)
BY DEF Found, Ends

\* A result that is read takes the loop to the next step, or to the end of the sequence.
LEMMA NextReads ==
  ASSUME StepsAreSound, steps \in Seq(RawStep), NEW text \in Text, NEW s, Reading(s, text), ReadsResult(s),
         NEW n, n = NextScan(s)
  PROVE  /\ n \in ScanState /\ Len(n.t) < Len(s.t) /\ Written(n.m) = Written(s.m)
         /\ s.m.cur = Len(steps) => /\ n.m.phase = "Completed" /\ n.m.cur = Len(steps)
                                    /\ n.event = "SequenceCompleted" /\ ReadOff(steps, text)[Len(steps)] # None
         /\ s.m.cur # Len(steps) => Reading(n, text) /\ n.m.cur = s.m.cur + 1 /\ n.event = "StepCompleted"
<1> DEFINE k == s.m.cur
           r == ReadOff(steps, text)
<1>1. /\ s \in ScanState /\ s.m \in Matcher /\ s.t \in Text /\ k \in 1..Len(steps) /\ Len(steps) \in Nat
      /\ s.m.phase = "WaitingForResult" /\ steps[k].success # {}
      /\ s.t = Prompted(steps[k], r[k - 1]) /\ Found(steps[k].success, s.t)
  BY DEF Reading, ReadsResult, ScanState
<1>2. n \in ScanState /\ Len(n.t) < Len(s.t)
  BY <1>1, NextScanIsLess
<1>3. /\ n.t = After(steps[k].success, s.t) /\ n.m = advance(s.m).m /\ n.event = advance(s.m).event
      /\ n.t \in Text /\ n.m \in Matcher
  BY <1>2 DEF NextScan, ScanState
<1>4. /\ n.m.history = <<>>
      /\ k = Len(steps) => /\ n.m.phase = "Completed" /\ n.m.cur = k
                           /\ n.event = "SequenceCompleted"
      /\ k # Len(steps) => /\ n.m.phase = FirstPhase(steps[k + 1])
                           /\ n.m.cur = k + 1 /\ n.event = "StepCompleted"
  BY <1>1, <1>3, AdvanceIsMatcher
<1>5. r[k] = n.t
  <2>1. r[k] = ReadStep(steps[k], r[k - 1])
    <3>1. k \in Nat \ {0}
      BY <1>1
    <3>. QED BY <3>1, ReadOffUnfolds
  <2>2. s.t # None
    BY <1>1, ConsoleAssumption
  <2>. QED BY <1>1, <1>3, <2>1, <2>2 DEF ReadStep, Skip
<1>6. r[k] # None
  BY <1>3, <1>5, ConsoleAssumption
<1>. HIDE DEF r
<1>7. Written(n.m) = Written(s.m)
  <2>1. CASE k = Len(steps)
    BY <1>1, <1>4, <2>1 DEF Written
  <2>2. CASE k # Len(steps)
    <3>1. k + 1 \in 1..Len(steps) /\ n.m.cur = k + 1 /\ n.m.phase = FirstPhase(steps[k + 1])
      BY <1>1, <1>4, <2>2
    <3>2. \A j \in 1..Len(steps) : j < k + 1 <=> j < k \/ j = k
      BY <1>1
    <3>3. steps[k + 1].command => n.m.phase = "WaitingForPrefix"
      BY <3>1 DEF FirstPhase
    <3>4. ASSUME NEW j \in 1..Len(steps)  PROVE  j \in Written(n.m) <=> j \in Written(s.m)
      BY <1>1, <3>1, <3>2, <3>3 DEF Written
    <3>5. Written(n.m) \subseteq 1..Len(steps) /\ Written(s.m) \subseteq 1..Len(steps)
      BY DEF Written
    <3>. QED BY <3>4, <3>5
  <2>. QED BY <2>1, <2>2
<1>8. ASSUME k # Len(steps)  PROVE  Reading(n, text)
  <2>1. k + 1 \in 1..Len(steps) /\ (k + 1) - 1 = k /\ n.m.cur = k + 1 /\ n.m.phase = FirstPhase(steps[k + 1])
    BY <1>1, <1>4, <1>8
  <2>2. SoundStep(steps[k + 1])
    BY <2>1 DEF StepsAreSound
  <2>3. CASE steps[k + 1].command
    <3>1. n.m.phase = "WaitingForPrefix" /\ n.t = r[(k + 1) - 1]
      BY <1>5, <2>1, <2>3 DEF FirstPhase
    <3>. QED BY <1>2, <1>4, <2>1, <2>3, <3>1 DEF Reading, r
  <2>4. CASE ~steps[k + 1].command
    <3>1. n.m.phase = "WaitingForResult" /\ n.t = Prompted(steps[k + 1], r[(k + 1) - 1])
      BY <1>5, <2>1, <2>4 DEF FirstPhase, Prompted
    <3>2. steps[k + 1].success # {}
      BY <2>2, <2>4 DEF SoundStep
    <3>. QED BY <1>2, <1>4, <2>1, <3>1, <3>2 DEF Reading, r
  <2>. QED BY <2>3, <2>4
<1>. QED BY <1>1, <1>2, <1>4, <1>6, <1>7, <1>8 DEF r

\* Where the loop stops it has read what there was to be read.
LEMMA EndReads ==
  ASSUME StepsAreSound, steps \in Seq(RawStep), NEW text \in Text, NEW s, Reading(s, text), ~ReadsResult(s),
         NEW r, r = ScanEnd(s)
  PROVE  ReadTo(s, r, text)
<1> DEFINE k == s.m.cur
           here == ReadOff(steps, text)[k - 1]
<1>1. /\ s \in ScanState /\ s.m \in Matcher /\ s.t \in Text /\ k \in 1..Len(steps) /\ Len(steps) \in Nat
      /\ s.m.history = <<>> /\ s.event \in Events
      /\ \/ s.m.phase = "WaitingForPrefix" /\ steps[k].command /\ s.t = here
         \/ s.m.phase = "WaitingForResult" /\ steps[k].success # {} /\ s.t = Prompted(steps[k], here)
  BY DEF Reading, ScanState
<1>2. k \in k..Len(steps)
  BY <1>1
<1>3. SoundStep(steps[k])
  BY <1>1 DEF StepsAreSound
<1>. HIDE DEF here
<1>4. CASE s.t = <<>>
  <2>1. r = s
    BY <1>4 DEF ScanEnd
  <2>2. EndOf(<<>>, HistoryMax) = <<>>
    <3>1. <<>> \in Text /\ Len(<<>>) = 0
      BY DEF Text
    <3>. QED BY <3>1, EndIsText, ConsoleAssumption
  <2>3. Follows(r.m, text, r.t)
    BY <1>1, <1>4, <2>1, <2>2, NothingInEmpty DEF Follows, here
  <2>. QED BY <1>1, <1>2, <2>1, <2>3 DEF ReadTo, Waiting
<1>5. CASE s.t # <<>> /\ s.m.phase = "WaitingForPrefix" /\ Found({steps[k].prefix}, s.t)
  <2> DEFINE a == After({steps[k].prefix}, s.t)
             n == [s.m EXCEPT !.phase = "Sending", !.pending = <<>>]
  <2>1. r = append_pending_output(n, a, "Send")
    BY <1>5 DEF ScanEnd
  <2>2. /\ n \in Matcher /\ n.cur = k /\ n.history = <<>> /\ n.phase = "Sending" /\ n.pending = <<>>
    BY <1>1 DEF Matcher, Phases, Text
  <2>3. a \in Text
    BY <1>1, <1>5, FirstEnd
  <2>. HIDE DEF a, n
  <2>4. /\ r \in ScanState /\ r.t = a /\ r.m.cur = k /\ r.m.history = <<>>
        /\ \/ r.event = "LimitExceeded" /\ r.m.phase = "Completed"
           \/ r.event = "Send" /\ r.m.phase = "Sending" /\ r.m.pending = <<>> \o a
    <3>1. "Send" \in Events
      BY DEF Events
    <3>2. n \in Matcher
      BY <2>2
    <3>3. /\ r \in ScanState /\ r.t = a /\ r.m.cur = n.cur /\ r.m.history = n.history
          /\ \/ r.event = "LimitExceeded" /\ r.m.phase = "Completed"
             \/ r.event = "Send" /\ r.m.phase = n.phase /\ r.m.pending = n.pending \o a
      BY <2>1, <2>3, <3>1, <3>2, AppendPending DEF Appended
    <3>. QED BY <2>2, <3>3
  <2>5. <<>> \o a = a
    BY <2>3, ConcatEmptySeq DEF Text
  <2>6. a = Prompted(steps[k], here)
    <3>1. here # None
      BY <1>1, <1>5, ConsoleAssumption
    <3>. QED BY <1>1, <1>5, <3>1 DEF Prompted, Skip, a
  <2>7. Follows(r.m, text, r.t)
    BY <1>1, <1>5, <2>4, <2>5, <2>6 DEF Follows, here, Waiting
  <2>8. ~Fails(r.event) => Written(r.m) = Written(s.m)
    BY <1>5, <2>4 DEF Fails, Written
  <2>. QED BY <1>2, <1>5, <2>3, <2>4, <2>7, <2>8 DEF ReadTo, Waiting, Fails
<1>6. CASE s.t # <<>> /\ s.m.phase = "WaitingForResult" /\ Found(steps[k].fail, s.t)
  <2> DEFINE n == [s.m EXCEPT !.phase = "Completed"]
  <2>1. r = [m |-> n, t |-> s.t, event |-> "Failed"]
    <3>1. r = [s EXCEPT !.m.phase = "Completed", !.event = "Failed"]
      BY <1>6 DEF ScanEnd
    <3>. QED BY <1>1, <3>1 DEF ScanState
  <2>2. n \in Matcher /\ n.cur = k /\ n.phase = "Completed"
    BY <1>1 DEF Matcher, Phases
  <2>. HIDE DEF n
  <2>3. r \in ScanState
    BY <1>1, <2>1, <2>2 DEF ScanState, Events
  <2>4. Follows(r.m, text, r.t)
    BY <1>1, <2>1, <2>2 DEF Follows, Waiting
  <2>. QED BY <1>1, <1>2, <1>6, <2>1, <2>2, <2>3, <2>4 DEF ReadTo, Waiting, Fails
<1>7. CASE /\ s.t # <<>>
           /\ s.m.phase = "WaitingForPrefix" => ~Found({steps[k].prefix}, s.t)
           /\ s.m.phase = "WaitingForResult" => ~Found(steps[k].fail, s.t)
  <2> DEFINE n == retain_boundary_history(s.m, s.t)
  <2>1. r = [m |-> n, t |-> s.t, event |-> s.event]
    <3>1. r = [s EXCEPT !.m = n]
      BY <1>1, <1>7 DEF ScanEnd
    <3>. QED BY <1>1, <3>1 DEF ScanState
  <2>2. n \in Matcher /\ n.cur = k /\ n.phase = s.m.phase /\ n.history = EndOf(s.t, HistoryMax)
    BY <1>1, RetainHistory
  <2>. HIDE DEF n
  <2>3. s.m.phase = "WaitingForResult" => ~Found(steps[k].success, s.t)
    BY <1>7 DEF ReadsResult
  <2>4. r \in ScanState /\ r.m = n /\ r.t = s.t /\ r.event = s.event
    BY <1>1, <2>1, <2>2 DEF ScanState
  <2>5. Follows(r.m, text, r.t)
    BY <1>1, <1>7, <2>2, <2>3, <2>4 DEF Follows, here, Waiting
  <2>6. Written(r.m) = Written(s.m)
    BY <2>2, <2>4 DEF Written
  <2>. QED BY <1>1, <1>2, <2>2, <2>4, <2>5, <2>6 DEF ReadTo, Waiting
<1>. QED BY <1>1, <1>4, <1>5, <1>6, <1>7

\* The loop reads all that there is to be read of the output, step by step.
LEMMA ScanReads ==
  ASSUME StepsAreSound, steps \in Seq(RawStep), NEW text \in Text, NEW s, Reading(s, text)
  PROVE  ReadTo(s, Scan[s], text)
<1> DEFINE B == {n \in Nat : \E z \in ScanState : Reading(z, text) /\ Len(z.t) = n /\ ~ReadTo(z, Scan[z], text)}
<1>1. ASSUME NEW n \in B  PROVE  \E m \in B : m < n
  <2>1. PICK z \in ScanState : Reading(z, text) /\ Len(z.t) = n /\ ~ReadTo(z, Scan[z], text)
    OBVIOUS
  <2>2. ReadsResult(z) /\ Scan[z] = Scan[NextScan(z)]
    <3>1. CASE ~ReadsResult(z)
      <4>1. Scan[z] = ScanEnd(z)
        BY <2>1, <3>1, ScanUnfolds
      <4>. QED BY <2>1, <3>1, <4>1, EndReads
    <3>2. CASE ReadsResult(z)
      BY <3>2, ScanUnfolds
    <3>. QED BY <3>1, <3>2
  <2> DEFINE y == NextScan(z)
             r == Scan[y]
             last == z.m.cur = Len(steps)
  <2>3. /\ y \in ScanState /\ Len(y.t) < Len(z.t) /\ Written(y.m) = Written(z.m)
        /\ last => /\ y.m.phase = "Completed" /\ y.m.cur = Len(steps)
                   /\ y.event = "SequenceCompleted" /\ ReadOff(steps, text)[Len(steps)] # None
        /\ ~last => Reading(y, text) /\ y.m.cur = z.m.cur + 1 /\ y.event = "StepCompleted"
    BY <2>1, <2>2, NextReads
  <2>4. y.m \in Matcher /\ y.t \in Text /\ Len(y.t) \in Nat /\ z.m.cur \in 1..Len(steps) /\ Len(steps) \in Nat
    BY <2>1, <2>3 DEF ScanState, Text, Reading
  <2>5. z.m.phase = "WaitingForResult"
    BY <2>2 DEF ReadsResult
  <2>. HIDE DEF y, r
  <2>6. CASE last
    <3>1. r = y
      <4>1. ~ReadsResult(y) /\ ScanEnd(y) = y
        BY <2>3, <2>6 DEF ReadsResult, ScanEnd
      <4>. QED BY <2>3, <4>1, ScanUnfolds DEF r
    <3>2. Follows(y.m, text, y.t) /\ y.m.cur \in z.m.cur..Len(steps)
      BY <2>3, <2>4, <2>6 DEF Follows, Waiting
    <3>3. ReadTo(z, r, text)
      BY <2>3, <2>4, <2>5, <2>6, <3>1, <3>2 DEF ReadTo, Waiting, Fails
    <3>. QED BY <2>1, <2>2, <3>3 DEF r, y
  <2>7. CASE ~last
    <3>1. ~ReadTo(y, r, text)
      <4>1. SUFFICES ASSUME ReadTo(y, r, text)  PROVE ReadTo(z, r, text)
        BY <2>1, <2>2 DEF r, y
      <4>2. /\ r \in ScanState /\ r.m.cur \in y.m.cur..Len(steps) /\ Follows(r.m, text, r.t)
            /\ Waiting(r.m) => r.event \in {y.event, "StepCompleted"}
            /\ r.m.phase = "Sending" => r.event = "Send"
            /\ r.m.phase = "Completed" =>
                 \/ Fails(r.event)
                 \/ /\ r.event = "SequenceCompleted" /\ r.m.cur = Len(steps)
                    /\ ReadOff(steps, text)[Len(steps)] # None
            /\ ~Fails(r.event) => Written(r.m) = Written(y.m)
        BY <4>1, Zenon DEF ReadTo
      <4>3. r.m.cur \in z.m.cur..Len(steps) /\ r.m.cur # z.m.cur
        BY <2>3, <2>4, <2>7, <4>2
      <4>4. Waiting(r.m) => r.event \in {z.event, "StepCompleted"}
        BY <2>3, <2>7, <4>2
      <4>5. ~Fails(r.event) => Written(r.m) = Written(z.m)
        BY <2>3, <4>2
      <4>. QED BY <4>2, <4>3, <4>4, <4>5, Zenon DEF ReadTo
    <3>2. Len(y.t) \in B
      BY <2>3, <2>4, <2>7, <3>1 DEF r
    <3>. QED BY <2>1, <2>3, <3>2
  <2>. QED BY <2>6, <2>7
<1>2. B = {}
  <2>1. B \subseteq Nat
    OBVIOUS
  <2>. HIDE DEF B
  <2>. QED BY <1>1, <2>1, NoLeast
<1>3. s \in ScanState /\ Len(s.t) \in Nat
  BY DEF Reading, ScanState, Text
<1>. QED BY <1>2, <1>3

\* To look at what the history keeps, and at what comes, is to look at all of it.
LEMMA ScanWindow ==
  ASSUME NEW y \in ScanState, NEW z \in ScanState, NEW a \in Text, NEW t \in Text, t # <<>>,
         y.m = z.m, y.event = z.event, y.t = a \o t, z.t = EndOf(a, HistoryMax) \o t,
         Waiting(y.m), SoundStep(steps[y.m.cur]),
         y.m.phase = "WaitingForPrefix" => steps[y.m.cur].command /\ ~Found({steps[y.m.cur].prefix}, a),
         y.m.phase = "WaitingForResult" =>
           ~Found(steps[y.m.cur].success, a) /\ ~Found(steps[y.m.cur].fail, a)
  PROVE  /\ Scan[z].m = Scan[y].m /\ Scan[z].event = Scan[y].event
         /\ \/ Scan[z].t = Scan[y].t
            \/ Scan[y].m.phase = "Completed"
            \/ Scan[y].m.phase = y.m.phase /\ Scan[y].m.cur = y.m.cur
<1> DEFINE check == steps[y.m.cur]
<1>1. y.m \in Matcher /\ y.t \in Text /\ z.t \in Text /\ HistoryMax \in Nat
  BY ConsoleAssumption DEF ScanState
<1>2. /\ check.success \subseteq Text /\ check.fail \subseteq Text
      /\ \A p \in check.success : Len(p) <= HistoryMax + 1
      /\ \A p \in check.fail : Len(p) <= HistoryMax + 1
      /\ check.command => {check.prefix} \subseteq Text /\ \A p \in {check.prefix} : Len(p) <= HistoryMax + 1
  BY PatternsOfStep
<1>. HIDE DEF check
<1>3. y.t # <<>> /\ z.t # <<>>
  <2>1. /\ Len(a \o t) = Len(a) + Len(t) /\ Len(a) \in Nat /\ Len(t) \in Nat
        /\ Len(EndOf(a, HistoryMax) \o t) = Len(EndOf(a, HistoryMax)) + Len(t)
        /\ Len(EndOf(a, HistoryMax)) \in Nat
    BY <1>1, LettersOfBoth, EndIsText
  <2>2. Len(t) # 0 /\ Len(<<>>) = 0
    BY DEF Text
  <2>. QED BY <2>1, <2>2
<1>4. CASE y.m.phase = "WaitingForPrefix"
  <2>1. /\ Found({check.prefix}, z.t) <=> Found({check.prefix}, y.t)
        /\ Found({check.prefix}, y.t) => After({check.prefix}, z.t) = After({check.prefix}, y.t)
    <3>1. /\ Found({check.prefix}, EndOf(a, HistoryMax) \o t) <=> Found({check.prefix}, a \o t)
          /\ Found({check.prefix}, a \o t) =>
               After({check.prefix}, EndOf(a, HistoryMax) \o t) = After({check.prefix}, a \o t)
      <4>1. {check.prefix} \subseteq Text /\ (\A p \in {check.prefix} : Len(p) <= HistoryMax + 1)
            /\ ~Found({check.prefix}, a)
        BY <1>2, <1>4 DEF check
      <4>. QED BY <1>1, <4>1, WindowFinds
    <3>. QED BY <3>1
  <2>2. Scan[y] = ScanEnd(y) /\ Scan[z] = ScanEnd(z)
    BY <1>4, ScanUnfolds DEF ReadsResult
  <2>3. CASE Found({check.prefix}, y.t)
    <3>1. ScanEnd(z) = ScanEnd(y)
      BY <1>3, <1>4, <2>1, <2>3 DEF ScanEnd, check
    <3>. QED BY <2>2, <3>1
  <2>4. CASE ~Found({check.prefix}, y.t)
    <3>1. /\ Scan[y] = [y EXCEPT !.m = retain_boundary_history(y.m, y.t)]
          /\ Scan[z] = [z EXCEPT !.m = retain_boundary_history(z.m, z.t)]
      BY <1>3, <1>4, <2>1, <2>2, <2>4 DEF ScanEnd, check
    <3>2. retain_boundary_history(z.m, z.t) = retain_boundary_history(y.m, y.t)
      BY <1>1, WindowMoves DEF retain_boundary_history
    <3>3. retain_boundary_history(y.m, y.t).phase = y.m.phase /\ retain_boundary_history(y.m, y.t).cur = y.m.cur
      BY <1>1, RetainHistory
    <3>. QED BY <3>1, <3>2, <3>3 DEF ScanState
  <2>. QED BY <2>3, <2>4
<1>5. CASE y.m.phase = "WaitingForResult"
  <2>1. Found(check.fail, z.t) <=> Found(check.fail, y.t)
    <3>1. Found(check.fail, EndOf(a, HistoryMax) \o t) <=> Found(check.fail, a \o t)
      <4>1. ~Found(check.fail, a)
        BY <1>5 DEF check
      <4>. QED BY <1>1, <1>2, <4>1, WindowFinds
    <3>. QED BY <3>1
  <2>2. /\ Found(check.success, z.t) <=> Found(check.success, y.t)
        /\ Found(check.success, y.t) => After(check.success, z.t) = After(check.success, y.t)
    <3>1. /\ Found(check.success, EndOf(a, HistoryMax) \o t) <=> Found(check.success, a \o t)
          /\ Found(check.success, a \o t) =>
               After(check.success, EndOf(a, HistoryMax) \o t) = After(check.success, a \o t)
      <4>1. ~Found(check.success, a)
        BY <1>5 DEF check
      <4>. QED BY <1>1, <1>2, <4>1, WindowFinds
    <3>. QED BY <3>1
  <2>3. CASE Found(check.fail, y.t)
    <3>1. ~ReadsResult(y) /\ ~ReadsResult(z)
      BY <2>1, <2>3 DEF ReadsResult, check
    <3>2. /\ Scan[y] = [y EXCEPT !.m.phase = "Completed", !.event = "Failed"]
          /\ Scan[z] = [z EXCEPT !.m.phase = "Completed", !.event = "Failed"]
      <4>1. Scan[y] = ScanEnd(y) /\ Scan[z] = ScanEnd(z)
        BY <3>1, ScanUnfolds
      <4>. QED BY <1>3, <1>5, <2>1, <2>3, <4>1 DEF ScanEnd, check
    <3>. QED BY <1>1, <3>2 DEF ScanState, Matcher
  <2>4. CASE ~Found(check.fail, y.t) /\ Found(check.success, y.t)
    <3>1. ReadsResult(y) /\ ReadsResult(z) /\ NextScan(z) = NextScan(y)
      BY <1>3, <1>5, <2>1, <2>2, <2>4 DEF ReadsResult, NextScan, check
    <3>2. Scan[z] = Scan[y]
      BY <3>1, ScanUnfolds
    <3>. QED BY <3>2
  <2>5. CASE ~Found(check.fail, y.t) /\ ~Found(check.success, y.t)
    <3>1. ~ReadsResult(y) /\ ~ReadsResult(z)
      BY <2>2, <2>5 DEF ReadsResult, check
    <3>2. /\ Scan[y] = [y EXCEPT !.m = retain_boundary_history(y.m, y.t)]
          /\ Scan[z] = [z EXCEPT !.m = retain_boundary_history(z.m, z.t)]
      <4>1. Scan[y] = ScanEnd(y) /\ Scan[z] = ScanEnd(z)
        BY <3>1, ScanUnfolds
      <4>. QED BY <1>3, <1>5, <2>1, <2>5, <4>1 DEF ScanEnd, check
    <3>3. retain_boundary_history(z.m, z.t) = retain_boundary_history(y.m, y.t)
      BY <1>1, WindowMoves DEF retain_boundary_history
    <3>4. retain_boundary_history(y.m, y.t).phase = y.m.phase /\ retain_boundary_history(y.m, y.t).cur = y.m.cur
      BY <1>1, RetainHistory
    <3>. QED BY <3>2, <3>3, <3>4 DEF ScanState
  <2>. QED BY <2>3, <2>4, <2>5
<1>. QED BY <1>4, <1>5 DEF Waiting

\* What was read of a prompt stays read when more is printed.
LEMMA PromptedMore ==
  ASSUME StepsAreSound, steps \in Seq(RawStep), NEW x \in Text, NEW t \in Text, NEW k \in 1..Len(steps),
         Prompted(steps[k], ReadOff(steps, x)[k - 1]) # None
  PROVE  /\ Prompted(steps[k], ReadOff(steps, x)[k - 1]) \in Text
         /\ Prompted(steps[k], ReadOff(steps, x \o t)[k - 1]) = Prompted(steps[k], ReadOff(steps, x)[k - 1]) \o t
<1> DEFINE here == ReadOff(steps, x)[k - 1]
<1>1. k - 1 \in 0..Len(steps) /\ SoundStep(steps[k])
  BY DEF StepsAreSound
<1>2. here # None
  <2>1. Prompted(steps[k], None) = None
    BY DEF Prompted, Skip
  <2>. QED BY <2>1
<1>3. here \in Text /\ ReadOff(steps, x \o t)[k - 1] = here \o t
  BY <1>1, <1>2, ReadsMore
<1>. HIDE DEF here
<1>4. Prompted(steps[k], here) # None
  BY DEF here
<1>5. Prompted(steps[k], here) \in Text /\ Prompted(steps[k], here \o t) = Prompted(steps[k], here) \o t
  BY <1>1, <1>3, <1>4, StepReadsMore
<1>. QED BY <1>3, <1>5 DEF here

-----------------------------------------------------------------------------
(***************************************************************************)
(* What the matcher makes of a chunk, and of a command that was written.   *)
(***************************************************************************)
\* The matcher stands, by r, where the output `text` has got to: `left` of it is
\* since its phase began, and the commands w are written.
Reads(r, left, text, w) ==
  /\ r.m \in Matcher /\ r.event \in Events /\ left \in Text /\ Follows(r.m, text, left)
  /\ Waiting(r.m) => r.event \in {"None", "StepCompleted"}
  /\ r.m.phase = "Sending" => r.event = "Send"
  /\ r.m.phase = "Completed" =>
       \/ Fails(r.event)
       \/ r.event = "SequenceCompleted" /\ r.m.cur = Len(steps) /\ ReadOff(steps, text)[Len(steps)] # None
  /\ ~Fails(r.event) => Written(r.m) = w

\* A chunk is read where it continues what was read before.
LEMMA ObserveReads ==
  ASSUME StepsAreSound, steps \in Seq(RawStep), matcher \in Matcher, seen \in Text, rest \in Text,
         Waiting(matcher), Follows(matcher, seen, rest), NEW t \in Text, t # <<>>,
         NEW r, r = observe_chunk(matcher, t)
  PROVE  Reads(r, NewRest(matcher, r, t), seen \o t, Written(matcher))
<1> DEFINE h == [matcher EXCEPT !.history = <<>>]
           y == [m |-> h, t |-> rest \o t, event |-> "None"]
           z == [m |-> h, t |-> matcher.history \o t, event |-> "None"]
           k == matcher.cur
           here == ReadOff(steps, seen)[k - 1]
           more == ReadOff(steps, seen \o t)[k - 1]
           q == Scan[y]
<1>1. h \in Matcher /\ h.history = <<>> /\ h.phase = matcher.phase /\ h.cur = k
  <2>1. <<>> \in Text
    BY DEF Text
  <2>. QED BY <2>1 DEF Matcher
<1>. HIDE DEF h
<1>2. matcher.history = EndOf(rest, HistoryMax) /\ matcher.history \in Text
  BY DEF Follows, Matcher
<1>3. rest \o t \in Text /\ matcher.history \o t \in Text /\ seen \o t \in Text
  BY <1>2, LettersOfBoth
<1>4. y \in ScanState /\ z \in ScanState
  <2>1. "None" \in Events
    BY DEF Events
  <2>. QED BY <1>1, <1>3, <2>1 DEF ScanState
<1>5. r = Scan[z]
  BY DEF observe_chunk, process_block, Waiting, h
<1>6. k \in 1..Len(steps) /\ Len(steps) \in Nat /\ SoundStep(steps[k]) /\ k - 1 \in 0..Len(steps)
  <2>1. k \in 1..Len(steps) /\ Len(steps) \in Nat
    BY DEF Follows
  <2>. QED BY <2>1 DEF StepsAreSound
<1>7. Reading(y, seen \o t)
  <2>1. CASE matcher.phase = "WaitingForPrefix"
    <3>1. rest = here /\ steps[k].command
      BY <2>1 DEF Follows
    <3>2. here # None
      BY <3>1, ConsoleAssumption
    <3>3. more = rest \o t
      BY <1>6, <3>1, <3>2, ReadsMore
    <3>. QED BY <1>1, <1>4, <1>6, <2>1, <3>1, <3>3 DEF Reading
  <2>2. CASE matcher.phase = "WaitingForResult"
    <3>1. rest = Prompted(steps[k], here) /\ steps[k].success # {}
      BY <2>2 DEF Follows
    <3>2. Prompted(steps[k], here) # None
      BY <3>1, ConsoleAssumption
    <3>3. Prompted(steps[k], more) = rest \o t
      BY <1>6, <3>1, <3>2, PromptedMore
    <3>. QED BY <1>1, <1>4, <1>6, <2>2, <3>1, <3>3 DEF Reading
  <2>. QED BY <2>1, <2>2 DEF Waiting
<1>8. ReadTo(y, q, seen \o t)
  BY <1>3, <1>7, ScanReads
<1>9. /\ Scan[z].m = Scan[y].m /\ Scan[z].event = Scan[y].event
      /\ \/ Scan[z].t = Scan[y].t
         \/ Scan[y].m.phase = "Completed"
         \/ Scan[y].m.phase = y.m.phase /\ Scan[y].m.cur = y.m.cur
  <2>1. /\ y.m = z.m /\ y.event = z.event /\ y.t = rest \o t /\ z.t = EndOf(rest, HistoryMax) \o t
        /\ Waiting(y.m) /\ SoundStep(steps[y.m.cur])
    BY <1>1, <1>2, <1>6 DEF Waiting
  <2>2. /\ y.m.phase = "WaitingForPrefix" => steps[y.m.cur].command /\ ~Found({steps[y.m.cur].prefix}, rest)
        /\ y.m.phase = "WaitingForResult" =>
             ~Found(steps[y.m.cur].success, rest) /\ ~Found(steps[y.m.cur].fail, rest)
    BY <1>1 DEF Follows
  <2>. HIDE DEF y, z
  <2>. QED BY <1>4, <2>1, <2>2, ScanWindow
<1>10. y.m.phase = matcher.phase /\ y.m.cur = k /\ y.t = rest \o t /\ y.event = "None" /\ Written(y.m) = Written(matcher)
  BY <1>1 DEF Written
<1>. HIDE DEF q, y, z, here, more
<1>11. r.m = q.m /\ r.event = q.event
  BY <1>5, <1>9 DEF q
<1>12. q.m \in Matcher /\ q.t \in Text /\ q.event \in Events
  BY <1>8 DEF ReadTo, ScanState
<1>13. Waiting(q.m) => NewRest(matcher, r, t) = q.t
  <2>1. CASE q.m.phase = matcher.phase /\ q.m.cur = k
    BY <1>8, <1>10, <1>11, <2>1 DEF NewRest, ReadTo
  <2>2. CASE ~(q.m.phase = matcher.phase /\ q.m.cur = k) /\ Waiting(q.m)
    <3>1. r.t = q.t
      BY <1>5, <1>9, <1>10, <2>2 DEF Waiting, q
    <3>2. <<r.m.phase, r.m.cur>> # <<matcher.phase, matcher.cur>>
      BY <1>11, <2>2
    <3>. QED BY <1>11, <2>2, <3>1, <3>2 DEF NewRest
  <2>. QED BY <2>1, <2>2
<1>14. ~Waiting(q.m) => NewRest(matcher, r, t) = <<>>
  BY <1>11 DEF NewRest
<1>15. NewRest(matcher, r, t) \in Text
  <2>1. <<>> \in Text
    BY DEF Text
  <2>. QED BY <1>12, <1>13, <1>14, <2>1
<1>16. Follows(q.m, seen \o t, NewRest(matcher, r, t))
  <2>1. CASE Waiting(q.m)
    BY <1>8, <1>13, <2>1 DEF ReadTo
  <2>2. CASE ~Waiting(q.m)
    BY <1>8, <2>2 DEF ReadTo, Follows, Waiting
  <2>. QED BY <2>1, <2>2
<1>17. Reads(q, NewRest(matcher, r, t), seen \o t, Written(matcher))
  <2>. HIDE DEF k
  <2>. QED BY <1>8, <1>10, <1>12, <1>15, <1>16 DEF ReadTo, Reads
<1>. QED BY <1>11, <1>17 DEF Reads

\* Output for a command on its way is kept for the time when it is written.
LEMMA ObserveKeeps ==
  ASSUME StepsAreSound, steps \in Seq(RawStep), matcher \in Matcher, seen \in Text, NEW left,
         matcher.phase = "Sending", Follows(matcher, seen, left), NEW t \in Text,
         NEW r, r = observe_chunk(matcher, t)
  PROVE  /\ r.m \in Matcher /\ r.m.cur = matcher.cur /\ r.event \in {"None", "LimitExceeded"}
         /\ Follows(r.m, seen \o t, <<>>)
         /\ r.event = "None" => r.m.phase = "Sending" /\ Written(r.m) = Written(matcher)
         /\ r.event = "LimitExceeded" => r.m.phase = "Completed"
<1> DEFINE k == matcher.cur
<1>1. r = append_pending_output(matcher, t, "None")
  BY DEF observe_chunk
<1>2. Appended(r, matcher, t, "None")
  <2>1. "None" \in Events
    BY DEF Events
  <2>. QED BY <1>1, <2>1, AppendPending
<1>3. /\ k \in 1..Len(steps) /\ steps[k].command /\ matcher.history = <<>> /\ matcher.pending \in Text
      /\ matcher.pending = Prompted(steps[k], ReadOff(steps, seen)[k - 1])
  BY DEF Follows, Matcher
<1>4. matcher.pending \o t = Prompted(steps[k], ReadOff(steps, seen \o t)[k - 1])
  <2>1. Prompted(steps[k], ReadOff(steps, seen)[k - 1]) # None
    BY <1>3, ConsoleAssumption
  <2>2. Prompted(steps[k], ReadOff(steps, seen \o t)[k - 1]) = Prompted(steps[k], ReadOff(steps, seen)[k - 1]) \o t
    <3>1. k \in 1..Len(steps)
      BY <1>3
    <3>. HIDE DEF k
    <3>. QED BY <2>1, <3>1, PromptedMore
  <2>. QED BY <1>3, <2>2
<1>5. /\ r.m \in Matcher /\ r.m.cur = k /\ r.m.history = <<>>
      /\ \/ r.event = "LimitExceeded" /\ r.m.phase = "Completed"
         \/ r.event = "None" /\ r.m.phase = "Sending" /\ r.m.pending = matcher.pending \o t
  BY <1>2, <1>3 DEF Appended, ScanState
<1>6. Follows(r.m, seen \o t, <<>>)
  BY <1>3, <1>4, <1>5 DEF Follows, Waiting
<1>7. r.event = "None" => Written(r.m) = Written(matcher)
  BY <1>5 DEF Written
<1>. QED BY <1>5, <1>6, <1>7

\* A matcher m whose command is written goes on, from y to q, with what came meanwhile.
Flushed(m, r, q, y) ==
  /\ ReadTo(y, q, seen) /\ y.event = "None" /\ Written(y.m) = Written(m) \cup {m.cur}
  /\ r.m = q.m /\ r.t = q.t
  /\ r.event = q.event \/ (q.event = "None" /\ r.event = "StepCompleted")

\* What has come meanwhile is read as what comes after a written command.
LEMMA FlushedReads ==
  ASSUME NEW m, m.phase = "Sending", NEW r, NEW q, NEW y, Flushed(m, r, q, y)
  PROVE  Reads(r, NewRest(m, r, <<>>), seen, Written(m) \cup {m.cur})
<1>1. q \in ScanState /\ q.m \in Matcher /\ q.t \in Text /\ q.event \in Events /\ r.event \in Events
  BY DEF Flushed, ReadTo, ScanState, Events
<1>2. /\ Follows(q.m, seen, q.t) /\ r.m = q.m /\ r.t = q.t
      /\ Waiting(q.m) => q.event \in {"None", "StepCompleted"}
      /\ q.m.phase = "Sending" => q.event = "Send"
      /\ q.m.phase = "Completed" =>
           \/ Fails(q.event)
           \/ q.event = "SequenceCompleted" /\ q.m.cur = Len(steps) /\ ReadOff(steps, seen)[Len(steps)] # None
      /\ ~Fails(q.event) => Written(q.m) = Written(m) \cup {m.cur}
      /\ r.event = q.event \/ (q.event = "None" /\ r.event = "StepCompleted")
  BY DEF Flushed, ReadTo
<1>3. NewRest(m, r, <<>>) = IF Waiting(q.m) THEN q.t ELSE <<>>
  BY <1>2 DEF NewRest, Waiting
<1>4. NewRest(m, r, <<>>) \in Text
  <2>1. <<>> \in Text
    BY DEF Text
  <2>. QED BY <1>1, <1>3, <2>1
<1>5. Follows(q.m, seen, NewRest(m, r, <<>>))
  <2>1. CASE Waiting(q.m)
    BY <1>2, <1>3, <2>1
  <2>2. CASE ~Waiting(q.m)
    BY <1>2, <2>2 DEF Follows, Waiting
  <2>. QED BY <2>1, <2>2
<1>6. r.event # q.event => ~Fails(q.event) /\ ~Fails(r.event) /\ Waiting(q.m)
  BY <1>1, <1>2 DEF Fails, Matcher, Phases, Waiting
<1>7. r.event = q.event => Reads(r, NewRest(m, r, <<>>), seen, Written(m) \cup {m.cur})
  BY <1>1, <1>2, <1>4, <1>5 DEF Reads
<1>8. r.event # q.event => Reads(r, NewRest(m, r, <<>>), seen, Written(m) \cup {m.cur})
  BY <1>1, <1>2, <1>4, <1>5, <1>6 DEF Reads, Waiting
<1>. QED BY <1>7, <1>8

\* When the command is written, what came meanwhile is read as its result, or for the next step.
LEMMA FlushReads ==
  ASSUME StepsAreSound, steps \in Seq(RawStep), matcher \in Matcher, seen \in Text, NEW left,
         matcher.phase = "Sending", Follows(matcher, seen, left), NEW r, r = command_flushed(matcher)
  PROVE  /\ Reads(r, NewRest(matcher, r, <<>>), seen, Written(matcher) \cup {matcher.cur})
         /\ matcher.cur \in 1..Len(steps) /\ matcher.cur \notin Written(matcher)
<1> DEFINE k == matcher.cur
           check == steps[k]
           here == ReadOff(steps, seen)[k - 1]
           taken == [matcher EXCEPT !.pending = <<>>]
           first == IF check.success = {} /\ check.fail = {} THEN advance(taken)
                    ELSE [m |-> [taken EXCEPT !.phase = "WaitingForResult"], event |-> "None"]
           h == [first.m EXCEPT !.history = <<>>]
           y == [m |-> h, t |-> first.m.history \o matcher.pending, event |-> "None"]
           q == Scan[y]
<1>1. /\ k \in 1..Len(steps) /\ Len(steps) \in Nat /\ k \in Nat \ {0} /\ check.command /\ matcher.history = <<>>
      /\ matcher.pending \in Text /\ matcher.pending = Prompted(check, here) /\ <<>> \in Text
  BY DEF Follows, Matcher, Text
<1>2. SoundStep(check)
  BY <1>1 DEF StepsAreSound
<1>3. taken \in Matcher /\ taken.cur = k /\ taken.history = <<>>
  BY <1>1 DEF Matcher
<1>4. /\ r = [q EXCEPT !.event = IF @ = "None" THEN first.event ELSE @]
  BY DEF command_flushed, process_block
<1>. HIDE DEF taken, here
<1>5. CASE check.success = {}
  <2>1. first = advance(taken)
    BY <1>2, <1>5 DEF SoundStep
  <2>. HIDE DEF first
  <2>2. /\ first.m \in Matcher /\ first.m.history = <<>>
        /\ k = Len(steps) => first.m.phase = "Completed" /\ first.m.cur = k /\ first.event = "SequenceCompleted"
        /\ k # Len(steps) => /\ first.m.phase = FirstPhase(steps[k + 1]) /\ first.m.cur = k + 1
                             /\ first.event = "StepCompleted"
    BY <1>3, <2>1, AdvanceIsMatcher
  <2>3. h \in Matcher /\ h.phase = first.m.phase /\ h.cur = first.m.cur /\ h.history = <<>>
    BY <1>1, <2>2 DEF Matcher
  <2>4. ReadOff(steps, seen)[k] = matcher.pending
    <3>1. ReadOff(steps, seen)[k] = ReadStep(steps[k], ReadOff(steps, seen)[k - 1])
      BY <1>1, ReadOffUnfolds
    <3>. QED BY <1>1, <1>5, <3>1 DEF ReadStep, here
  <2>5. y.t = matcher.pending /\ y.m = h /\ y.event = "None" /\ y \in ScanState
    <3>1. <<>> \o matcher.pending = matcher.pending /\ "None" \in Events
      BY <1>1, ConcatEmptySeq DEF Text, Events
    <3>. HIDE DEF h
    <3>. QED BY <1>1, <2>2, <2>3, <3>1 DEF ScanState
  <2>. HIDE DEF h, y
  <2>6. Written(h) = Written(matcher) \cup {k}
    <3>1. ASSUME NEW j \in 1..Len(steps)  PROVE  j \in Written(h) <=> j \in Written(matcher) \/ j = k
      <4>1. CASE k = Len(steps)
        BY <1>1, <2>2, <2>3, <4>1 DEF Written
      <4>2. CASE k # Len(steps)
        <5>1. steps[k + 1].command => h.phase = "WaitingForPrefix"
          BY <2>2, <2>3, <4>2 DEF FirstPhase
        <5>2. j < k + 1 <=> j < k \/ j = k
          BY <1>1
        <5>. QED BY <1>1, <2>2, <2>3, <4>2, <5>1, <5>2 DEF Written
      <4>. QED BY <4>1, <4>2
    <3>2. Written(h) \subseteq 1..Len(steps) /\ Written(matcher) \subseteq 1..Len(steps)
      BY DEF Written
    <3>. QED BY <1>1, <3>1, <3>2
  <2>7. CASE k = Len(steps)
    <3>1. y.m.phase = "Completed" /\ y.m.cur = Len(steps)
      BY <2>2, <2>3, <2>5, <2>7
    <3>2. q = y
      <4>1. ~ReadsResult(y) /\ ScanEnd(y) = y
        BY <3>1 DEF ReadsResult, ScanEnd
      <4>. QED BY <2>5, <4>1, ScanUnfolds
    <3>3. r.m = h /\ r.event = "SequenceCompleted"
      BY <1>4, <2>2, <2>5, <2>7, <3>2 DEF ScanState
    <3>4. NewRest(matcher, r, <<>>) = <<>>
      BY <2>5, <3>1, <3>3 DEF NewRest, Waiting
    <3>5. ReadOff(steps, seen)[Len(steps)] # None
      BY <1>1, <2>4, <2>7, ConsoleAssumption
    <3>6. Follows(h, seen, <<>>)
      BY <1>1, <2>5, <3>1 DEF Follows, Waiting
    <3>7. Reads(r, NewRest(matcher, r, <<>>), seen, Written(matcher) \cup {k})
      BY <1>1, <2>3, <2>5, <2>6, <3>1, <3>3, <3>4, <3>5, <3>6 DEF Reads, Waiting, Events
    <3>. QED BY <1>1, <3>7 DEF Written
  <2>8. CASE k # Len(steps)
    <3>1. k + 1 \in 1..Len(steps) /\ (k + 1) - 1 = k /\ h.cur = k + 1 /\ h.phase = FirstPhase(steps[k + 1])
      BY <1>1, <2>2, <2>3, <2>8
    <3>2. SoundStep(steps[k + 1])
      BY <3>1 DEF StepsAreSound
    <3>3. Reading(y, seen)
      <4>1. CASE steps[k + 1].command
        <5>1. h.phase = "WaitingForPrefix" /\ y.t = ReadOff(steps, seen)[(k + 1) - 1]
          BY <2>4, <2>5, <3>1, <4>1 DEF FirstPhase
        <5>. QED BY <2>3, <2>5, <3>1, <4>1, <5>1 DEF Reading
      <4>2. CASE ~steps[k + 1].command
        <5>1. h.phase = "WaitingForResult" /\ y.t = Prompted(steps[k + 1], ReadOff(steps, seen)[(k + 1) - 1])
          BY <2>4, <2>5, <3>1, <4>2 DEF FirstPhase, Prompted
        <5>2. steps[k + 1].success # {}
          BY <3>2, <4>2 DEF SoundStep
        <5>. QED BY <2>3, <2>5, <3>1, <5>1, <5>2 DEF Reading
      <4>. QED BY <4>1, <4>2
    <3>4. ReadTo(y, q, seen)
      BY <3>3, ScanReads
    <3>. HIDE DEF q
    <3>5. q \in ScanState
      BY <3>4 DEF ReadTo
    <3>6. r.m = q.m /\ r.t = q.t /\ r.event = IF q.event = "None" THEN "StepCompleted" ELSE q.event
      BY <1>4, <2>2, <2>8, <3>5 DEF ScanState
    <3>7. Flushed(matcher, r, q, y)
      BY <2>5, <2>6, <3>4, <3>6 DEF Flushed
    <3>. QED BY <1>1, <3>7, FlushedReads DEF Written
  <2>. QED BY <2>7, <2>8
<1>6. CASE check.success # {}
  <2>1. first = [m |-> [taken EXCEPT !.phase = "WaitingForResult"], event |-> "None"]
    BY <1>6
  <2>2. first.m \in Matcher /\ first.m.phase = "WaitingForResult" /\ first.m.cur = k /\ first.m.history = <<>>
    <3>1. "WaitingForResult" \in Phases
      BY DEF Phases
    <3>. HIDE DEF first
    <3>. QED BY <1>3, <2>1, <3>1 DEF Matcher
  <2>3. first.event = "None"
    BY <2>1
  <2>. HIDE DEF first
  <2>4. h \in Matcher /\ h.phase = "WaitingForResult" /\ h.cur = k /\ h.history = <<>>
    BY <1>1, <2>2 DEF Matcher
  <2>5. y.t = matcher.pending /\ y.m = h /\ y.event = "None" /\ y \in ScanState
    <3>1. <<>> \o matcher.pending = matcher.pending /\ "None" \in Events
      BY <1>1, ConcatEmptySeq DEF Text, Events
    <3>. HIDE DEF h
    <3>. QED BY <1>1, <2>2, <2>4, <3>1 DEF ScanState
  <2>. HIDE DEF h, y
  <2>6. Written(h) = Written(matcher) \cup {k}
    <3>1. ASSUME NEW j \in 1..Len(steps)  PROVE  j \in Written(h) <=> j \in Written(matcher) \/ j = k
      BY <1>1, <2>4 DEF Written
    <3>2. Written(h) \subseteq 1..Len(steps) /\ Written(matcher) \subseteq 1..Len(steps)
      BY DEF Written
    <3>. QED BY <1>1, <3>1, <3>2
  <2>7. Reading(y, seen)
    BY <1>1, <1>6, <2>4, <2>5 DEF Reading, here
  <2>8. ReadTo(y, q, seen)
    BY <2>7, ScanReads
  <2>. HIDE DEF q
  <2>9. q \in ScanState
    BY <2>8 DEF ReadTo
  <2>10. r.m = q.m /\ r.t = q.t /\ r.event = q.event
    BY <1>4, <2>3, <2>9 DEF ScanState
  <2>11. Flushed(matcher, r, q, y)
    BY <2>5, <2>6, <2>8, <2>10 DEF Flushed
  <2>. QED BY <1>1, <2>11, FlushedReads DEF Written
<1>. QED BY <1>5, <1>6

-----------------------------------------------------------------------------
(***************************************************************************)
(* The invariant holds when the run begins.                                *)
(***************************************************************************)
\* A set of numbers up to n has a greatest one.
LEMMA MaxIsMost ==
  ASSUME NEW n \in Nat, NEW S, S \subseteq 1..n, S # {}
  PROVE  Max(S) \in S
<1> DEFINE T == {n - x : x \in S}
<1>1. T \subseteq Nat /\ T # {}
  <2>1. \A x \in S : n - x \in Nat
    OBVIOUS
  <2>2. PICK x \in S : TRUE
    OBVIOUS
  <2>3. n - x \in T
    OBVIOUS
  <2>. QED BY <2>1, <2>3
<1>2. Min(T) \in T /\ \A x \in T : Min(T) <= x
  BY <1>1, MinIsLeast, Zenon
<1>3. PICK m \in S : Min(T) = n - m
  BY <1>2
<1>. HIDE DEF T
<1>4. ASSUME NEW x \in S  PROVE  m >= x
  <2>1. n - x \in T
    BY DEF T
  <2>2. n - m <= n - x
    BY <1>2, <1>3, <2>1
  <2>. QED BY <2>2
<1>. QED BY <1>4 DEF Max

\* The steps of an accepted configuration are sound.
LEMMA AcceptedIsSound ==
  ASSUME PatternsFit, NEW raw \in CheckConfigs, Accepted(raw), NEW st, st = resolve_shell_check_steps(raw)
  PROVE  st \in Seq(RawStep) /\ \A k \in 1..Len(st) : SoundStep(st[k])
<1>1. raw \in Seq(RawStep) /\ Len(raw) \in Nat
  BY ConsoleAssumption
<1>2. ASSUME NEW k \in 1..Len(raw)
      PROVE  \/ Inherited(raw, k) = None
             \/ \E j \in 1..Len(raw) : Inherited(raw, k) = raw[j].prefix /\ raw[j].prefix # None
  <2> DEFINE given == {j \in 1..k : raw[j].prefix # None}
  <2>1. CASE given = {}
    BY <2>1 DEF Inherited
  <2>2. CASE given # {}
    <3>1. Max(given) \in given
      <4>1. given \subseteq 1..k /\ k \in Nat
        OBVIOUS
      <4>. HIDE DEF given
      <4>. QED BY <2>2, <4>1, MaxIsMost
    <3>2. Max(given) \in 1..Len(raw) /\ raw[Max(given)].prefix # None
      BY <1>1, <3>1
    <3>3. Inherited(raw, k) = raw[Max(given)].prefix
      BY <2>2 DEF Inherited
    <3>. HIDE DEF given
    <3>. QED BY <3>2, <3>3
  <2>. QED BY <2>1, <2>2
<1>3. ASSUME NEW k \in 1..Len(raw)
      PROVE  SoundStep([raw[k] EXCEPT !.prefix = Inherited(raw, k)])
  <2> DEFINE check == [raw[k] EXCEPT !.prefix = Inherited(raw, k)]
  <2>1. raw[k] \in RawStep
    BY <1>1
  <2>2. Inherited(raw, k) \in Text \cup {None}
    <3>1. ASSUME NEW j \in 1..Len(raw)  PROVE  raw[j].prefix \in Text \cup {None}
      <4>1. raw[j] \in RawStep
        BY <1>1
      <4>. QED BY <4>1 DEF RawStep
    <3>. QED BY <1>2, <3>1
  <2>3. /\ check \in RawStep /\ check.prefix = Inherited(raw, k) /\ check.command = raw[k].command
        /\ check.success = raw[k].success /\ check.fail = raw[k].fail
    BY <2>1, <2>2 DEF RawStep
  <2>. HIDE DEF check
  <2>4. ~Refused(raw, k)
    BY DEF Accepted
  <2>5. \A p \in check.success \cup check.fail : Len(p) <= HistoryMax + 1
    BY <2>3 DEF PatternsFit
  <2>6. \A p \in {check.prefix} \ {None} : Len(p) <= HistoryMax + 1
    BY <1>2, <2>3 DEF PatternsFit
  <2>7. SoundStep(check)
    <3>1. check.command \in BOOLEAN /\ (check.command => check.prefix # None)
      BY <2>3, <2>4 DEF Refused, RawStep
    <3>2. check.success = {} => check.command /\ check.fail = {}
      BY <2>3, <2>4 DEF Refused
    <3>. QED BY <2>3, <2>5, <2>6, <3>1, <3>2 DEF SoundStep
  <2>. QED BY <2>7 DEF check
<1>4. st \in [1..Len(raw) -> RawStep]
  BY <1>3 DEF resolve_shell_check_steps, SoundStep
<1>5. st \in Seq(RawStep) /\ Len(st) = Len(raw)
  BY <1>1, <1>4
<1>6. \A k \in 1..Len(raw) : st[k] = [raw[k] EXCEPT !.prefix = Inherited(raw, k)]
  BY DEF resolve_shell_check_steps
<1>. QED BY <1>3, <1>5, <1>6

\* The end of no output.
LEMMA EndOfNothing ==
  ASSUME NEW n \in Nat
  PROVE  EndOf(<<>>, n) = <<>> /\ <<>> \in Text
<1>1. <<>> \in Text /\ Len(<<>>) = 0
  BY DEF Text
<1>. QED BY <1>1, EndIsText

\* The invariant holds where a run begins.
LEMMA ConsoleInit ==
  ASSUME PatternsFit, Init
  PROVE  ConsoleInv
<1>1. PICK raw \in CheckConfigs :
        /\ steps = IF Accepted(raw) THEN resolve_shell_check_steps(raw) ELSE <<>>
        /\ runnerStage = IF Accepted(raw) THEN "terminal" ELSE "done"
        /\ result = IF Accepted(raw) THEN None ELSE "Err"
  BY DEF Init
<1>2. /\ matcher = [phase |-> IF HasChecks THEN FirstPhase(steps[1]) ELSE "Completed",
                    cur |-> 1, history |-> <<>>, pending |-> <<>>]
      /\ outcome = [completed |-> FALSE, failure |-> FALSE] /\ window = <<>> /\ failMatch = "none"
      /\ sender = 0 /\ queue = <<>> /\ writer = [state |-> "up", event |-> "None"] /\ expired = {}
      /\ seen = <<>> /\ rest = <<>> /\ sent = 0
  BY DEF Init
<1>3. steps \in Seq(RawStep) /\ StepsAreSound
  <2>1. CASE Accepted(raw)
    BY <1>1, <2>1, AcceptedIsSound DEF StepsAreSound
  <2>2. CASE ~Accepted(raw)
    BY <1>1, <2>2 DEF StepsAreSound
  <2>. QED BY <2>1, <2>2
<1>4. <<>> \in Text /\ EndOf(<<>>, MatchWindow) = <<>> /\ EndOf(<<>>, HistoryMax) = <<>>
  BY EndOfNothing, ConsoleAssumption
<1>5. ConsoleTypeOK
  <2>1. FirstPhase(steps[1]) \in Phases /\ "Completed" \in Phases /\ "None" \in Events
    BY DEF FirstPhase, Phases, Events
  <2>2. matcher \in Matcher
    BY <1>2, <1>4, <2>1 DEF Matcher
  <2>. QED BY <1>2, <1>3, <1>4, <2>1, <2>2 DEF ConsoleTypeOK
<1>6. WindowIsEnd
  BY <1>2, <1>4, NothingInEmpty DEF WindowIsEnd
<1>7. OkIsFinal
  BY <1>1, ConsoleAssumption DEF OkIsFinal
<1>8. ReadsInOrder
  <2>1. ~Succeeded /\ ~Undone
    BY <1>2 DEF Succeeded, Undone, Fails
  <2>2. CASE ~HasChecks
    BY <1>2, <2>1, <2>2 DEF ReadsInOrder
  <2>3. CASE HasChecks
    <3>1. 1 \in 1..Len(steps) /\ Len(steps) \in Nat
      BY <1>3, <2>3 DEF HasChecks
    <3>2. SoundStep(steps[1])
      BY <1>3, <3>1 DEF StepsAreSound
    <3>3. matcher.phase = FirstPhase(steps[1]) /\ matcher.cur = 1 /\ matcher.history = <<>>
      BY <1>2, <2>3
    <3>4. ReadOff(steps, seen)[0] = <<>>
      BY <1>2, <1>4, ReadOffUnfolds
    <3>5. Follows(matcher, seen, rest)
      <4>1. CASE steps[1].command
        <5>1. matcher.phase = "WaitingForPrefix" /\ matcher.cur - 1 = 0
          BY <3>3, <4>1 DEF FirstPhase
        <5>. QED BY <1>2, <1>4, <3>1, <3>3, <3>4, <4>1, <5>1, NothingInEmpty DEF Follows, Waiting
      <4>2. CASE ~steps[1].command
        <5>1. matcher.phase = "WaitingForResult" /\ matcher.cur - 1 = 0 /\ steps[1].success # {}
          BY <3>2, <3>3, <4>2 DEF FirstPhase, SoundStep
        <5>2. Prompted(steps[1], ReadOff(steps, seen)[0]) = <<>>
          BY <3>4, <4>2 DEF Prompted
        <5>. QED BY <1>2, <1>4, <3>1, <3>3, <4>2, <5>1, <5>2, NothingInEmpty DEF Follows, Waiting
      <4>. QED BY <4>1, <4>2
    <3>6. EndsOnce
      <4>1. matcher.phase # "Completed"
        BY <3>3 DEF FirstPhase
      <4>2. Written(matcher) = {}
        BY <3>1, <3>3 DEF Written, FirstPhase
      <4>. QED BY <1>2, <2>1, <4>1, <4>2, FS_EmptySet DEF EndsOnce
    <3>7. DeliveryIsInOrder
      BY <1>2, <2>1 DEF DeliveryIsInOrder, Delivering, Queued, InOrder
    <3>. QED BY <2>3, <3>5, <3>6, <3>7 DEF ReadsInOrder
  <2>. QED BY <2>2, <2>3
<1>. QED BY <1>3, <1>5, <1>6, <1>7, <1>8 DEF ConsoleInv, ReadInv

-----------------------------------------------------------------------------
(***************************************************************************)
(* The tasks around the loop.                                              *)
(***************************************************************************)
Inputs == CommandInputs \cup {"key"}

\* An input is queued behind the others.
LEMMA QueueGrows ==
  ASSUME NEW q \in Seq(Inputs), NEW e \in Inputs
  PROVE  /\ Append(q, e) \in Seq(Inputs)
         /\ \A x : Queued(Append(q, e), x) <=> Queued(q, x) \/ x = e
         /\ InOrder(q) /\ (e = "key" \/ ~Queued(q, "lastChunk")) => InOrder(Append(q, e))
<1>1. /\ Append(q, e) \in Seq(Inputs) /\ Len(Append(q, e)) = Len(q) + 1 /\ Len(q) \in Nat
      /\ Append(q, e)[Len(q) + 1] = e /\ \A i \in 1..Len(q) : Append(q, e)[i] = q[i]
  OBVIOUS
<1>2. \A i \in 1..(Len(q) + 1) : i \in 1..Len(q) \/ i = Len(q) + 1
  BY <1>1
<1>3. Len(q) + 1 \in 1..(Len(q) + 1) /\ \A i \in 1..Len(q) : i \in 1..(Len(q) + 1)
  BY <1>1
<1>4. ASSUME NEW x  PROVE  Queued(Append(q, e), x) <=> Queued(q, x) \/ x = e
  BY <1>1, <1>2, <1>3 DEF Queued
<1>5. ASSUME InOrder(q), e = "key" \/ ~Queued(q, "lastChunk")  PROVE  InOrder(Append(q, e))
  <2>1. SUFFICES ASSUME NEW i \in 1..(Len(q) + 1), NEW j \in 1..(Len(q) + 1), i < j,
                        Append(q, e)[i] = "lastChunk"
                 PROVE  Append(q, e)[j] = "key"
    BY <1>1 DEF InOrder
  <2>2. i \in 1..Len(q) /\ q[i] = "lastChunk"
    BY <1>1, <2>1
  <2>3. e = "key"
    BY <1>5, <2>2 DEF Queued
  <2>4. CASE j = Len(q) + 1
    BY <1>1, <2>3, <2>4
  <2>5. CASE j \in 1..Len(q)
    BY <1>1, <1>5, <2>1, <2>2, <2>5 DEF InOrder
  <2>. QED BY <1>2, <2>4, <2>5
<1>. QED BY <1>1, <1>4, <1>5

\* The first input is taken; behind the last chunk of a command there are keys only.
LEMMA QueueShrinks ==
  ASSUME NEW q \in Seq(Inputs), q # <<>>
  PROVE  /\ Tail(q) \in Seq(Inputs) /\ Queued(q, Head(q))
         /\ \A x : Queued(Tail(q), x) => Queued(q, x)
         /\ InOrder(q) => InOrder(Tail(q))
         /\ InOrder(q) /\ Head(q) = "lastChunk" => \A x : Queued(Tail(q), x) => x = "key"
<1>1. /\ Tail(q) \in Seq(Inputs) /\ Len(q) \in Nat \ {0} /\ Len(Tail(q)) = Len(q) - 1
      /\ Head(q) = q[1] /\ \A i \in 1..Len(Tail(q)) : Tail(q)[i] = q[i + 1]
  OBVIOUS
<1>2. 1 \in 1..Len(q) /\ \A i \in 1..Len(Tail(q)) : i + 1 \in 1..Len(q) /\ 1 < i + 1
  BY <1>1
<1>3. \A i, j \in 1..Len(Tail(q)) : i < j => i + 1 < j + 1
  BY <1>1
<1>. QED BY <1>1, <1>2, <1>3 DEF Queued, InOrder

\* Nothing is in an empty queue.
LEMMA QueueEmpty == <<>> \in Seq(Inputs) /\ InOrder(<<>>) /\ \A x : ~Queued(<<>>, x)
BY DEF Queued, InOrder

\* A step that reads no output: the runner, the user or the target.
LEMMA IdleStep ==
  ASSUME ReadInv, UNCHANGED <<steps, matcher, outcome, window, failMatch, sender, queue, writer, expired,
                              seen, rest, sent>>
  PROVE  ReadInv'
<1>1. ConsoleTypeOK' /\ StepsAreSound' /\ WindowIsEnd'
  BY DEF ReadInv, ConsoleTypeOK, StepsAreSound, WindowIsEnd
<1>2. ReadsInOrder'
  BY DEF ReadInv, ReadsInOrder, HasChecks, Follows, EndsOnce, DeliveryIsInOrder, Delivering, Succeeded, Undone, Written
<1>. QED BY <1>1, <1>2 DEF ReadInv

\* A step of a task that leaves the matcher alone: a sequence that succeeded
\* stays so, and only one whose command is on its way can fail.
LEMMA SideStep ==
  ASSUME ReadInv, UNCHANGED <<steps, matcher, window, failMatch, seen, rest, sent>>,
         outcome' \in [completed : BOOLEAN, failure : BOOLEAN], sender' \in Nat, queue' \in Seq(Inputs),
         writer' \in [state : {"up", "failed", "ended", "aborted"}, event : Events],
         Succeeded' <=> Succeeded,
         HasChecks /\ DeliveryIsInOrder =>
           /\ Undone => Undone'
           /\ Undone' => Undone \/ matcher.phase = "Sending"
           /\ DeliveryIsInOrder'
  PROVE  ReadInv'
<1>1. ConsoleTypeOK' /\ StepsAreSound' /\ WindowIsEnd'
  BY DEF ReadInv, ConsoleTypeOK, StepsAreSound, WindowIsEnd, Inputs
<1>2. CASE ~HasChecks
  <2>1. ~HasChecks' /\ matcher'.phase = "Completed" /\ ~Succeeded'
    BY <1>2 DEF ReadInv, ReadsInOrder, HasChecks
  <2>. QED BY <1>1, <2>1 DEF ReadInv, ReadsInOrder
<1>3. CASE HasChecks
  <2>1. Follows(matcher, seen, rest) /\ EndsOnce /\ DeliveryIsInOrder /\ HasChecks'
    BY <1>3 DEF ReadInv, ReadsInOrder, HasChecks
  <2>2. Follows(matcher, seen, rest)'
    BY <2>1 DEF Follows
  <2>3. Written(matcher)' = Written(matcher)
    BY DEF Written
  <2>4. EndsOnce'
    BY <1>3, <2>1, <2>3 DEF EndsOnce
  <2>5. DeliveryIsInOrder'
    BY <1>3, <2>1
  <2>6. ReadsInOrder'
    BY <2>1, <2>2, <2>4, <2>5 DEF ReadsInOrder
  <2>. QED BY <1>1, <2>6 DEF ReadInv
<1>. QED BY <1>2, <1>3

\* What the invariant says of the tasks.
LEMMA TaskTypes ==
  ASSUME ReadInv
  PROVE  /\ outcome \in [completed : BOOLEAN, failure : BOOLEAN] /\ sender \in Nat /\ queue \in Seq(Inputs)
         /\ writer \in [state : {"up", "failed", "ended", "aborted"}, event : Events]
         /\ writer.event \in Events
BY DEF ReadInv, ConsoleTypeOK, Inputs

\* A failure that is recorded.
LEMMA FailRecords ==
  ASSUME outcome \in [completed : BOOLEAN, failure : BOOLEAN], NEW event,
         outcome' = HandledOutcome(outcome, event)
  PROVE  /\ outcome' \in [completed : BOOLEAN, failure : BOOLEAN]
         /\ outcome'.completed <=> outcome.completed \/ event = "SequenceCompleted"
         /\ outcome'.failure <=> outcome.failure \/ Fails(event)
<1> DEFINE c == outcome.completed \/ event = "SequenceCompleted"
           f == outcome.failure \/ Fails(event)
<1>1. outcome' = [completed |-> c, failure |-> f]
  BY DEF HandledOutcome
<1>2. c \in BOOLEAN /\ f \in BOOLEAN
  OBVIOUS
<1>. HIDE DEF c, f
<1>3. outcome' \in [completed : BOOLEAN, failure : BOOLEAN] /\ outcome'.completed = c /\ outcome'.failure = f
  BY <1>1, <1>2
<1>. QED BY <1>3 DEF c, f

\* A key is put behind what is queued.
LEMMA KeyStep ==
  ASSUME ReadInv, queue' = Append(queue, "key"),
         UNCHANGED <<steps, matcher, outcome, window, failMatch, sender, writer, expired, seen, rest, sent>>
  PROVE  ReadInv'
<1>1. "key" \in Inputs
  BY DEF Inputs
<1>2. /\ queue' \in Seq(Inputs) /\ (InOrder(queue) => InOrder(queue'))
      /\ \A x : Queued(queue', x) <=> Queued(queue, x) \/ x = "key"
  BY <1>1, QueueGrows, TaskTypes
<1>3. Queued(queue', "chunk") <=> Queued(queue, "chunk")
  BY <1>2
<1>4. Queued(queue', "lastChunk") <=> Queued(queue, "lastChunk")
  BY <1>2
<1>5. (Succeeded' <=> Succeeded) /\ (Undone' <=> Undone)
  BY DEF Succeeded, Undone
<1>6. ASSUME DeliveryIsInOrder  PROVE  DeliveryIsInOrder'
  <2>1. (Delivering' <=> Delivering) /\ (Queued(queue, "chunk")' <=> Queued(queue, "chunk"))
    BY <1>3, <1>4 DEF Delivering
  <2>. QED BY <1>2, <1>3, <1>4, <1>5, <1>6, <2>1 DEF DeliveryIsInOrder
<1>7. /\ outcome' \in [completed : BOOLEAN, failure : BOOLEAN] /\ sender' \in Nat
      /\ writer' \in [state : {"up", "failed", "ended", "aborted"}, event : Events]
  BY TaskTypes
<1>. QED BY <1>2, <1>5, <1>6, <1>7, SideStep

\* The next chunk of a command is queued, or its task gives up.
LEMMA SendStep ==
  ASSUME ReadInv, SendChunk
  PROVE  ReadInv'
<1>1. /\ UNCHANGED <<steps, matcher, window, failMatch, writer, expired, seen, rest, sent>>
      /\ sender # 0
  BY DEF SendChunk
<1>2. /\ outcome \in [completed : BOOLEAN, failure : BOOLEAN] /\ sender \in Nat /\ queue \in Seq(Inputs)
      /\ writer' \in [state : {"up", "failed", "ended", "aborted"}, event : Events]
  BY <1>1, TaskTypes
<1>3. CASE term.running /\ writer.state = "up" /\ UNCHANGED outcome
  <2> DEFINE e == IF sender = CommandChunks THEN "lastChunk" ELSE "chunk"
  <2>1. queue' = Append(queue, e) /\ sender' = IF sender = CommandChunks THEN 0 ELSE sender + 1
    BY <1>3 DEF SendChunk
  <2>2. e \in Inputs /\ e \in {"chunk", "lastChunk"}
    BY DEF Inputs, CommandInputs
  <2>3. sender' \in Nat
    BY <1>2, <2>1
  <2>4. sender' # 0 => e = "chunk"
    BY <2>1
  <2>. HIDE DEF e
  <2>5. /\ queue' \in Seq(Inputs)
        /\ InOrder(queue) /\ ~Queued(queue, "lastChunk") => InOrder(queue')
        /\ \A x : Queued(queue', x) <=> Queued(queue, x) \/ x = e
    BY <1>2, <2>1, <2>2, QueueGrows
  <2>6. (Succeeded' <=> Succeeded) /\ (Undone' <=> Undone)
    BY <1>1, <1>3 DEF Succeeded, Undone
  <2>7. ASSUME DeliveryIsInOrder  PROVE  DeliveryIsInOrder'
    <3>1. ~Queued(queue, "lastChunk") /\ writer.event # "Send" /\ InOrder(queue)
      BY <1>1, <2>7 DEF DeliveryIsInOrder
    <3>2. /\ matcher.phase = "Sending" \/ (matcher.phase = "Completed" /\ Undone)
          /\ ~(Undone /\ matcher.phase = "Sending")
      BY <1>1, <1>3, <2>7 DEF DeliveryIsInOrder, Delivering
    <3>3. sender' # 0 => ~Queued(queue', "lastChunk")
      BY <2>4, <2>5, <3>1
    <3>4. InOrder(queue)' /\ (sender # 0 => ~Queued(queue, "lastChunk") /\ writer.event # "Send")'
      BY <1>1, <2>5, <3>1, <3>3
    <3>. QED BY <1>1, <2>6, <3>1, <3>2, <3>4 DEF DeliveryIsInOrder
  <2>8. outcome' \in [completed : BOOLEAN, failure : BOOLEAN]
    BY <1>2, <1>3
  <2>. QED BY <1>1, <1>2, <2>3, <2>5, <2>6, <2>7, <2>8, SideStep
<1>4. CASE ~(term.running /\ writer.state = "up" /\ UNCHANGED outcome)
  <2>1. /\ ~term.running \/ writer.state # "up"
        /\ sender' = 0 /\ outcome' = HandledOutcome(outcome, "Failed") /\ UNCHANGED queue
    BY <1>4 DEF SendChunk, Fail
  <2>2. /\ outcome' \in [completed : BOOLEAN, failure : BOOLEAN]
        /\ (outcome'.completed <=> outcome.completed) /\ outcome'.failure
    BY <1>2, <2>1, FailRecords DEF Fails
  <2>3. (Succeeded' <=> Succeeded) /\ Undone'
    <3>1. writer' = writer
      BY <1>1
    <3>. QED BY <2>2, <3>1, Zenon DEF Succeeded, Undone
  <2>4. ASSUME DeliveryIsInOrder  PROVE  (Undone \/ matcher.phase = "Sending") /\ DeliveryIsInOrder'
    <3>1. ~Queued(queue, "lastChunk") /\ writer.event # "Send" /\ InOrder(queue)
      BY <1>1, <2>4 DEF DeliveryIsInOrder
    <3>2. matcher.phase = "Sending" \/ (matcher.phase = "Completed" /\ Undone)
      BY <1>1, <2>4 DEF DeliveryIsInOrder, Delivering
    <3>3. ~Delivering'
      BY <1>1, <2>1, <3>1 DEF Delivering
    <3>. QED BY <1>1, <2>1, <2>3, <3>1, <3>2, <3>3 DEF DeliveryIsInOrder
  <2>. QED BY <1>1, <1>2, <2>1, <2>2, <2>3, <2>4, SideStep
<1>. QED BY <1>3, <1>4

\* The event of a flush is handled.
LEMMA FlushStep ==
  ASSUME ReadInv, HandleFlush
  PROVE  ReadInv'
<1>1. /\ UNCHANGED <<steps, matcher, window, failMatch, queue, expired, seen, rest, sent>>
      /\ writer' = [writer EXCEPT !.event = "None"]
      /\ outcome' = HandledOutcome(outcome, writer.event) /\ sender' = Handled(sender, writer.event)
  BY DEF HandleFlush
<1>2. /\ outcome \in [completed : BOOLEAN, failure : BOOLEAN] /\ sender \in Nat /\ queue' \in Seq(Inputs)
      /\ writer \in [state : {"up", "failed", "ended", "aborted"}, event : Events]
  BY <1>1, TaskTypes
<1>3. /\ writer' \in [state : {"up", "failed", "ended", "aborted"}, event : Events]
      /\ writer'.event = "None" /\ writer'.state = writer.state
  <2>1. "None" \in Events
    BY DEF Events
  <2>. QED BY <1>1, <1>2, <2>1
<1>4. /\ outcome' \in [completed : BOOLEAN, failure : BOOLEAN]
      /\ outcome'.completed <=> outcome.completed \/ writer.event = "SequenceCompleted"
      /\ outcome'.failure <=> outcome.failure \/ Fails(writer.event)
  BY <1>1, <1>2, FailRecords
<1>5. sender' \in Nat /\ (sender' # 0 <=> sender # 0 \/ writer.event = "Send")
  BY <1>1, <1>2 DEF Handled
<1>6. (Succeeded' <=> Succeeded) /\ (Undone' <=> Undone)
  BY <1>1, <1>3, <1>4 DEF Succeeded, Undone, Fails
<1>7. DeliveryIsInOrder => DeliveryIsInOrder'
  BY <1>1, <1>3, <1>5, <1>6 DEF DeliveryIsInOrder, Delivering
<1>. QED BY <1>1, <1>2, <1>3, <1>4, <1>5, <1>6, <1>7, SideStep

\* The writer ends or is aborted, and what is queued is dropped.
LEMMA DropStep ==
  ASSUME ReadInv, queue' = <<>>, DropInputs(queue), NEW st \in {"failed", "aborted"},
         writer' = [writer EXCEPT !.state = st],
         UNCHANGED <<steps, matcher, window, failMatch, sender, expired, seen, rest, sent>>
  PROVE  ReadInv'
<1>1. /\ outcome \in [completed : BOOLEAN, failure : BOOLEAN] /\ sender' \in Nat /\ queue \in Seq(Inputs)
      /\ writer \in [state : {"up", "failed", "ended", "aborted"}, event : Events]
  BY TaskTypes
<1>2. /\ writer' \in [state : {"up", "failed", "ended", "aborted"}, event : Events]
      /\ writer'.event = writer.event /\ writer'.state # "up"
  BY <1>1
<1>3. queue' \in Seq(Inputs) /\ InOrder(queue') /\ \A x : ~Queued(queue', x)
  BY QueueEmpty
<1>4. CASE Queued(queue, "chunk") \/ Queued(queue, "lastChunk")
  <2>1. outcome' = HandledOutcome(outcome, "Failed")
    <3>1. \E i \in 1..Len(queue) : queue[i] \in CommandInputs
      BY <1>4 DEF Queued, CommandInputs
    <3>. QED BY <3>1 DEF DropInputs, Fail
  <2>2. /\ outcome' \in [completed : BOOLEAN, failure : BOOLEAN]
        /\ (outcome'.completed <=> outcome.completed) /\ outcome'.failure
    BY <1>1, <2>1, FailRecords DEF Fails
  <2>3. (Succeeded' <=> Succeeded) /\ Undone'
    BY <1>2, <2>2, Zenon DEF Succeeded, Undone
  <2>4. DeliveryIsInOrder => (Undone \/ matcher.phase = "Sending") /\ DeliveryIsInOrder'
    BY <1>2, <1>3, <1>4, <2>3 DEF DeliveryIsInOrder, Delivering
  <2>. QED BY <1>1, <1>2, <1>3, <2>2, <2>3, <2>4, SideStep
<1>5. CASE ~(Queued(queue, "chunk") \/ Queued(queue, "lastChunk"))
  <2>1. UNCHANGED outcome
    <3>1. ~\E i \in 1..Len(queue) : queue[i] \in CommandInputs
      BY <1>5 DEF Queued, CommandInputs
    <3>. QED BY <3>1 DEF DropInputs
  <2>2. (Succeeded' <=> Succeeded) /\ (Undone' <=> Undone)
    BY <1>2, <2>1 DEF Succeeded, Undone
  <2>3. DeliveryIsInOrder => DeliveryIsInOrder'
    BY <1>2, <1>3, <2>2 DEF DeliveryIsInOrder, Delivering
  <2>. QED BY <1>1, <1>2, <1>3, <2>1, <2>2, <2>3, SideStep
<1>. QED BY <1>4, <1>5

\* The writer has nothing more to write.
LEMMA WriterEndsStep ==
  ASSUME ReadInv, WriterEnds
  PROVE  ReadInv'
<1>1. /\ UNCHANGED <<steps, matcher, outcome, window, failMatch, sender, queue, expired, seen, rest, sent>>
      /\ writer' = [writer EXCEPT !.state = "ended"]
  BY DEF WriterEnds
<1>2. /\ writer' \in [state : {"up", "failed", "ended", "aborted"}, event : Events]
      /\ writer'.event = writer.event /\ writer'.state # "up"
  BY <1>1, TaskTypes
<1>3. (Succeeded' <=> Succeeded) /\ (Undone' <=> Undone)
  BY <1>1, <1>2 DEF Succeeded, Undone
<1>4. DeliveryIsInOrder => DeliveryIsInOrder'
  BY <1>1, <1>2, <1>3 DEF DeliveryIsInOrder, Delivering
<1>. QED BY <1>1, <1>2, <1>3, <1>4, TaskTypes, SideStep

\* The failure of a step that timed out is recorded.
LEMMA RecordStep ==
  ASSUME ReadInv, NEW k \in expired, RecordTimeout(k)
  PROVE  ReadInv'
<1>1. /\ UNCHANGED <<steps, matcher, window, failMatch, sender, queue, writer, seen, rest, sent>>
      /\ outcome' = HandledOutcome(outcome, "Failed")
  BY DEF RecordTimeout, Fail
<1>2. /\ outcome' \in [completed : BOOLEAN, failure : BOOLEAN]
      /\ (outcome'.completed <=> outcome.completed) /\ outcome'.failure
  BY <1>1, TaskTypes, FailRecords DEF Fails
<1>3. (Succeeded' <=> Succeeded) /\ Undone' /\ Undone
  <2>1. expired # {} /\ writer' = writer
    BY <1>1
  <2>. QED BY <1>2, <2>1, Zenon DEF Succeeded, Undone
<1>4. DeliveryIsInOrder => DeliveryIsInOrder'
  BY <1>1, <1>3 DEF DeliveryIsInOrder, Delivering
<1>. QED BY <1>1, <1>2, <1>3, <1>4, TaskTypes, SideStep

-----------------------------------------------------------------------------
(***************************************************************************)
(* The steps of the matcher.                                               *)
(***************************************************************************)
\* What the invariant says of the matcher.
LEMMA ReadTypes ==
  ASSUME ReadInv
  PROVE  /\ steps \in Seq(RawStep) /\ StepsAreSound /\ matcher \in Matcher
         /\ seen \in Text /\ rest \in Text /\ sent \in Nat
         /\ HasChecks => Follows(matcher, seen, rest) /\ EndsOnce /\ DeliveryIsInOrder
         /\ ~HasChecks => matcher.phase = "Completed" /\ ~Succeeded
BY DEF ReadInv, ConsoleTypeOK, ReadsInOrder

\* A step times out while it waits for its result.
LEMMA TimeoutStep ==
  ASSUME ReadInv, NEW k \in timers, StepTimeout(k)
  PROVE  ReadInv'
<1>1. CASE matcher.cur = k /\ matcher.phase = "WaitingForResult"
  <2>1. /\ matcher' = [matcher EXCEPT !.phase = "Completed"] /\ rest' = <<>> /\ expired' = expired \cup {k}
        /\ UNCHANGED <<steps, outcome, window, failMatch, sender, queue, writer, seen, sent>>
    BY <1>1 DEF StepTimeout
  <2>2. matcher' \in Matcher /\ matcher'.phase = "Completed" /\ matcher'.cur = matcher.cur
    <3>1. "Completed" \in Phases
      BY DEF Phases
    <3>. QED BY <2>1, <3>1, ReadTypes DEF Matcher
  <2>3. HasChecks /\ Follows(matcher, seen, rest) /\ EndsOnce /\ DeliveryIsInOrder
    BY <1>1, ReadTypes
  <2>4. ~Succeeded /\ Undone' /\ ~Succeeded'
    <3>1. ~Succeeded
      BY <1>1, <2>3 DEF EndsOnce
    <3>2. expired' # {}
      BY <2>1
    <3>. QED BY <2>1, <3>1, <3>2 DEF Succeeded, Undone
  <2>5. Follows(matcher, seen, rest)'
    BY <2>1, <2>2, <2>3 DEF Follows, Waiting
  <2>6. EndsOnce'
    BY <2>2, <2>4 DEF EndsOnce
  <2>7. DeliveryIsInOrder'
    BY <1>1, <2>1, <2>2, <2>3, <2>4 DEF DeliveryIsInOrder, Delivering
  <2>8. ReadsInOrder'
    BY <2>1, <2>3, <2>5, <2>6, <2>7 DEF ReadsInOrder, HasChecks
  <2>9. ConsoleTypeOK' /\ StepsAreSound' /\ WindowIsEnd'
    <3>1. <<>> \in Text
      BY DEF Text
    <3>. QED BY <2>1, <2>2, <3>1 DEF ReadInv, ConsoleTypeOK, StepsAreSound, WindowIsEnd
  <2>. QED BY <2>8, <2>9 DEF ReadInv
<1>2. CASE ~(matcher.cur = k /\ matcher.phase = "WaitingForResult")
  <2>1. UNCHANGED <<steps, matcher, outcome, window, failMatch, sender, queue, writer, expired, seen, rest, sent>>
    BY <1>2 DEF StepTimeout
  <2>. QED BY <2>1, IdleStep
<1>. QED BY <1>1, <1>2

\* A finite number of commands is written, and one more after one more flush.
LEMMA WrittenIsFinite ==
  ASSUME steps \in Seq(RawStep), NEW m
  PROVE  /\ IsFiniteSet(Written(m)) /\ Cardinality(Written(m)) \in Nat
         /\ \A k : k \notin Written(m) => Cardinality(Written(m) \cup {k}) = Cardinality(Written(m)) + 1
<1>1. IsFiniteSet(1..Len(steps))
  <2>1. Len(steps) \in Nat
    OBVIOUS
  <2>. QED BY <2>1, FS_Interval
<1>2. IsFiniteSet(Written(m))
  <2>1. Written(m) \subseteq 1..Len(steps)
    BY DEF Written
  <2>. QED BY <1>1, <2>1, FS_Subset
<1>3. Cardinality(Written(m)) \in Nat
  BY <1>2, FS_CardinalityType
<1>. QED BY <1>2, <1>3, FS_AddElement

\* An input is written; with the last chunk of a command the matcher goes on.
LEMMA WriteStep ==
  ASSUME ReadInv, WriteInput
  PROVE  ReadInv'
<1> DEFINE r == command_flushed(matcher)
<1>1. /\ writer = [state |-> "up", event |-> "None"] /\ queue # <<>> /\ queue' = Tail(queue)
      /\ UNCHANGED <<steps, outcome, window, failMatch, sender, expired, seen>>
  BY DEF WriteInput, WriterIdle
<1>2. /\ queue \in Seq(Inputs) /\ queue' \in Seq(Inputs) /\ Queued(queue, Head(queue))
      /\ \A x : Queued(queue', x) => Queued(queue, x)
      /\ InOrder(queue) => InOrder(queue')
      /\ InOrder(queue) /\ Head(queue) = "lastChunk" => \A x : Queued(queue', x) => x = "key"
  <2>1. queue \in Seq(Inputs)
    BY TaskTypes
  <2>. QED BY <1>1, <2>1, QueueShrinks
<1>3. writer.state = "up" /\ writer.event = "None"
  BY <1>1
<1>4. outcome \in [completed : BOOLEAN, failure : BOOLEAN] /\ sender \in Nat
  BY TaskTypes
<1>5. CASE Head(queue) # "lastChunk"
  <2>1. UNCHANGED <<matcher, rest, sent>> /\ writer' = writer
    BY <1>1, <1>5 DEF WriteInput
  <2>2. /\ writer' \in [state : {"up", "failed", "ended", "aborted"}, event : Events]
    BY <2>1, TaskTypes
  <2>3. (Succeeded' <=> Succeeded) /\ (Undone' <=> Undone)
    BY <1>1, <2>1 DEF Succeeded, Undone
  <2>4. ASSUME DeliveryIsInOrder  PROVE  DeliveryIsInOrder'
    <3>1. Delivering' => Delivering
      BY <1>1, <1>2, <2>1 DEF Delivering
    <3>2. InOrder(queue)'
      BY <1>2, <2>4 DEF DeliveryIsInOrder
    <3>. QED BY <1>1, <1>2, <2>1, <2>3, <2>4, <3>1, <3>2 DEF DeliveryIsInOrder
  <2>. QED BY <1>1, <1>2, <1>4, <2>1, <2>2, <2>3, <2>4, SideStep
<1>6. CASE Head(queue) = "lastChunk"
  <2>1. /\ matcher' = r.m /\ rest' = NewRest(matcher, r, <<>>) /\ sent' = sent + 1
        /\ writer' = [writer EXCEPT !.event = r.event]
    BY <1>6 DEF WriteInput
  <2>2. writer'.state = "up" /\ writer'.event = r.event /\ writer' = [state |-> "up", event |-> r.event]
    BY <1>1, <2>1
  <2>3. Queued(queue, "lastChunk")
    BY <1>2, <1>6
  <2>4. CASE matcher.phase # "Sending"
    <3>1. r = [m |-> matcher, t |-> <<>>, event |-> "None"]
      BY <2>4 DEF command_flushed
    <3>2. matcher' = matcher /\ writer' = writer
      BY <1>1, <2>1, <2>2, <3>1
    <3>3. matcher.phase = "Completed" /\ (HasChecks => Undone)
      BY <2>3, <2>4, ReadTypes DEF DeliveryIsInOrder, Delivering
    <3>4. rest' = <<>> /\ rest' \in Text
      BY <2>1, <3>1, <3>3 DEF NewRest, Waiting, Text
    <3>5. (Succeeded' <=> Succeeded) /\ (Undone' <=> Undone)
      BY <1>1, <3>2 DEF Succeeded, Undone
    <3>6. ConsoleTypeOK' /\ StepsAreSound' /\ WindowIsEnd'
      BY <1>1, <1>2, <2>1, <3>2, <3>4 DEF ReadInv, ConsoleTypeOK, StepsAreSound, WindowIsEnd, Inputs
    <3>7. ReadsInOrder'
      <4>1. CASE ~HasChecks
        BY <1>1, <3>2, <3>5, <4>1, ReadTypes DEF ReadsInOrder, HasChecks
      <4>2. CASE HasChecks
        <5>1. Follows(matcher, seen, rest) /\ EndsOnce /\ DeliveryIsInOrder /\ Undone /\ ~Succeeded
          BY <3>3, <4>2, ReadTypes DEF EndsOnce
        <5>2. Follows(matcher, seen, rest)'
          BY <1>1, <3>2, <3>3, <5>1 DEF Follows, Waiting
        <5>3. EndsOnce'
          BY <3>2, <3>3, <3>5, <5>1 DEF EndsOnce
        <5>4. DeliveryIsInOrder'
          <6>1. Delivering' => Delivering
            BY <1>1, <1>2, <3>2 DEF Delivering
          <6>2. InOrder(queue)'
            BY <1>2, <5>1 DEF DeliveryIsInOrder
          <6>. QED BY <1>1, <1>2, <3>2, <3>3, <3>5, <5>1, <6>1, <6>2 DEF DeliveryIsInOrder
        <5>. QED BY <1>1, <4>2, <5>2, <5>3, <5>4 DEF ReadsInOrder, HasChecks
      <4>. QED BY <4>1, <4>2
    <3>. QED BY <3>6, <3>7 DEF ReadInv
  <2>5. CASE matcher.phase = "Sending"
    <3>1. /\ steps \in Seq(RawStep) /\ StepsAreSound /\ matcher \in Matcher /\ seen \in Text /\ sent \in Nat
          /\ HasChecks /\ Follows(matcher, seen, rest) /\ EndsOnce /\ DeliveryIsInOrder
      BY <2>5, ReadTypes
    <3>2. Reads(r, rest', seen, Written(matcher) \cup {matcher.cur}) /\ matcher.cur \notin Written(matcher)
      BY <2>1, <2>5, <3>1, FlushReads
    <3>. HIDE DEF r
    <3>3. /\ matcher' \in Matcher /\ rest' \in Text /\ r.event \in Events /\ Follows(matcher', seen, rest')
          /\ Waiting(matcher') => r.event \in {"None", "StepCompleted"}
          /\ matcher'.phase = "Sending" => r.event = "Send"
          /\ matcher'.phase = "Completed" =>
               \/ Fails(r.event)
               \/ /\ r.event = "SequenceCompleted" /\ matcher'.cur = Len(steps)
                  /\ ReadOff(steps, seen)[Len(steps)] # None
          /\ ~Fails(r.event) => Written(matcher') = Written(matcher) \cup {matcher.cur}
      BY <2>1, <3>2 DEF Reads
    <3>4. matcher'.phase \in {"WaitingForPrefix", "Sending", "WaitingForResult", "Completed"}
      BY <3>3 DEF Matcher, Phases
    <3>5. ~Succeeded /\ ~Undone /\ sender = 0 /\ InOrder(queue) /\ sent = Cardinality(Written(matcher))
      <4>1. ~Undone
        BY <1>3, <2>3, <2>5, <3>1 DEF DeliveryIsInOrder, Delivering
      <4>. QED BY <2>3, <2>5, <3>1, <4>1 DEF DeliveryIsInOrder, EndsOnce
    <3>6. (Succeeded' <=> r.event = "SequenceCompleted") /\ (Undone' <=> Fails(r.event))
      BY <1>1, <2>2, <3>5 DEF Succeeded, Undone
    <3>7. ConsoleTypeOK' /\ StepsAreSound' /\ WindowIsEnd'
      <4>1. writer' \in [state : {"up", "failed", "ended", "aborted"}, event : Events]
        BY <2>2, <3>3
      <4>. QED BY <1>1, <1>2, <2>1, <3>1, <3>3, <4>1 DEF ReadInv, ConsoleTypeOK, StepsAreSound, WindowIsEnd, Inputs
    <3>8. Follows(matcher, seen, rest)'
      <4>1. steps' = steps /\ seen' = seen
        BY <1>1
      <4>. QED BY <3>3, <4>1 DEF Follows
    <3>9. EndsOnce'
      <4>1. ~Fails(r.event) => sent' = Cardinality(Written(matcher'))
        BY <2>1, <3>1, <3>2, <3>3, <3>5, WrittenIsFinite
      <4>2. Written(matcher)' = Written(matcher')
        BY <1>1 DEF Written
      <4>3. r.event = "SequenceCompleted" => ~Fails(r.event) /\ matcher'.phase = "Completed"
        BY <3>3, <3>4 DEF Fails, Waiting
      <4>4. Fails(r.event) => matcher'.phase = "Completed"
        BY <3>3, <3>4 DEF Fails, Waiting
      <4>5. steps' = steps /\ seen' = seen
        BY <1>1
      <4>6. r.event = "SequenceCompleted" => /\ matcher'.cur = Len(steps)
                                             /\ ReadOff(steps, seen)[Len(steps)] # None
        BY <3>3, <4>3
      <4>. QED BY <3>3, <3>6, <4>1, <4>2, <4>3, <4>4, <4>5, <4>6 DEF EndsOnce
    <3>10. DeliveryIsInOrder'
      <4>1. InOrder(queue') /\ ~Queued(queue', "chunk") /\ ~Queued(queue', "lastChunk")
        BY <1>2, <1>6, <3>5
      <4>2. r.event = "Send" => matcher'.phase = "Sending"
        BY <3>3, <3>4 DEF Fails, Waiting
      <4>3. Fails(r.event) => matcher'.phase = "Completed"
        BY <3>3, <3>4 DEF Fails, Waiting
      <4>4. sender' = 0
        BY <1>1, <3>5
      <4>. QED BY <2>2, <3>6, <4>1, <4>2, <4>3, <4>4 DEF DeliveryIsInOrder, Delivering
    <3>11. ReadsInOrder'
      BY <1>1, <3>1, <3>8, <3>9, <3>10 DEF ReadsInOrder, HasChecks
    <3>. QED BY <3>7, <3>11 DEF ReadInv
  <2>. QED BY <2>4, <2>5
<1>. QED BY <1>5, <1>6

\* A chunk is a text with a letter in it.
LEMMA ChunksAreText ==
  ASSUME NEW t \in Chunks
  PROVE  t \in Text /\ t # <<>>
<1>1. PICK n \in 1..MaxChunk : t \in [1..n -> Letters]
  BY DEF Chunks
<1>2. MaxChunk \in Nat
  BY ConsoleAssumption
<1>3. n \in Nat /\ n # 0
  BY <1>1, <1>2
<1>4. t \in Seq(Letters) /\ Len(t) = n
  BY <1>1, <1>3
<1>. QED BY <1>3, <1>4 DEF Text

\* A fail pattern is found in the window when it is in what was read, and not before.
LEMMA WindowStep ==
  ASSUME PatternsFit, ReadInv, NEW t \in Text, Output(t)
  PROVE  WindowIsEnd' /\ window' \in Text /\ failMatch' \in {"none", "matched", "due"}
<1> DEFINE hit == failMatch = "none" /\ Found({p \in FailPatterns : Len(p) <= MatchWindow}, window \o t)
<1>1. /\ window' = EndOf(window \o t, MatchWindow) /\ failMatch' = (IF hit THEN "matched" ELSE failMatch)
      /\ seen' = seen \o t
  BY DEF Output
<1>2. /\ seen \in Text /\ window \in Text /\ window = EndOf(seen, MatchWindow) /\ MatchWindow \in Nat
      /\ failMatch = "none" => ~Found(FailPatterns, seen)
      /\ failMatch \in {"none", "matched", "due"}
  BY ConsoleAssumption DEF ReadInv, ConsoleTypeOK, WindowIsEnd
<1>3. {p \in FailPatterns : Len(p) <= MatchWindow} = FailPatterns
  BY DEF PatternsFit
<1>4. /\ FailPatterns \subseteq Text /\ \A p \in FailPatterns : Len(p) <= MatchWindow + 1
  <2>1. FailPatterns \subseteq Text /\ \A p \in FailPatterns : Len(p) \in Nat
    BY ConsoleAssumption DEF Text
  <2>. QED BY <1>2, <2>1 DEF PatternsFit
<1>5. window' = EndOf(seen', MatchWindow)
  BY <1>1, <1>2, WindowMoves
<1>6. failMatch = "none" => (hit <=> Found(FailPatterns, seen'))
  <2>1. SUFFICES ASSUME failMatch = "none"  PROVE  hit <=> Found(FailPatterns, seen')
    OBVIOUS
  <2>2. ~Found(FailPatterns, seen)
    BY <1>2, <2>1
  <2>3. Found(FailPatterns, EndOf(seen, MatchWindow) \o t) <=> Found(FailPatterns, seen \o t)
    BY <1>2, <1>4, <2>2, WindowFinds
  <2>4. hit <=> Found(FailPatterns, window \o t)
    BY <1>3, <2>1
  <2>. HIDE DEF hit
  <2>. QED BY <1>1, <1>2, <2>3, <2>4
<1>. HIDE DEF hit
<1>7. failMatch' = "none" => ~Found(FailPatterns, seen')
  BY <1>1, <1>6
<1>8. window \o t \in Text
  BY <1>2, LettersOfBoth
<1>9. window' \in Text
  BY <1>1, <1>2, <1>8, EndIsText
<1>. QED BY <1>1, <1>2, <1>5, <1>7, <1>9 DEF WindowIsEnd

\* The loop reads a chunk.
LEMMA OutputStep ==
  ASSUME PatternsFit, ReadInv, NEW t \in Text, t # <<>>, Output(t)
  PROVE  ReadInv'
<1> DEFINE r == observe_chunk(matcher, t)
<1>1. /\ matcher' = r.m /\ outcome' = HandledOutcome(outcome, r.event) /\ sender' = Handled(sender, r.event)
      /\ rest' = NewRest(matcher, r, t) /\ seen' = seen \o t
      /\ UNCHANGED <<steps, queue, writer, expired, sent>>
  BY DEF Output
<1>2. /\ steps \in Seq(RawStep) /\ StepsAreSound /\ matcher \in Matcher /\ seen \in Text /\ rest \in Text
      /\ sent \in Nat /\ seen \o t \in Text
      /\ matcher.phase \in {"WaitingForPrefix", "Sending", "WaitingForResult", "Completed"}
      /\ HasChecks => Follows(matcher, seen, rest) /\ EndsOnce /\ DeliveryIsInOrder
      /\ ~HasChecks => matcher.phase = "Completed" /\ ~Succeeded
  <2>1. steps \in Seq(RawStep) /\ StepsAreSound /\ matcher \in Matcher /\ seen \in Text
    BY ReadTypes
  <2>2. seen \o t \in Text
    BY <2>1, LettersOfBoth
  <2>3. matcher.phase \in {"WaitingForPrefix", "Sending", "WaitingForResult", "Completed"}
    BY <2>1 DEF Matcher, Phases
  <2>. QED BY <2>1, <2>2, <2>3, ReadTypes
<1>3. /\ outcome \in [completed : BOOLEAN, failure : BOOLEAN] /\ sender \in Nat /\ queue \in Seq(Inputs)
      /\ writer \in [state : {"up", "failed", "ended", "aborted"}, event : Events]
  BY TaskTypes
<1>4. /\ outcome' \in [completed : BOOLEAN, failure : BOOLEAN]
      /\ outcome'.completed <=> outcome.completed \/ r.event = "SequenceCompleted"
      /\ outcome'.failure <=> outcome.failure \/ Fails(r.event)
  BY <1>1, <1>3, FailRecords
<1>5. sender' \in Nat /\ (sender' # 0 <=> sender # 0 \/ r.event = "Send")
  BY <1>1, <1>3 DEF Handled
<1>6. /\ Succeeded' <=> Succeeded \/ r.event = "SequenceCompleted"
      /\ Undone' <=> Undone \/ Fails(r.event)
  BY <1>1, <1>4, Zenon DEF Succeeded, Undone
<1>7. (HasChecks' <=> HasChecks) /\ StepsAreSound'
  BY <1>1, <1>2 DEF HasChecks, StepsAreSound
<1>8. WindowIsEnd' /\ window' \in Text /\ failMatch' \in {"none", "matched", "due"}
  BY WindowStep
<1>9. ASSUME matcher' \in Matcher, rest' \in Text  PROVE  ConsoleTypeOK'
  BY <1>1, <1>2, <1>3, <1>4, <1>5, <1>8, <1>9 DEF ConsoleTypeOK, Inputs
<1>10. ASSUME matcher.phase = "Completed"  PROVE  ReadInv'
  <2>1. r = [m |-> matcher, t |-> <<>>, event |-> "None"]
    BY <1>10 DEF observe_chunk
  <2>2. matcher' = matcher /\ rest' = <<>> /\ <<>> \in Text /\ r.event = "None"
    BY <1>1, <1>10, <2>1 DEF NewRest, Waiting, Text
  <2>. HIDE DEF r
  <2>3. (Succeeded' <=> Succeeded) /\ (Undone' <=> Undone) /\ (sender' # 0 <=> sender # 0)
    BY <1>5, <1>6, <2>2 DEF Fails
  <2>4. ASSUME HasChecks  PROVE  (Follows(matcher, seen, rest) /\ EndsOnce /\ DeliveryIsInOrder)'
    <3>1. Follows(matcher, seen, rest) /\ EndsOnce /\ DeliveryIsInOrder
      BY <1>2, <2>4
    <3>2. Follows(matcher, seen, rest)'
      BY <1>1, <1>10, <2>2, <3>1 DEF Follows, Waiting
    <3>3. Succeeded => ReadOff(steps, seen \o t)[Len(steps)] # None
      <4>1. SUFFICES ASSUME Succeeded  PROVE  ReadOff(steps, seen \o t)[Len(steps)] # None
        OBVIOUS
      <4>2. ReadOff(steps, seen)[Len(steps)] # None /\ Len(steps) \in 0..Len(steps)
        BY <1>2, <3>1, <4>1 DEF EndsOnce
      <4>3. /\ ReadOff(steps, seen)[Len(steps)] \in Text
            /\ ReadOff(steps, seen \o t)[Len(steps)] = ReadOff(steps, seen)[Len(steps)] \o t
        BY <1>2, <4>2, ReadsMore
      <4>. QED BY <4>3, LettersOfBoth, ConsoleAssumption
    <3>4. Written(matcher)' = Written(matcher)
      BY <1>1, <2>2 DEF Written
    <3>5. EndsOnce'
      BY <1>1, <2>2, <2>3, <3>1, <3>3, <3>4 DEF EndsOnce
    <3>6. DeliveryIsInOrder'
      BY <1>1, <2>2, <2>3, <3>1 DEF DeliveryIsInOrder, Delivering
    <3>. QED BY <3>2, <3>5, <3>6
  <2>5. ReadsInOrder'
    BY <1>2, <1>7, <1>10, <2>2, <2>3, <2>4 DEF ReadsInOrder
  <2>. QED BY <1>2, <1>7, <1>8, <1>9, <2>2, <2>5 DEF ReadInv
<1>11. ASSUME Waiting(matcher)  PROVE  ReadInv'
  <2>1. HasChecks /\ Follows(matcher, seen, rest) /\ EndsOnce /\ DeliveryIsInOrder /\ matcher.phase \notin {"Sending", "Completed"}
    BY <1>2, <1>11 DEF Waiting
  <2>2. Reads(r, rest', seen \o t, Written(matcher))
    BY <1>1, <1>2, <1>11, <2>1, ObserveReads
  <2>. HIDE DEF r
  <2>3. /\ matcher' \in Matcher /\ rest' \in Text /\ Follows(matcher', seen', rest')
        /\ Waiting(matcher') => r.event \in {"None", "StepCompleted"}
        /\ matcher'.phase = "Sending" => r.event = "Send"
        /\ matcher'.phase = "Completed" =>
             \/ Fails(r.event)
             \/ /\ r.event = "SequenceCompleted" /\ matcher'.cur = Len(steps)
                /\ ReadOff(steps, seen')[Len(steps)] # None
        /\ ~Fails(r.event) => Written(matcher') = Written(matcher)
    BY <1>1, <2>2 DEF Reads
  <2>4. matcher'.phase \in {"WaitingForPrefix", "Sending", "WaitingForResult", "Completed"}
    BY <2>3 DEF Matcher, Phases
  <2>5. /\ ~Succeeded /\ ~Undone /\ sender = 0 /\ writer.event # "Send" /\ InOrder(queue)
        /\ ~Queued(queue, "chunk") /\ ~Queued(queue, "lastChunk") /\ sent = Cardinality(Written(matcher))
    BY <2>1 DEF EndsOnce, DeliveryIsInOrder, Delivering
  <2>6. (Succeeded' <=> r.event = "SequenceCompleted") /\ (Undone' <=> Fails(r.event))
    BY <1>6, <2>5
  <2>7. Follows(matcher, seen, rest)'
    BY <1>1, <2>3 DEF Follows
  <2>8. /\ Fails(r.event) => matcher'.phase = "Completed"
        /\ r.event = "SequenceCompleted" => matcher'.phase = "Completed" /\ ~Fails(r.event)
        /\ r.event = "Send" => matcher'.phase = "Sending" /\ ~Fails(r.event)
    BY <2>3, <2>4 DEF Fails, Waiting
  <2>9. EndsOnce'
    <3>1. Written(matcher)' = Written(matcher')
      BY <1>1 DEF Written
    <3>2. r.event = "SequenceCompleted" => matcher'.cur = Len(steps) /\ ReadOff(steps, seen')[Len(steps)] # None
      BY <2>3, <2>8
    <3>3. ~Fails(r.event) => sent' = Cardinality(Written(matcher'))
      BY <1>1, <2>3, <2>5
    <3>4. steps' = steps
      BY <1>1
    <3>. QED BY <2>3, <2>6, <2>8, <3>1, <3>2, <3>3, <3>4 DEF EndsOnce
  <2>10. DeliveryIsInOrder'
    BY <1>1, <1>5, <2>5, <2>6, <2>8 DEF DeliveryIsInOrder, Delivering
  <2>11. ReadsInOrder'
    BY <1>7, <2>1, <2>7, <2>9, <2>10 DEF ReadsInOrder
  <2>. QED BY <1>7, <1>8, <1>9, <2>3, <2>11 DEF ReadInv
<1>12. ASSUME matcher.phase = "Sending"  PROVE  ReadInv'
  <2>1. HasChecks /\ Follows(matcher, seen, rest) /\ EndsOnce /\ DeliveryIsInOrder
    BY <1>2, <1>12
  <2>2. /\ r.m \in Matcher /\ r.m.cur = matcher.cur /\ r.event \in {"None", "LimitExceeded"}
        /\ Follows(r.m, seen \o t, <<>>)
        /\ r.event = "None" => r.m.phase = "Sending" /\ Written(r.m) = Written(matcher)
        /\ r.event = "LimitExceeded" => r.m.phase = "Completed"
    BY <1>2, <1>12, <2>1, ObserveKeeps
  <2>. HIDE DEF r
  <2>3. rest' = <<>> /\ rest' \in Text
    BY <1>1, <2>2 DEF NewRest, Waiting, Text
  <2>4. Follows(matcher, seen, rest)'
    BY <1>1, <2>2, <2>3 DEF Follows
  <2>5. /\ ~Succeeded /\ ~Succeeded' /\ (Undone' <=> Undone \/ r.event = "LimitExceeded")
        /\ sender' # 0 <=> sender # 0
        /\ sent = Cardinality(Written(matcher))
    BY <1>5, <1>6, <1>12, <2>1, <2>2 DEF EndsOnce, Fails
  <2>6. Written(matcher)' = Written(matcher')
    BY <1>1 DEF Written
  <2>7. EndsOnce'
    BY <1>1, <2>2, <2>5, <2>6 DEF EndsOnce
  <2>8. Delivering' <=> Delivering
    BY <1>1, <2>5 DEF Delivering
  <2>9. DeliveryIsInOrder'
    BY <1>1, <1>12, <2>1, <2>2, <2>5, <2>8 DEF DeliveryIsInOrder
  <2>10. ReadsInOrder'
    BY <1>7, <2>1, <2>4, <2>7, <2>9 DEF ReadsInOrder
  <2>. QED BY <1>1, <1>7, <1>8, <1>9, <2>2, <2>3, <2>10 DEF ReadInv
<1>. QED BY <1>2, <1>10, <1>11, <1>12 DEF Waiting

\* The drain of a fail pattern ends.
LEMMA DueStep ==
  ASSUME ReadInv, MatchDue
  PROVE  ReadInv'
<1>1. /\ UNCHANGED <<steps, matcher, window, seen, rest, sent, outcome, sender, queue, writer, expired>>
      /\ failMatch' = "due" /\ failMatch = "matched"
  BY DEF MatchDue
<1>2. ConsoleTypeOK' /\ StepsAreSound' /\ WindowIsEnd'
  BY <1>1 DEF ReadInv, ConsoleTypeOK, StepsAreSound, WindowIsEnd
<1>3. ReadsInOrder'
  BY <1>1 DEF ReadInv, ReadsInOrder, HasChecks, Follows, EndsOnce, DeliveryIsInOrder, Delivering, Succeeded, Undone, Written
<1>. QED BY <1>2, <1>3 DEF ReadInv

\* The loop, the user, the target and the runner read no output.
IdleActions ==
  \/ StopDeadline \/ TimeoutDeadline \/ OutputEnds
  \/ \E error \in BOOLEAN : InputEnds(error)
  \/ \E how \in {"exited", "failed"} : TargetEnds(how)
  \/ ShutdownReader \/ Verdict \/ Wait \/ MonitorFails

\* Every step keeps what is known of the output and of the commands.
LEMMA NextReadInv ==
  ASSUME PatternsFit, ReadInv, [Next]_vars
  PROVE  ReadInv'
<1> DEFINE same == UNCHANGED <<steps, matcher, outcome, window, failMatch, sender, queue, writer, expired, seen, rest, sent>>
<1>1. CASE UNCHANGED vars
  <2>1. same
    BY <1>1 DEF vars
  <2>. QED BY <2>1, IdleStep
<1>2. ASSUME NEW t \in Chunks, Output(t)  PROVE  ReadInv'
  BY <1>2, ChunksAreText, OutputStep
<1>3. CASE IdleActions
  <2>1. same
    BY <1>3 DEF IdleActions, StopDeadline, TimeoutDeadline, OutputEnds, InputEnds, LoopEnds, TargetEnds,
                ShutdownReader, Verdict, Wait, MonitorFails, Running
  <2>. QED BY <2>1, IdleStep
<1>4. ASSUME NEW stroke \in {"ctrlA", "x"}, Key(stroke)  PROVE  ReadInv'
  <2>1. \/ same
        \/ /\ queue' = Append(queue, "key")
           /\ UNCHANGED <<steps, matcher, outcome, window, failMatch, sender, writer, expired, seen, rest, sent>>
    BY <1>4 DEF Key, LoopEnds
  <2>. QED BY <2>1, IdleStep, KeyStep
<1>5. CASE WriteFails
  <2>1. /\ queue' = <<>> /\ DropInputs(queue) /\ writer' = [writer EXCEPT !.state = "failed"]
        /\ UNCHANGED <<steps, matcher, window, failMatch, sender, expired, seen, rest, sent>>
    BY <1>5 DEF WriteFails
  <2>. QED BY <2>1, DropStep
<1>6. CASE ShutdownWriter
  <2>1. \/ same
        \/ /\ queue' = <<>> /\ DropInputs(queue) /\ writer' = [writer EXCEPT !.state = "aborted"]
           /\ UNCHANGED <<steps, matcher, window, failMatch, sender, expired, seen, rest, sent>>
    BY <1>6 DEF ShutdownWriter, Running
  <2>. QED BY <2>1, IdleStep, DropStep
<1>7. ASSUME NEW k \in timers, StepTimeout(k)  PROVE  ReadInv'
  BY <1>7, TimeoutStep
<1>8. ASSUME NEW k \in expired, RecordTimeout(k)  PROVE  ReadInv'
  BY <1>8, RecordStep
<1>9. CASE MatchDue
  BY <1>9, DueStep
<1>10. CASE SendChunk
  BY <1>10, SendStep
<1>11. CASE WriteInput
  BY <1>11, WriteStep
<1>12. CASE HandleFlush
  BY <1>12, FlushStep
<1>13. CASE WriterEnds
  BY <1>13, WriterEndsStep
<1>. QED BY <1>1, <1>2, <1>3, <1>4, <1>5, <1>6, <1>7, <1>8, <1>9, <1>10, <1>11, <1>12, <1>13, Zenon DEF Next, IdleActions

\* What has completed stays completed.
LEMMA NothingIsUndone ==
  ASSUME ReadInv, [Next]_vars
  PROVE  UNCHANGED steps /\ (outcome.completed => outcome'.completed)
<1>1. outcome \in [completed : BOOLEAN, failure : BOOLEAN]
  BY TaskTypes
<1>2. UNCHANGED outcome \/ \E event : outcome' = HandledOutcome(outcome, event)
  <2>1. ASSUME NEW t \in Chunks, Output(t)  PROVE  \E event : outcome' = HandledOutcome(outcome, event)
    BY <2>1 DEF Output
  <2>2. ASSUME HandleFlush  PROVE  \E event : outcome' = HandledOutcome(outcome, event)
    BY <2>2 DEF HandleFlush
  <2>3. ASSUME Fail  PROVE  \E event : outcome' = HandledOutcome(outcome, event)
    BY <2>3 DEF Fail
  <2>4. ASSUME NEW q, DropInputs(q)  PROVE  UNCHANGED outcome \/ Fail
    BY <2>4 DEF DropInputs
  <2>5. CASE SendChunk
    BY <2>3, <2>5 DEF SendChunk
  <2>6. CASE WriteFails \/ ShutdownWriter
    BY <2>3, <2>4, <2>6 DEF WriteFails, ShutdownWriter
  <2>7. ASSUME NEW k \in expired, RecordTimeout(k)  PROVE  \E event : outcome' = HandledOutcome(outcome, event)
    BY <2>3, <2>7 DEF RecordTimeout
  <2>8. CASE IdleActions
    BY <2>8 DEF IdleActions, StopDeadline, TimeoutDeadline, OutputEnds, InputEnds, LoopEnds, TargetEnds,
                ShutdownReader, Verdict, Wait, MonitorFails
  <2>9. ASSUME NEW stroke \in {"ctrlA", "x"}, Key(stroke)  PROVE  UNCHANGED outcome
    BY <2>9 DEF Key, LoopEnds
  <2>10. CASE MatchDue \/ WriteInput \/ WriterEnds \/ UNCHANGED vars
    BY <2>10 DEF MatchDue, WriteInput, WriterEnds, vars
  <2>11. ASSUME NEW k \in timers, StepTimeout(k)  PROVE  UNCHANGED outcome
    BY <2>11 DEF StepTimeout
  <2>. QED BY <2>1, <2>2, <2>5, <2>6, <2>7, <2>8, <2>9, <2>10, <2>11, Zenon DEF Next, IdleActions
<1>3. outcome.completed => outcome'.completed
  BY <1>1, <1>2, FailRecords
<1>4. UNCHANGED steps
  BY DEF Next, vars, Output, MatchDue, StopDeadline, TimeoutDeadline, OutputEnds, Key, InputEnds, LoopEnds,
         SendChunk, WriteInput, HandleFlush, WriteFails, WriterEnds, StepTimeout, RecordTimeout, TargetEnds,
         ShutdownWriter, ShutdownReader, Verdict, Wait, MonitorFails, Running
<1>. QED BY <1>3, <1>4

\* A result is final, and Ok is returned only where nothing failed.
LEMMA ResultIsFinal ==
  ASSUME ReadInv, [Next]_vars
  PROVE  /\ runnerStage = "done" => /\ UNCHANGED <<runnerStage, result>>
                                    /\ failMatch = "none" => failMatch' = "none"
         /\ runnerStage # "done" =>
              \/ UNCHANGED result
              \/ result' = "Err"
              \/ /\ result' = "Ok" /\ runnerStage' = "done"
                 /\ failMatch = "none" /\ failMatch' = "none"
                 /\ HasChecks => outcome.completed
<1>1. ASSUME NEW x, into_result(x) = "Ok"
      PROVE  failMatch = "none" /\ (HasChecks => outcome.completed)
  BY <1>1 DEF into_result, completion_error
<1>2. \A x : into_result(x) \in {"Ok", "Err"}
  BY DEF into_result
<1>3. CASE Verdict \/ Wait
  BY <1>1, <1>2, <1>3 DEF Verdict, Wait, Returns, Running
<1>4. CASE ShutdownWriter \/ ShutdownReader \/ MonitorFails
  BY <1>4 DEF ShutdownWriter, ShutdownReader, MonitorFails, Returns, Running
<1>5. ASSUME NEW t \in Chunks, Output(t)  PROVE  runnerStage = "terminal" /\ UNCHANGED result
  BY <1>5 DEF Output
<1>6. CASE \/ StopDeadline \/ TimeoutDeadline \/ OutputEnds
           \/ \E stroke \in {"ctrlA", "x"} : Key(stroke)
           \/ \E error \in BOOLEAN : InputEnds(error)
  BY <1>6 DEF StopDeadline, TimeoutDeadline, OutputEnds, Key, InputEnds, LoopEnds
<1>7. CASE \/ MatchDue \/ SendChunk \/ WriteInput \/ HandleFlush \/ WriteFails \/ WriterEnds
           \/ \E k \in timers : StepTimeout(k)
           \/ \E k \in expired : RecordTimeout(k)
           \/ \E how \in {"exited", "failed"} : TargetEnds(how)
           \/ UNCHANGED vars
  BY <1>7 DEF MatchDue, SendChunk, WriteInput, HandleFlush, WriteFails, WriterEnds, StepTimeout, RecordTimeout,
              TargetEnds, vars
<1>. QED BY <1>3, <1>4, <1>5, <1>6, <1>7 DEF Next

\* The whole invariant is kept.
LEMMA NextConsoleInv ==
  ASSUME PatternsFit, ConsoleInv, [Next]_vars
  PROVE  ConsoleInv'
<1>1. ReadInv /\ OkIsFinal /\ ReadInv'
  BY NextReadInv DEF ConsoleInv
<1>2. UNCHANGED steps /\ (outcome.completed => outcome'.completed)
  BY <1>1, NothingIsUndone
<1>3. /\ runnerStage = "done" => /\ UNCHANGED <<runnerStage, result>>
                                 /\ failMatch = "none" => failMatch' = "none"
      /\ runnerStage # "done" =>
           \/ UNCHANGED result
           \/ result' = "Err"
           \/ /\ result' = "Ok" /\ runnerStage' = "done"
              /\ failMatch = "none" /\ failMatch' = "none"
              /\ HasChecks => outcome.completed
  BY <1>1, ResultIsFinal
<1>4. OkIsFinal'
  BY <1>1, <1>2, <1>3 DEF OkIsFinal, HasChecks
<1>. QED BY <1>1, <1>4 DEF ConsoleInv

\* When the last step has been read, every command was written.
LEMMA AllIsWritten ==
  ASSUME HasChecks, ReadInv, Succeeded
  PROVE  /\ ReadOff(steps, seen)[Len(steps)] # None
         /\ sent = Cardinality({k \in 1..Len(steps) : steps[k].command})
<1>1. EndsOnce /\ steps \in Seq(RawStep)
  BY ReadTypes
<1>2. /\ matcher.phase = "Completed" /\ matcher.cur = Len(steps) /\ sent = Cardinality(Written(matcher))
      /\ ReadOff(steps, seen)[Len(steps)] # None
  BY <1>1 DEF EndsOnce
<1>3. \A k \in 1..Len(steps) : k < Len(steps) \/ k = Len(steps)
  BY <1>1
<1>4. Written(matcher) = {k \in 1..Len(steps) : steps[k].command}
  BY <1>2, <1>3 DEF Written
<1>. QED BY <1>2, <1>4

\* The invariant is what the run promises of its verdict.
LEMMA VerdictFollows ==
  ASSUME ConsoleInv
  PROVE  VerdictIsRight
<1>1. ReadInv /\ OkIsFinal /\ outcome \in [completed : BOOLEAN, failure : BOOLEAN]
  BY TaskTypes DEF ConsoleInv
<1>2. ~(outcome.completed /\ outcome.failure)
  <2>1. outcome.completed => Succeeded
    BY Zenon DEF Succeeded
  <2>2. outcome.failure => Undone
    BY Zenon DEF Undone
  <2>. QED BY <1>1, <2>1, <2>2, ReadTypes DEF EndsOnce
<1>3. ASSUME result = "Ok"  PROVE  ~Found(FailPatterns, seen)
  BY <1>1, <1>3 DEF OkIsFinal, ReadInv, WindowIsEnd
<1>4. ASSUME result = "Ok", HasChecks
      PROVE  /\ ReadOff(steps, seen)[Len(steps)] # None
             /\ sent = Cardinality({k \in 1..Len(steps) : steps[k].command})
  <2>1. Succeeded
    BY <1>1, <1>4 DEF OkIsFinal, Succeeded
  <2>. QED BY <1>1, <1>4, <2>1, AllIsWritten
<1>5. NothingMissed
  <2>1. SUFFICES ASSUME HasChecks
                 PROVE  /\ matcher.phase = "WaitingForPrefix" => ~Found({steps[matcher.cur].prefix}, rest)
                        /\ matcher.phase = "WaitingForResult" =>
                             ~Found(steps[matcher.cur].success \cup steps[matcher.cur].fail, rest)
    BY DEF NothingMissed
  <2>2. Follows(matcher, seen, rest)
    BY <1>1, <2>1, ReadTypes
  <2>3. ASSUME NEW P, NEW Q, ~Found(P, rest), ~Found(Q, rest)  PROVE  ~Found(P \cup Q, rest)
    BY <2>3 DEF Found, Ends
  <2>. QED BY <2>2, <2>3 DEF Follows
<1>. QED BY <1>2, <1>3, <1>4, <1>5 DEF VerdictIsRight, VerdictIsEarned

\* A run with shell checks that returns Ok has read every prompt and result in
\* order, has written every command once, has met no fail pattern and no check
\* that failed; and no match is lost at a chunk boundary or behind a command:
\* true of every alphabet, configuration, runner, chunking and interleaving of
\* the loop, the sender, the writer, the timeouts and the runner, as long as a
\* pattern is not longer than what the matchers keep of the output.
THEOREM VerdictsAreRight ==
  ASSUME PatternsFit
  PROVE  Spec => []VerdictIsRight
<1>1. Init => ConsoleInv
  BY ConsoleInit
<1>2. ConsoleInv /\ [Next]_vars => ConsoleInv'
  BY NextConsoleInv
<1>3. ConsoleInv => VerdictIsRight
  BY VerdictFollows
<1>. QED BY <1>1, <1>2, <1>3, PTL DEF Spec
=============================================================================
