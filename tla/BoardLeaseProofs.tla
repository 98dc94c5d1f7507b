-------------------------- MODULE BoardLeaseProofs --------------------------
(***************************************************************************)
(* Proofs for any values of the constants: BoardLease, and further down    *)
(* the virtual lab, the files of a session and the settings of the server  *)
(* (VirtualLab, SessionFiles, ServerSetup), each with an inductive         *)
(* invariant of its own.                                                   *)
(***************************************************************************)
EXTENDS BoardLease, VirtualLab, SessionFiles, ServerSetup, TLAPS

USE NullAssumption, AutomaticAssumption, BoundsAssumption

\* A freshly built AppState (build_app_state) satisfies the inductive invariant.
LEMMA InitLeaseInv == Init => LeaseInv
  <1> SUFFICES ASSUME Init PROVE LeaseInv
    OBVIOUS
  <1> USE DEF Init
  <1>1. TypeOK
    BY DEF TypeOK, BoardLeaseState, SessionLifecycleState, ActorState, ReleaseStep, JobState, WsState, PowerCall
  <1>2. BoardNamesHolder /\ SessionOwnsBoard
    BY DEF BoardNamesHolder, SessionOwnsBoard
  <1>3. ReleaseFollowsActor
    BY DEF ReleaseFollowsActor
  <1>4. CallsHaveSessions /\ PowerHasHolder /\ AdminPowerExcludesLease
    BY DEF CallsHaveSessions, PowerHasHolder, AdminPowerExcludesLease
  <1> QED
    BY <1>1, <1>2, <1>3, <1>4 DEF LeaseInv

\* Creating a session, heartbeats, expiry, the sweeper and the delete handlers preserve the
\* invariant: create_session_inner claims only an Idle board, also when it is dropped after its
\* claim; the others touch no board.
LEMMA SessionStepKeepsLeaseInv ==
  ASSUME LeaseInv, NEW s \in Sessions, SessionStep(s) PROVE LeaseInv'
  <1> USE DEF LeaseInv, TypeOK, BoardNamesHolder, SessionOwnsBoard, ReleaseFollowsActor, CallsHaveSessions,
        PowerHasHolder, Stranded, AdminPowerExcludesLease, BoardLeaseState, SessionLifecycleState, ActorState,
        ReleaseStep, JobState, WsState, PowerCall, Goto, is_releasing,
        leaseVars, sessionVars, jobVars, wsVars, callVars, worldVars, budgetVars
  <1>1. CASE \E b \in Boards : ClaimBoard(s, b)
    BY <1>1 DEF ClaimBoard, allocatable
  <1>2. CASE InsertSession(s)
    BY <1>2 DEF InsertSession
  <1>3. CASE Heartbeat(s)
    BY <1>3 DEF Heartbeat
  <1>4. CASE Expire(s)
    BY <1>4 DEF Expire
  <1>5. CASE SweepSnapshot(s)
    BY <1>5 DEF SweepSnapshot, is_sweepable
  <1>6. CASE SweepStop(s)
    BY <1>6 DEF SweepStop, request_stop
  <1>7. CASE DeleteSession(s)
    BY <1>7 DEF DeleteSession, request_stop
  <1>8. CASE CreateDropped(s)
    BY <1>8 DEF CreateDropped, Fault
  <1> QED
    BY <1>1, <1>2, <1>3, <1>4, <1>5, <1>6, <1>7, <1>8 DEF SessionStep

\* run_session_actor preserves the invariant: it marks only a board its session owns.
LEMMA ActorStepKeepsLeaseInv ==
  ASSUME LeaseInv, NEW s \in Sessions, ActorStep(s) PROVE LeaseInv'
  <1> USE DEF LeaseInv, TypeOK, BoardNamesHolder, SessionOwnsBoard, ReleaseFollowsActor, CallsHaveSessions,
        PowerHasHolder, Stranded, AdminPowerExcludesLease, BoardLeaseState, SessionLifecycleState, ActorState,
        ReleaseStep, JobState, WsState, PowerCall, Goto, is_releasing,
        leaseVars, sessionVars, jobVars, wsVars, callVars, worldVars, budgetVars
  <1>1. CASE ActorBegin(s)
    BY <1>1 DEF ActorBegin, begin_release
  <1>2. CASE ActorMark(s)
    BY <1>2 DEF ActorMark
  <1>3. CASE ActorEnqueue(s)
    BY <1>3 DEF ActorEnqueue
  <1> QED
    BY <1>1, <1>2, <1>3 DEF ActorStep

\* Every step of process_release_job preserves the invariant; JobPowerOff moves the count of
\* power-offs and the flag together, JobComplete frees the board and the map entry together.
LEMMA JobStepKeepsLeaseInv ==
  ASSUME LeaseInv, NEW s \in Sessions, JobStep(s) PROVE LeaseInv'
  <1> USE DEF LeaseInv, TypeOK, BoardNamesHolder, SessionOwnsBoard, ReleaseFollowsActor, CallsHaveSessions,
        PowerHasHolder, Stranded, AdminPowerExcludesLease, BoardLeaseState, SessionLifecycleState, ActorState,
        ReleaseStep, JobState, WsState, PowerCall, Goto, is_releasing,
        leaseVars, sessionVars, jobVars, wsVars, callVars, worldVars, budgetVars
  <1>1. CASE JobStart(s)
    BY <1>1 DEF JobStart
  <1>2. CASE JobTasks(s)
    BY <1>2 DEF JobTasks, pending
  <1>3. CASE JobOwner(s)
    BY <1>3 DEF JobOwner
  <1>4. CASE JobTasksTimeout(s)
    BY <1>4 DEF JobTasksTimeout, pending
  <1>5. CASE JobPowerOff(s)
    <2>1. CASE "power" \in done[s]
      BY <1>5, <2>1 DEF JobPowerOff, pending
    <2>2. CASE "power" \notin done[s]
      <3>1. done' = [done EXCEPT ![s] = @ \cup {"power"}] /\ power' = power \ {board[s]}
            /\ relit' = relit \ {board[s]} /\ offs' = [offs EXCEPT ![s] = @ + 1] /\ files' = files
        BY <1>5, <2>2 DEF JobPowerOff, pending
      <3>2. s \in sessions /\ board[s] \in Boards /\ active[board[s]] = s
        BY <1>5 DEF JobPowerOff, pending
      <3>3. TypeOK' /\ BoardNamesHolder' /\ SessionOwnsBoard' /\ CallsHaveSessions' /\ AdminPowerExcludesLease'
        BY <1>5, <3>1, <3>2 DEF JobPowerOff, pending
      <3>4. ReleaseFollowsActor'
        BY <1>5, <2>2, <3>1, <3>2 DEF JobPowerOff, pending
      <3>5. PowerHasHolder'
        BY <1>5, <3>1, <3>2 DEF JobPowerOff, pending
      <3> QED
        BY <3>3, <3>4, <3>5
    <2> QED
      BY <2>1, <2>2
  <1>6. CASE JobPowerOffFails(s)
    BY <1>6 DEF JobPowerOffFails, RetryFails, attempts_left, pending, Fault
  <1>7. CASE JobSettle(s)
    BY <1>7 DEF JobSettle
  <1>8. CASE JobCleanFiles(s)
    <2>1. CASE "tftp" \in done[s]
      BY <1>8, <2>1 DEF JobCleanFiles, pending
    <2>2. CASE "tftp" \notin done[s]
      BY <1>8, <2>2 DEF JobCleanFiles, pending
    <2> QED
      BY <2>1, <2>2
  <1>9. CASE JobCleanFilesFails(s)
    BY <1>9 DEF JobCleanFilesFails, RetryFails, attempts_left, pending, Fault
  <1>10. CASE JobComplete(s)
    BY <1>10 DEF JobComplete, CanComplete
  <1>11. CASE JobMarkError(s)
    BY <1>11 DEF JobMarkError, next_round
  <1> QED
    BY <1>1, <1>2, <1>3, <1>4, <1>5, <1>6, <1>7, <1>8, <1>9, <1>10, <1>11 DEF JobStep

\* The serial WebSocket task preserves the invariant: its late power-on is remembered in relit.
LEMMA WsStepKeepsLeaseInv ==
  ASSUME LeaseInv, NEW s \in Sessions, WsStep(s) PROVE LeaseInv'
  <1> USE DEF LeaseInv, TypeOK, BoardNamesHolder, SessionOwnsBoard, ReleaseFollowsActor, CallsHaveSessions,
        PowerHasHolder, Stranded, AdminPowerExcludesLease, BoardLeaseState, SessionLifecycleState, ActorState,
        ReleaseStep, JobState, WsState, PowerCall, Goto, is_releasing,
        leaseVars, sessionVars, jobVars, wsVars, callVars, worldVars, budgetVars
  <1>1. CASE WsHandshake(s)
    BY <1>1 DEF WsHandshake, Request
  <1>2. CASE WsClaim(s)
    <2>1. CASE s \in serial_connected
      BY <1>2, <2>1 DEF WsClaim
    <2>2. CASE s \notin serial_connected
      BY <1>2, <2>2 DEF WsClaim
    <2> QED
      BY <2>1, <2>2
  <1>3. CASE WsUpgraded(s)
    BY <1>3 DEF WsUpgraded
  <1>4. CASE WsUpgradeFails(s)
    BY <1>4 DEF WsUpgradeFails, Fault
  <1>5. CASE WsOpened(s)
    BY <1>5 DEF WsOpened
  <1>6. CASE WsOpenFails(s)
    BY <1>6 DEF WsOpenFails, Fault
  <1>7. CASE PowerOnTask(s)
    BY <1>7 DEF PowerOnTask, PowerEffect
  <1>8. CASE PowerOnTaskFails(s)
    BY <1>8 DEF PowerOnTaskFails, Fault
  <1>9. CASE WsTransportEnds(s)
    BY <1>9 DEF WsTransportEnds
  <1>10. CASE WsFinalized(s)
    BY <1>10 DEF WsFinalized
  <1>11. CASE WsStop(s)
    <2>1. stop_requested' \in SUBSET Sessions
      BY <1>11 DEF WsStop, request_stop
    <2> QED
      BY <1>11, <2>1 DEF WsStop
  <1>12. CASE WsClear(s)
    BY <1>12 DEF WsClear, clear_serial_connected
  <1>13. CASE OwnerBinds(s)
    BY <1>13 DEF OwnerBinds
  <1>14. CASE OwnerReleases(s)
    BY <1>14 DEF OwnerReleases
  <1> QED
    BY <1>1, <1>2, <1>3, <1>4, <1>5, <1>6, <1>7, <1>8, <1>9, <1>10, <1>11, <1>12, <1>13, <1>14 DEF WsStep

\* The API handlers that act after their check preserve the invariant.
LEMMA CallStepKeepsLeaseInv ==
  ASSUME LeaseInv, NEW s \in Sessions, CallStep(s) PROVE LeaseInv'
  <1> USE DEF LeaseInv, TypeOK, BoardNamesHolder, SessionOwnsBoard, ReleaseFollowsActor, CallsHaveSessions,
        PowerHasHolder, Stranded, AdminPowerExcludesLease, BoardLeaseState, SessionLifecycleState, ActorState,
        ReleaseStep, JobState, WsState, PowerCall, Goto, is_releasing,
        leaseVars, sessionVars, jobVars, wsVars, callVars, worldVars, budgetVars
  <1>1. CASE \E a \in {"on", "off"} : PowerCallChecked(s, a)
    BY <1>1 DEF PowerCallChecked, Request
  <1>2. CASE PowerCallRuns(s)
    BY <1>2 DEF PowerCallRuns, PowerEffect
  <1>3. CASE PowerCallFails(s)
    BY <1>3 DEF PowerCallFails
  <1>4. CASE \E c \in {"put", "kernel", "delete"} : FileCallChecked(s, c)
    BY <1>4 DEF FileCallChecked, Request, IsActive
  <1>5. CASE FileCallRuns(s)
    BY <1>5 DEF FileCallRuns
  <1>6. CASE KernelRejected(s)
    BY <1>6 DEF KernelRejected, request_stop
  <1>7. CASE FileCallFails(s)
    BY <1>7 DEF FileCallFails
  <1> QED
    BY <1>1, <1>2, <1>3, <1>4, <1>5, <1>6, <1>7 DEF CallStep

\* Administrator power actions preserve the invariant: create refuses a board that is not Idle.
LEMMA AdminStepKeepsLeaseInv ==
  ASSUME LeaseInv, NEW b \in Boards, AdminStep(b) PROVE LeaseInv'
  <1> USE DEF LeaseInv, TypeOK, BoardNamesHolder, SessionOwnsBoard, ReleaseFollowsActor, CallsHaveSessions,
        PowerHasHolder, Stranded, AdminPowerExcludesLease, BoardLeaseState, SessionLifecycleState, ActorState,
        ReleaseStep, JobState, WsState, PowerCall, Goto, is_releasing,
        leaseVars, sessionVars, jobVars, wsVars, callVars, worldVars, budgetVars
  <1>1. CASE \E a \in {"on", "off"} : AdminPowerCreate(b, a)
    BY <1>1 DEF AdminPowerCreate, Request
  <1>2. CASE AdminPowerRuns(b)
    BY <1>2 DEF AdminPowerRuns
  <1>3. CASE AdminPowerFails(b)
    BY <1>3 DEF AdminPowerFails, Fault
  <1> QED
    BY <1>1, <1>2, <1>3 DEF AdminStep

\* A restart preserves the invariant: a board that could not be switched off is disabled.
LEMMA RestartKeepsLeaseInv ==
  ASSUME LeaseInv, NEW B \in SUBSET Boards, Restart(B) PROVE LeaseInv'
  <1> USE DEF LeaseInv, TypeOK, BoardNamesHolder, SessionOwnsBoard, ReleaseFollowsActor, CallsHaveSessions,
        PowerHasHolder, Stranded, AdminPowerExcludesLease, BoardLeaseState, SessionLifecycleState, ActorState,
        ReleaseStep, JobState, WsState, PowerCall, Restart, disabled_at_startup
  <1>1. TypeOK'
    OBVIOUS
  <1>2. BoardNamesHolder' /\ SessionOwnsBoard'
    OBVIOUS
  <1>3. ReleaseFollowsActor'
    OBVIOUS
  <1>4. CallsHaveSessions' /\ AdminPowerExcludesLease'
    OBVIOUS
  <1>5. PowerHasHolder'
    OBVIOUS
  <1> QED
    BY <1>1, <1>2, <1>3, <1>4, <1>5

\* The invariant is inductive.
LEMMA NextKeepsLeaseInv == LeaseInv /\ [Next]_vars => LeaseInv'
  <1> SUFFICES ASSUME LeaseInv, [Next]_vars PROVE LeaseInv'
    OBVIOUS
  <1>1. CASE \E s \in Sessions : SessionStep(s) \/ ActorStep(s) \/ JobStep(s) \/ WsStep(s) \/ CallStep(s)
    BY <1>1, SessionStepKeepsLeaseInv, ActorStepKeepsLeaseInv, JobStepKeepsLeaseInv,
       WsStepKeepsLeaseInv, CallStepKeepsLeaseInv
  <1>2. CASE \E b \in Boards : AdminStep(b)
    BY <1>2, AdminStepKeepsLeaseInv
  <1>3. CASE \E B \in SUBSET Boards : Restart(B)
    BY <1>3, RestartKeepsLeaseInv
  <1>4. CASE UNCHANGED vars
    BY <1>4 DEF vars, leaseVars, sessionVars, jobVars, wsVars, callVars, worldVars, budgetVars,
       LeaseInv, TypeOK, BoardNamesHolder, SessionOwnsBoard, ReleaseFollowsActor,
       CallsHaveSessions, PowerHasHolder, Stranded, AdminPowerExcludesLease, is_releasing
  <1> QED
    BY <1>1, <1>2, <1>3, <1>4 DEF Next

\* LeaseInv holds in every state the lease core reaches.
THEOREM LeaseInvariant == Spec => []LeaseInv
  BY InitLeaseInv, NextKeepsLeaseInv, PTL DEF Spec

\* The state of AppState, its sessions, jobs and handlers stays well typed; in particular
\* retry_release_step never counts past RELEASE_RETRY_ATTEMPTS.
THEOREM TypeCorrect == Spec => []TypeOK
  <1>1. LeaseInv => TypeOK
    BY DEF LeaseInv
  <1> QED
    BY <1>1, LeaseInvariant, PTL

\* A board never has two sessions, and a session in the map never has a board that names
\* another one, for any number of boards, sessions, faults and restarts.
THEOREM LeaseIsExclusive == Spec => []ExclusiveLease
  <1>1. LeaseInv => ExclusiveLease
    BY DEF LeaseInv, TypeOK, SessionOwnsBoard, ExclusiveLease
  <1> QED
    BY <1>1, LeaseInvariant, PTL

\* A board that is not Idle always has an actor or a release job that will give it back, unless
\* the create_session that claimed it was dropped before its insert; such a board stays Using and off.
THEOREM LeaseIsNeverOrphaned == Spec => []NoOrphanedLease
  <1>1. LeaseInv => NoOrphanedLease
    BY DEF LeaseInv, TypeOK, BoardNamesHolder, SessionOwnsBoard, ReleaseFollowsActor, PowerHasHolder,
       Stranded, ActorState, JobState, NoOrphanedLease
  <1> QED
    BY <1>1, LeaseInvariant, PTL

\* However many stop requests, retries and recovery rounds a release takes, it powers the
\* board off exactly once before the session leaves the map.
THEOREM ReleasePowersOffOnce == Spec => []PowerOffOnce
  <1>1. LeaseInv => PowerOffOnce
    <2> SUFFICES ASSUME LeaseInv, NEW s \in Sessions
                 PROVE offs[s] <= 1 /\ (is_releasing(s) /\ s \notin sessions => offs[s] = 1)
      BY DEF PowerOffOnce
    <2>1. offs[s] = IF "power" \in done[s] THEN 1 ELSE 0
      BY DEF LeaseInv, ReleaseFollowsActor
    <2>2. is_releasing(s) /\ s \notin sessions => "power" \in done[s]
      BY DEF LeaseInv, ReleaseFollowsActor, ReleaseStep, is_releasing
    <2> QED
      BY <2>1, <2>2
  <1> QED
    BY <1>1, LeaseInvariant, PTL

\* admin_power and a lease never drive the same power resource.
THEOREM AdminPowerIsExclusive == Spec => []AdminPowerExcludesLease
  <1>1. LeaseInv => AdminPowerExcludesLease
    BY DEF LeaseInv
  <1> QED
    BY <1>1, LeaseInvariant, PTL

\* A board offered for allocation is off unless a late power-on re-lit it; after a restart too.
THEOREM OfferedBoardIsOff == Spec => []AllocatableBoardIsOff
  <1>1. LeaseInv => AllocatableBoardIsOff
    BY DEF LeaseInv, TypeOK, BoardNamesHolder, PowerHasHolder, AllocatableBoardIsOff
  <1> QED
    BY <1>1, LeaseInvariant, PTL

\* Every board that was given to a session comes back and is off when it does, whatever stops, retries,
\* dropped requests and restarts there are; a stranded board stays off.
THEOREM EveryBoardComesBackOff == Spec => []BoardsComeBackOff
  <1> QED
    BY LeaseIsNeverOrphaned, OfferedBoardIsOff, PTL DEF BoardsComeBackOff

\* Only a claim, a completed release and a restart write active_session_id.
LEMMA ActiveChanges ==
  ASSUME Next, active' # active, restarts' = restarts, restarts \in Nat
  PROVE  \E s \in Sessions : (\E b \in Boards : ClaimBoard(s, b)) \/ JobComplete(s)
  <1> USE DEF leaseVars, sessionVars, jobVars, wsVars, callVars, worldVars, budgetVars
  <1>1. ASSUME NEW s \in Sessions, SessionStep(s) PROVE \E b \in Boards : ClaimBoard(s, b)
    BY <1>1 DEF SessionStep, InsertSession, CreateDropped, Heartbeat, Expire, SweepSnapshot, SweepStop, DeleteSession
  <1>2. ASSUME NEW s \in Sessions, ActorStep(s) PROVE FALSE
    BY <1>2 DEF ActorStep, ActorBegin, begin_release, ActorMark, ActorEnqueue
  <1>3. ASSUME NEW s \in Sessions, JobStep(s) PROVE JobComplete(s)
    BY <1>3 DEF JobStep, JobStart, JobTasks, JobOwner, JobTasksTimeout, JobPowerOff, JobPowerOffFails,
       RetryFails, JobSettle, JobCleanFiles, JobCleanFilesFails, JobMarkError
  <1>4. ASSUME NEW s \in Sessions, WsStep(s) PROVE FALSE
    BY <1>4 DEF WsStep, WsHandshake, WsClaim, WsUpgraded, WsUpgradeFails, WsOpened, WsOpenFails, PowerOnTask,
       PowerOnTaskFails, WsTransportEnds, WsFinalized, WsStop, WsClear, OwnerBinds, OwnerReleases
  <1>5. ASSUME NEW s \in Sessions, CallStep(s) PROVE FALSE
    BY <1>5 DEF CallStep, PowerCallChecked, PowerCallRuns, PowerCallFails, FileCallChecked, FileCallRuns,
       FileCallFails, KernelRejected
  <1>6. ASSUME NEW b \in Boards, AdminStep(b) PROVE FALSE
    BY <1>6 DEF AdminStep, AdminPowerCreate, AdminPowerRuns, AdminPowerFails
  <1>7. ASSUME NEW B \in SUBSET Boards, Restart(B) PROVE FALSE
    BY <1>7 DEF Restart
  <1> QED
    BY <1>1, <1>2, <1>3, <1>4, <1>5, <1>6, <1>7 DEF Next

\* A board changes hands only through complete_session_release: claim_board_for_session takes
\* Idle boards only, and no other handler writes active_session_id.
THEOREM BoardChangesHandsWhenReleased == Spec => ReleaseIsComplete
  <1>1. LeaseInv /\ [Next]_vars => [FreesOnlyReleasedBoards]_vars
    <2> SUFFICES ASSUME LeaseInv, Next, NEW b \in Boards,
                        active'[b] # active[b], active[b] # NoSession, restarts' = restarts
                 PROVE  /\ active'[b] = NoSession /\ lease'[b] = "Idle"
                        /\ active[b] \in sessions /\ active[b] \notin sessions'
                        /\ done[active[b]] = ReleaseStep
      BY DEF FreesOnlyReleasedBoards
    <2> USE DEF leaseVars, sessionVars, jobVars, wsVars, callVars, worldVars, budgetVars
    <2>1. PICK s \in Sessions : (\E c \in Boards : ClaimBoard(s, c)) \/ JobComplete(s)
      BY ActiveChanges DEF LeaseInv, TypeOK
    <2>2. ASSUME NEW c \in Boards, ClaimBoard(s, c) PROVE FALSE
      BY <2>2 DEF ClaimBoard, allocatable, LeaseInv, TypeOK, BoardNamesHolder
    <2>3. CASE JobComplete(s)
      BY <2>3 DEF JobComplete, CanComplete, LeaseInv, TypeOK, BoardNamesHolder, SessionOwnsBoard, ReleaseFollowsActor
    <2> QED
      BY <2>1, <2>2, <2>3
  <1> QED
    BY <1>1, LeaseInvariant, PTL DEF Spec, ReleaseIsComplete

\* The three variables of the lease service, seen from the lease core.
Granted == {s \in Sessions : lifecycle[s] # "Unborn" \/ gate = s}
Closing == {s \in Sessions : is_releasing(s)}

\* Every step of the lease core is a step of the lease service or leaves it alone:
\* claim_board_for_session acquires, begin_release closes, complete_session_release frees.
LEMMA StepImplementsService == LeaseInv /\ [Next]_vars => [Service!Next]_Service!vars
  <1> SUFFICES ASSUME LeaseInv, [Next]_vars PROVE Service!Next \/ UNCHANGED <<active, Granted, Closing>>
    BY DEF Service!vars, Granted, Closing
  <1> USE DEF leaseVars, sessionVars, jobVars, wsVars, callVars, worldVars, budgetVars, is_releasing, Goto
  <1>1. ASSUME NEW s \in Sessions, SessionStep(s) PROVE Service!Next \/ UNCHANGED <<active, Granted, Closing>>
    <2>1. ASSUME NEW b \in Boards, ClaimBoard(s, b) PROVE Service!Acquire(b, s)
      BY <2>1 DEF ClaimBoard, allocatable, Service!Acquire, LeaseInv, TypeOK, BoardNamesHolder, SessionOwnsBoard
    <2>2. CASE InsertSession(s)
      BY <2>2 DEF InsertSession, Granted, Closing, LeaseInv, TypeOK, SessionOwnsBoard
    <2>3. CASE Heartbeat(s) \/ Expire(s) \/ SweepSnapshot(s) \/ SweepStop(s) \/ DeleteSession(s)
      BY <2>3 DEF Heartbeat, Expire, SweepSnapshot, SweepStop, DeleteSession, Granted, Closing
    <2>4. CASE CreateDropped(s)
      BY <2>4 DEF CreateDropped, Granted, Closing, LeaseInv, TypeOK, SessionOwnsBoard
    <2> QED
      BY <1>1, <2>1, <2>2, <2>3, <2>4 DEF SessionStep, Service!Next
  <1>2. ASSUME NEW s \in Sessions, ActorStep(s) PROVE Service!Next \/ UNCHANGED <<active, Granted, Closing>>
    <2>1. CASE ActorBegin(s)
      <3>1. PICK b \in Boards : active[b] = s
        BY <2>1 DEF ActorBegin, LeaseInv, SessionOwnsBoard, ReleaseFollowsActor
      <3>2. Service!Close(b)
        BY <2>1, <3>1 DEF ActorBegin, begin_release, Service!Close, LeaseInv, TypeOK, ReleaseFollowsActor
      <3> QED
        BY <3>1, <3>2 DEF Service!Next
    <2>2. CASE ActorMark(s) \/ ActorEnqueue(s)
      BY <2>2 DEF ActorMark, ActorEnqueue, Granted, Closing
    <2> QED
      BY <1>2, <2>1, <2>2 DEF ActorStep
  <1>3. ASSUME NEW s \in Sessions, JobStep(s) PROVE Service!Next \/ UNCHANGED <<active, Granted, Closing>>
    <2>1. CASE JobComplete(s)
      <3>1. PICK b \in Boards : b = board[s] /\ is_releasing(s)
        BY <2>1 DEF JobComplete, LeaseInv, TypeOK, SessionLifecycleState, SessionOwnsBoard, ReleaseFollowsActor
      <3>2. Service!Free(b)
        BY <2>1, <3>1 DEF JobComplete, CanComplete, Service!Free
      <3> QED
        BY <3>1, <3>2 DEF Service!Next
    <2>2. CASE ~JobComplete(s)
      BY <1>3, <2>2 DEF JobStep, JobStart, JobTasks, JobOwner, JobTasksTimeout, JobPowerOff, JobPowerOffFails,
         RetryFails, JobSettle, JobCleanFiles, JobCleanFilesFails, JobMarkError, Granted, Closing
    <2> QED
      BY <2>1, <2>2
  <1>4. ASSUME NEW s \in Sessions, WsStep(s) PROVE UNCHANGED <<active, Granted, Closing>>
    BY <1>4 DEF WsStep, WsHandshake, WsClaim, WsUpgraded, WsUpgradeFails, WsOpened, WsOpenFails, PowerOnTask,
       PowerOnTaskFails, WsTransportEnds, WsFinalized, WsStop, WsClear, OwnerBinds, OwnerReleases, Granted, Closing
  <1>5. ASSUME NEW s \in Sessions, CallStep(s) PROVE UNCHANGED <<active, Granted, Closing>>
    BY <1>5 DEF CallStep, PowerCallChecked, PowerCallRuns, PowerCallFails, FileCallChecked, FileCallRuns,
       FileCallFails, KernelRejected, Granted, Closing
  <1>6. ASSUME NEW b \in Boards, AdminStep(b) PROVE UNCHANGED <<active, Granted, Closing>>
    BY <1>6 DEF AdminStep, AdminPowerCreate, AdminPowerRuns, AdminPowerFails, Granted, Closing
  <1>7. ASSUME NEW B \in SUBSET Boards, Restart(B) PROVE Service!Reset
    BY <1>7 DEF Restart, Service!Reset, LeaseInv, TypeOK
  <1>8. CASE UNCHANGED vars
    BY <1>8 DEF vars, Granted, Closing
  <1> QED
    BY <1>1, <1>2, <1>3, <1>4, <1>5, <1>6, <1>7, <1>8 DEF Next, Service!Next

\* The lease core implements the lease service of its API: a session holds one board from its
\* creation until its release has begun and completed, and no id is granted twice.
THEOREM LeaseCoreImplementsService == Spec => ImplementsLeaseService
  <1>1. Init => Service!Init
    BY DEF Init, Service!Init, is_releasing
  <1> QED
    BY <1>1, StepImplementsService, LeaseInvariant, PTL DEF Spec, ImplementsLeaseService, Service!Spec

-----------------------------------------------------------------------------
(***************************************************************************)
(* VirtualLab.                                                             *)
(***************************************************************************)
Making == {"pair", "move", "bridge", "taps", "serve", "wait", "confirm"}
Removing == {"stop", "files", "unname", "unlink", "delete"}

\* What a command is at, and for what.
JobIsOrderly ==
  /\ job.at = "nothing" => job = NoJob
  /\ job.at \in Making \cup {"find", "space"} => job.does = "up" /\ job.then = "end"
  /\ job.at = "check" => job.does \in {"up", "status"} /\ job.then = "end"
  /\ job.at \in Removing => IF job.then = "end" THEN job.does = "down" ELSE job.does = "up"
  /\ outcome # "none" => job = NoJob

\* What is there at every step of create_lab and of down, whatever has gone wrong before.
StepsAreInOrder ==
  /\ job.at \in Making => space
  /\ job.at = "move" => pair = "host"
  /\ job.at \in {"bridge", "taps", "serve", "wait", "confirm"} => pair = "space"
  /\ job.at \in {"pair", "move", "bridge"} => devices = {}
  /\ job.at = "taps" => devices = {"bridge"}
  /\ job.at \in {"serve", "wait", "confirm"} => devices = AllDevices
  /\ job.at \in {"pair", "move", "bridge", "taps", "serve"} => daemon = "none"
  /\ devices # {} => pair # "lost"
  /\ job.at = "unname" /\ pidFile = "daemon" => daemon = "runs"
  /\ job.at \in {"unlink", "delete"} => ~space /\ pidFile # "daemon"

\* As long as nothing has gone wrong no dnsmasq is out of reach.
NothingStrays ==
  mishaps = 0 =>
    /\ stray = "none" /\ (daemon = "starts" => job.at = "wait") /\ (daemon = "runs" => pidFile = "daemon")
    /\ job.at \in {"files", "unname"} => daemon = "none"

Clean == ~space /\ pair = "none"

\* An `up` that failed though nothing went wrong has left nothing, and the next one meets nothing on its way.
NextUpIsFree ==
  /\ failedUps \in {0, 1}
  /\ failedUps = 1 =>
       /\ ~mishap
       /\ job.does # "up" => Clean
       /\ job.does = "up" =>
            /\ job.at \in Making \cup {"find", "space"}
            /\ job.at \in {"find", "space"} => Clean
            /\ job.at = "pair" => pair = "none"
  /\ job.at = "confirm" /\ ~mishap => DaemonIsFound

LabIInv ==
  /\ LabTypeOK /\ MadeInOrder /\ OutcomeIsTrue
  /\ JobIsOrderly /\ StepsAreInOrder /\ NothingStrays /\ NextUpIsFree

-----------------------------------------------------------------------------
Jobs ==
  [does : {"nothing", "up", "status", "down"}, then : {"end", "create", "fail"},
   at : {"nothing", "find", "check", "confirm", "space", "pair", "move", "bridge", "taps", "serve", "wait",
         "stop", "files", "unname", "unlink", "delete"}]

\* The command that goes over to `down`, and what for.
LEMMA GoesDown ==
  ASSUME LabTypeOK, NEW then \in {"create", "fail"}, job' = [job EXCEPT !.at = "stop", !.then = then]
  PROVE  job' = [does |-> job.does, then |-> then, at |-> "stop"] /\ job' \in Jobs
<1>1. job \in Jobs
  BY DEF LabTypeOK, Jobs
<1>2. job' = [does |-> job.does, then |-> then, at |-> "stop"]
  BY <1>1 DEF Jobs
<1>. QED BY <1>1, <1>2 DEF Jobs
-----------------------------------------------------------------------------
\* The lab that is not there satisfies the invariant.
LEMMA LabInitHolds == LabInit => LabIInv
<1>. SUFFICES ASSUME LabInit PROVE LabIInv
  OBVIOUS
<1>1. LabTypeOK
  <2>1. NoJob \in Jobs
    BY DEF Jobs, NoJob
  <2>2. job \in Jobs
    BY <2>1 DEF LabInit
  <2>3. space = FALSE /\ mishap = FALSE /\ mishaps = 0 /\ failedUps = 0 /\ devices = {} /\ pair = "none"
        /\ daemon = "none" /\ stray = "none" /\ pidFile = "none" /\ outcome = "none"
    BY DEF LabInit
  <2>4. space \in BOOLEAN /\ mishap \in BOOLEAN
    BY <2>3, Zenon
  <2>5. mishaps \in 0..MaxMishaps /\ failedUps \in Nat
    BY <2>3, VirtualLabAssumption
  <2>. QED BY <2>2, <2>3, <2>4, <2>5, Zenon DEF LabTypeOK, Jobs
<1>. USE VirtualLabAssumption DEF LabInit, NoJob
<1>2. MadeInOrder /\ OutcomeIsTrue /\ NothingStrays
  BY DEF MadeInOrder, OutcomeIsTrue, NothingStrays
<1>3. JobIsOrderly /\ StepsAreInOrder /\ NextUpIsFree
  BY DEF JobIsOrderly, StepsAreInOrder, NextUpIsFree, Making, Removing, Clean
<1>. QED BY <1>1, <1>2, <1>3 DEF LabIInv

\* What a mishap leaves of the history.
Hit == mishaps' \in 1..MaxMishaps /\ failedUps' = 0 /\ mishap' = TRUE /\ outcome' = "none"

LEMMA MishapHits == ASSUME LabTypeOK, Mishap PROVE Hit
  BY VirtualLabAssumption DEF LabTypeOK, Mishap, Hit

\* What the end of a command leaves, if it is right that it succeeds.
Ended(ok) ==
  /\ job' = NoJob /\ UNCHANGED <<mishap, mishaps>> /\ failedUps' \in Nat
  /\ outcome' = IF ~ok THEN "none" ELSE IF job.does = "down" THEN "down" ELSE "up"
  /\ failedUps' = 0 \/ failedUps' = failedUps \/ (job.does = "up" /\ ~mishap /\ ~ok /\ failedUps' = failedUps + 1)
  /\ job.does = "up" /\ ~mishap /\ ok => failedUps' = 0

LEMMA EndedBy == ASSUME LabTypeOK, NEW ok \in BOOLEAN, EndLab(ok) PROVE Ended(ok)
  BY DEF LabTypeOK, EndLab, Ended

\* Every command, and whatever goes wrong with one, keeps the invariant.
LEMMA LabNextKeepsLabIInv ==
  ASSUME LabIInv, [LabNext]_labVars PROVE LabIInv'
<1>. USE VirtualLabAssumption
     DEF LabIInv, NoJob, AllDevices, labHistory, network, DaemonIsFound, LabIsWhole, Clean, Making, Removing
<1>0. CASE UNCHANGED labVars
  BY <1>0 DEF labVars, LabTypeOK, MadeInOrder, OutcomeIsTrue, JobIsOrderly, StepsAreInOrder, NothingStrays, NextUpIsFree
<1>1. CASE \E what \in {"up", "status", "down"} : BeginLab(what)
  <2>0. \/ job = NoJob /\ job' = [does |-> "up", then |-> "end", at |-> "find"] /\ mishap' = FALSE /\ outcome' = "none"
           /\ UNCHANGED <<network, failedUps, mishaps>>
        \/ job = NoJob /\ job' = [does |-> "status", then |-> "end", at |-> "check"] /\ mishap' = FALSE /\ outcome' = "none"
           /\ UNCHANGED <<network, failedUps, mishaps>>
        \/ job = NoJob /\ job' = [does |-> "down", then |-> "end", at |-> "stop"] /\ mishap' = FALSE /\ outcome' = "none"
           /\ UNCHANGED <<network, failedUps, mishaps>>
    BY <1>1 DEF BeginLab
  <2>1. CASE job = NoJob /\ job' = [does |-> "up", then |-> "end", at |-> "find"] /\ mishap' = FALSE /\ outcome' = "none"
             /\ UNCHANGED <<network, failedUps, mishaps>>
    <3>1. LabTypeOK'
      BY <2>1 DEF LabTypeOK, JobIsOrderly
    <3>2. MadeInOrder'
      BY <2>1 DEF LabTypeOK, MadeInOrder, JobIsOrderly, StepsAreInOrder
    <3>3. OutcomeIsTrue'
      BY <2>1 DEF LabTypeOK, MadeInOrder, OutcomeIsTrue, JobIsOrderly, StepsAreInOrder, NothingStrays, NextUpIsFree
    <3>4. JobIsOrderly'
      BY <2>1 DEF LabTypeOK, MadeInOrder, JobIsOrderly, StepsAreInOrder
    <3>5. StepsAreInOrder'
      BY <2>1 DEF LabTypeOK, MadeInOrder, JobIsOrderly, StepsAreInOrder
    <3>6. NothingStrays'
      BY <2>1 DEF LabTypeOK, MadeInOrder, OutcomeIsTrue, JobIsOrderly, StepsAreInOrder, NothingStrays, NextUpIsFree
    <3>7. NextUpIsFree'
      BY <2>1 DEF LabTypeOK, MadeInOrder, OutcomeIsTrue, JobIsOrderly, StepsAreInOrder, NothingStrays, NextUpIsFree
    <3>. QED BY <3>1, <3>2, <3>3, <3>4, <3>5, <3>6, <3>7
  <2>2. CASE job = NoJob /\ job' = [does |-> "status", then |-> "end", at |-> "check"] /\ mishap' = FALSE /\ outcome' = "none"
             /\ UNCHANGED <<network, failedUps, mishaps>>
    <3>1. LabTypeOK'
      BY <2>2 DEF LabTypeOK, JobIsOrderly
    <3>2. MadeInOrder'
      BY <2>2 DEF LabTypeOK, MadeInOrder, JobIsOrderly, StepsAreInOrder
    <3>3. OutcomeIsTrue'
      BY <2>2 DEF LabTypeOK, MadeInOrder, OutcomeIsTrue, JobIsOrderly, StepsAreInOrder, NothingStrays, NextUpIsFree
    <3>4. JobIsOrderly'
      BY <2>2 DEF LabTypeOK, MadeInOrder, JobIsOrderly, StepsAreInOrder
    <3>5. StepsAreInOrder'
      BY <2>2 DEF LabTypeOK, MadeInOrder, JobIsOrderly, StepsAreInOrder
    <3>6. NothingStrays'
      BY <2>2 DEF LabTypeOK, MadeInOrder, OutcomeIsTrue, JobIsOrderly, StepsAreInOrder, NothingStrays, NextUpIsFree
    <3>7. NextUpIsFree'
      BY <2>2 DEF LabTypeOK, MadeInOrder, OutcomeIsTrue, JobIsOrderly, StepsAreInOrder, NothingStrays, NextUpIsFree
    <3>. QED BY <3>1, <3>2, <3>3, <3>4, <3>5, <3>6, <3>7
  <2>3. CASE job = NoJob /\ job' = [does |-> "down", then |-> "end", at |-> "stop"] /\ mishap' = FALSE /\ outcome' = "none"
             /\ UNCHANGED <<network, failedUps, mishaps>>
    <3>1. LabTypeOK'
      BY <2>3 DEF LabTypeOK, JobIsOrderly
    <3>2. MadeInOrder'
      BY <2>3 DEF LabTypeOK, MadeInOrder, JobIsOrderly, StepsAreInOrder
    <3>3. OutcomeIsTrue'
      BY <2>3 DEF LabTypeOK, MadeInOrder, OutcomeIsTrue, JobIsOrderly, StepsAreInOrder, NothingStrays, NextUpIsFree
    <3>4. JobIsOrderly'
      BY <2>3 DEF LabTypeOK, MadeInOrder, JobIsOrderly, StepsAreInOrder
    <3>5. StepsAreInOrder'
      BY <2>3 DEF LabTypeOK, MadeInOrder, JobIsOrderly, StepsAreInOrder
    <3>6. NothingStrays'
      BY <2>3 DEF LabTypeOK, MadeInOrder, OutcomeIsTrue, JobIsOrderly, StepsAreInOrder, NothingStrays, NextUpIsFree
    <3>7. NextUpIsFree'
      BY <2>3 DEF LabTypeOK, MadeInOrder, OutcomeIsTrue, JobIsOrderly, StepsAreInOrder, NothingStrays, NextUpIsFree
    <3>. QED BY <3>1, <3>2, <3>3, <3>4, <3>5, <3>6, <3>7
  <2>. QED BY <2>0, <2>1, <2>2, <2>3
<1>2. CASE FindsSpace
  <2>1. LabTypeOK'
    BY <1>2 DEF FindsSpace, To, CleanUp, LabTypeOK, JobIsOrderly
  <2>2. MadeInOrder'
    BY <1>2 DEF FindsSpace, To, CleanUp, LabTypeOK, MadeInOrder, JobIsOrderly, StepsAreInOrder
  <2>3. OutcomeIsTrue'
    BY <1>2 DEF FindsSpace, To, CleanUp, LabTypeOK, MadeInOrder, OutcomeIsTrue, JobIsOrderly, StepsAreInOrder, NothingStrays, NextUpIsFree
  <2>4. JobIsOrderly'
    BY <1>2 DEF FindsSpace, To, CleanUp, LabTypeOK, MadeInOrder, JobIsOrderly, StepsAreInOrder
  <2>5. StepsAreInOrder'
    BY <1>2 DEF FindsSpace, To, CleanUp, LabTypeOK, MadeInOrder, JobIsOrderly, StepsAreInOrder
  <2>6. NothingStrays'
    BY <1>2 DEF FindsSpace, To, CleanUp, LabTypeOK, MadeInOrder, OutcomeIsTrue, JobIsOrderly, StepsAreInOrder, NothingStrays, NextUpIsFree
  <2>7. NextUpIsFree'
    BY <1>2 DEF FindsSpace, To, CleanUp, LabTypeOK, MadeInOrder, OutcomeIsTrue, JobIsOrderly, StepsAreInOrder, NothingStrays, NextUpIsFree
  <2>. QED BY <2>1, <2>2, <2>3, <2>4, <2>5, <2>6, <2>7
<1>3. CASE AddsSpace
  <2>1. LabTypeOK'
    <3>1. CASE space
      <4>1. job' = [does |-> job.does, then |-> "fail", at |-> "stop"] /\ job' \in Jobs
        BY <1>3, <3>1, GoesDown DEF AddsSpace, CleanUp
      <4>. QED BY <1>3, <3>1, <4>1 DEF AddsSpace, LabTypeOK, JobIsOrderly, Jobs
    <3>2. CASE ~(space)
      BY <1>3, <3>2 DEF AddsSpace, To, LabTypeOK, JobIsOrderly
    <3>. QED BY <3>1, <3>2
  <2>2. MadeInOrder'
    BY <1>3 DEF AddsSpace, To, CleanUp, LabTypeOK, MadeInOrder, JobIsOrderly, StepsAreInOrder
  <2>3. OutcomeIsTrue'
    BY <1>3 DEF AddsSpace, To, CleanUp, LabTypeOK, MadeInOrder, OutcomeIsTrue, JobIsOrderly, StepsAreInOrder, NothingStrays, NextUpIsFree
  <2>4. JobIsOrderly'
    <3>1. CASE space
      <4>1. job' = [does |-> job.does, then |-> "fail", at |-> "stop"] /\ job' \in Jobs
        BY <1>3, <3>1, GoesDown DEF AddsSpace, CleanUp
      <4>. QED BY <1>3, <3>1, <4>1 DEF AddsSpace, LabTypeOK, MadeInOrder, JobIsOrderly, StepsAreInOrder, Jobs
    <3>2. CASE ~(space)
      BY <1>3, <3>2 DEF AddsSpace, To, LabTypeOK, MadeInOrder, JobIsOrderly, StepsAreInOrder
    <3>. QED BY <3>1, <3>2
  <2>5. StepsAreInOrder'
    BY <1>3 DEF AddsSpace, To, CleanUp, LabTypeOK, MadeInOrder, JobIsOrderly, StepsAreInOrder
  <2>6. NothingStrays'
    BY <1>3 DEF AddsSpace, To, CleanUp, LabTypeOK, MadeInOrder, OutcomeIsTrue, JobIsOrderly, StepsAreInOrder, NothingStrays, NextUpIsFree
  <2>7. NextUpIsFree'
    BY <1>3 DEF AddsSpace, To, CleanUp, LabTypeOK, MadeInOrder, OutcomeIsTrue, JobIsOrderly, StepsAreInOrder, NothingStrays, NextUpIsFree
  <2>. QED BY <2>1, <2>2, <2>3, <2>4, <2>5, <2>6, <2>7
<1>4. CASE AddsPair
  <2>1. LabTypeOK'
    <3>1. CASE pair # "none"
      <4>1. job' = [does |-> job.does, then |-> "fail", at |-> "stop"] /\ job' \in Jobs
        BY <1>4, <3>1, GoesDown DEF AddsPair, CleanUp
      <4>. QED BY <1>4, <3>1, <4>1 DEF AddsPair, LabTypeOK, JobIsOrderly, Jobs
    <3>2. CASE ~(pair # "none")
      BY <1>4, <3>2 DEF AddsPair, To, LabTypeOK, JobIsOrderly
    <3>. QED BY <3>1, <3>2
  <2>2. MadeInOrder'
    BY <1>4 DEF AddsPair, To, CleanUp, LabTypeOK, MadeInOrder, JobIsOrderly, StepsAreInOrder
  <2>3. OutcomeIsTrue'
    BY <1>4 DEF AddsPair, To, CleanUp, LabTypeOK, MadeInOrder, OutcomeIsTrue, JobIsOrderly, StepsAreInOrder, NothingStrays, NextUpIsFree
  <2>4. JobIsOrderly'
    <3>1. CASE pair # "none"
      <4>1. job' = [does |-> job.does, then |-> "fail", at |-> "stop"] /\ job' \in Jobs
        BY <1>4, <3>1, GoesDown DEF AddsPair, CleanUp
      <4>. QED BY <1>4, <3>1, <4>1 DEF AddsPair, LabTypeOK, MadeInOrder, JobIsOrderly, StepsAreInOrder, Jobs
    <3>2. CASE ~(pair # "none")
      BY <1>4, <3>2 DEF AddsPair, To, LabTypeOK, MadeInOrder, JobIsOrderly, StepsAreInOrder
    <3>. QED BY <3>1, <3>2
  <2>5. StepsAreInOrder'
    BY <1>4 DEF AddsPair, To, CleanUp, LabTypeOK, MadeInOrder, JobIsOrderly, StepsAreInOrder
  <2>6. NothingStrays'
    BY <1>4 DEF AddsPair, To, CleanUp, LabTypeOK, MadeInOrder, OutcomeIsTrue, JobIsOrderly, StepsAreInOrder, NothingStrays, NextUpIsFree
  <2>7. NextUpIsFree'
    BY <1>4 DEF AddsPair, To, CleanUp, LabTypeOK, MadeInOrder, OutcomeIsTrue, JobIsOrderly, StepsAreInOrder, NothingStrays, NextUpIsFree
  <2>. QED BY <2>1, <2>2, <2>3, <2>4, <2>5, <2>6, <2>7
<1>5. CASE MovesPair
  <2>1. LabTypeOK'
    BY <1>5 DEF MovesPair, To, CleanUp, LabTypeOK, JobIsOrderly
  <2>2. MadeInOrder'
    BY <1>5 DEF MovesPair, To, CleanUp, LabTypeOK, MadeInOrder, JobIsOrderly, StepsAreInOrder
  <2>3. OutcomeIsTrue'
    BY <1>5 DEF MovesPair, To, CleanUp, LabTypeOK, MadeInOrder, OutcomeIsTrue, JobIsOrderly, StepsAreInOrder, NothingStrays, NextUpIsFree
  <2>4. JobIsOrderly'
    BY <1>5 DEF MovesPair, To, CleanUp, LabTypeOK, MadeInOrder, JobIsOrderly, StepsAreInOrder
  <2>5. StepsAreInOrder'
    BY <1>5 DEF MovesPair, To, CleanUp, LabTypeOK, MadeInOrder, JobIsOrderly, StepsAreInOrder
  <2>6. NothingStrays'
    BY <1>5 DEF MovesPair, To, CleanUp, LabTypeOK, MadeInOrder, OutcomeIsTrue, JobIsOrderly, StepsAreInOrder, NothingStrays, NextUpIsFree
  <2>7. NextUpIsFree'
    BY <1>5 DEF MovesPair, To, CleanUp, LabTypeOK, MadeInOrder, OutcomeIsTrue, JobIsOrderly, StepsAreInOrder, NothingStrays, NextUpIsFree
  <2>. QED BY <2>1, <2>2, <2>3, <2>4, <2>5, <2>6, <2>7
<1>6. CASE AddsDevices
  <2>1. LabTypeOK'
    BY <1>6 DEF AddsDevices, To, CleanUp, LabTypeOK, JobIsOrderly
  <2>2. MadeInOrder'
    BY <1>6 DEF AddsDevices, To, CleanUp, LabTypeOK, MadeInOrder, JobIsOrderly, StepsAreInOrder
  <2>3. OutcomeIsTrue'
    BY <1>6 DEF AddsDevices, To, CleanUp, LabTypeOK, MadeInOrder, OutcomeIsTrue, JobIsOrderly, StepsAreInOrder, NothingStrays, NextUpIsFree
  <2>4. JobIsOrderly'
    BY <1>6 DEF AddsDevices, To, CleanUp, LabTypeOK, MadeInOrder, JobIsOrderly, StepsAreInOrder
  <2>5. StepsAreInOrder'
    BY <1>6 DEF AddsDevices, To, CleanUp, LabTypeOK, MadeInOrder, JobIsOrderly, StepsAreInOrder
  <2>6. NothingStrays'
    BY <1>6 DEF AddsDevices, To, CleanUp, LabTypeOK, MadeInOrder, OutcomeIsTrue, JobIsOrderly, StepsAreInOrder, NothingStrays, NextUpIsFree
  <2>7. NextUpIsFree'
    BY <1>6 DEF AddsDevices, To, CleanUp, LabTypeOK, MadeInOrder, OutcomeIsTrue, JobIsOrderly, StepsAreInOrder, NothingStrays, NextUpIsFree
  <2>. QED BY <2>1, <2>2, <2>3, <2>4, <2>5, <2>6, <2>7
<1>7. CASE StartsDaemon
  <2>1. LabTypeOK'
    BY <1>7 DEF StartsDaemon, To, CleanUp, LabTypeOK, JobIsOrderly
  <2>2. MadeInOrder'
    BY <1>7 DEF StartsDaemon, To, CleanUp, LabTypeOK, MadeInOrder, JobIsOrderly, StepsAreInOrder
  <2>3. OutcomeIsTrue'
    BY <1>7 DEF StartsDaemon, To, CleanUp, LabTypeOK, MadeInOrder, OutcomeIsTrue, JobIsOrderly, StepsAreInOrder, NothingStrays, NextUpIsFree
  <2>4. JobIsOrderly'
    BY <1>7 DEF StartsDaemon, To, CleanUp, LabTypeOK, MadeInOrder, JobIsOrderly, StepsAreInOrder
  <2>5. StepsAreInOrder'
    BY <1>7 DEF StartsDaemon, To, CleanUp, LabTypeOK, MadeInOrder, JobIsOrderly, StepsAreInOrder
  <2>6. NothingStrays'
    BY <1>7 DEF StartsDaemon, To, CleanUp, LabTypeOK, MadeInOrder, OutcomeIsTrue, JobIsOrderly, StepsAreInOrder, NothingStrays, NextUpIsFree
  <2>7. NextUpIsFree'
    BY <1>7 DEF StartsDaemon, To, CleanUp, LabTypeOK, MadeInOrder, OutcomeIsTrue, JobIsOrderly, StepsAreInOrder, NothingStrays, NextUpIsFree
  <2>. QED BY <2>1, <2>2, <2>3, <2>4, <2>5, <2>6, <2>7
<1>8. CASE WritesPid
  <2>0. \/ daemon = "starts" /\ daemon' = "runs" /\ pidFile' = "daemon"
           /\ UNCHANGED <<space, devices, pair, stray, job, outcome, failedUps, mishap, mishaps>>
        \/ stray = "starts" /\ stray' = "runs" /\ pidFile' = "other" /\ failedUps' = 0 /\ mishap' = TRUE /\ outcome' = "none"
           /\ UNCHANGED <<space, devices, pair, daemon, job, mishaps>>
    BY <1>8 DEF WritesPid
  <2>1. CASE daemon = "starts" /\ daemon' = "runs" /\ pidFile' = "daemon"
             /\ UNCHANGED <<space, devices, pair, stray, job, outcome, failedUps, mishap, mishaps>>
    <3>1. LabTypeOK'
      BY <2>1 DEF LabTypeOK, JobIsOrderly
    <3>2. MadeInOrder'
      BY <2>1 DEF LabTypeOK, MadeInOrder, JobIsOrderly, StepsAreInOrder
    <3>3. OutcomeIsTrue'
      BY <2>1 DEF LabTypeOK, MadeInOrder, OutcomeIsTrue, JobIsOrderly, StepsAreInOrder, NothingStrays, NextUpIsFree
    <3>4. JobIsOrderly'
      BY <2>1 DEF LabTypeOK, MadeInOrder, JobIsOrderly, StepsAreInOrder
    <3>5. StepsAreInOrder'
      BY <2>1 DEF LabTypeOK, MadeInOrder, JobIsOrderly, StepsAreInOrder
    <3>6. NothingStrays'
      BY <2>1 DEF LabTypeOK, MadeInOrder, OutcomeIsTrue, JobIsOrderly, StepsAreInOrder, NothingStrays, NextUpIsFree
    <3>7. NextUpIsFree'
      BY <2>1 DEF LabTypeOK, MadeInOrder, OutcomeIsTrue, JobIsOrderly, StepsAreInOrder, NothingStrays, NextUpIsFree
    <3>. QED BY <3>1, <3>2, <3>3, <3>4, <3>5, <3>6, <3>7
  <2>2. CASE stray = "starts" /\ stray' = "runs" /\ pidFile' = "other" /\ failedUps' = 0 /\ mishap' = TRUE /\ outcome' = "none"
             /\ UNCHANGED <<space, devices, pair, daemon, job, mishaps>>
    <3>1. LabTypeOK'
      BY <2>2 DEF LabTypeOK, JobIsOrderly
    <3>2. MadeInOrder'
      BY <2>2 DEF LabTypeOK, MadeInOrder, JobIsOrderly, StepsAreInOrder
    <3>3. OutcomeIsTrue'
      BY <2>2 DEF LabTypeOK, MadeInOrder, OutcomeIsTrue, JobIsOrderly, StepsAreInOrder, NothingStrays, NextUpIsFree
    <3>4. JobIsOrderly'
      BY <2>2 DEF LabTypeOK, MadeInOrder, JobIsOrderly, StepsAreInOrder
    <3>5. StepsAreInOrder'
      BY <2>2 DEF LabTypeOK, MadeInOrder, JobIsOrderly, StepsAreInOrder
    <3>6. NothingStrays'
      BY <2>2 DEF LabTypeOK, MadeInOrder, OutcomeIsTrue, JobIsOrderly, StepsAreInOrder, NothingStrays, NextUpIsFree
    <3>7. NextUpIsFree'
      BY <2>2 DEF LabTypeOK, MadeInOrder, OutcomeIsTrue, JobIsOrderly, StepsAreInOrder, NothingStrays, NextUpIsFree
    <3>. QED BY <3>1, <3>2, <3>3, <3>4, <3>5, <3>6, <3>7
  <2>. QED BY <2>0, <2>1, <2>2
<1>9. CASE SeesDaemon
  <2>1. LabTypeOK'
    BY <1>9 DEF SeesDaemon, To, CleanUp, LabTypeOK, JobIsOrderly
  <2>2. MadeInOrder'
    BY <1>9 DEF SeesDaemon, To, CleanUp, LabTypeOK, MadeInOrder, JobIsOrderly, StepsAreInOrder
  <2>3. OutcomeIsTrue'
    BY <1>9 DEF SeesDaemon, To, CleanUp, LabTypeOK, MadeInOrder, OutcomeIsTrue, JobIsOrderly, StepsAreInOrder, NothingStrays, NextUpIsFree
  <2>4. JobIsOrderly'
    BY <1>9 DEF SeesDaemon, To, CleanUp, LabTypeOK, MadeInOrder, JobIsOrderly, StepsAreInOrder
  <2>5. StepsAreInOrder'
    BY <1>9 DEF SeesDaemon, To, CleanUp, LabTypeOK, MadeInOrder, JobIsOrderly, StepsAreInOrder
  <2>6. NothingStrays'
    BY <1>9 DEF SeesDaemon, To, CleanUp, LabTypeOK, MadeInOrder, OutcomeIsTrue, JobIsOrderly, StepsAreInOrder, NothingStrays, NextUpIsFree
  <2>7. NextUpIsFree'
    BY <1>9 DEF SeesDaemon, To, CleanUp, LabTypeOK, MadeInOrder, OutcomeIsTrue, JobIsOrderly, StepsAreInOrder, NothingStrays, NextUpIsFree
  <2>. QED BY <2>1, <2>2, <2>3, <2>4, <2>5, <2>6, <2>7
<1>10. CASE ChecksLab
  <2>0. \/ job.at = "check" /\ job.does = "up" /\ job' = [job EXCEPT !.at = "stop", !.then = "create"]
           /\ UNCHANGED <<network, labHistory>>
        \/ job.at \in {"check", "confirm"} /\ UNCHANGED network
           /\ (FoundByUp => space /\ pair # "none" /\ devices = AllDevices /\ DaemonIsFound)
           /\ Ended(space /\ pair # "none" /\ devices = AllDevices /\ DaemonIsFound)
    <3>. DEFINE whole == space /\ pair # "none" /\ devices = AllDevices /\ DaemonIsFound
    <3>1. CASE ~whole /\ FoundByUp
      BY <1>10, <3>1 DEF ChecksLab, MakesAnew, FoundByUp
    <3>2. CASE ~(~whole /\ FoundByUp)
      <4>1. EndLab(whole) /\ whole \in BOOLEAN
        BY <1>10, <3>2 DEF ChecksLab
      <4>. HIDE DEF whole
      <4>2. Ended(whole)
        BY <4>1, EndedBy
      <4>. QED BY <1>10, <3>2, <4>2 DEF ChecksLab, whole
    <3>. QED BY <3>1, <3>2
  <2>1. CASE job.at = "check" /\ job.does = "up" /\ job' = [job EXCEPT !.at = "stop", !.then = "create"]
             /\ UNCHANGED <<network, labHistory>>
    <3>1. LabTypeOK'
      BY <2>1 DEF Ended, FoundByUp, LabTypeOK, JobIsOrderly
    <3>2. MadeInOrder'
      BY <2>1 DEF Ended, FoundByUp, LabTypeOK, MadeInOrder, JobIsOrderly, StepsAreInOrder
    <3>3. OutcomeIsTrue'
      BY <2>1 DEF Ended, FoundByUp, LabTypeOK, MadeInOrder, OutcomeIsTrue, JobIsOrderly, StepsAreInOrder, NothingStrays, NextUpIsFree
    <3>4. JobIsOrderly'
      BY <2>1 DEF Ended, FoundByUp, LabTypeOK, MadeInOrder, JobIsOrderly, StepsAreInOrder
    <3>5. StepsAreInOrder'
      BY <2>1 DEF Ended, FoundByUp, LabTypeOK, MadeInOrder, JobIsOrderly, StepsAreInOrder
    <3>6. NothingStrays'
      BY <2>1 DEF Ended, FoundByUp, LabTypeOK, MadeInOrder, OutcomeIsTrue, JobIsOrderly, StepsAreInOrder, NothingStrays, NextUpIsFree
    <3>7. NextUpIsFree'
      BY <2>1 DEF Ended, FoundByUp, LabTypeOK, MadeInOrder, OutcomeIsTrue, JobIsOrderly, StepsAreInOrder, NothingStrays, NextUpIsFree
    <3>. QED BY <3>1, <3>2, <3>3, <3>4, <3>5, <3>6, <3>7
  <2>2. CASE job.at \in {"check", "confirm"} /\ UNCHANGED network
             /\ (FoundByUp => space /\ pair # "none" /\ devices = AllDevices /\ DaemonIsFound)
             /\ Ended(space /\ pair # "none" /\ devices = AllDevices /\ DaemonIsFound)
    <3>1. LabTypeOK'
      BY <2>2 DEF Ended, FoundByUp, LabTypeOK, JobIsOrderly
    <3>2. MadeInOrder'
      BY <2>2 DEF Ended, FoundByUp, LabTypeOK, MadeInOrder, JobIsOrderly, StepsAreInOrder
    <3>3. OutcomeIsTrue'
      BY <2>2 DEF Ended, FoundByUp, LabTypeOK, MadeInOrder, OutcomeIsTrue, JobIsOrderly, StepsAreInOrder, NothingStrays, NextUpIsFree
    <3>4. JobIsOrderly'
      BY <2>2 DEF Ended, FoundByUp, LabTypeOK, MadeInOrder, JobIsOrderly, StepsAreInOrder
    <3>5. StepsAreInOrder'
      BY <2>2 DEF Ended, FoundByUp, LabTypeOK, MadeInOrder, JobIsOrderly, StepsAreInOrder
    <3>6. NothingStrays'
      BY <2>2 DEF Ended, FoundByUp, LabTypeOK, MadeInOrder, OutcomeIsTrue, JobIsOrderly, StepsAreInOrder, NothingStrays, NextUpIsFree
    <3>7. NextUpIsFree'
      BY <2>2 DEF Ended, FoundByUp, LabTypeOK, MadeInOrder, OutcomeIsTrue, JobIsOrderly, StepsAreInOrder, NothingStrays, NextUpIsFree
    <3>. QED BY <3>1, <3>2, <3>3, <3>4, <3>5, <3>6, <3>7
  <2>. QED BY <2>0, <2>1, <2>2
<1>11. CASE StopsDaemon
  <2>1. LabTypeOK'
    BY <1>11 DEF StopsDaemon, To, CleanUp, LabTypeOK, JobIsOrderly
  <2>2. MadeInOrder'
    BY <1>11 DEF StopsDaemon, To, CleanUp, LabTypeOK, MadeInOrder, JobIsOrderly, StepsAreInOrder
  <2>3. OutcomeIsTrue'
    BY <1>11 DEF StopsDaemon, To, CleanUp, LabTypeOK, MadeInOrder, OutcomeIsTrue, JobIsOrderly, StepsAreInOrder, NothingStrays, NextUpIsFree
  <2>4. JobIsOrderly'
    BY <1>11 DEF StopsDaemon, To, CleanUp, LabTypeOK, MadeInOrder, JobIsOrderly, StepsAreInOrder
  <2>5. StepsAreInOrder'
    BY <1>11 DEF StopsDaemon, To, CleanUp, LabTypeOK, MadeInOrder, JobIsOrderly, StepsAreInOrder
  <2>6. NothingStrays'
    BY <1>11 DEF StopsDaemon, To, CleanUp, LabTypeOK, MadeInOrder, OutcomeIsTrue, JobIsOrderly, StepsAreInOrder, NothingStrays, NextUpIsFree
  <2>7. NextUpIsFree'
    BY <1>11 DEF StopsDaemon, To, CleanUp, LabTypeOK, MadeInOrder, OutcomeIsTrue, JobIsOrderly, StepsAreInOrder, NothingStrays, NextUpIsFree
  <2>. QED BY <2>1, <2>2, <2>3, <2>4, <2>5, <2>6, <2>7
<1>12. CASE RemovesFiles
  <2>1. LabTypeOK'
    BY <1>12 DEF RemovesFiles, To, CleanUp, LabTypeOK, JobIsOrderly
  <2>2. MadeInOrder'
    BY <1>12 DEF RemovesFiles, To, CleanUp, LabTypeOK, MadeInOrder, JobIsOrderly, StepsAreInOrder
  <2>3. OutcomeIsTrue'
    BY <1>12 DEF RemovesFiles, To, CleanUp, LabTypeOK, MadeInOrder, OutcomeIsTrue, JobIsOrderly, StepsAreInOrder, NothingStrays, NextUpIsFree
  <2>4. JobIsOrderly'
    BY <1>12 DEF RemovesFiles, To, CleanUp, LabTypeOK, MadeInOrder, JobIsOrderly, StepsAreInOrder
  <2>5. StepsAreInOrder'
    BY <1>12 DEF RemovesFiles, To, CleanUp, LabTypeOK, MadeInOrder, JobIsOrderly, StepsAreInOrder
  <2>6. NothingStrays'
    BY <1>12 DEF RemovesFiles, To, CleanUp, LabTypeOK, MadeInOrder, OutcomeIsTrue, JobIsOrderly, StepsAreInOrder, NothingStrays, NextUpIsFree
  <2>7. NextUpIsFree'
    BY <1>12 DEF RemovesFiles, To, CleanUp, LabTypeOK, MadeInOrder, OutcomeIsTrue, JobIsOrderly, StepsAreInOrder, NothingStrays, NextUpIsFree
  <2>. QED BY <2>1, <2>2, <2>3, <2>4, <2>5, <2>6, <2>7
<1>13. CASE DeletesSpace
  <2>1. LabTypeOK'
    BY <1>13 DEF DeletesSpace, To, CleanUp, LabTypeOK, JobIsOrderly
  <2>2. MadeInOrder'
    BY <1>13 DEF DeletesSpace, To, CleanUp, LabTypeOK, MadeInOrder, JobIsOrderly, StepsAreInOrder
  <2>3. OutcomeIsTrue'
    BY <1>13 DEF DeletesSpace, To, CleanUp, LabTypeOK, MadeInOrder, OutcomeIsTrue, JobIsOrderly, StepsAreInOrder, NothingStrays, NextUpIsFree
  <2>4. JobIsOrderly'
    BY <1>13 DEF DeletesSpace, To, CleanUp, LabTypeOK, MadeInOrder, JobIsOrderly, StepsAreInOrder
  <2>5. StepsAreInOrder'
    BY <1>13 DEF DeletesSpace, To, CleanUp, LabTypeOK, MadeInOrder, JobIsOrderly, StepsAreInOrder
  <2>6. NothingStrays'
    BY <1>13 DEF DeletesSpace, To, CleanUp, LabTypeOK, MadeInOrder, OutcomeIsTrue, JobIsOrderly, StepsAreInOrder, NothingStrays, NextUpIsFree
  <2>7. NextUpIsFree'
    BY <1>13 DEF DeletesSpace, To, CleanUp, LabTypeOK, MadeInOrder, OutcomeIsTrue, JobIsOrderly, StepsAreInOrder, NothingStrays, NextUpIsFree
  <2>. QED BY <2>1, <2>2, <2>3, <2>4, <2>5, <2>6, <2>7
<1>14. CASE Unlinks
  <2>0. \/ job.at = "unlink" /\ UNCHANGED network /\ pair = "none" /\ Ended(job.then = "end")
           /\ job.then # "create"
        \/ job.at = "unlink" /\ UNCHANGED <<network, labHistory>> /\ pair = "none" /\ job.then = "create"
           /\ job' = [job EXCEPT !.at = "space", !.then = "end"]
        \/ job.at = "unlink" /\ UNCHANGED <<network, labHistory>> /\ pair # "none" /\ job' = [job EXCEPT !.at = "delete"]
    <3>1. job.then \in {"end", "create", "fail"}
      BY DEF LabTypeOK
    <3>2. ASSUME Down(TRUE)
          PROVE  \/ Ended(job.then = "end") /\ job.then # "create"
                 \/ job.then = "create" /\ job' = [job EXCEPT !.at = "space", !.then = "end"] /\ UNCHANGED labHistory
      <4>1. \/ EndLab(job.then = "end") /\ job.then # "create"
            \/ job.then = "create" /\ job' = [job EXCEPT !.at = "space", !.then = "end"] /\ UNCHANGED labHistory
        BY <3>1, <3>2 DEF Down, EndLab
      <4>. QED BY <4>1, EndedBy
    <3>. QED BY <1>14, <3>2 DEF Unlinks, To
  <2>1. CASE job.at = "unlink" /\ UNCHANGED network /\ pair = "none" /\ Ended(job.then = "end")
             /\ job.then # "create"
    <3>1. LabTypeOK'
      BY <2>1 DEF Ended, LabTypeOK, JobIsOrderly
    <3>2. MadeInOrder'
      BY <2>1 DEF Ended, LabTypeOK, MadeInOrder, JobIsOrderly, StepsAreInOrder
    <3>3. OutcomeIsTrue'
      BY <2>1 DEF Ended, LabTypeOK, MadeInOrder, OutcomeIsTrue, JobIsOrderly, StepsAreInOrder, NothingStrays, NextUpIsFree
    <3>4. JobIsOrderly'
      BY <2>1 DEF Ended, LabTypeOK, MadeInOrder, JobIsOrderly, StepsAreInOrder
    <3>5. StepsAreInOrder'
      BY <2>1 DEF Ended, LabTypeOK, MadeInOrder, JobIsOrderly, StepsAreInOrder
    <3>6. NothingStrays'
      BY <2>1 DEF Ended, LabTypeOK, MadeInOrder, OutcomeIsTrue, JobIsOrderly, StepsAreInOrder, NothingStrays, NextUpIsFree
    <3>7. NextUpIsFree'
      BY <2>1 DEF Ended, LabTypeOK, MadeInOrder, OutcomeIsTrue, JobIsOrderly, StepsAreInOrder, NothingStrays, NextUpIsFree
    <3>. QED BY <3>1, <3>2, <3>3, <3>4, <3>5, <3>6, <3>7
  <2>2. CASE job.at = "unlink" /\ UNCHANGED <<network, labHistory>> /\ pair = "none" /\ job.then = "create"
             /\ job' = [job EXCEPT !.at = "space", !.then = "end"]
    <3>1. LabTypeOK'
      BY <2>2 DEF Ended, LabTypeOK, JobIsOrderly
    <3>2. MadeInOrder'
      BY <2>2 DEF Ended, LabTypeOK, MadeInOrder, JobIsOrderly, StepsAreInOrder
    <3>3. OutcomeIsTrue'
      BY <2>2 DEF Ended, LabTypeOK, MadeInOrder, OutcomeIsTrue, JobIsOrderly, StepsAreInOrder, NothingStrays, NextUpIsFree
    <3>4. JobIsOrderly'
      BY <2>2 DEF Ended, LabTypeOK, MadeInOrder, JobIsOrderly, StepsAreInOrder
    <3>5. StepsAreInOrder'
      BY <2>2 DEF Ended, LabTypeOK, MadeInOrder, JobIsOrderly, StepsAreInOrder
    <3>6. NothingStrays'
      BY <2>2 DEF Ended, LabTypeOK, MadeInOrder, OutcomeIsTrue, JobIsOrderly, StepsAreInOrder, NothingStrays, NextUpIsFree
    <3>7. NextUpIsFree'
      BY <2>2 DEF Ended, LabTypeOK, MadeInOrder, OutcomeIsTrue, JobIsOrderly, StepsAreInOrder, NothingStrays, NextUpIsFree
    <3>. QED BY <3>1, <3>2, <3>3, <3>4, <3>5, <3>6, <3>7
  <2>3. CASE job.at = "unlink" /\ UNCHANGED <<network, labHistory>> /\ pair # "none" /\ job' = [job EXCEPT !.at = "delete"]
    <3>1. LabTypeOK'
      BY <2>3 DEF Ended, LabTypeOK, JobIsOrderly
    <3>2. MadeInOrder'
      BY <2>3 DEF Ended, LabTypeOK, MadeInOrder, JobIsOrderly, StepsAreInOrder
    <3>3. OutcomeIsTrue'
      BY <2>3 DEF Ended, LabTypeOK, MadeInOrder, OutcomeIsTrue, JobIsOrderly, StepsAreInOrder, NothingStrays, NextUpIsFree
    <3>4. JobIsOrderly'
      BY <2>3 DEF Ended, LabTypeOK, MadeInOrder, JobIsOrderly, StepsAreInOrder
    <3>5. StepsAreInOrder'
      BY <2>3 DEF Ended, LabTypeOK, MadeInOrder, JobIsOrderly, StepsAreInOrder
    <3>6. NothingStrays'
      BY <2>3 DEF Ended, LabTypeOK, MadeInOrder, OutcomeIsTrue, JobIsOrderly, StepsAreInOrder, NothingStrays, NextUpIsFree
    <3>7. NextUpIsFree'
      BY <2>3 DEF Ended, LabTypeOK, MadeInOrder, OutcomeIsTrue, JobIsOrderly, StepsAreInOrder, NothingStrays, NextUpIsFree
    <3>. QED BY <3>1, <3>2, <3>3, <3>4, <3>5, <3>6, <3>7
  <2>. QED BY <2>0, <2>1, <2>2, <2>3
<1>15. CASE DeletesPair
  <2>0. \/ job.at = "delete" /\ UNCHANGED <<space, devices, daemon, stray, pidFile>> /\ pair' = "none"
           /\ Ended(job.then = "end" /\ pair # "none") /\ (job.then = "create" => pair = "none")
        \/ job.at = "delete" /\ UNCHANGED <<space, devices, daemon, stray, pidFile, labHistory>> /\ pair' = "none"
           /\ job.then = "create" /\ job' = [job EXCEPT !.at = "space", !.then = "end"]
    <3>1. job.then \in {"end", "create", "fail"}
      BY DEF LabTypeOK
    <3>2. ASSUME Down(pair # "none")
          PROVE  \/ Ended(job.then = "end" /\ pair # "none") /\ (job.then = "create" => pair = "none")
                 \/ job.then = "create" /\ job' = [job EXCEPT !.at = "space", !.then = "end"] /\ UNCHANGED labHistory
      <4>1. \/ EndLab(job.then = "end" /\ pair # "none") /\ (job.then = "create" => pair = "none")
            \/ job.then = "create" /\ job' = [job EXCEPT !.at = "space", !.then = "end"] /\ UNCHANGED labHistory
        BY <3>1, <3>2 DEF Down, EndLab
      <4>. QED BY <4>1, EndedBy
    <3>. QED BY <1>15, <3>2 DEF DeletesPair, To
  <2>1. CASE job.at = "delete" /\ UNCHANGED <<space, devices, daemon, stray, pidFile>> /\ pair' = "none"
             /\ Ended(job.then = "end" /\ pair # "none") /\ (job.then = "create" => pair = "none")
    <3>1. LabTypeOK'
      BY <2>1 DEF Ended, LabTypeOK, JobIsOrderly
    <3>2. MadeInOrder'
      BY <2>1 DEF Ended, LabTypeOK, MadeInOrder, JobIsOrderly, StepsAreInOrder
    <3>3. OutcomeIsTrue'
      BY <2>1 DEF Ended, LabTypeOK, MadeInOrder, OutcomeIsTrue, JobIsOrderly, StepsAreInOrder, NothingStrays, NextUpIsFree
    <3>4. JobIsOrderly'
      BY <2>1 DEF Ended, LabTypeOK, MadeInOrder, JobIsOrderly, StepsAreInOrder
    <3>5. StepsAreInOrder'
      BY <2>1 DEF Ended, LabTypeOK, MadeInOrder, JobIsOrderly, StepsAreInOrder
    <3>6. NothingStrays'
      BY <2>1 DEF Ended, LabTypeOK, MadeInOrder, OutcomeIsTrue, JobIsOrderly, StepsAreInOrder, NothingStrays, NextUpIsFree
    <3>7. NextUpIsFree'
      BY <2>1 DEF Ended, LabTypeOK, MadeInOrder, OutcomeIsTrue, JobIsOrderly, StepsAreInOrder, NothingStrays, NextUpIsFree
    <3>. QED BY <3>1, <3>2, <3>3, <3>4, <3>5, <3>6, <3>7
  <2>2. CASE job.at = "delete" /\ UNCHANGED <<space, devices, daemon, stray, pidFile, labHistory>> /\ pair' = "none"
             /\ job.then = "create" /\ job' = [job EXCEPT !.at = "space", !.then = "end"]
    <3>1. LabTypeOK'
      BY <2>2 DEF Ended, LabTypeOK, JobIsOrderly
    <3>2. MadeInOrder'
      BY <2>2 DEF Ended, LabTypeOK, MadeInOrder, JobIsOrderly, StepsAreInOrder
    <3>3. OutcomeIsTrue'
      BY <2>2 DEF Ended, LabTypeOK, MadeInOrder, OutcomeIsTrue, JobIsOrderly, StepsAreInOrder, NothingStrays, NextUpIsFree
    <3>4. JobIsOrderly'
      BY <2>2 DEF Ended, LabTypeOK, MadeInOrder, JobIsOrderly, StepsAreInOrder
    <3>5. StepsAreInOrder'
      BY <2>2 DEF Ended, LabTypeOK, MadeInOrder, JobIsOrderly, StepsAreInOrder
    <3>6. NothingStrays'
      BY <2>2 DEF Ended, LabTypeOK, MadeInOrder, OutcomeIsTrue, JobIsOrderly, StepsAreInOrder, NothingStrays, NextUpIsFree
    <3>7. NextUpIsFree'
      BY <2>2 DEF Ended, LabTypeOK, MadeInOrder, OutcomeIsTrue, JobIsOrderly, StepsAreInOrder, NothingStrays, NextUpIsFree
    <3>. QED BY <3>1, <3>2, <3>3, <3>4, <3>5, <3>6, <3>7
  <2>. QED BY <2>0, <2>1, <2>2
<1>16. CASE FreesPair
  <2>1. LabTypeOK'
    BY <1>16 DEF FreesPair, To, CleanUp, LabTypeOK, JobIsOrderly
  <2>2. MadeInOrder'
    BY <1>16 DEF FreesPair, To, CleanUp, LabTypeOK, MadeInOrder, JobIsOrderly, StepsAreInOrder
  <2>3. OutcomeIsTrue'
    BY <1>16 DEF FreesPair, To, CleanUp, LabTypeOK, MadeInOrder, OutcomeIsTrue, JobIsOrderly, StepsAreInOrder, NothingStrays, NextUpIsFree
  <2>4. JobIsOrderly'
    BY <1>16 DEF FreesPair, To, CleanUp, LabTypeOK, MadeInOrder, JobIsOrderly, StepsAreInOrder
  <2>5. StepsAreInOrder'
    BY <1>16 DEF FreesPair, To, CleanUp, LabTypeOK, MadeInOrder, JobIsOrderly, StepsAreInOrder
  <2>6. NothingStrays'
    BY <1>16 DEF FreesPair, To, CleanUp, LabTypeOK, MadeInOrder, OutcomeIsTrue, JobIsOrderly, StepsAreInOrder, NothingStrays, NextUpIsFree
  <2>7. NextUpIsFree'
    BY <1>16 DEF FreesPair, To, CleanUp, LabTypeOK, MadeInOrder, OutcomeIsTrue, JobIsOrderly, StepsAreInOrder, NothingStrays, NextUpIsFree
  <2>. QED BY <2>1, <2>2, <2>3, <2>4, <2>5, <2>6, <2>7
<1>17. CASE CommandFails
  <2>0. job.at \in {"space", "pair", "move", "bridge", "taps", "serve", "wait"} /\ Hit /\ UNCHANGED network
           /\ job' = [job EXCEPT !.at = "stop", !.then = "fail"]
    <3>1. Hit
      BY <1>17, MishapHits DEF CommandFails
    <3>. QED BY <1>17, <3>1 DEF CommandFails, To, CleanUp, MakesAnew, FoundByUp
  <2>1. CASE job.at \in {"space", "pair", "move", "bridge", "taps", "serve", "wait"} /\ Hit /\ UNCHANGED network
             /\ job' = [job EXCEPT !.at = "stop", !.then = "fail"]
    <3>1. LabTypeOK'
      <4>1. job' \in Jobs
        BY <2>1, GoesDown
      <4>. QED BY <2>1, <4>1 DEF Hit, LabTypeOK, Jobs
    <3>2. MadeInOrder'
      BY <2>1 DEF Hit, LabTypeOK, MadeInOrder, JobIsOrderly, StepsAreInOrder
    <3>3. OutcomeIsTrue'
      BY <2>1 DEF Hit, LabTypeOK, MadeInOrder, OutcomeIsTrue, JobIsOrderly, StepsAreInOrder, NothingStrays, NextUpIsFree
    <3>4. JobIsOrderly'
      BY <2>1 DEF Hit, LabTypeOK, MadeInOrder, JobIsOrderly, StepsAreInOrder
    <3>5. StepsAreInOrder'
      BY <2>1 DEF Hit, LabTypeOK, MadeInOrder, JobIsOrderly, StepsAreInOrder
    <3>6. NothingStrays'
      BY <2>1 DEF Hit, LabTypeOK, MadeInOrder, OutcomeIsTrue, JobIsOrderly, StepsAreInOrder, NothingStrays, NextUpIsFree
    <3>7. NextUpIsFree'
      BY <2>1 DEF Hit, LabTypeOK, MadeInOrder, OutcomeIsTrue, JobIsOrderly, StepsAreInOrder, NothingStrays, NextUpIsFree
    <3>. QED BY <3>1, <3>2, <3>3, <3>4, <3>5, <3>6, <3>7
  <2>. QED BY <2>0, <2>1
<1>18. CASE OtherFails
  <2>0. \/ job.at = "stop" /\ job' = [job EXCEPT !.at = "files"] /\ Hit /\ UNCHANGED network
        \/ job.at = "check" /\ job.does = "up" /\ job' = [job EXCEPT !.at = "stop", !.then = "create"] /\ Hit
           /\ UNCHANGED network
        \/ job # NoJob /\ job' = NoJob /\ Hit /\ UNCHANGED network
    <3>1. Hit
      BY <1>18, MishapHits DEF OtherFails
    <3>. QED BY <1>18, <3>1 DEF OtherFails, To, CleanUp, MakesAnew, FoundByUp
  <2>1. CASE job.at = "stop" /\ job' = [job EXCEPT !.at = "files"] /\ Hit /\ UNCHANGED network
    <3>1. LabTypeOK'
      BY <2>1 DEF Hit, LabTypeOK, JobIsOrderly
    <3>2. MadeInOrder'
      BY <2>1 DEF Hit, LabTypeOK, MadeInOrder, JobIsOrderly, StepsAreInOrder
    <3>3. OutcomeIsTrue'
      BY <2>1 DEF Hit, LabTypeOK, MadeInOrder, OutcomeIsTrue, JobIsOrderly, StepsAreInOrder, NothingStrays, NextUpIsFree
    <3>4. JobIsOrderly'
      BY <2>1 DEF Hit, LabTypeOK, MadeInOrder, JobIsOrderly, StepsAreInOrder
    <3>5. StepsAreInOrder'
      BY <2>1 DEF Hit, LabTypeOK, MadeInOrder, JobIsOrderly, StepsAreInOrder
    <3>6. NothingStrays'
      BY <2>1 DEF Hit, LabTypeOK, MadeInOrder, OutcomeIsTrue, JobIsOrderly, StepsAreInOrder, NothingStrays, NextUpIsFree
    <3>7. NextUpIsFree'
      BY <2>1 DEF Hit, LabTypeOK, MadeInOrder, OutcomeIsTrue, JobIsOrderly, StepsAreInOrder, NothingStrays, NextUpIsFree
    <3>. QED BY <3>1, <3>2, <3>3, <3>4, <3>5, <3>6, <3>7
  <2>2. CASE job.at = "check" /\ job.does = "up" /\ job' = [job EXCEPT !.at = "stop", !.then = "create"] /\ Hit
             /\ UNCHANGED network
    <3>1. LabTypeOK'
      <4>1. job' \in Jobs
        BY <2>2, GoesDown
      <4>. QED BY <2>2, <4>1 DEF Hit, LabTypeOK, Jobs
    <3>2. MadeInOrder'
      BY <2>2 DEF Hit, LabTypeOK, MadeInOrder, JobIsOrderly, StepsAreInOrder
    <3>3. OutcomeIsTrue'
      BY <2>2 DEF Hit, LabTypeOK, MadeInOrder, OutcomeIsTrue, JobIsOrderly, StepsAreInOrder, NothingStrays, NextUpIsFree
    <3>4. JobIsOrderly'
      BY <2>2 DEF Hit, LabTypeOK, MadeInOrder, JobIsOrderly, StepsAreInOrder
    <3>5. StepsAreInOrder'
      BY <2>2 DEF Hit, LabTypeOK, MadeInOrder, JobIsOrderly, StepsAreInOrder
    <3>6. NothingStrays'
      BY <2>2 DEF Hit, LabTypeOK, MadeInOrder, OutcomeIsTrue, JobIsOrderly, StepsAreInOrder, NothingStrays, NextUpIsFree
    <3>7. NextUpIsFree'
      BY <2>2 DEF Hit, LabTypeOK, MadeInOrder, OutcomeIsTrue, JobIsOrderly, StepsAreInOrder, NothingStrays, NextUpIsFree
    <3>. QED BY <3>1, <3>2, <3>3, <3>4, <3>5, <3>6, <3>7
  <2>3. CASE job # NoJob /\ job' = NoJob /\ Hit /\ UNCHANGED network
    <3>1. LabTypeOK'
      BY <2>3 DEF Hit, LabTypeOK, JobIsOrderly
    <3>2. MadeInOrder'
      BY <2>3 DEF Hit, LabTypeOK, MadeInOrder, JobIsOrderly, StepsAreInOrder
    <3>3. OutcomeIsTrue'
      BY <2>3 DEF Hit, LabTypeOK, MadeInOrder, OutcomeIsTrue, JobIsOrderly, StepsAreInOrder, NothingStrays, NextUpIsFree
    <3>4. JobIsOrderly'
      BY <2>3 DEF Hit, LabTypeOK, MadeInOrder, JobIsOrderly, StepsAreInOrder
    <3>5. StepsAreInOrder'
      BY <2>3 DEF Hit, LabTypeOK, MadeInOrder, JobIsOrderly, StepsAreInOrder
    <3>6. NothingStrays'
      BY <2>3 DEF Hit, LabTypeOK, MadeInOrder, OutcomeIsTrue, JobIsOrderly, StepsAreInOrder, NothingStrays, NextUpIsFree
    <3>7. NextUpIsFree'
      BY <2>3 DEF Hit, LabTypeOK, MadeInOrder, OutcomeIsTrue, JobIsOrderly, StepsAreInOrder, NothingStrays, NextUpIsFree
    <3>. QED BY <3>1, <3>2, <3>3, <3>4, <3>5, <3>6, <3>7
  <2>. QED BY <2>0, <2>1, <2>2, <2>3
<1>19. CASE Killed
  <2>0. job # NoJob /\ job' = NoJob /\ Hit /\ UNCHANGED network
    <3>1. Hit
      BY <1>19, MishapHits DEF Killed
    <3>. QED BY <1>19, <3>1 DEF Killed, To, CleanUp, MakesAnew, FoundByUp
  <2>1. CASE job # NoJob /\ job' = NoJob /\ Hit /\ UNCHANGED network
    <3>1. LabTypeOK'
      BY <2>1 DEF Hit, LabTypeOK, JobIsOrderly
    <3>2. MadeInOrder'
      BY <2>1 DEF Hit, LabTypeOK, MadeInOrder, JobIsOrderly, StepsAreInOrder
    <3>3. OutcomeIsTrue'
      BY <2>1 DEF Hit, LabTypeOK, MadeInOrder, OutcomeIsTrue, JobIsOrderly, StepsAreInOrder, NothingStrays, NextUpIsFree
    <3>4. JobIsOrderly'
      BY <2>1 DEF Hit, LabTypeOK, MadeInOrder, JobIsOrderly, StepsAreInOrder
    <3>5. StepsAreInOrder'
      BY <2>1 DEF Hit, LabTypeOK, MadeInOrder, JobIsOrderly, StepsAreInOrder
    <3>6. NothingStrays'
      BY <2>1 DEF Hit, LabTypeOK, MadeInOrder, OutcomeIsTrue, JobIsOrderly, StepsAreInOrder, NothingStrays, NextUpIsFree
    <3>7. NextUpIsFree'
      BY <2>1 DEF Hit, LabTypeOK, MadeInOrder, OutcomeIsTrue, JobIsOrderly, StepsAreInOrder, NothingStrays, NextUpIsFree
    <3>. QED BY <3>1, <3>2, <3>3, <3>4, <3>5, <3>6, <3>7
  <2>. QED BY <2>0, <2>1
<1>20. CASE DaemonEnds
  <2>0. \/ daemon # "none" /\ daemon' = "none" /\ pidFile' = (IF pidFile = "daemon" THEN "other" ELSE pidFile)
           /\ Hit /\ UNCHANGED <<space, devices, pair, stray, job>>
        \/ stray # "none" /\ stray' = "none" /\ Hit /\ UNCHANGED <<space, devices, pair, daemon, pidFile, job>>
    <3>1. Hit
      BY <1>20, MishapHits DEF DaemonEnds
    <3>. QED BY <1>20, <3>1 DEF DaemonEnds, To, CleanUp, MakesAnew, FoundByUp
  <2>1. CASE daemon # "none" /\ daemon' = "none" /\ pidFile' = (IF pidFile = "daemon" THEN "other" ELSE pidFile)
             /\ Hit /\ UNCHANGED <<space, devices, pair, stray, job>>
    <3>1. LabTypeOK'
      BY <2>1 DEF Hit, LabTypeOK, JobIsOrderly
    <3>2. MadeInOrder'
      BY <2>1 DEF Hit, LabTypeOK, MadeInOrder, JobIsOrderly, StepsAreInOrder
    <3>3. OutcomeIsTrue'
      BY <2>1 DEF Hit, LabTypeOK, MadeInOrder, OutcomeIsTrue, JobIsOrderly, StepsAreInOrder, NothingStrays, NextUpIsFree
    <3>4. JobIsOrderly'
      BY <2>1 DEF Hit, LabTypeOK, MadeInOrder, JobIsOrderly, StepsAreInOrder
    <3>5. StepsAreInOrder'
      BY <2>1 DEF Hit, LabTypeOK, MadeInOrder, JobIsOrderly, StepsAreInOrder
    <3>6. NothingStrays'
      BY <2>1 DEF Hit, LabTypeOK, MadeInOrder, OutcomeIsTrue, JobIsOrderly, StepsAreInOrder, NothingStrays, NextUpIsFree
    <3>7. NextUpIsFree'
      BY <2>1 DEF Hit, LabTypeOK, MadeInOrder, OutcomeIsTrue, JobIsOrderly, StepsAreInOrder, NothingStrays, NextUpIsFree
    <3>. QED BY <3>1, <3>2, <3>3, <3>4, <3>5, <3>6, <3>7
  <2>2. CASE stray # "none" /\ stray' = "none" /\ Hit /\ UNCHANGED <<space, devices, pair, daemon, pidFile, job>>
    <3>1. LabTypeOK'
      BY <2>2 DEF Hit, LabTypeOK, JobIsOrderly
    <3>2. MadeInOrder'
      BY <2>2 DEF Hit, LabTypeOK, MadeInOrder, JobIsOrderly, StepsAreInOrder
    <3>3. OutcomeIsTrue'
      BY <2>2 DEF Hit, LabTypeOK, MadeInOrder, OutcomeIsTrue, JobIsOrderly, StepsAreInOrder, NothingStrays, NextUpIsFree
    <3>4. JobIsOrderly'
      BY <2>2 DEF Hit, LabTypeOK, MadeInOrder, JobIsOrderly, StepsAreInOrder
    <3>5. StepsAreInOrder'
      BY <2>2 DEF Hit, LabTypeOK, MadeInOrder, JobIsOrderly, StepsAreInOrder
    <3>6. NothingStrays'
      BY <2>2 DEF Hit, LabTypeOK, MadeInOrder, OutcomeIsTrue, JobIsOrderly, StepsAreInOrder, NothingStrays, NextUpIsFree
    <3>7. NextUpIsFree'
      BY <2>2 DEF Hit, LabTypeOK, MadeInOrder, OutcomeIsTrue, JobIsOrderly, StepsAreInOrder, NothingStrays, NextUpIsFree
    <3>. QED BY <3>1, <3>2, <3>3, <3>4, <3>5, <3>6, <3>7
  <2>. QED BY <2>0, <2>1, <2>2
<1>. QED BY <1>0, <1>1, <1>2, <1>3, <1>4, <1>5, <1>6, <1>7, <1>8, <1>9, <1>10, <1>11, <1>12, <1>13, <1>14, <1>15, <1>16, <1>17, <1>18, <1>19, <1>20 DEF LabNext

-----------------------------------------------------------------------------
\* For any number of failed and killed commands: what up and down report is true, and the second `up` in a
\* row in which nothing goes wrong succeeds, whatever an earlier command left.
THEOREM LabRecovers == LabSpec => []LabInv
<1>1. LabSpec => []LabIInv
  BY LabInitHolds, LabNextKeepsLabIInv, PTL DEF LabSpec
<1>2. LabIInv => LabInv
  BY DEF LabIInv, LabInv, RecoversInTwo, NextUpIsFree
<1>. QED BY <1>1, <1>2, PTL

-----------------------------------------------------------------------------
(***************************************************************************)
(* SessionFiles.                                                           *)
(***************************************************************************)
CallStates ==
  [does : {"nothing", "put", "preset", "delete", "list", "all", "tail"},
   at : {"idle", "mkdir", "create", "write", "look", "remove", "count", "rmdir", "size", "read", "top", "sub", "entry", "stat"},
   path : Files, data : Contents \cup {"empty"}, linked : BOOLEAN, alone : BOOLEAN, sure : SUBSET Files, size : Nat,
   rest : SUBSET Files]

Writing == {"put", "preset", "delete"}

\* A request that puts a file has its content, and one that waits for nothing knows nothing.
IsOrderly(c) ==
  /\ call[c].at \in {"mkdir", "create", "write"} => call[c].does \in {"put", "preset"} /\ call[c].data \in Contents
  /\ call[c].at \in {"look", "remove", "count", "rmdir"} => call[c].does = "delete"
  /\ call[c].at = "idle" => call[c].does = "nothing" /\ call[c].sure = {}
  /\ call[c].at \in {"size", "read", "top", "sub", "entry", "stat"} => call[c].does \notin Writing
  /\ call[c].linked => call[c].at = "write" /\ file[call[c].path] # NoFile
CallsAreOrderly == \A c \in Callers : IsOrderly(c)

\* The release runs while the session is releasing, and with it no promise is given.
ReleaseIsOrderly ==
  /\ release # "none" <=> session = "releasing"
  /\ session # "active" => Promised = {}

\* A promise is given when the only writer is done, and nobody is at the file as long as it holds.
PromisesAreFree ==
  \A c \in Callers : call[c].does \in Writing => promise[call[c].path] = NoFile

\* Who is alone with a file finds there what he has left.
IsAlone(c) ==
  /\ call[c].does \in Writing
  /\ \A d \in Callers \ {c} : call[d].does \in Writing => call[d].path # call[c].path
  /\ session = "active" /\ call[c].at = "write" => call[c].linked /\ file[call[c].path] = "empty"
AloneIsAlone == \A c \in Callers : call[c].alone => IsAlone(c)

\* What a reader relies on is promised, is as long as it was, and is still to be seen by a listing.
IsSure(c) ==
  /\ call[c].sure \subseteq Promised
  /\ call[c].at = "read" /\ call[c].path \in call[c].sure => call[c].size = Blocks(file[call[c].path])
  /\ call[c].at \in {"entry", "stat"} => call[c].sure \subseteq call[c].rest
SureIsPromised == \A c \in Callers : IsSure(c)

FilesIInv ==
  /\ FilesTypeOK /\ FilesAreKept /\ ReadersSeeThem /\ FilesHaveDirs /\ ReleaseLeavesNothing
  /\ CallsAreOrderly /\ ReleaseIsOrderly /\ PromisesAreFree /\ AloneIsAlone /\ SureIsPromised

-----------------------------------------------------------------------------
LEMMA FilesCallTyped == FilesTypeOK => call \in [Callers -> CallStates]
  BY DEF FilesTypeOK, CallStates

LEMMA NoCallTyped == NoCall \in CallStates
  BY SessionFilesAssumption DEF NoCall, Call, CallStates

LEMMA BlocksTyped == ASSUME NEW data PROVE Blocks(data) \in Nat
  BY SessionFilesAssumption DEF Blocks

\* What one caller does is nothing to the others.
LEMMA OneCall ==
  ASSUME FilesTypeOK, NEW c \in Callers, NEW r \in CallStates, call' = [call EXCEPT ![c] = r]
  PROVE  call' \in [Callers -> CallStates] /\ call'[c] = r /\ \A d \in Callers : d # c => call'[d] = call[d]
  BY FilesCallTyped

\* The next state of a request that has no file open and takes up nothing new.
Fits(c, r) ==
  /\ r \in CallStates /\ ~r.linked
  /\ r.at \in {"mkdir", "create", "write"} => r.does \in {"put", "preset"} /\ r.data \in Contents
  /\ r.at \in {"look", "remove", "count", "rmdir"} => r.does = "delete"
  /\ r.at = "idle" => r.does = "nothing" /\ r.sure = {}
  /\ r.at \in {"size", "read", "top", "sub", "entry", "stat"} => r.does \notin Writing
  /\ r.does \in Writing => r.does = call[c].does /\ r.path = call[c].path
  /\ r.alone => call[c].alone /\ r.does \in Writing /\ r.at # "write"
  /\ r.sure \subseteq Promised
  /\ r.at = "read" /\ r.path \in r.sure => r.size = Blocks(file[r.path])
  /\ r.at \in {"entry", "stat"} => r.sure \subseteq r.rest

LEMMA DoneFits == ASSUME FilesIInv, NEW c \in Callers PROVE Fits(c, NoCall)
  BY NoCallTyped DEF Fits, NoCall, Call, Writing

\* A request that goes on, or is done, while the files stay as they are, keeps the invariant.
LEMMA StepOfOne ==
  ASSUME FilesIInv, NEW c \in Callers, NEW r, Fits(c, r), call' = [call EXCEPT ![c] = r],
         UNCHANGED <<session, release, file, promise>>, broken' = FALSE, calls' \in 0..MaxCalls,
         overtaken' \in BOOLEAN, dirs' \in {{}, {"session"}, {"session", "sub"}}, FilesHaveDirs', ReleaseLeavesNothing'
  PROVE  FilesIInv'
<1>1. call' \in [Callers -> CallStates] /\ call'[c] = r /\ \A d \in Callers : d # c => call'[d] = call[d]
  BY OneCall DEF Fits, FilesIInv
<1>2. FilesTypeOK'
  BY <1>1 DEF FilesIInv, FilesTypeOK, CallStates, Data
<1>3. FilesAreKept' /\ ReadersSeeThem'
  BY DEF FilesIInv, FilesAreKept, ReadersSeeThem, Promised
<1>4. CallsAreOrderly'
  BY <1>1 DEF FilesIInv, CallsAreOrderly, IsOrderly, Fits
<1>5. ReleaseIsOrderly'
  BY DEF FilesIInv, ReleaseIsOrderly, Promised
<1>6. PromisesAreFree'
  BY <1>1 DEF FilesIInv, PromisesAreFree, Fits
<1>7. AloneIsAlone'
  BY <1>1 DEF FilesIInv, AloneIsAlone, IsAlone, Fits
<1>8. SureIsPromised'
  BY <1>1 DEF FilesIInv, SureIsPromised, IsSure, Fits, Promised
<1>. QED BY <1>2, <1>3, <1>4, <1>5, <1>6, <1>7, <1>8 DEF FilesIInv

LEMMA NewTyped == ASSUME FilesTypeOK, New PROVE calls' \in 0..MaxCalls
  BY SessionFilesAssumption DEF FilesTypeOK, New

-----------------------------------------------------------------------------
\* A read begins, with the promises there are.
LEMMA BeginReadKeeps ==
  ASSUME FilesIInv, NEW c \in Callers, NEW does \in {"list", "all", "tail"}, NEW paths \in SUBSET Files,
         paths # {}, BeginRead(c, does, paths)
  PROVE  FilesIInv'
<1>. DEFINE p == CHOOSE q \in paths : TRUE
            r == Call(does, IF does = "list" THEN "top" ELSE "size", p, "empty", FALSE, paths \cap Promised)
<1>1. p \in Files
  OBVIOUS
<1>. HIDE DEF p
<1>2. r = [does |-> does, at |-> IF does = "list" THEN "top" ELSE "size", path |-> p, data |-> "empty", linked |-> FALSE,
           alone |-> FALSE, sure |-> paths \cap Promised, size |-> 0,
           rest |-> {}]
  BY DEF Call
<1>. HIDE DEF r
<1>3. Fits(c, r)
  BY <1>1, <1>2 DEF Fits, CallStates, Writing, Promised
<1>4. call' = [call EXCEPT ![c] = r]
  BY DEF BeginRead, p, r
<1>5. calls' \in 0..MaxCalls
  BY NewTyped DEF BeginRead, FilesIInv
<1>6. broken' = FALSE /\ UNCHANGED <<session, release, disk, fileHistory>>
  BY DEF BeginRead, FilesIInv, ReadersSeeThem, fileHistory, FilesTypeOK
<1>7. FilesHaveDirs' /\ ReleaseLeavesNothing'
  BY <1>6 DEF FilesIInv, FilesHaveDirs, ReleaseLeavesNothing, Present, disk, fileHistory
<1>. QED BY <1>3, <1>4, <1>5, <1>6, <1>7, StepOfOne DEF FilesIInv, FilesTypeOK, disk, fileHistory

\* Whoever is about to write a file is nobody's surprise: the promise goes, and nobody relies on it any more.
LEMMA BeginWriteKeeps ==
  ASSUME FilesIInv, NEW c \in Callers, NEW p \in Files, NEW data \in Contents \cup {"empty"},
         NEW does \in Writing, NEW at \in {"mkdir", "look"},
         at = "mkdir" => does \in {"put", "preset"} /\ data \in Contents, at = "look" => does = "delete",
         BeginWrite(c, does, at, p, data)
  PROVE  FilesIInv'
<1>. DEFINE others == Writers(p)
            r == Call(does, at, p, data, others = {}, {})
<1>0. call[c].at = "idle" /\ call[c].does = "nothing" /\ call[c].sure = {} /\ ~call[c].linked
  <2>1. call[c].at = "idle"
    BY DEF BeginWrite
  <2>. QED BY <2>1 DEF FilesIInv, CallsAreOrderly, IsOrderly
<1>1. r = [does |-> does, at |-> at, path |-> p, data |-> data, linked |-> FALSE, alone |-> (others = {}), sure |-> {}, size |-> 0,
           rest |-> {}]
  BY DEF Call
<1>. HIDE DEF r
<1>2. r \in CallStates
  BY <1>1 DEF CallStates, Writing
<1>3. call \in [Callers -> CallStates]
  BY FilesCallTyped DEF FilesIInv
<1>4. call' = [d \in Callers |->
                 IF d = c THEN r ELSE IF d \in others THEN [call[d] EXCEPT !.alone = FALSE]
                 ELSE [call[d] EXCEPT !.sure = @ \ {p}]]
  BY DEF BeginWrite, r
<1>5. call'[c] = r
  BY <1>4
<1>6. ASSUME NEW d \in Callers, d # c
      PROVE  /\ call'[d] \in CallStates
             /\ call'[d].does = call[d].does /\ call'[d].at = call[d].at /\ call'[d].path = call[d].path
             /\ call'[d].data = call[d].data /\ call'[d].linked = call[d].linked /\ call'[d].size = call[d].size
             /\ call'[d].rest = call[d].rest
             /\ call'[d].alone => call[d].alone /\ ~(call[d].does \in Writing /\ call[d].path = p)
             /\ call'[d].sure \subseteq call[d].sure
             /\ (call[d].does \in Writing /\ call[d].path = p) \/ p \notin call'[d].sure
  <2>1. call[d] \in CallStates
    BY <1>3
  <2>2. CASE d \in others
    <3>1. call'[d] = [call[d] EXCEPT !.alone = FALSE]
      BY <1>4, <1>6, <2>2
    <3>2. call[d].does \in Writing /\ call[d].path = p
      BY <2>2 DEF Writers, Writing
    <3>. QED BY <2>1, <3>1, <3>2 DEF CallStates
  <2>3. CASE d \notin others
    <3>1. call'[d] = [call[d] EXCEPT !.sure = @ \ {p}]
      BY <1>4, <1>6, <2>3
    <3>2. ~(call[d].does \in Writing /\ call[d].path = p)
      BY <2>3 DEF Writers, Writing
    <3>. QED BY <2>1, <3>1, <3>2 DEF CallStates
  <2>. QED BY <2>2, <2>3
<1>7. call' \in [Callers -> CallStates]
  BY <1>2, <1>4, <1>5, <1>6
<1>8. UNCHANGED <<session, release, dirs, file, broken, overtaken>> /\ promise' = [promise EXCEPT ![p] = NoFile]
  BY DEF BeginWrite, disk
<1>9. calls' \in 0..MaxCalls
  BY NewTyped DEF BeginWrite, FilesIInv
<1>10. promise \in [Files -> Contents \cup {NoFile}]
  BY DEF FilesIInv, FilesTypeOK
<1>11. promise'[p] = NoFile /\ \A q \in Files : promise'[q] = NoFile \/ (q # p /\ promise'[q] = promise[q])
  BY <1>8, <1>10
<1>12. Promised' = Promised \ {p}
  BY <1>8, <1>10 DEF Promised
<1>13. r.does = does /\ r.at = at /\ r.path = p /\ r.data = data /\ ~r.linked /\ r.sure = {} /\ r.alone = (others = {})
  BY <1>1
<1>14. FilesTypeOK'
  BY <1>7, <1>8, <1>9, <1>10 DEF FilesIInv, FilesTypeOK, CallStates, Data
<1>15. FilesAreKept' /\ ReadersSeeThem' /\ FilesHaveDirs' /\ ReleaseLeavesNothing'
  BY <1>8, <1>11, <1>12 DEF FilesIInv, FilesAreKept, ReadersSeeThem, FilesHaveDirs, ReleaseLeavesNothing, Present, Promised
<1>16. CallsAreOrderly'
  <2>. SUFFICES ASSUME NEW d \in Callers PROVE IsOrderly(d)'
    BY DEF CallsAreOrderly
  <2>1. CASE d = c
    BY <2>1, <1>5, <1>13 DEF Writing, IsOrderly
  <2>2. CASE d # c
    <3>1. call'[d].sure \subseteq call[d].sure
      BY <1>6, <2>2
    <3>. QED BY <2>2, <1>6, <1>8, <3>1 DEF FilesIInv, CallsAreOrderly, IsOrderly
  <2>. QED BY <2>1, <2>2
<1>17. ReleaseIsOrderly'
  BY <1>8, <1>12 DEF FilesIInv, ReleaseIsOrderly
<1>18. PromisesAreFree'
  BY <1>5, <1>6, <1>7, <1>11, <1>13 DEF FilesIInv, PromisesAreFree, CallStates
<1>19. AloneIsAlone'
  <2>. SUFFICES ASSUME NEW d \in Callers, call'[d].alone PROVE IsAlone(d)'
    BY DEF AloneIsAlone
  <2>1. CASE d = c
    <3>1. others = {}
      BY <2>1, <1>5, <1>13 DEF IsSure
    <3>2. \A e \in Callers \ {c} : call'[e].does \in Writing => call'[e].path # p
      BY <1>6, <3>1 DEF Writers, Writing
    <3>. QED BY <2>1, <1>5, <1>13, <3>2 DEF IsAlone
  <2>2. CASE d # c
    BY <2>2, <1>5, <1>6, <1>8, <1>13 DEF FilesIInv, AloneIsAlone, IsAlone
  <2>. QED BY <2>1, <2>2
<1>20. SureIsPromised'
  <2>. SUFFICES ASSUME NEW d \in Callers PROVE IsSure(d)'
    BY DEF SureIsPromised
  <2>1. CASE d = c
    BY <2>1, <1>5, <1>13 DEF IsSure
  <2>2. CASE d # c
    <3>1. call[d].sure \subseteq Promised /\ (call[d].does \in Writing => promise[call[d].path] = NoFile)
      BY DEF FilesIInv, SureIsPromised, IsSure, PromisesAreFree
    <3>2. call'[d].sure \subseteq Promised \ {p}
      BY <2>2, <1>6, <3>1 DEF Promised
    <3>. QED BY <2>2, <1>6, <1>8, <1>12, <3>2 DEF FilesIInv, SureIsPromised, IsSure
  <2>. QED BY <2>1, <2>2
<1>. QED BY <1>14, <1>15, <1>16, <1>17, <1>18, <1>19, <1>20 DEF FilesIInv

-----------------------------------------------------------------------------
\* A request that has no file open goes on.
LEMMA GoesOn ==
  ASSUME FilesIInv, NEW c \in Callers, NEW at,
         \/ call[c].at = "mkdir" /\ at = "create"
         \/ call[c].at \in {"look", "remove", "count"} /\ at \in {"remove", "count", "rmdir"}
         \/ call[c].at = "top" /\ at = "sub"
  PROVE  Fits(c, [call[c] EXCEPT !.at = at])
<1>. DEFINE r == [call[c] EXCEPT !.at = at]
<1>1. call[c] \in CallStates
  BY FilesCallTyped DEF FilesIInv
<1>2. r \in CallStates /\ r.at = at /\ r.does = call[c].does /\ r.path = call[c].path /\ r.data = call[c].data
      /\ r.linked = call[c].linked /\ r.alone = call[c].alone /\ r.sure = call[c].sure
  BY <1>1 DEF CallStates
<1>3. IsOrderly(c) /\ IsSure(c) /\ (call[c].alone => IsAlone(c))
  BY DEF FilesIInv, CallsAreOrderly, AloneIsAlone, SureIsPromised
<1>. HIDE DEF r
<1>4. Fits(c, r)
  BY <1>1, <1>2, <1>3 DEF Fits, IsOrderly, IsSure, IsAlone, Writing, CallStates
<1>. QED BY <1>4 DEF r

\* The same with the directories as they are.
LEMMA StepInPlace ==
  ASSUME FilesIInv, NEW c \in Callers, NEW r, Fits(c, r), call' = [call EXCEPT ![c] = r],
         UNCHANGED <<session, release, disk, promise, overtaken, calls>>, broken' = FALSE
  PROVE  FilesIInv'
<1>1. FilesHaveDirs' /\ ReleaseLeavesNothing'
  BY DEF FilesIInv, FilesHaveDirs, ReleaseLeavesNothing, Present, disk
<1>. QED BY <1>1, StepOfOne DEF disk, FilesIInv, FilesTypeOK

LEMMA QuietRequests ==
  ASSUME FilesIInv, NEW c \in Callers,
         CreateFails(c) \/ FindsNoFile(c) \/ FindsFile(c) \/ RemoveFails(c) \/ LooksIntoDir(c)
  PROVE  FilesIInv'
<1>1. PICK r : Fits(c, r) /\ call' = [call EXCEPT ![c] = r]
  <2>1. CASE Done(c)
    BY <2>1, DoneFits DEF Done
  <2>2. CASE FindsFile(c)
    BY <2>2, GoesOn DEF FindsFile, GoTo
  <2>3. CASE LooksIntoDir(c) /\ GoTo(c, "rmdir")
    BY <2>3, GoesOn DEF LooksIntoDir, GoTo
  <2>. QED BY <2>1, <2>2, <2>3 DEF CreateFails, FindsNoFile, RemoveFails, LooksIntoDir
<1>2. UNCHANGED <<session, release, disk, promise, overtaken, calls>> /\ broken' = FALSE
  BY DEF CreateFails, FindsNoFile, FindsFile, RemoveFails, LooksIntoDir, fileHistory, FilesIInv, ReadersSeeThem, FilesTypeOK
<1>. QED BY <1>1, <1>2, StepInPlace

LEMMA MakesDirsKeeps == ASSUME FilesIInv, NEW c \in Callers, MakesDirs(c) PROVE FilesIInv'
<1>1. PICK r : Fits(c, r) /\ call' = [call EXCEPT ![c] = r]
  BY GoesOn DEF MakesDirs, GoTo
<1>2. UNCHANGED <<session, release, file, promise, broken, calls>> /\ dirs' = {"session", "sub"}
      /\ overtaken' = (overtaken \/ session # "active")
  BY DEF MakesDirs
<1>3. broken' = FALSE /\ overtaken' \in BOOLEAN /\ calls' \in 0..MaxCalls
  BY <1>2 DEF FilesIInv, ReadersSeeThem, FilesTypeOK
<1>4. FilesHaveDirs' /\ ReleaseLeavesNothing'
  BY <1>2 DEF FilesHaveDirs, ReleaseLeavesNothing
<1>. QED BY <1>1, <1>2, <1>3, <1>4, StepOfOne

LEMMA RemovesDirKeeps == ASSUME FilesIInv, NEW c \in Callers, RemovesDir(c) PROVE FilesIInv'
<1>1. UNCHANGED <<session, release, file, promise, broken, overtaken, calls>> /\ call' = [call EXCEPT ![c] = NoCall]
      /\ dirs' = IF Present = {} THEN dirs \ {"sub"} ELSE dirs
  BY DEF RemovesDir, Done, fileHistory
<1>2. broken' = FALSE /\ overtaken' \in BOOLEAN /\ calls' \in 0..MaxCalls
  BY <1>1 DEF FilesIInv, ReadersSeeThem, FilesTypeOK
<1>3. dirs' \in {{}, {"session"}, {"session", "sub"}}
  BY <1>1 DEF FilesIInv, FilesTypeOK
<1>4. FilesHaveDirs' /\ ReleaseLeavesNothing'
  BY <1>1 DEF FilesIInv, FilesHaveDirs, ReleaseLeavesNothing, Present
<1>. QED BY <1>1, <1>2, <1>3, <1>4, StepOfOne, DoneFits

\* A listing that goes on, with less to be seen and less to be shown.
Listing(c, at, p, rest, sure) == [call[c] EXCEPT !.at = at, !.path = p, !.rest = rest, !.sure = sure]

LEMMA ListingGoesOn ==
  ASSUME FilesIInv, NEW c \in Callers, call[c].at \in {"sub", "entry", "stat"},
         NEW at \in {"entry", "stat"}, NEW p \in Files, NEW rest \in SUBSET Files, NEW sure,
         sure \subseteq call[c].sure, sure \subseteq rest
  PROVE  Fits(c, Listing(c, at, p, rest, sure))
<1>. DEFINE r == Listing(c, at, p, rest, sure)
<1>1. call[c] \in CallStates /\ IsOrderly(c) /\ IsSure(c) /\ (call[c].alone => IsAlone(c))
  BY FilesCallTyped DEF FilesIInv, CallsAreOrderly, AloneIsAlone, SureIsPromised
<1>2. sure \subseteq Files /\ sure \subseteq Promised
  BY <1>1 DEF CallStates, IsSure
<1>3. r \in CallStates /\ r.at = at /\ r.does = call[c].does /\ r.path = p /\ r.data = call[c].data
      /\ r.linked = call[c].linked /\ r.alone = call[c].alone /\ r.sure = sure /\ r.rest = rest
  BY <1>1, <1>2 DEF CallStates, Listing
<1>. HIDE DEF r
<1>4. call[c].does \notin Writing /\ ~call[c].linked /\ ~call[c].alone
  BY <1>1 DEF IsOrderly, IsAlone
<1>5. Fits(c, r)
  BY <1>1, <1>2, <1>3, <1>4 DEF Fits, Writing
<1>. QED BY <1>5 DEF r

\* A reader finds what it relies on, at every step.
LEMMA ReadersKeep ==
  ASSUME FilesIInv, NEW c \in Callers,
         \/ SizesFile(c) \/ ReadsFile(c) \/ ListsTop(c) \/ ListsSub(c)
         \/ (\E p \in Files : SeesEntry(c, p)) \/ ListsEntry(c) \/ ListingFails(c) \/ ListingEnds(c)
  PROVE  FilesIInv'
<1>0. call[c] \in CallStates
  BY FilesCallTyped DEF FilesIInv
<1>1. \A p \in call[c].sure : p \in Files /\ promise[p] \in Contents /\ file[p] = promise[p] /\ file[p] # NoFile
  BY <1>0, SessionFilesAssumption DEF FilesIInv, SureIsPromised, IsSure, FilesAreKept, Promised, FilesTypeOK, CallStates
<1>2. broken = FALSE
  BY DEF FilesIInv, ReadersSeeThem, FilesTypeOK
<1>3. UNCHANGED <<session, release, disk, promise, overtaken, calls>>
  BY DEF SizesFile, ReadsFile, ListsTop, ListsSub, SeesEntry, ListsEntry, ListingFails, ListingEnds, fileHistory
<1>4. call[c].sure # {} => "sub" \in dirs /\ call[c].sure \subseteq Present
  BY <1>1 DEF FilesIInv, FilesHaveDirs, Present
<1>5. CASE SizesFile(c)
  <2>1. CASE file[call[c].path] = NoFile
    <3>1. broken' = FALSE /\ call' = [call EXCEPT ![c] = NoCall]
      BY <1>1, <1>2, <1>5, <2>1 DEF SizesFile, Done
    <3>. QED BY <1>3, <3>1, DoneFits, StepInPlace
  <2>2. CASE file[call[c].path] # NoFile
    <3>. DEFINE r == [call[c] EXCEPT !.at = "read", !.size = Blocks(file[call[c].path])]
    <3>1. r \in CallStates /\ r.at = "read" /\ r.does = call[c].does /\ r.path = call[c].path /\ r.data = call[c].data
          /\ r.linked = call[c].linked /\ r.alone = call[c].alone /\ r.sure = call[c].sure
          /\ r.size = Blocks(file[call[c].path])
      BY <1>0, BlocksTyped DEF CallStates
    <3>2. call' = [call EXCEPT ![c] = r] /\ broken' = FALSE /\ call[c].at = "size"
      BY <1>2, <1>5, <2>2 DEF SizesFile
    <3>3. IsOrderly(c) /\ IsSure(c) /\ (call[c].alone => IsAlone(c))
      BY DEF FilesIInv, CallsAreOrderly, AloneIsAlone, SureIsPromised
    <3>. HIDE DEF r
    <3>4. Fits(c, r)
      BY <1>0, <3>1, <3>2, <3>3 DEF Fits, IsOrderly, IsSure, IsAlone, Writing, CallStates
    <3>. QED BY <1>3, <3>2, <3>4, StepInPlace
  <2>. QED BY <2>1, <2>2
<1>6. CASE ReadsFile(c)
  <2>. DEFINE p == call[c].path
              got == IF file[p] = NoFile \/ (call[c].does = "tail" /\ Blocks(file[p]) < call[c].size) THEN NoFile ELSE file[p]
  <2>1. p \in call[c].sure => got = promise[p]
    <3>1. call[c].at = "read" /\ p \in call[c].sure => call[c].size = Blocks(file[p])
      BY DEF FilesIInv, SureIsPromised, IsSure
    <3>2. ~(Blocks(file[p]) < Blocks(file[p]))
      BY BlocksTyped
    <3>. QED BY <1>1, <1>6, <3>1, <3>2 DEF ReadsFile
  <2>2. broken' = FALSE /\ call' = [call EXCEPT ![c] = NoCall]
    BY <1>2, <1>6, <2>1 DEF ReadsFile, Done
  <2>. QED BY <1>3, <2>2, DoneFits, StepInPlace
<1>7. CASE ListsTop(c)
  <2>1. CASE "sub" \in dirs
    <3>1. PICK r : Fits(c, r) /\ call' = [call EXCEPT ![c] = r]
      BY <1>7, <2>1, GoesOn DEF ListsTop, GoTo
    <3>. QED BY <1>2, <1>3, <1>7, <2>1, <3>1, StepInPlace DEF ListsTop
  <2>2. CASE "sub" \notin dirs
    <3>1. broken' = FALSE /\ call' = [call EXCEPT ![c] = NoCall]
      BY <1>2, <1>4, <1>7, <2>2 DEF ListsTop, Done
    <3>. QED BY <1>3, <3>1, DoneFits, StepInPlace
  <2>. QED BY <2>1, <2>2
<1>8. CASE ListsSub(c)
  <2>1. CASE "sub" \in dirs
    <3>1. call[c].at = "sub" /\ broken' = FALSE /\ call[c].path \in Files /\ Present \in SUBSET Files
      BY <1>0, <1>2, <1>8, <2>1 DEF ListsSub, CallStates, Present
    <3>2. call' = [call EXCEPT ![c] = Listing(c, "entry", call[c].path, Present, call[c].sure)]
      <4>1. [call[c] EXCEPT !.at = "entry", !.rest = Present] = Listing(c, "entry", call[c].path, Present, call[c].sure)
        BY <1>0 DEF CallStates, Listing
      <4>. QED BY <1>8, <2>1, <4>1 DEF ListsSub
    <3>3. call[c].sure \subseteq Present
      BY <1>4
    <3>4. Fits(c, Listing(c, "entry", call[c].path, Present, call[c].sure))
      BY <3>1, <3>3, ListingGoesOn
    <3>. QED BY <1>3, <3>1, <3>2, <3>4, StepInPlace
  <2>2. CASE "sub" \notin dirs
    <3>1. broken' = FALSE /\ call' = [call EXCEPT ![c] = NoCall]
      BY <1>2, <1>4, <1>8, <2>2 DEF ListsSub, Done
    <3>. QED BY <1>3, <3>1, DoneFits, StepInPlace
  <2>. QED BY <2>1, <2>2
<1>9. call[c].at \in {"entry", "stat"} => call[c].sure \subseteq call[c].rest
  BY DEF FilesIInv, SureIsPromised, IsSure
<1>10. ASSUME NEW p \in Files, SeesEntry(c, p) PROVE FilesIInv'
  <2>1. call[c].at = "entry" /\ broken' = FALSE /\ call[c].rest \in SUBSET Files /\ call[c].path \in Files
    BY <1>0, <1>2, <1>10 DEF SeesEntry, fileHistory, CallStates
  <2>2. CASE file[p] = NoFile
    <3>1. call' = [call EXCEPT ![c] = Listing(c, "entry", call[c].path, call[c].rest \ {p}, call[c].sure)]
      <4>1. [call[c] EXCEPT !.rest = @ \ {p}] = Listing(c, "entry", call[c].path, call[c].rest \ {p}, call[c].sure)
        BY <1>0, <2>1 DEF CallStates, Listing
      <4>. QED BY <1>10, <2>2, <4>1 DEF SeesEntry
    <3>2. call[c].sure \subseteq call[c].rest \ {p}
      BY <1>1, <1>9, <2>1, <2>2
    <3>3. Fits(c, Listing(c, "entry", call[c].path, call[c].rest \ {p}, call[c].sure))
      BY <2>1, <3>2, ListingGoesOn
    <3>. QED BY <1>3, <1>10, <2>1, <3>1, <3>3, StepInPlace
  <2>3. CASE file[p] # NoFile
    <3>1. call' = [call EXCEPT ![c] = Listing(c, "stat", p, call[c].rest, call[c].sure)]
      <4>1. [call[c] EXCEPT !.at = "stat", !.path = p] = Listing(c, "stat", p, call[c].rest, call[c].sure)
        BY <1>0, <2>1 DEF CallStates, Listing
      <4>. QED BY <1>10, <2>3, <4>1 DEF SeesEntry
    <3>2. Fits(c, Listing(c, "stat", p, call[c].rest, call[c].sure))
      BY <1>9, <2>1, ListingGoesOn
    <3>. QED BY <1>3, <1>10, <2>1, <3>1, <3>2, StepInPlace
  <2>. QED BY <2>2, <2>3
<1>11. CASE ListsEntry(c)
  <2>. DEFINE p == call[c].path
  <2>1. call[c].at = "stat" /\ broken' = FALSE /\ p \in Files /\ call[c].rest \ {p} \in SUBSET Files
    BY <1>0, <1>2, <1>11 DEF ListsEntry, fileHistory, CallStates
  <2>2. call' = [call EXCEPT ![c] = Listing(c, "entry", p, call[c].rest \ {p}, call[c].sure \ {p})]
    <3>1. [call[c] EXCEPT !.at = "entry", !.rest = @ \ {p}, !.sure = @ \ {p}]
            = Listing(c, "entry", p, call[c].rest \ {p}, call[c].sure \ {p})
      BY <1>0 DEF CallStates, Listing
    <3>. QED BY <1>11, <3>1 DEF ListsEntry
  <2>3. call[c].sure \ {p} \subseteq call[c].rest \ {p} /\ call[c].sure \ {p} \subseteq call[c].sure
    BY <1>9, <2>1
  <2>. HIDE DEF p
  <2>4. Fits(c, Listing(c, "entry", p, call[c].rest \ {p}, call[c].sure \ {p}))
    BY <2>1, <2>3, ListingGoesOn
  <2>. QED BY <1>3, <1>11, <2>1, <2>2, <2>4, StepInPlace
<1>12. CASE ListingFails(c)
  <2>1. broken' = FALSE /\ call' = [call EXCEPT ![c] = NoCall]
    BY <1>1, <1>2, <1>12 DEF ListingFails, Done
  <2>. QED BY <1>3, <2>1, DoneFits, StepInPlace
<1>13. CASE ListingEnds(c)
  <2>1. broken' = FALSE /\ call' = [call EXCEPT ![c] = NoCall]
    BY <1>2, <1>9, <1>13 DEF ListingEnds, Done
  <2>. QED BY <1>3, <2>1, DoneFits, StepInPlace
<1>. QED BY <1>5, <1>6, <1>7, <1>8, <1>10, <1>11, <1>12, <1>13

-----------------------------------------------------------------------------
\* Opening a file disturbs nobody who is alone with it or relies on it.
LEMMA CreatesFileKeeps == ASSUME FilesIInv, NEW c \in Callers, CreatesFile(c) PROVE FilesIInv'
<1>. DEFINE p == call[c].path
            r == [call[c] EXCEPT !.at = "write", !.linked = TRUE]
<1>0. call[c] \in CallStates
  BY FilesCallTyped DEF FilesIInv
<1>1. r \in CallStates /\ r.at = "write" /\ r.does = call[c].does /\ r.path = p /\ r.data = call[c].data
      /\ r.linked /\ r.alone = call[c].alone /\ r.sure = call[c].sure
  BY <1>0 DEF CallStates
<1>2. call' = [call EXCEPT ![c] = r] /\ call[c].at = "create" /\ "sub" \in dirs /\ file' = [file EXCEPT ![p] = "empty"]
      /\ UNCHANGED <<session, release, dirs, promise, broken, overtaken, calls>>
  BY DEF CreatesFile, fileHistory
<1>3. p \in Files
  BY <1>0 DEF CallStates
<1>4. call[c].does \in Writing /\ call[c].data \in Contents /\ call[c].does \in {"put", "preset"}
  BY <1>2 DEF FilesIInv, CallsAreOrderly, IsOrderly, Writing
<1>. HIDE DEF p, r
<1>5. call' \in [Callers -> CallStates] /\ call'[c] = r /\ \A d \in Callers : d # c => call'[d] = call[d]
  BY <1>1, <1>2, OneCall DEF FilesIInv
<1>6. file'[p] = "empty" /\ (\A q \in Files : q # p => file'[q] = file[q]) /\ file' \in [Files -> Data \cup {NoFile}]
  BY <1>2, <1>3 DEF FilesIInv, FilesTypeOK, Data
<1>7. promise[p] = NoFile /\ NoFile # "empty"
  BY <1>4, SessionFilesAssumption DEF FilesIInv, PromisesAreFree, p
<1>8. \A d \in Callers : call[d].path \in Files /\ call[d].sure \subseteq Promised
  BY FilesCallTyped DEF FilesIInv, CallStates, SureIsPromised, IsSure
<1>9. FilesTypeOK'
  BY <1>2, <1>5, <1>6 DEF FilesIInv, FilesTypeOK, CallStates, Data
<1>10. FilesAreKept' /\ ReadersSeeThem'
  BY <1>2, <1>6, <1>7 DEF FilesIInv, FilesAreKept, ReadersSeeThem, Promised
<1>11. FilesHaveDirs' /\ ReleaseLeavesNothing'
  BY <1>2 DEF FilesIInv, FilesHaveDirs, ReleaseLeavesNothing, FilesTypeOK
<1>12. CallsAreOrderly'
  BY <1>1, <1>4, <1>5, <1>6, <1>7, <1>8 DEF FilesIInv, CallsAreOrderly, IsOrderly
<1>13. ReleaseIsOrderly' /\ PromisesAreFree'
  BY <1>1, <1>2, <1>5, <1>7 DEF FilesIInv, ReleaseIsOrderly, PromisesAreFree, Promised, p
<1>14. AloneIsAlone'
  <2>. SUFFICES ASSUME NEW d \in Callers, call'[d].alone PROVE IsAlone(d)'
    BY DEF AloneIsAlone
  <2>1. CASE d = c
    BY <2>1, <1>1, <1>4, <1>5, <1>6 DEF FilesIInv, AloneIsAlone, IsAlone, p
  <2>2. CASE d # c
    <3>1. call[d].path # p
      BY <2>2, <1>4, <1>5 DEF FilesIInv, AloneIsAlone, IsAlone, p
    <3>. QED BY <2>2, <3>1, <1>1, <1>2, <1>5, <1>6, <1>8 DEF FilesIInv, AloneIsAlone, IsAlone, p
  <2>. QED BY <2>1, <2>2
<1>15. SureIsPromised'
  <2>. SUFFICES ASSUME NEW d \in Callers PROVE IsSure(d)'
    BY DEF SureIsPromised
  <2>1. call'[d].sure = call[d].sure /\ Promised' = Promised /\ p \notin call[d].sure
    BY <1>1, <1>2, <1>5, <1>7, <1>8 DEF Promised
  <2>. QED BY <2>1, <1>1, <1>2, <1>5, <1>6, <1>8 DEF FilesIInv, SureIsPromised, IsSure
<1>. QED BY <1>9, <1>10, <1>11, <1>12, <1>13, <1>14, <1>15 DEF FilesIInv

\* The last step of an upload: who was alone with the file has it, and promises it.
LEMMA WritesFileKeeps == ASSUME FilesIInv, NEW c \in Callers, WritesFile(c) PROVE FilesIInv'
<1>. DEFINE p == call[c].path
<1>0. call[c] \in CallStates
  BY FilesCallTyped DEF FilesIInv
<1>1. call' = [call EXCEPT ![c] = NoCall] /\ call[c].at = "write"
      /\ UNCHANGED <<session, release, dirs, broken, overtaken, calls>>
  BY DEF WritesFile, Done
<1>2. p \in Files
  BY <1>0 DEF CallStates
<1>3. call[c].does \in Writing /\ call[c].data \in Contents /\ promise[p] = NoFile
  BY <1>1 DEF FilesIInv, CallsAreOrderly, IsOrderly, Writing, PromisesAreFree
<1>4. file' = (IF call[c].linked THEN [file EXCEPT ![p] = Put(file[p], call[c].data)] ELSE file)
      /\ promise' = (IF call[c].alone /\ session = "active" THEN [promise EXCEPT ![p] = call[c].data] ELSE promise)
  BY DEF WritesFile
<1>5. call[c].linked => file[p] # NoFile
  BY DEF FilesIInv, CallsAreOrderly, IsOrderly
<1>6. call[c].alone => IsAlone(c)
  BY DEF FilesIInv, AloneIsAlone
<1>7. NoCall \in CallStates /\ NoCall.at = "idle" /\ NoCall.does = "nothing" /\ NoCall.sure = {} /\ ~NoCall.linked /\ ~NoCall.alone
  BY NoCallTyped DEF NoCall, Call
<1>8. call' \in [Callers -> CallStates] /\ call'[c] = NoCall /\ \A d \in Callers : d # c => call'[d] = call[d]
  BY <1>1, <1>7, OneCall DEF FilesIInv
<1>9. \A d \in Callers : call[d].path \in Files /\ call[d].sure \subseteq Promised /\ p \notin call[d].sure
  BY <1>3, FilesCallTyped DEF FilesIInv, CallStates, SureIsPromised, IsSure, Promised
<1>10. file \in [Files -> Data \cup {NoFile}] /\ promise \in [Files -> Contents \cup {NoFile}]
  BY DEF FilesIInv, FilesTypeOK
<1>11. Put(file[p], call[c].data) \in Data \ {NoFile} /\ call[c].data # NoFile
  BY <1>3, SessionFilesAssumption DEF Put, Data
<1>12. /\ file' \in [Files -> Data \cup {NoFile}] /\ promise' \in [Files -> Contents \cup {NoFile}]
       /\ \A q \in Files : (q # p => file'[q] = file[q] /\ promise'[q] = promise[q])
       /\ \A q \in Files : file'[q] = NoFile <=> file[q] = NoFile
  BY <1>2, <1>3, <1>4, <1>5, <1>10, <1>11
<1>13. promise'[p] # NoFile =>
         /\ call[c].alone /\ session = "active" /\ promise'[p] = call[c].data /\ file'[p] = call[c].data
         /\ \A d \in Callers \ {c} : call[d].does \in Writing => call[d].path # p
  <2>. SUFFICES ASSUME promise'[p] # NoFile PROVE <1>13!2
    OBVIOUS
  <2>1. call[c].alone /\ session = "active" /\ promise'[p] = call[c].data
    BY <1>2, <1>3, <1>4, <1>10
  <2>2. call[c].linked /\ file[p] = "empty" /\ \A d \in Callers \ {c} : call[d].does \in Writing => call[d].path # p
    BY <1>1, <1>6, <2>1 DEF IsAlone
  <2>3. file'[p] = call[c].data
    BY <1>2, <1>4, <1>10, <2>2 DEF Put
  <2>. QED BY <2>1, <2>2, <2>3
<1>. HIDE DEF p
<1>14. FilesTypeOK'
  BY <1>1, <1>8, <1>12 DEF FilesIInv, FilesTypeOK, CallStates
<1>15. FilesAreKept' /\ ReadersSeeThem'
  BY <1>1, <1>12, <1>13 DEF FilesIInv, FilesAreKept, ReadersSeeThem, Promised
<1>16. Present' = Present
  BY <1>12 DEF Present
<1>17. FilesHaveDirs' /\ ReleaseLeavesNothing'
  BY <1>1, <1>16 DEF FilesIInv, FilesHaveDirs, ReleaseLeavesNothing
<1>18. CallsAreOrderly'
  BY <1>7, <1>8, <1>9, <1>12 DEF FilesIInv, CallsAreOrderly, IsOrderly
<1>19. ReleaseIsOrderly'
  <2>1. session # "active" => promise' = promise
    BY <1>4
  <2>. QED BY <2>1, <1>1 DEF FilesIInv, ReleaseIsOrderly, Promised
<1>20. PromisesAreFree'
  BY <1>7, <1>8, <1>9, <1>12, <1>13 DEF FilesIInv, PromisesAreFree, Writing
<1>21. AloneIsAlone'
  <2>. SUFFICES ASSUME NEW d \in Callers, call'[d].alone PROVE IsAlone(d)'
    BY DEF AloneIsAlone
  <2>1. d # c /\ call'[d] = call[d]
    BY <1>7, <1>8
  <2>2. IsAlone(d)
    BY <2>1 DEF FilesIInv, AloneIsAlone
  <2>3. call[d].path # p /\ call[d].path \in Files
    BY <1>3, <1>9, <2>1, <2>2 DEF IsAlone, p
  <2>. QED BY <1>1, <1>7, <1>8, <1>12, <2>1, <2>2, <2>3 DEF IsAlone, Writing
<1>22. SureIsPromised'
  <2>. SUFFICES ASSUME NEW d \in Callers PROVE IsSure(d)'
    BY DEF SureIsPromised
  <2>1. call'[d].sure \subseteq Promised'
    BY <1>7, <1>8, <1>9, <1>12 DEF Promised
  <2>2. call'[d].at = "read" /\ call'[d].path \in call'[d].sure => call'[d] = call[d] /\ file'[call[d].path] = file[call[d].path]
    BY <1>7, <1>8, <1>9, <1>12
  <2>3. call'[d].at \in {"entry", "stat"} => call'[d] = call[d]
    BY <1>7, <1>8
  <2>. QED BY <2>1, <2>2, <2>3 DEF FilesIInv, SureIsPromised, IsSure
<1>. QED BY <1>14, <1>15, <1>17, <1>18, <1>19, <1>20, <1>21, <1>22 DEF FilesIInv

-----------------------------------------------------------------------------
\* Removing files cuts off who has them open, and changes nothing else of a request.
LEMMA UnlinkedOf ==
  ASSUME NEW calling \in [Callers -> CallStates], NEW paths, NEW c \in Callers
  PROVE  LET u == Unlinked(paths, calling)[c] IN
           /\ u \in CallStates /\ u.does = calling[c].does /\ u.at = calling[c].at /\ u.path = calling[c].path
           /\ u.data = calling[c].data /\ u.alone = calling[c].alone /\ u.sure = calling[c].sure /\ u.size = calling[c].size
           /\ u.rest = calling[c].rest
           /\ u.linked => calling[c].linked /\ calling[c].path \notin paths
           /\ calling[c].linked /\ calling[c].path \notin paths => u.linked
<1>1. CASE calling[c].path \in paths
  <2>1. Unlinked(paths, calling)[c] = [calling[c] EXCEPT !.linked = FALSE]
    BY <1>1 DEF Unlinked
  <2>. DEFINE old == calling[c]
              new == [old EXCEPT !.linked = FALSE]
  <2>2. old \in CallStates
    OBVIOUS
  <2>. HIDE DEF old
  <2>3. new \in CallStates /\ new.does = old.does /\ new.at = old.at /\ new.path = old.path /\ new.data = old.data
        /\ new.alone = old.alone /\ new.sure = old.sure /\ new.size = old.size /\ new.rest = old.rest /\ ~new.linked
    BY <2>2 DEF CallStates
  <2>. HIDE DEF new
  <2>4. Unlinked(paths, calling)[c] = new
    BY <2>1 DEF new, old
  <2>. QED BY <1>1, <2>3, <2>4 DEF old
<1>2. CASE calling[c].path \notin paths
  <2>1. Unlinked(paths, calling)[c] = calling[c]
    BY <1>2 DEF Unlinked
  <2>. QED BY <1>2, <2>1 DEF CallStates
<1>. QED BY <1>1, <1>2

LEMMA RemovesFileKeeps == ASSUME FilesIInv, NEW c \in Callers, RemovesFile(c) PROVE FilesIInv'
<1>. DEFINE p == call[c].path
            r == [call[c] EXCEPT !.at = "count"]
            mid == [call EXCEPT ![c] = r]
<1>0. call[c] \in CallStates /\ call \in [Callers -> CallStates]
  BY FilesCallTyped DEF FilesIInv
<1>1. r \in CallStates /\ r.at = "count" /\ r.does = call[c].does /\ r.path = p /\ r.data = call[c].data
      /\ r.linked = call[c].linked /\ r.alone = call[c].alone /\ r.sure = call[c].sure
  BY <1>0 DEF CallStates
<1>2. call' = Unlinked({p}, mid) /\ call[c].at = "remove" /\ file' = [file EXCEPT ![p] = NoFile]
      /\ UNCHANGED <<session, release, dirs, promise, broken, overtaken, calls>>
  BY DEF RemovesFile, fileHistory
<1>3. p \in Files
  BY <1>0 DEF CallStates
<1>4. call[c].does = "delete" /\ call[c].does \in Writing /\ promise[p] = NoFile /\ ~call[c].linked
  BY <1>2 DEF FilesIInv, CallsAreOrderly, IsOrderly, Writing, PromisesAreFree
<1>. HIDE DEF p, r
<1>5. mid \in [Callers -> CallStates] /\ mid[c] = r /\ \A d \in Callers : d # c => mid[d] = call[d]
  BY <1>0, <1>1
<1>. HIDE DEF mid
<1>6. \A d \in Callers :
        /\ call'[d] \in CallStates /\ call'[d].does = call[d].does /\ call'[d].path = call[d].path
        /\ call'[d].data = call[d].data /\ call'[d].alone = call[d].alone /\ call'[d].sure = call[d].sure
        /\ call'[d].linked => call[d].linked /\ call[d].path # p
        /\ call[d].linked /\ call[d].path # p => call'[d].linked
        /\ d # c => call'[d].at = call[d].at /\ call'[d].size = call[d].size /\ call'[d].rest = call[d].rest
  <2>. TAKE d \in Callers
  <2>1. mid[d].does = call[d].does /\ mid[d].path = call[d].path /\ mid[d].data = call[d].data /\ mid[d].alone = call[d].alone
        /\ mid[d].sure = call[d].sure /\ mid[d].linked = call[d].linked
        /\ (d # c => mid[d].at = call[d].at /\ mid[d].size = call[d].size /\ mid[d].rest = call[d].rest)
    BY <1>1, <1>5 DEF p
  <2>. QED BY <1>2, <1>5, <2>1, UnlinkedOf
<1>7. call'[c].at = "count" /\ call' \in [Callers -> CallStates]
  <2>1. call'[c].at = "count"
    BY <1>1, <1>2, <1>5, UnlinkedOf
  <2>2. DOMAIN call' = Callers /\ call' = [d \in Callers |-> call'[d]]
    BY <1>2 DEF Unlinked
  <2>. QED BY <1>6, <2>1, <2>2
<1>8. file'[p] = NoFile /\ (\A q \in Files : q # p => file'[q] = file[q]) /\ file' \in [Files -> Data \cup {NoFile}]
  BY <1>2, <1>3 DEF FilesIInv, FilesTypeOK
<1>9. \A d \in Callers : call[d].path \in Files /\ call[d].sure \subseteq Promised /\ p \notin call[d].sure
  BY <1>0, <1>4 DEF FilesIInv, CallStates, SureIsPromised, IsSure, Promised
<1>10. FilesTypeOK'
  BY <1>2, <1>7, <1>8 DEF FilesIInv, FilesTypeOK, CallStates
<1>11. FilesAreKept' /\ ReadersSeeThem' /\ ReleaseIsOrderly'
  BY <1>2, <1>4, <1>8 DEF FilesIInv, FilesAreKept, ReadersSeeThem, Promised, ReleaseIsOrderly
<1>12. FilesHaveDirs' /\ ReleaseLeavesNothing'
  <2>1. Present' \subseteq Present
    BY <1>3, <1>8 DEF Present
  <2>. QED BY <1>2, <2>1 DEF FilesIInv, FilesHaveDirs, ReleaseLeavesNothing
<1>13. CallsAreOrderly'
  <2>. SUFFICES ASSUME NEW d \in Callers PROVE IsOrderly(d)'
    BY DEF CallsAreOrderly
  <2>1. CASE d = c
    BY <2>1, <1>4, <1>6, <1>7 DEF IsOrderly
  <2>2. CASE d # c
    BY <2>2, <1>6, <1>8, <1>9 DEF FilesIInv, CallsAreOrderly, IsOrderly
  <2>. QED BY <2>1, <2>2
<1>14. PromisesAreFree'
  <2>. SUFFICES ASSUME NEW d \in Callers, call'[d].does \in Writing PROVE promise'[call'[d].path] = NoFile
    BY DEF PromisesAreFree, Writing
  <2>1. call[d].does \in Writing /\ call'[d].path = call[d].path
    BY <1>6
  <2>2. promise[call[d].path] = NoFile
    BY <2>1 DEF FilesIInv, PromisesAreFree
  <2>. QED BY <1>2, <2>1, <2>2
<1>15. AloneIsAlone'
  <2>. SUFFICES ASSUME NEW d \in Callers, call'[d].alone PROVE IsAlone(d)'
    BY DEF AloneIsAlone
  <2>1. IsAlone(d)
    BY <1>6 DEF FilesIInv, AloneIsAlone
  <2>2. CASE d = c
    BY <2>1, <2>2, <1>4, <1>6, <1>7 DEF IsAlone
  <2>3. CASE d # c
    <3>1. call[d].path # p
      BY <2>1, <2>3, <1>4 DEF IsAlone, p
    <3>2. call'[d].does \in Writing /\ \A e \in Callers \ {d} : call'[e].does \in Writing => call'[e].path # call'[d].path
      BY <2>1, <1>6 DEF IsAlone
    <3>3. ASSUME session' = "active", call'[d].at = "write" PROVE call'[d].linked /\ file'[call'[d].path] = "empty"
      <4>1. session = "active" /\ call[d].at = "write"
        BY <3>3, <2>3, <1>2, <1>6
      <4>2. call[d].linked /\ file[call[d].path] = "empty"
        BY <4>1, <2>1 DEF IsAlone
      <4>. QED BY <4>2, <3>1, <1>6, <1>8, <1>9
    <3>. QED BY <3>2, <3>3 DEF IsAlone, Writing
  <2>. QED BY <2>2, <2>3
<1>16. SureIsPromised'
  <2>. SUFFICES ASSUME NEW d \in Callers PROVE IsSure(d)'
    BY DEF SureIsPromised
  <2>1. call'[d].sure = call[d].sure /\ Promised' = Promised
    BY <1>2, <1>6 DEF Promised
  <2>2. CASE d = c
    BY <2>1, <2>2, <1>7, <1>9 DEF IsSure
  <2>3. CASE d # c
    BY <2>1, <2>3, <1>6, <1>8, <1>9 DEF FilesIInv, SureIsPromised, IsSure
  <2>. QED BY <2>2, <2>3
<1>. QED BY <1>10, <1>11, <1>12, <1>13, <1>14, <1>15, <1>16 DEF FilesIInv

-----------------------------------------------------------------------------
\* With the release all promises are void.
LEMMA BeginsReleaseKeeps == ASSUME FilesIInv, BeginsRelease PROVE FilesIInv'
<1>1. session' = "releasing" /\ release' = "files" /\ promise' = [q \in Files |-> NoFile]
      /\ UNCHANGED <<dirs, file, broken, overtaken, calls>>
  BY DEF BeginsRelease, disk
<1>2. call \in [Callers -> CallStates]
  BY FilesCallTyped DEF FilesIInv
<1>3. call' = [c \in Callers |-> [call[c] EXCEPT !.sure = {}]]
  BY DEF BeginsRelease
<1>4. \A c \in Callers :
        /\ call'[c] \in CallStates /\ call'[c].does = call[c].does /\ call'[c].path = call[c].path
        /\ call'[c].data = call[c].data /\ call'[c].alone = call[c].alone /\ call'[c].linked = call[c].linked
        /\ call'[c].at = call[c].at /\ call'[c].sure = {} /\ call[c].path \in Files
  BY <1>2, <1>3 DEF CallStates
<1>5. call' \in [Callers -> CallStates]
  BY <1>3, <1>4
<1>6. FilesTypeOK'
  BY <1>1, <1>5 DEF FilesIInv, FilesTypeOK, CallStates
<1>7. Promised' = {}
  BY <1>1 DEF Promised
<1>8. FilesAreKept' /\ ReadersSeeThem' /\ FilesHaveDirs' /\ ReleaseLeavesNothing' /\ ReleaseIsOrderly'
  BY <1>1, <1>7 DEF FilesIInv, FilesAreKept, ReadersSeeThem, FilesHaveDirs, ReleaseLeavesNothing, ReleaseIsOrderly, Present
<1>9. CallsAreOrderly'
  BY <1>1, <1>4 DEF FilesIInv, CallsAreOrderly, IsOrderly
<1>10. PromisesAreFree'
  BY <1>1, <1>4 DEF PromisesAreFree
<1>11. AloneIsAlone'
  BY <1>1, <1>4 DEF FilesIInv, AloneIsAlone, IsAlone
<1>12. SureIsPromised'
  BY <1>4 DEF SureIsPromised, IsSure
<1>. QED BY <1>6, <1>8, <1>9, <1>10, <1>11, <1>12 DEF FilesIInv

LEMMA RemovesAllFilesKeeps == ASSUME FilesIInv, RemovesAllFiles PROVE FilesIInv'
<1>1. release = "files" /\ release' = "sub" /\ file' = [q \in Files |-> NoFile] /\ call' = Unlinked(Files, call)
      /\ UNCHANGED <<session, dirs, promise, broken, overtaken, calls>>
  BY DEF RemovesAllFiles, fileHistory
<1>2. call \in [Callers -> CallStates] /\ session = "releasing" /\ Promised = {}
  BY <1>1, FilesCallTyped DEF FilesIInv, ReleaseIsOrderly
<1>3. \A c \in Callers :
        /\ call'[c] \in CallStates /\ call'[c].does = call[c].does /\ call'[c].path = call[c].path
        /\ call'[c].data = call[c].data /\ call'[c].alone = call[c].alone /\ ~call'[c].linked
        /\ call'[c].at = call[c].at /\ call'[c].sure = call[c].sure /\ call[c].path \in Files
  <2>1. \A c \in Callers : call[c].path \in Files
    BY <1>2 DEF CallStates
  <2>. QED BY <1>1, <1>2, <2>1, UnlinkedOf
<1>4. call' \in [Callers -> CallStates]
  <2>1. call' = [c \in Callers |-> call'[c]]
    BY <1>1 DEF Unlinked
  <2>. QED BY <1>3, <2>1
<1>5. FilesTypeOK'
  BY <1>1, <1>4 DEF FilesIInv, FilesTypeOK, CallStates, Data
<1>6. Promised' = {} /\ Present' = {}
  BY <1>1, <1>2 DEF Promised, Present
<1>7. FilesAreKept' /\ ReadersSeeThem' /\ FilesHaveDirs' /\ ReleaseLeavesNothing' /\ ReleaseIsOrderly'
  BY <1>1, <1>2, <1>6 DEF FilesIInv, FilesAreKept, ReadersSeeThem, FilesHaveDirs, ReleaseLeavesNothing, ReleaseIsOrderly
<1>8. CallsAreOrderly'
  BY <1>3 DEF FilesIInv, CallsAreOrderly, IsOrderly
<1>9. PromisesAreFree'
  BY <1>1, <1>3 DEF FilesIInv, PromisesAreFree
<1>10. AloneIsAlone'
  BY <1>1, <1>2, <1>3 DEF FilesIInv, AloneIsAlone, IsAlone
<1>11. SureIsPromised'
  BY <1>2, <1>3, <1>6 DEF FilesIInv, SureIsPromised, IsSure
<1>. QED BY <1>5, <1>7, <1>8, <1>9, <1>10, <1>11 DEF FilesIInv

\* Directories are removed when they are empty, and the session goes with the last.
LEMMA RemovesDirsKeeps == ASSUME FilesIInv, RemovesSub \/ RemovesSessionDir PROVE FilesIInv'
<1>1. UNCHANGED <<file, call, promise, broken, overtaken, calls>>
  BY DEF RemovesSub, RemovesSessionDir, fileHistory
<1>2. session = "releasing" /\ session' \in {"releasing", "gone"} /\ (release' # "none" <=> session' = "releasing")
      /\ release' \in {"none", "files", "session"}
  BY DEF RemovesSub, RemovesSessionDir, FilesIInv, ReleaseIsOrderly
<1>3. dirs' \in {{}, {"session"}, {"session", "sub"}} /\ FilesHaveDirs' /\ ReleaseLeavesNothing'
  <2>0. Present' = Present
    BY <1>1 DEF Present
  <2>1. CASE RemovesSub
    BY <1>1, <1>2, <2>0, <2>1 DEF RemovesSub, FilesIInv, FilesTypeOK, FilesHaveDirs, ReleaseLeavesNothing
  <2>2. CASE RemovesSessionDir
    BY <1>1, <1>2, <2>0, <2>2 DEF RemovesSessionDir, FilesIInv, FilesTypeOK, FilesHaveDirs, ReleaseLeavesNothing
  <2>. QED BY <2>1, <2>2
<1>4. FilesTypeOK'
  BY <1>1, <1>2, <1>3 DEF FilesIInv, FilesTypeOK
<1>5. FilesAreKept' /\ ReadersSeeThem' /\ CallsAreOrderly' /\ PromisesAreFree' /\ SureIsPromised' /\ ReleaseIsOrderly'
  BY <1>1, <1>2 DEF FilesIInv, FilesAreKept, ReadersSeeThem, Promised, CallsAreOrderly, IsOrderly, PromisesAreFree, SureIsPromised, IsSure,
                    ReleaseIsOrderly
<1>6. AloneIsAlone'
  BY <1>1, <1>2 DEF FilesIInv, AloneIsAlone, IsAlone
<1>. QED BY <1>3, <1>4, <1>5, <1>6 DEF FilesIInv

-----------------------------------------------------------------------------
LEMMA FilesInitHolds == FilesInit => FilesIInv
<1>. SUFFICES ASSUME FilesInit PROVE FilesIInv
  OBVIOUS
<1>1. NoCall \in CallStates /\ NoCall.at = "idle" /\ NoCall.does = "nothing" /\ NoCall.sure = {} /\ ~NoCall.linked /\ ~NoCall.alone
  BY NoCallTyped DEF NoCall, Call
<1>2. call \in [Callers -> CallStates] /\ \A c \in Callers : call[c] = NoCall
  BY <1>1 DEF FilesInit
<1>3. Promised = {} /\ Present = {}
  BY DEF FilesInit, Promised, Present
<1>4. FilesTypeOK
  <2>1. file \in [Files -> Data \cup {NoFile}] /\ promise \in [Files -> Contents \cup {NoFile}]
    BY DEF FilesInit
  <2>2. session = "active" /\ release = "none" /\ dirs = {} /\ calls \in 0..MaxCalls /\ ~broken /\ ~overtaken
    BY SessionFilesAssumption DEF FilesInit
  <2>3. broken \in BOOLEAN /\ overtaken \in BOOLEAN
    BY Zenon DEF FilesInit
  <2>. QED BY <1>2, <2>1, <2>2, <2>3 DEF FilesTypeOK, CallStates
<1>5. FilesAreKept /\ ReadersSeeThem /\ FilesHaveDirs /\ ReleaseLeavesNothing /\ ReleaseIsOrderly
  BY <1>3 DEF FilesInit, FilesAreKept, ReadersSeeThem, FilesHaveDirs, ReleaseLeavesNothing, ReleaseIsOrderly
<1>6. CallsAreOrderly /\ PromisesAreFree /\ AloneIsAlone /\ SureIsPromised
  BY <1>1, <1>2 DEF CallsAreOrderly, IsOrderly, PromisesAreFree, AloneIsAlone, SureIsPromised, IsSure, Writing
<1>. QED BY <1>4, <1>5, <1>6 DEF FilesIInv

LEMMA FilesNextKeeps == ASSUME FilesIInv, [FilesNext]_fileVars PROVE FilesIInv'
<1>0. CASE UNCHANGED fileVars
  BY <1>0 DEF fileVars, FilesIInv, FilesTypeOK, FilesAreKept, ReadersSeeThem, FilesHaveDirs, ReleaseLeavesNothing, CallsAreOrderly, IsOrderly,
              ReleaseIsOrderly, PromisesAreFree, AloneIsAlone, IsAlone, SureIsPromised, IsSure, Promised, Present
<1>1. ASSUME NEW c \in Callers, NEW p \in Files, DeleteFile(c, p)
      PROVE  FilesIInv'
  BY <1>1, BeginWriteKeeps DEF DeleteFile, Writing
<1>2. ASSUME NEW c \in Callers, NEW p \in Files, Download(c, p)
      PROVE  FilesIInv'
  <2>1. PICK does \in {"all", "tail"} : BeginRead(c, does, {p})
    BY <1>2 DEF Download
  <2>. QED BY <2>1, BeginReadKeeps
<1>3. ASSUME NEW c \in Callers, NEW p \in Files, NEW data \in Contents, PutFile(c, p, data)
      PROVE  FilesIInv'
  BY <1>3, BeginWriteKeeps DEF PutFile, Writing
<1>4. ASSUME NEW c \in Callers, GetDtb(c)
      PROVE  FilesIInv'
  BY <1>4, BeginWriteKeeps, SessionFilesAssumption DEF GetDtb, Writing
<1>5. ASSUME NEW c \in Callers, ListFiles(c)
      PROVE  FilesIInv'
  BY <1>5, BeginReadKeeps, SessionFilesAssumption DEF ListFiles
<1>. QED BY <1>0, <1>1, <1>2, <1>3, <1>4, <1>5, MakesDirsKeeps, CreatesFileKeeps, WritesFileKeeps, QuietRequests, RemovesFileKeeps,
            RemovesDirKeeps, ReadersKeep, BeginsReleaseKeeps, RemovesAllFilesKeeps, RemovesDirsKeeps DEF FilesNext

\* For any requests, files and contents: an upload that was answered stays as it was, is given by downloads and is in
\* every listing that is answered until somebody writes that very file, and a released session leaves nothing behind.
THEOREM FilesAreSound == FilesSpec => []FilesInv
<1>1. FilesSpec => []FilesIInv
  BY FilesInitHolds, FilesNextKeeps, PTL DEF FilesSpec
<1>2. FilesIInv => FilesInv
  BY DEF FilesIInv, FilesInv
<1>. QED BY <1>1, <1>2, PTL

-----------------------------------------------------------------------------
(***************************************************************************)
(* ServerSetup.                                                            *)
(***************************************************************************)
Updates == [at : Stages, tftp : Settings \cup {Nothing}, copy : Config \cup {Nothing}]

\* Requests are served when the server is, with what they have been asked.
UpdatesAreOrderly ==
  \A a \in Admins :
    /\ update[a].at = "idle" => update[a] = Idle
    /\ update[a].at \in {"reconcile", "commit", "swap"} => update[a].tftp \in Settings
    /\ update[a].at \in {"open", "write"} => update[a].copy \in Config
    /\ server # "serve" => update[a].at = "idle"

\* What has been loaded and started.
LoadedInOrder ==
  /\ server # "down" => memory \in Config
  /\ server \in {"start", "reconcile", "serve"} => manager \in Settings

\* As long as nothing is torn one request at a time is at work.
OneAtATime ==
  ~torn => \A a, b \in Admins : update[a].at # "idle" /\ update[b].at # "idle" => a = b

\* What is about to be written is what is in memory, and the file is whole but in the middle of a write.
CopyFollows ==
  server # "down" /\ ~torn =>
    /\ saved \in Config \/ \E a \in Admins : update[a].at = "write"
    /\ \A a \in Admins : update[a].at = "write" => saved = Broken
    /\ \A a \in Admins : update[a].at \in {"open", "write"} => update[a].copy = memory

\* The file is what is in memory, until a request has changed that and again when it has saved it, which also
\* brings together what a dropped one has parted.
FileFollows ==
  server # "down" /\ ~torn /\ (~parted \/ \E a \in Admins : update[a].at = "swap")
    /\ (\A a \in Admins : update[a].at \notin {"copy", "open", "write"}) => saved \in Config /\ SameSettings(saved, memory)

Committed == {"copy", "open", "write", "swap"}

\* Memory has the settings of the request that has committed.
MemoryFollows ==
  server = "serve" /\ ~torn =>
    \A a \in Admins : update[a].at \in Committed /\ update[a].tftp # Nothing => memory.tftp = update[a].tftp

\* The manager has those in memory, until a request has committed other settings and again when it has swapped it.
ManagerFollows ==
  server \in {"start", "reconcile", "serve"} /\ ~torn /\ ~parted
    /\ (\A a \in Admins : update[a].at \in Committed => update[a].tftp = Nothing) => manager = memory.tftp

\* And the port, which changes first.
PortFollows ==
  server = "serve" /\ ~torn /\ ~strayed =>
    /\ \A a \in Admins :
         update[a].at \in {"commit"} \cup Committed /\ update[a].tftp # Nothing /\ update[a].tftp.enabled =>
           port.root = update[a].tftp.root
    /\ ~parted /\ (\A a \in Admins : update[a].at \in {"commit"} \cup Committed => update[a].tftp = Nothing) /\ manager.enabled =>
         port.root = manager.root

SetupIInv ==
  /\ SetupTypeOK /\ UpdatesAreOrderly /\ LoadedInOrder /\ OneAtATime
  /\ CopyFollows /\ FileFollows /\ MemoryFollows /\ ManagerFollows /\ PortFollows

-----------------------------------------------------------------------------
Ports == [by : {"nobody", "builtin", "daemon"}, root : Roots \cup {Nothing}]

\* The types of everything but the requests.
RestTyped ==
  /\ server \in {"down", "bind", "start", "reconcile", "serve"}
  /\ memory \in Config \cup {Nothing} /\ saved \in Config \cup {Nothing, Broken}
  /\ manager \in Settings \cup {Nothing} /\ hpa \in Roots \cup {Nothing} /\ port \in Ports
  /\ updates \in 0..MaxUpdates /\ failures \in 0..MaxFailures /\ torn \in BOOLEAN
  /\ parted \in BOOLEAN /\ strayed \in BOOLEAN

LEMMA SetupTypes == SetupTypeOK <=> RestTyped /\ update \in [Admins -> Updates]
  BY DEF SetupTypeOK, RestTyped, Updates, Ports

LEMMA IdleTyped == Idle \in Updates /\ Idle.at = "idle" /\ Idle.tftp = Nothing
  BY DEF Idle, Updates, Stages

LEMMA NothingIsNoSetting == \A s \in Settings : s # Nothing
  BY ServerSetupAssumption

\* What holds of the only request at work, and of what it works at.
FileOk(r, kept, m, apart) ==
  /\ kept \in Config \/ r.at = "write"
  /\ r.at = "write" => kept = Broken
  /\ r.at \in {"open", "write"} => r.copy = m
  /\ (~apart /\ r.at \notin {"copy", "open", "write"}) \/ r.at = "swap" => kept \in Config /\ SameSettings(kept, m)
ManagerOk(r, s, m, apart) ==
  /\ r.at \in Committed /\ r.tftp # Nothing => m.tftp = r.tftp
  /\ ~apart /\ (r.at \in Committed => r.tftp = Nothing) => s = m.tftp
PortOk(r, at, s, apart) ==
  /\ r.at \in {"commit"} \cup Committed /\ r.tftp # Nothing /\ r.tftp.enabled => at.root = r.tftp.root
  /\ ~apart /\ (r.at \in {"commit"} \cup Committed => r.tftp = Nothing) /\ s.enabled => at.root = s.root

LEMMA OnlyRequest ==
  ASSUME SetupIInv, server = "serve", ~torn, NEW a \in Admins, \A b \in Admins : b # a => update[b].at = "idle"
  PROVE  FileOk(update[a], saved, memory, parted) /\ ManagerOk(update[a], manager, memory, parted)
         /\ (~strayed => PortOk(update[a], port, manager, parted))
<1>1. FileOk(update[a], saved, memory, parted)
  BY DEF SetupIInv, CopyFollows, FileFollows, FileOk
<1>2. ManagerOk(update[a], manager, memory, parted)
  BY DEF SetupIInv, MemoryFollows, ManagerFollows, ManagerOk, Committed
<1>3. ASSUME ~strayed PROVE PortOk(update[a], port, manager, parted)
  BY <1>3 DEF SetupIInv, PortFollows, PortOk, Committed
<1>. QED BY <1>1, <1>2, <1>3

\* A request that goes on while the server serves keeps the invariant if it leaves what it works at in order.
LEMMA RequestStep ==
  ASSUME SetupIInv, NEW a \in Admins, NEW r \in Updates, update' = [update EXCEPT ![a] = r],
         server = "serve", server' = "serve", RestTyped', memory' \in Config, manager' \in Settings,
         r.at = "idle" => r = Idle, r.at \in {"reconcile", "commit", "swap"} => r.tftp \in Settings,
         r.at \in {"open", "write"} => r.copy \in Config,
         ~torn' =>
           /\ \A b \in Admins : b # a => update[b].at = "idle"
           /\ FileOk(r, saved', memory', parted') /\ ManagerOk(r, manager', memory', parted') /\ (~strayed' => PortOk(r, port', manager', parted'))
  PROVE  SetupIInv'
<1>1. update \in [Admins -> Updates]
  BY SetupTypes DEF SetupIInv
<1>2. update' \in [Admins -> Updates] /\ update'[a] = r /\ \A b \in Admins : b # a => update'[b] = update[b]
  BY <1>1
<1>3. SetupTypeOK'
  BY <1>2 DEF RestTyped, SetupTypeOK, Updates, Ports
<1>4. UpdatesAreOrderly' /\ LoadedInOrder'
  BY <1>2 DEF SetupIInv, UpdatesAreOrderly, LoadedInOrder
<1>5. OneAtATime'
  BY <1>2 DEF OneAtATime
<1>6. CopyFollows' /\ FileFollows'
  BY <1>2 DEF CopyFollows, FileFollows, FileOk
<1>7. MemoryFollows' /\ ManagerFollows'
  BY <1>2 DEF MemoryFollows, ManagerFollows, ManagerOk, Committed
<1>8. PortFollows'
  BY <1>2 DEF PortFollows, PortOk, Committed
<1>. QED BY <1>3, <1>4, <1>5, <1>6, <1>7, <1>8 DEF SetupIInv

\* So does the server on its way, when no request is there.
LEMMA ServerStep ==
  ASSUME update' \in [Admins -> Updates], \A a \in Admins : update'[a] = Idle, RestTyped',
         server' # "down" => memory' \in Config,
         server' \in {"start", "reconcile", "serve"} => manager' \in Settings,
         server' # "down" /\ ~torn' => saved' \in Config /\ (~parted' => SameSettings(saved', memory')),
         server' \in {"start", "reconcile", "serve"} /\ ~torn' /\ ~parted' => manager' = memory'.tftp,
         server' = "serve" /\ ~torn' /\ ~parted' /\ ~strayed' /\ manager'.enabled => port'.root = manager'.root
  PROVE  SetupIInv'
<1>1. SetupTypeOK'
  BY DEF RestTyped, SetupTypeOK, Updates, Ports
<1>2. \A a \in Admins : update'[a].at = "idle" /\ update'[a].tftp = Nothing
  BY IdleTyped
<1>3. UpdatesAreOrderly' /\ LoadedInOrder' /\ OneAtATime'
  BY <1>2 DEF UpdatesAreOrderly, LoadedInOrder, OneAtATime
<1>4. CopyFollows' /\ FileFollows' /\ MemoryFollows' /\ ManagerFollows' /\ PortFollows'
  BY <1>2 DEF CopyFollows, FileFollows, MemoryFollows, ManagerFollows, PortFollows, Committed
<1>. QED BY <1>1, <1>3, <1>4 DEF SetupIInv

LEMMA NobodyAsks ==
  ASSUME SetupIInv, server # "serve"
  PROVE  \A a \in Admins : update[a] = Idle
<1>. SUFFICES ASSUME NEW a \in Admins PROVE update[a] = Idle
  BY Zenon
<1>1. UpdatesAreOrderly
  BY DEF SetupIInv
<1>2. update[a].at = "idle"
  BY <1>1 DEF UpdatesAreOrderly
<1>. QED BY <1>1, <1>2 DEF UpdatesAreOrderly

-----------------------------------------------------------------------------
(***************************************************************************)
(* The port                                                                *)
(***************************************************************************)
LEMMA FailsTyped == ASSUME SetupTypeOK, Fails PROVE failures' \in 0..MaxFailures
  BY ServerSetupAssumption DEF SetupTypeOK, Fails

\* A builtin server that listens without anything having gone astray hands out its own root.
LEMMA Listening ==
  ASSUME SetupTypeOK, NEW s \in Settings, Listen(s)
  PROVE  /\ port' \in Ports /\ failures' \in 0..MaxFailures /\ strayed' \in BOOLEAN
         /\ ~strayed' => ~strayed /\ (s.provider = "builtin" /\ s.enabled => port'.root = s.root)
         /\ s.provider = "system" => UNCHANGED <<port, strayed>>
<1>1. port \in Ports /\ failures \in 0..MaxFailures /\ strayed \in BOOLEAN /\ s.root \in Roots
  BY DEF SetupTypeOK, Ports, Settings
<1>2. CASE ~(s.provider = "builtin" /\ s.enabled)
  BY <1>1, <1>2 DEF Listen
<1>3. CASE s.provider = "builtin" /\ s.enabled
  <2>1. CASE port' = [by |-> "builtin", root |-> s.root] /\ UNCHANGED <<failures, strayed>>
    BY <1>1, <1>3, <2>1 DEF Ports
  <2>2. CASE strayed' = TRUE /\ UNCHANGED <<port, failures>>
    BY <1>1, <1>3, <2>2
  <2>3. CASE Fails /\ strayed' = TRUE /\ UNCHANGED port
    BY <1>1, <1>3, <2>3, FailsTyped
  <2>. QED BY <1>3, <2>1, <2>2, <2>3 DEF Listen
<1>. QED BY <1>2, <1>3

LEMMA Reconciling ==
  ASSUME SetupTypeOK, NEW s \in Settings, Reconciles(s)
  PROVE  /\ port' \in Ports /\ hpa' \in Roots \cup {Nothing} /\ strayed' \in BOOLEAN
         /\ ~strayed' => port'.root = s.root
<1>1. port \in Ports /\ hpa \in Roots \cup {Nothing} /\ strayed \in BOOLEAN /\ s.root \in Roots
  BY DEF SetupTypeOK, Ports, Settings
<1>2. CASE s.enabled /\ s.manage /\ port.by = "builtin"
  BY <1>1, <1>2 DEF Reconciles, Restarted
<1>3. CASE s.enabled /\ s.manage /\ port.by # "builtin"
  <2>1. hpa' = s.root /\ port' = [by |-> "daemon", root |-> s.root] /\ strayed' = FALSE
    BY <1>3 DEF Reconciles, Restarted
  <2>2. strayed' \in BOOLEAN
    BY <2>1, Zenon
  <2>. QED BY <1>1, <2>1, <2>2 DEF Ports
<1>4. CASE ~(s.enabled /\ s.manage)
  BY <1>1, <1>4 DEF Reconciles, Drifts
<1>. QED BY <1>2, <1>3, <1>4

LEMMA NotReconciling ==
  ASSUME SetupTypeOK, NEW s \in Settings, ReconcileFails(s)
  PROVE  /\ port' \in Ports /\ hpa' \in Roots \cup {Nothing} /\ strayed' \in BOOLEAN /\ failures' \in 0..MaxFailures
         /\ ~strayed' => ~strayed /\ port' = port
<1>1. port \in Ports /\ hpa \in Roots \cup {Nothing} /\ strayed \in BOOLEAN /\ s.root \in Roots /\ Free \in Ports
  BY DEF SetupTypeOK, Ports, Settings, Free
<1>2. failures' \in 0..MaxFailures
  BY FailsTyped DEF ReconcileFails
<1>3. CASE UNCHANGED <<hpa, port, strayed>>
  BY <1>1, <1>2, <1>3
<1>4. CASE hpa' = s.root /\ strayed' = TRUE /\ port' = IF port.by = "daemon" THEN Free ELSE port
  BY <1>1, <1>2, <1>4
<1>. QED BY <1>3, <1>4 DEF ReconcileFails

-----------------------------------------------------------------------------
(***************************************************************************)
(* The server starts and stops                                             *)
(***************************************************************************)
LEMMA DefaultTyped == Default \in Config
<1>1. (CHOOSE l \in Limits : TRUE) \in Limits
  BY ServerSetupAssumption
<1>2. [provider |-> "system", enabled |-> TRUE, manage |-> FALSE, root |-> DefaultRoot] \in Settings
  BY ServerSetupAssumption DEF Settings
<1>. QED BY <1>1, <1>2 DEF Default, Config

\* The settings that are loaded differ from the file in the root of the daemon at most.
LEMMA SyncedIsSame ==
  ASSUME SetupTypeOK, NEW c \in Config
  PROVE  Synced(c) \in Config /\ SameSettings(c, Synced(c)) /\ SameSettings(c, c)
<1>1. DaemonRoot \in Roots
  BY ServerSetupAssumption DEF DaemonRoot, SetupTypeOK
<1>2. c.tftp \in Settings /\ c.limits \in Limits
  BY DEF Config
<1>3. CASE c.tftp.provider = "builtin"
  BY <1>3 DEF Synced, SameSettings
<1>4. CASE c.tftp.provider # "builtin"
  <2>. DEFINE t == c.tftp
              u == [t EXCEPT !.root = DaemonRoot]
  <2>1. u \in Settings /\ u.root = DaemonRoot /\ t.provider = "system"
    BY <1>1, <1>2, <1>4 DEF Settings
  <2>2. Synced(c) = [c EXCEPT !.tftp = u]
    BY <1>4 DEF Synced
  <2>3. [t EXCEPT !.root = u.root] = u
    BY <2>1
  <2>. HIDE DEF t, u
  <2>4. Synced(c) \in Config /\ Synced(c).tftp = u /\ Synced(c).limits = c.limits
    BY <2>1, <2>2 DEF Config
  <2>5. t = c.tftp
    BY DEF t
  <2>. QED BY <2>1, <2>3, <2>4, <2>5 DEF SameSettings
<1>. QED BY <1>3, <1>4

LEMMA LoadKeeps == ASSUME SetupIInv, Load PROVE SetupIInv'
<1>. DEFINE c == IF saved = Nothing THEN Default ELSE saved
<1>1. server = "down" /\ saved # Broken /\ memory' = Synced(c) /\ saved' = (IF saved = Nothing THEN memory' ELSE saved)
      /\ server' = "bind" /\ torn' = FALSE /\ parted' = FALSE /\ UNCHANGED <<manager, hpa, port, update, updates, failures, strayed>>
  BY DEF Load, Loadable, faultVars
<1>2. SetupTypeOK /\ RestTyped /\ update \in [Admins -> Updates]
  BY SetupTypes DEF SetupIInv
<1>3. c \in Config
  BY <1>1, <1>2, DefaultTyped DEF RestTyped
<1>4. memory' \in Config /\ SameSettings(c, memory') /\ SameSettings(memory', memory')
  BY <1>1, <1>2, <1>3, SyncedIsSame
<1>5. saved' \in Config /\ SameSettings(saved', memory')
  BY <1>1, <1>3, <1>4
<1>. HIDE DEF c
<1>6. RestTyped'
  BY <1>1, <1>2, <1>4, <1>5, Zenon DEF RestTyped
<1>. QED BY <1>1, <1>2, <1>4, <1>5, <1>6, NobodyAsks, ServerStep

LEMMA BindsKeeps == ASSUME SetupIInv, Binds PROVE SetupIInv'
<1>1. server = "bind" /\ server' = "start" /\ manager' = memory.tftp
      /\ UNCHANGED <<memory, saved, hpa, port, update, updates, failures, torn, parted, strayed>>
  BY DEF Binds, faultVars, historyVars
<1>2. RestTyped /\ update \in [Admins -> Updates] /\ memory \in Config
  BY <1>1, SetupTypes DEF SetupIInv, LoadedInOrder
<1>3. memory.tftp \in Settings
  BY <1>2 DEF Config
<1>4. RestTyped'
  BY <1>1, <1>2, <1>3 DEF RestTyped
<1>5. \A a \in Admins : update[a] = Idle
  BY <1>1, NobodyAsks
<1>6. ~torn => saved \in Config /\ (~parted => SameSettings(saved, memory))
  BY <1>1, <1>5, IdleTyped DEF SetupIInv, CopyFollows, FileFollows
<1>. QED BY <1>1, <1>2, <1>3, <1>4, <1>5, <1>6, ServerStep

\* The last steps of a start: the port follows the provider, or has strayed.
LEMMA StartsKeep == ASSUME SetupIInv, StartsProvider \/ StartReconciles PROVE SetupIInv'
<1>1. server \in {"start", "reconcile"} /\ UNCHANGED <<memory, saved, manager, update, updates, torn, parted>>
  BY DEF StartsProvider, StartReconciles, faultVars
<1>2. SetupTypeOK /\ RestTyped /\ update \in [Admins -> Updates] /\ memory \in Config /\ manager \in Settings
  BY <1>1, SetupTypes DEF SetupIInv, LoadedInOrder
<1>3. \A a \in Admins : update[a] = Idle
  BY <1>1, NobodyAsks
<1>4. ~torn => saved \in Config /\ (~parted => SameSettings(saved, memory) /\ manager = memory.tftp)
  BY <1>1, <1>3, IdleTyped DEF SetupIInv, CopyFollows, FileFollows, ManagerFollows, Committed
<1>5. /\ port' \in Ports /\ failures' \in 0..MaxFailures /\ strayed' \in BOOLEAN /\ hpa' \in Roots \cup {Nothing}
      /\ server' \in {"serve", "reconcile"} /\ (server' = "serve" /\ ~strayed' /\ manager.enabled => port'.root = manager.root)
  <2>1. CASE manager.provider = "builtin" /\ server' = "serve" /\ Listen(manager) /\ hpa' = hpa
    BY <1>2, <2>1, Listening DEF RestTyped
  <2>2. CASE server' = "reconcile" /\ UNCHANGED <<port, failures, strayed, hpa>>
    BY <1>2, <2>2 DEF RestTyped
  <2>3. CASE server' = "serve" /\ Drifts(manager) /\ UNCHANGED <<port, failures, hpa>>
    BY <1>2, <2>3 DEF RestTyped, Drifts
  <2>4. CASE StartReconciles
    BY <1>2, <2>4, Reconciling DEF RestTyped, StartReconciles, faultVars
  <2>. QED BY <2>1, <2>2, <2>3, <2>4 DEF StartsProvider
<1>6. RestTyped'
  BY <1>1, <1>2, <1>5 DEF RestTyped
<1>. QED BY <1>1, <1>2, <1>3, <1>4, <1>5, <1>6, ServerStep

LEMMA StopsKeep == ASSUME SetupIInv, StartFails \/ Stops PROVE SetupIInv'
<1>1. SetupTypeOK /\ RestTyped /\ update \in [Admins -> Updates]
  BY SetupTypes DEF SetupIInv
<1>2. server' = "down" /\ memory' = Nothing /\ manager' = Nothing /\ UNCHANGED <<saved, updates, torn, parted>>
  BY DEF StartFails, Stops, Quit, historyVars
<1>3. /\ update' \in [Admins -> Updates] /\ \A a \in Admins : update'[a] = Idle
      /\ port' \in Ports /\ hpa' \in Roots \cup {Nothing} /\ failures' \in 0..MaxFailures /\ strayed' \in BOOLEAN
  <2>1. CASE StartFails
    <3>1. manager \in Settings /\ ReconcileFails(manager) /\ update' = update /\ \A a \in Admins : update[a] = Idle
      BY <2>1, NobodyAsks DEF StartFails, SetupIInv, LoadedInOrder
    <3>. QED BY <1>1, <3>1, NotReconciling
  <2>2. CASE Stops
    <3>1. update' = [a \in Admins |-> Idle] /\ Fails /\ UNCHANGED <<hpa, strayed>>
          /\ port' = IF port.by = "builtin" THEN Free ELSE port
      BY <2>2 DEF Stops, Quit, Interrupted, historyVars
    <3>2. Free \in Ports
      BY DEF Free, Ports
    <3>. QED BY <1>1, <3>1, <3>2, IdleTyped, FailsTyped DEF RestTyped
  <2>. QED BY <2>1, <2>2
<1>4. RestTyped'
  BY <1>1, <1>2, <1>3 DEF RestTyped
<1>. QED BY <1>2, <1>3, <1>4, ServerStep

-----------------------------------------------------------------------------
(***************************************************************************)
(* The requests of the admin                                               *)
(***************************************************************************)
\* What a request that is there may rely on.
LEMMA AtWork ==
  ASSUME SetupIInv, NEW a \in Admins, update[a].at # "idle"
  PROVE  /\ SetupTypeOK /\ RestTyped /\ update[a] \in Updates /\ server = "serve" /\ memory \in Config /\ manager \in Settings
         /\ ~torn => /\ \A b \in Admins : b # a => update[b].at = "idle"
                     /\ FileOk(update[a], saved, memory, parted) /\ ManagerOk(update[a], manager, memory, parted)
                     /\ (~strayed => PortOk(update[a], port, manager, parted))
<1>1. SetupTypeOK /\ RestTyped /\ update[a] \in Updates
  BY SetupTypes DEF SetupIInv
<1>2. server = "serve" /\ memory \in Config /\ manager \in Settings
  BY DEF SetupIInv, UpdatesAreOrderly, LoadedInOrder
<1>3. ~torn => \A b \in Admins : b # a => update[b].at = "idle"
  BY DEF SetupIInv, OneAtATime
<1>. QED BY <1>1, <1>2, <1>3, OnlyRequest

\* And one that comes.
LEMMA AtBeginning ==
  ASSUME SetupIInv, NEW a \in Admins, Begins(a)
  PROVE  /\ SetupTypeOK /\ RestTyped /\ update[a] = Idle /\ server = "serve" /\ memory \in Config /\ manager \in Settings
         /\ updates' \in 0..MaxUpdates /\ torn' \in BOOLEAN /\ parted' = parted
         /\ ~torn' => /\ \A b \in Admins : b # a => update[b].at = "idle"
                      /\ saved \in Config /\ (~parted => SameSettings(saved, memory) /\ manager = memory.tftp)
                      /\ (~parted /\ ~strayed /\ manager.enabled => port.root = manager.root)
<1>1. SetupTypeOK /\ RestTyped
  BY SetupTypes DEF SetupIInv
<1>2. server = "serve" /\ update[a].at = "idle" /\ updates < MaxUpdates /\ updates' = updates + 1 /\ torn' = (torn \/ Busy(a))
      /\ parted' = parted
  BY DEF Begins
<1>3. update[a] = Idle
  <2>1. UpdatesAreOrderly
    BY DEF SetupIInv
  <2>. QED BY <1>2, <2>1 DEF UpdatesAreOrderly
<1>4. memory \in Config /\ manager \in Settings
  BY <1>2 DEF SetupIInv, LoadedInOrder
<1>5. updates' \in 0..MaxUpdates /\ torn' \in BOOLEAN
  BY <1>1, <1>2, ServerSetupAssumption DEF RestTyped, Busy
<1>6. ASSUME ~torn'
      PROVE  /\ \A b \in Admins : b # a => update[b].at = "idle"
             /\ saved \in Config /\ (~parted => SameSettings(saved, memory) /\ manager = memory.tftp)
             /\ (~parted /\ ~strayed /\ manager.enabled => port.root = manager.root)
  <2>1. ~torn /\ \A b \in Admins : b # a => update[b].at = "idle"
    BY <1>2, <1>6 DEF Busy
  <2>2. FileOk(Idle, saved, memory, parted) /\ ManagerOk(Idle, manager, memory, parted) /\ (~strayed => PortOk(Idle, port, manager, parted))
    BY <1>2, <1>3, <2>1, OnlyRequest
  <2>. QED BY <2>1, <2>2, IdleTyped DEF FileOk, ManagerOk, PortOk, Committed
<1>. QED BY <1>1, <1>2, <1>3, <1>4, <1>5, <1>6

LEMMA UpdateTftpKeeps == ASSUME SetupIInv, NEW a \in Admins, NEW s \in Proposals, UpdateTftp(a, s) PROVE SetupIInv'
<1>. DEFINE r == [at |-> IF s.provider = "system" THEN "reconcile" ELSE "commit", tftp |-> s, copy |-> Nothing]
<1>1. Begins(a) /\ Listen(s) /\ update' = [update EXCEPT ![a] = r] /\ UNCHANGED <<server, memory, saved, manager, hpa>>
  BY DEF UpdateTftp
<1>2. s \in Settings /\ s # Nothing /\ s.provider \in {"builtin", "system"}
  <2>1. s \in Settings
    BY ServerSetupAssumption
  <2>2. s.provider \in {"builtin", "system"}
    BY <2>1 DEF Settings
  <2>. QED BY <2>1, <2>2, NothingIsNoSetting
<1>3. r \in Updates /\ r.tftp = s /\ r.at = (IF s.provider = "system" THEN "reconcile" ELSE "commit")
  BY <1>2 DEF Updates, Stages
<1>. HIDE DEF r
<1>4. RestTyped'
  BY <1>1, <1>2, AtBeginning, Listening DEF RestTyped
<1>5. ASSUME ~torn', ~strayed' PROVE PortOk(r, port', manager', parted')
  <2>1. ~strayed /\ (s.provider = "builtin" /\ s.enabled => port'.root = s.root) /\ (s.provider = "system" => port' = port)
    BY <1>1, <1>2, <1>5, AtBeginning, Listening
  <2>. QED BY <1>1, <1>2, <1>3, <1>5, <2>1, AtBeginning DEF PortOk, Committed
<1>6. ~torn' => FileOk(r, saved', memory', parted') /\ ManagerOk(r, manager', memory', parted')
  BY <1>1, <1>2, <1>3, AtBeginning DEF FileOk, ManagerOk, Committed
<1>. QED BY <1>1, <1>2, <1>3, <1>4, <1>5, <1>6, AtBeginning, RequestStep

LEMMA UpdateServerKeeps == ASSUME SetupIInv, NEW a \in Admins, NEW l \in Limits, UpdateServer(a, l) PROVE SetupIInv'
<1>. DEFINE r == [update[a] EXCEPT !.at = "copy"]
<1>1. Begins(a) /\ memory' = [memory EXCEPT !.limits = l] /\ update' = [update EXCEPT ![a] = r]
      /\ UNCHANGED <<server, saved, manager, hpa, port, failures, strayed>>
  BY DEF UpdateServer, Move
<1>2. r \in Updates /\ r.tftp = Nothing /\ r.at = "copy"
  BY <1>1, AtBeginning, IdleTyped DEF Idle, Updates, Stages
<1>. HIDE DEF r
<1>3. memory' \in Config /\ memory'.tftp = memory.tftp
  BY <1>1, AtBeginning DEF Config
<1>4. RestTyped'
  BY <1>1, <1>3, AtBeginning DEF RestTyped
<1>5. ~torn' => FileOk(r, saved', memory', parted') /\ ManagerOk(r, manager', memory', parted') /\ (~strayed' => PortOk(r, port', manager', parted'))
  BY <1>1, <1>2, <1>3, AtBeginning DEF FileOk, ManagerOk, PortOk, Committed
<1>. QED BY <1>1, <1>2, <1>3, <1>4, <1>5, AtBeginning, RequestStep

LEMMA AdminReconcilesKeeps == ASSUME SetupIInv, NEW a \in Admins, AdminReconciles(a) PROVE SetupIInv'
<1>1. Begins(a) /\ UNCHANGED <<server, memory, saved, manager, update>>
  BY DEF AdminReconciles
<1>2. manager \in Settings /\ SetupTypeOK /\ RestTyped /\ update \in [Admins -> Updates]
  BY <1>1, AtBeginning, SetupTypes
<1>3. /\ port' \in Ports /\ hpa' \in Roots \cup {Nothing} /\ strayed' \in BOOLEAN /\ failures' \in 0..MaxFailures
      /\ ~strayed' => port'.root = manager.root \/ (~strayed /\ port' = port)
  <2>1. CASE Reconciles(manager) /\ UNCHANGED failures
    BY <1>2, <2>1, Reconciling DEF RestTyped
  <2>2. CASE ReconcileFails(manager)
    BY <1>2, <2>2, NotReconciling
  <2>3. CASE UNCHANGED <<hpa, port, failures, strayed>>
    BY <1>2, <2>3 DEF RestTyped
  <2>. QED BY <2>1, <2>2, <2>3 DEF AdminReconciles
<1>4. RestTyped'
  BY <1>1, <1>2, <1>3, AtBeginning DEF RestTyped
<1>5. update' = [update EXCEPT ![a] = Idle]
  BY <1>1, <1>2, AtBeginning
<1>6. ~torn' => FileOk(Idle, saved', memory', parted') /\ ManagerOk(Idle, manager', memory', parted') /\ (~strayed' => PortOk(Idle, port', manager', parted'))
  BY <1>1, <1>3, AtBeginning, IdleTyped DEF FileOk, ManagerOk, PortOk, Committed
<1>. QED BY <1>1, <1>4, <1>5, <1>6, AtBeginning, IdleTyped, RequestStep

\* A reconciliation that succeeds puts the port where the settings asked for want it, one that fails changes nothing.
LEMMA UpdateReconciled ==
  ASSUME SetupIInv, NEW a \in Admins, UpdateReconciles(a) \/ UpdateFails(a) PROVE SetupIInv'
<1>1. update[a].at = "reconcile" /\ UNCHANGED <<server, memory, saved, manager, updates, torn, parted>>
  BY DEF UpdateReconciles, UpdateFails, faultVars
<1>2. update[a].tftp \in Settings /\ SetupTypeOK /\ RestTyped /\ update[a] \in Updates
  BY <1>1, AtWork DEF SetupIInv, UpdatesAreOrderly
<1>3. CASE UpdateReconciles(a)
  <2>. DEFINE r == [update[a] EXCEPT !.at = "commit"]
  <2>1. r \in Updates /\ r.at = "commit" /\ r.tftp = update[a].tftp
    BY <1>2 DEF Updates, Stages
  <2>2. update' = [update EXCEPT ![a] = r] /\ Reconciles(update[a].tftp) /\ failures' = failures
    BY <1>3 DEF UpdateReconciles, Move, faultVars
  <2>. HIDE DEF r
  <2>3. RestTyped' /\ (~strayed' => port'.root = r.tftp.root)
    BY <1>1, <1>2, <2>1, <2>2, Reconciling DEF RestTyped
  <2>4. ~torn' => FileOk(r, saved', memory', parted') /\ ManagerOk(r, manager', memory', parted') /\ (~strayed' => PortOk(r, port', manager', parted'))
    <3>1. r.tftp # Nothing
      BY <1>2, <2>1, NothingIsNoSetting
    <3>. QED BY <1>1, <2>1, <2>3, <3>1, AtWork DEF FileOk, ManagerOk, PortOk, Committed
  <2>. QED BY <1>1, <1>2, <2>1, <2>2, <2>3, <2>4, AtWork, RequestStep
<1>4. CASE UpdateFails(a)
  <2>1. update' = [update EXCEPT ![a] = Idle] /\ ReconcileFails(update[a].tftp)
    BY <1>4 DEF UpdateFails, Answer
  <2>2. RestTyped' /\ (~strayed' => ~strayed /\ port' = port)
    BY <1>1, <1>2, <2>1, NotReconciling DEF RestTyped
  <2>3. ~torn' => FileOk(Idle, saved', memory', parted') /\ ManagerOk(Idle, manager', memory', parted') /\ (~strayed' => PortOk(Idle, port', manager', parted'))
    BY <1>1, <2>2, AtWork, IdleTyped DEF FileOk, ManagerOk, PortOk, Committed
  <2>. QED BY <1>1, <2>1, <2>2, <2>3, AtWork, IdleTyped, RequestStep
<1>. QED BY <1>3, <1>4

LEMMA CommitsKeeps == ASSUME SetupIInv, NEW a \in Admins, Commits(a) PROVE SetupIInv'
<1>. DEFINE r == [update[a] EXCEPT !.at = "copy"]
<1>1. update[a].at = "commit" /\ memory' = [memory EXCEPT !.tftp = update[a].tftp] /\ update' = [update EXCEPT ![a] = r]
      /\ UNCHANGED <<server, saved, manager, hpa, port, updates, failures, torn, parted, strayed>>
  BY DEF Commits, Move, faultVars, historyVars
<1>2. update[a].tftp \in Settings /\ update[a] \in Updates /\ update[a].tftp # Nothing
  BY <1>1, AtWork, NothingIsNoSetting DEF SetupIInv, UpdatesAreOrderly
<1>3. r \in Updates /\ r.at = "copy" /\ r.tftp = update[a].tftp
  BY <1>2 DEF Updates, Stages
<1>. HIDE DEF r
<1>4. memory' \in Config /\ memory'.tftp = r.tftp
  BY <1>1, <1>2, <1>3, AtWork DEF Config
<1>5. RestTyped'
  BY <1>1, <1>4, AtWork DEF RestTyped
<1>6. ~torn' => FileOk(r, saved', memory', parted') /\ ManagerOk(r, manager', memory', parted') /\ (~strayed' => PortOk(r, port', manager', parted'))
  BY <1>1, <1>2, <1>3, <1>4, AtWork DEF FileOk, ManagerOk, PortOk, Committed
<1>. QED BY <1>1, <1>3, <1>4, <1>5, <1>6, AtWork, RequestStep

\* The save: what is copied is what is in memory, as long as nobody else is at work.
LEMMA CopiesKeeps == ASSUME SetupIInv, NEW a \in Admins, Copies(a) \/ Truncates(a) PROVE SetupIInv'
<1>. DEFINE r == IF Copies(a) THEN [update[a] EXCEPT !.at = "open", !.copy = memory] ELSE [update[a] EXCEPT !.at = "write"]
<1>1. update[a].at \in {"copy", "open"} /\ update' = [update EXCEPT ![a] = r]
      /\ UNCHANGED <<server, memory, manager, hpa, port, updates, failures, torn, parted, strayed>>
      /\ (Copies(a) => update[a].at = "copy" /\ saved' = saved) /\ (~Copies(a) => update[a].at = "open" /\ saved' = Broken)
  BY DEF Copies, Truncates, Move, faultVars, historyVars
<1>2. update[a] \in Updates /\ memory \in Config
  BY <1>1, AtWork
<1>3. r \in Updates /\ r.tftp = update[a].tftp /\ r.at = (IF Copies(a) THEN "open" ELSE "write")
      /\ r.copy = (IF Copies(a) THEN memory ELSE update[a].copy)
  BY <1>2 DEF Updates, Stages
<1>6. r.copy \in Config
  BY <1>1, <1>2, <1>3 DEF SetupIInv, UpdatesAreOrderly
<1>. HIDE DEF r
<1>4. RestTyped'
  BY <1>1, AtWork DEF RestTyped
<1>5. ~torn' => FileOk(r, saved', memory', parted') /\ ManagerOk(r, manager', memory', parted') /\ (~strayed' => PortOk(r, port', manager', parted'))
  BY <1>1, <1>3, AtWork DEF FileOk, ManagerOk, PortOk, Committed
<1>. QED BY <1>1, <1>2, <1>3, <1>4, <1>5, <1>6, AtWork, RequestStep

LEMMA WritesKeeps == ASSUME SetupIInv, NEW a \in Admins, Writes(a) PROVE SetupIInv'
<1>. DEFINE r == IF update[a].tftp = Nothing THEN Idle ELSE [update[a] EXCEPT !.at = "swap"]
<1>1. update[a].at = "write" /\ saved' \in FileAfter(a) /\ update' = [update EXCEPT ![a] = r]
      /\ UNCHANGED <<server, memory, manager, hpa, port, updates, failures, torn, parted, strayed>>
  BY DEF Writes, Move, Answer, faultVars, historyVars
<1>2. update[a] \in Updates /\ SetupTypeOK /\ memory \in Config
  BY <1>1, AtWork
<1>3. r \in Updates /\ r.tftp = update[a].tftp /\ r.at = (IF update[a].tftp = Nothing THEN "idle" ELSE "swap")
      /\ (r.at = "idle" => r = Idle)
  BY <1>2, IdleTyped DEF Updates, Stages
<1>4. (r.at = "swap" => r.tftp \in Settings) /\ saved' \in Config \cup {Nothing, Broken}
  BY <1>1, <1>2, <1>3 DEF Updates, FileAfter
<1>. HIDE DEF r
<1>5. RestTyped'
  BY <1>1, <1>4, AtWork DEF RestTyped
<1>6. ASSUME ~torn'
      PROVE  FileOk(r, saved', memory', parted') /\ ManagerOk(r, manager', memory', parted') /\ (~strayed' => PortOk(r, port', manager', parted'))
  <2>1. saved = Broken
    BY <1>1, <1>6, AtWork DEF FileOk
  <2>2. saved' = memory /\ SameSettings(memory, memory)
    BY <1>1, <1>2, <1>6, <2>1, AtWork, SyncedIsSame DEF FileOk, FileAfter
  <2>. QED BY <1>1, <1>2, <1>3, <1>6, <2>2, AtWork DEF FileOk, ManagerOk, PortOk, Committed
<1>. QED BY <1>1, <1>3, <1>4, <1>5, <1>6, AtWork, RequestStep

LEMMA AnswersKeep == ASSUME SetupIInv, NEW a \in Admins, SaveFails(a) \/ Swaps(a) PROVE SetupIInv'
<1>1. update[a].at \in {"open", "write", "swap"} /\ update' = [update EXCEPT ![a] = Idle]
      /\ UNCHANGED <<server, memory, saved, hpa, port, updates, strayed>>
  BY DEF SaveFails, Swaps, Answer, faultVars
<1>2. CASE SaveFails(a)
  <2>1. torn' = TRUE /\ parted' = parted /\ manager' = manager /\ failures' \in 0..MaxFailures
    BY <1>1, <1>2, AtWork, FailsTyped DEF SaveFails
  <2>2. torn' \in BOOLEAN
    BY <2>1, Zenon
  <2>3. RestTyped'
    BY <1>1, <2>1, <2>2, AtWork DEF RestTyped
  <2>. QED BY <1>1, <2>1, <2>3, AtWork, IdleTyped, RequestStep
<1>3. CASE Swaps(a)
  <2>1. update[a].at = "swap" /\ manager' = update[a].tftp /\ UNCHANGED <<failures, torn>> /\ parted' = FALSE
    BY <1>3 DEF Swaps, faultVars
  <2>2. update[a].tftp \in Settings /\ update[a].tftp # Nothing
    BY <2>1, NothingIsNoSetting DEF SetupIInv, UpdatesAreOrderly
  <2>3. parted' \in BOOLEAN
    BY <2>1, Zenon
  <2>4. RestTyped'
    BY <1>1, <2>1, <2>2, <2>3, AtWork DEF RestTyped
  <2>5. ASSUME ~torn'
        PROVE  /\ FileOk(Idle, saved', memory', parted') /\ ManagerOk(Idle, manager', memory', parted')
               /\ (~strayed' => PortOk(Idle, port', manager', parted'))
    <3>1. ~torn /\ Idle.at = "idle" /\ Idle.tftp = Nothing
      BY <2>1, <2>5, IdleTyped
    <3>2. /\ FileOk(update[a], saved, memory, parted) /\ ManagerOk(update[a], manager, memory, parted)
          /\ (~strayed => PortOk(update[a], port, manager, parted))
      BY <2>1, <3>1, AtWork
    <3>. QED BY <1>1, <2>1, <2>2, <3>1, <3>2 DEF FileOk, ManagerOk, PortOk, Committed
  <2>. QED BY <1>1, <2>1, <2>2, <2>4, <2>5, AtWork, IdleTyped, RequestStep
<1>. QED BY <1>2, <1>3

\* A request that is dropped parts what it has changed from what it has not, and no more.
LEMMA LeavesKeep == ASSUME SetupIInv, NEW a \in Admins, ClientLeaves(a) PROVE SetupIInv'
<1>. DEFINE r == IF update[a].at \in {"open", "write"} THEN [update[a] EXCEPT !.tftp = Nothing] ELSE Idle
<1>1. update[a].at # "idle" /\ update' = [update EXCEPT ![a] = r] /\ Fails /\ parted' = TRUE
      /\ UNCHANGED <<server, memory, saved, manager, hpa, port, updates, torn, strayed>>
  BY DEF ClientLeaves, Answer
<1>2. update[a] \in Updates /\ SetupTypeOK /\ update[a].at \in Committed \cup {"commit"}
  BY <1>1, AtWork DEF ClientLeaves, Committed
<1>3. r \in Updates /\ r.tftp = Nothing /\ (r.at = "idle" => r = Idle)
      /\ (r.at # "idle" => r.at \in {"open", "write"} /\ r.at = update[a].at /\ r.copy = update[a].copy)
      /\ (r.at = "idle" => update[a].at \notin {"open", "write"})
  BY <1>2, IdleTyped DEF Updates, Stages
<1>. HIDE DEF r
<1>4. r.at \in {"open", "write"} => r.copy \in Config
  BY <1>1, <1>3 DEF SetupIInv, UpdatesAreOrderly
<1>5. failures' \in 0..MaxFailures /\ parted' \in BOOLEAN
  BY <1>1, <1>2, FailsTyped, Zenon
<1>6. RestTyped'
  BY <1>1, <1>5, AtWork DEF RestTyped
<1>7. ASSUME ~torn'
      PROVE  /\ FileOk(r, saved', memory', parted') /\ ManagerOk(r, manager', memory', parted')
             /\ (~strayed' => PortOk(r, port', manager', parted'))
  BY <1>1, <1>2, <1>3, <1>7, AtWork DEF FileOk, ManagerOk, PortOk
<1>. QED BY <1>1, <1>3, <1>4, <1>6, <1>7, AtWork, RequestStep

-----------------------------------------------------------------------------
LEMMA SetupInitHolds == SetupInit => SetupIInv
<1>. SUFFICES ASSUME SetupInit PROVE SetupIInv
  OBVIOUS
<1>1. update \in [Admins -> Updates] /\ \A a \in Admins : update[a] = Idle
  BY IdleTyped DEF SetupInit
<1>2. port \in Ports /\ hpa \in Roots \cup {Nothing}
  BY ServerSetupAssumption DEF SetupInit, Free, Ports
<1>3. torn \in BOOLEAN /\ parted \in BOOLEAN /\ strayed \in BOOLEAN
  BY Zenon DEF SetupInit
<1>4. server = "down" /\ memory = Nothing /\ saved = Nothing /\ manager = Nothing /\ updates \in 0..MaxUpdates
      /\ failures \in 0..MaxFailures
  BY ServerSetupAssumption DEF SetupInit
<1>5. SetupTypeOK
  BY <1>1, <1>2, <1>3, <1>4 DEF SetupTypeOK, Updates, Ports
<1>6. UpdatesAreOrderly /\ LoadedInOrder /\ OneAtATime /\ CopyFollows /\ FileFollows /\ MemoryFollows /\ ManagerFollows /\ PortFollows
  BY <1>1, <1>4, IdleTyped
  DEF UpdatesAreOrderly, LoadedInOrder, OneAtATime, CopyFollows, FileFollows, MemoryFollows, ManagerFollows, PortFollows
<1>. QED BY <1>5, <1>6 DEF SetupIInv

LEMMA SetupNextKeeps == ASSUME SetupIInv, [SetupNext]_setupVars PROVE SetupIInv'
<1>1. CASE UNCHANGED setupVars
  BY <1>1 DEF setupVars, SetupIInv, SetupTypeOK, UpdatesAreOrderly, LoadedInOrder, OneAtATime, CopyFollows, FileFollows, MemoryFollows, ManagerFollows, PortFollows
<1>. QED BY <1>1, LoadKeeps, BindsKeeps, StartsKeep, StopsKeep, UpdateTftpKeeps, UpdateServerKeeps, AdminReconcilesKeeps, UpdateReconciled,
            CommitsKeeps, CopiesKeeps, WritesKeeps, AnswersKeep, LeavesKeep DEF SetupNext

\* For any settings, requests, failures and clients that leave: what was answered is in force and survives a restart,
\* until a save fails, requests overlap or one is dropped half done, which the next update of TFTP made alone mends;
\* the file is whole but in the middle of a write, and the port hands out the root of the provider unless it has strayed.
THEOREM SettingsAreSound == SetupSpec => []SetupInv
<1>1. SetupSpec => []SetupIInv
  BY SetupInitHolds, SetupNextKeeps, PTL DEF SetupSpec
<1>2. ASSUME SetupIInv PROVE SetupInv
  <2>1. SettingsAgree
    BY <1>2 DEF SetupIInv, FileFollows, ManagerFollows, SettingsAgree, Quiet, Committed
  <2>2. FileIsWhole
    BY <1>2, ServerSetupAssumption DEF SetupIInv, CopyFollows, FileIsWhole
  <2>3. FilesAreServed
    BY <1>2 DEF SetupIInv, PortFollows, FilesAreServed, Quiet, Committed
  <2>. QED BY <1>2, <2>1, <2>2, <2>3 DEF SetupIInv, SetupInv
<1>. QED BY <1>1, <1>2, PTL
=============================================================================
